------------------------------ MODULE MinCostFlow ------------------------------
(***************************************************************************)
(* The flow solver of the integer parametrization                          *)
(* (src/src/quadrangulate/src/min_cost_flow.hpp): successive shortest      *)
(* paths, each found with a queue of nodes to look at again (SPFA) over    *)
(* arcs and the reverse arcs that take flow back.                          *)
(*                                                                         *)
(* Abstracted: edge 2k and its reverse 2k + 1 are derived from arc k + 1   *)
(* of the network.                                                         *)
(***************************************************************************)
EXTENDS Sums, FiniteSetsExt

CONSTANTS
    Nodes,          \* 0 .. Nodes - 1: the source is the first, the sink the last
    Networks,       \* sequences of arcs [from, to, cap, cost]
    kInf            \* more than a path may cost

FlowAssumption ==
    /\ Nodes \in Nat /\ Nodes >= 2 /\ kInf \in Nat
    /\ \A network \in Networks :
        /\ network \in Seq([from : 0 .. Nodes - 1, to : 0 .. Nodes - 1, cap : Nat, cost : Nat])
        /\ SumOf([k \in 1 .. Len(network) |-> network[k].cost]) < kInf

VARIABLES
    arcs,           \* the network
    flow,           \* of each edge
    dist, prevEdge, queue, inQueue,     \* of the search that runs
    visiting,       \* the edges of the node taken from the queue, or Idle
    totalFlow, totalCost,
    solved

search == <<dist, prevEdge, queue, inQueue, visiting>>
vars == <<arcs, flow, search, totalFlow, totalCost, solved>>

-----------------------------------------------------------------------------
(* The network *)

Node == 0 .. Nodes - 1
source == 0
sink == Nodes - 1

EdgesOf(network) == 0 .. 2 * Len(network) - 1
Edge == EdgesOf(arcs)
Twin(id) == IF id % 2 = 0 THEN id + 1 ELSE id - 1
Arc(id) == arcs[id \div 2 + 1]
To(id) == IF id % 2 = 0 THEN Arc(id).to ELSE Arc(id).from
cap(id) == IF id % 2 = 0 THEN Arc(id).cap ELSE 0
cost(id) == IF id % 2 = 0 THEN Arc(id).cost ELSE -Arc(id).cost

\* Mutant: what was pushed along the arc cannot be taken back.
ResidualForward(id) == IF id % 2 = 0 THEN cap(id) - flow[id] ELSE 0

Residual(id) == cap(id) - flow[id]

\* The edges that leave u, in the order they were added.
adj(u) ==
    LET leaving == Ascending({k \in 1 .. 2 * Len(arcs) : To(Twin(k - 1)) = u}, 2 * Len(arcs))
    IN  [i \in 1 .. Len(leaving) |-> leaving[i] - 1]

-----------------------------------------------------------------------------
(* solve *)

Idle == <<-1>>
None == -1

Fresh ==
    /\ dist' = [v \in Node |-> IF v = source THEN 0 ELSE kInf]
    /\ prevEdge' = [v \in Node |-> None]
    /\ queue' = <<source>> /\ inQueue' = {source} /\ visiting' = Idle

Init ==
    /\ arcs \in Networks /\ flow = [id \in EdgesOf(arcs) |-> 0]
    /\ dist = [v \in Node |-> IF v = source THEN 0 ELSE kInf]
    /\ prevEdge = [v \in Node |-> None]
    /\ queue = <<source>> /\ inQueue = {source} /\ visiting = Idle
    /\ totalFlow = 0 /\ totalCost = 0 /\ solved = FALSE

\* Mutant: a node is looked at once in a search.
LeavesStays(u) == inQueue

Leaves(u) == inQueue \ {u}

Visit ==
    /\ ~solved /\ visiting = Idle /\ queue # <<>>
    /\ queue' = Tail(queue) /\ inQueue' = Leaves(Head(queue))
    /\ visiting' = adj(Head(queue))
    /\ UNCHANGED <<arcs, flow, dist, prevEdge, totalFlow, totalCost, solved>>

Relax ==
    /\ visiting \notin {Idle, <<>>}
    /\ LET id == Head(visiting)
           v == To(id)
           nd == dist[To(Twin(id))] + cost(id)
           shorter == Residual(id) > 0 /\ dist[To(Twin(id))] # kInf /\ nd < dist[v]
           enters == shorter /\ v \notin inQueue
       IN  /\ dist' = IF shorter THEN [dist EXCEPT ![v] = nd] ELSE dist
           /\ prevEdge' = IF shorter THEN [prevEdge EXCEPT ![v] = id] ELSE prevEdge
           /\ queue' = IF enters THEN Append(queue, v) ELSE queue
           /\ inQueue' = IF enters THEN inQueue \cup {v} ELSE inQueue
    /\ visiting' = Tail(visiting)
    /\ UNCHANGED <<arcs, flow, totalFlow, totalCost, solved>>

Visited ==
    /\ visiting = <<>> /\ visiting' = Idle
    /\ UNCHANGED <<arcs, flow, dist, prevEdge, queue, inQueue, totalFlow, totalCost, solved>>

Searched == ~solved /\ visiting = Idle /\ queue = <<>>

\* The edges by which v was reached.
PathTo[v \in Node] ==
    IF v = source \/ prevEdge[v] = None THEN {}
    ELSE {prevEdge[v]} \cup PathTo[To(Twin(prevEdge[v]))]

\* Mutant: the first edge decides.
BottleneckAtSink(path) == Residual(prevEdge[sink])

Bottleneck(path) == Min({Residual(id) : id \in path} \cup {kInf})

Augment ==
    /\ Searched /\ dist[sink] # kInf
    /\ \E path \in {PathTo[sink]} : \E push \in {Bottleneck(path)} :
        /\ flow' = [id \in Edge |-> flow[id] + (IF id \in path THEN push
                                                ELSE IF Twin(id) \in path THEN -push ELSE 0)]
        /\ totalFlow' = totalFlow + push
        /\ totalCost' = totalCost + push * dist[sink]
    /\ Fresh
    /\ UNCHANGED <<arcs, solved>>

NoPath ==
    /\ Searched /\ dist[sink] = kInf
    /\ solved' = TRUE
    /\ UNCHANGED <<arcs, flow, search, totalFlow, totalCost>>

Next == Visit \/ Relax \/ Visited \/ Augment \/ NoPath

Spec == Init /\ [][Next]_vars /\ WF_vars(Next)

-----------------------------------------------------------------------------
(* Properties *)

TypeOK ==
    /\ flow \in [Edge -> Int] /\ dist \in [Node -> Int]
    /\ prevEdge \in [Node -> Edge \cup {None}]
    /\ queue \in Seq(Node) /\ inQueue \subseteq Node
    /\ totalFlow \in Nat /\ totalCost \in Int /\ solved \in BOOLEAN

\* The reference: every way to send flow through the network.
NetOut(f, u) ==
    SumOf([k \in 1 .. Len(arcs) |-> (IF arcs[k].from = u THEN f[k] ELSE 0)
                                        - (IF arcs[k].to = u THEN f[k] ELSE 0)])
CostOf(f) == SumOf([k \in 1 .. Len(arcs) |-> f[k] * arcs[k].cost])
Flows ==
    {f \in [1 .. Len(arcs) -> UNION {0 .. arcs[k].cap : k \in 1 .. Len(arcs)}] :
        /\ \A k \in 1 .. Len(arcs) : f[k] <= arcs[k].cap
        /\ \A u \in Node \ {source, sink} : NetOut(f, u) = 0}
Pushed == [k \in 1 .. Len(arcs) |-> flow[2 * (k - 1)]]

\* What solve() has pushed so far is a flow of the amount and the cost it says,
\* and at each augmentation the cheapest of that amount: taking flow back along
\* an arc is counted right.
CheapestSoFar ==
    queue = <<source>> /\ visiting = Idle /\ totalFlow > 0 =>
        /\ Pushed \in Flows
        /\ NetOut(Pushed, source) = totalFlow /\ CostOf(Pushed) = totalCost
        /\ \A f \in Flows : NetOut(f, source) = totalFlow => CostOf(f) >= totalCost

\* When it returns, no flow is larger, so that demand reported as unmet is.
MostWhenSolved ==
    solved => \A f \in Flows : NetOut(f, source) <= totalFlow

\* A search ends with the shortest distances, whichever order the nodes were in.
DistancesFinal ==
    Searched => \A id \in Edge :
        Residual(id) > 0 /\ dist[To(Twin(id))] # kInf =>
            dist[To(id)] <= dist[To(Twin(id))] + cost(id)

FlowOptimal == TypeOK /\ CheapestSoFar /\ MostWhenSolved /\ DistancesFinal
=============================================================================
