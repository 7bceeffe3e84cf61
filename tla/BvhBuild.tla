-------------------------------- MODULE BvhBuild --------------------------------
(***************************************************************************)
(* The parallel construction of a Bvh (src/src/core/src/bvh.cpp): the top  *)
(* levels breadth-first, the nodes of a level split concurrently; then the *)
(* subtrees below, taken from a shared counter by workers that build each  *)
(* in a node array of its own; then these are folded in, in task order.    *)
(*                                                                         *)
(* Abstracted: where a range is split is any inner point of it.  Geometry, *)
(* and the permutation of the references within a range, are left out.     *)
(* Which workers have a thread is the scheduler's choice (ParallelPass).   *)
(***************************************************************************)
EXTENDS SequencesExt, Integers, FiniteSets

CONSTANTS
    Refs,                   \* how many triangles
    Worker,
    LeafSize, MaxDepth,     \* kLeafSize and kMaxDepth
    PollSpan, TaskDepth     \* kCancelPollSpan and kTaskDepth

BuildAssumption ==
    /\ Refs \in Nat \ {0} /\ LeafSize \in Nat \ {0} /\ Worker # {}
    /\ PollSpan \in Nat /\ TaskDepth \in Nat /\ MaxDepth \in Nat

VARIABLES
    phase,
    nodes, tasks, depth,         \* m_nodes, builder.tasks, and the level
    splits,                      \* per task of the level: where it was split
    nextTask, working, stack,    \* per worker: its task, and the nodes it has still to split
    subtrees, folded,            \* per task: its private array; and how many are folded
    token, aborted,              \* the caller's token, and the builder's flag
    splitAt                      \* history: per range that was split, where

buildVars == <<nodes, tasks, depth, splits>>
workVars == <<nextTask, working, stack, subtrees>>
vars == <<phase, buildVars, workVars, folded, token, aborted, splitAt>>

Placeholder == [left |-> 0, from |-> 0, to |-> 0]
Leaf(r) == [left |-> 0, from |-> r.from, to |-> r.to]
Inner(left) == [left |-> left, from |-> 0, to |-> 0]
Range0 == [from |-> 0, to |-> Refs]
Nothing == [k \in {} |-> 0]

Init ==
    /\ phase = "level"
    /\ nodes = <<Placeholder>> /\ depth = 0 /\ splits = Nothing
    /\ tasks = <<[node |-> 1, from |-> 0, to |-> Refs, depth |-> 0]>>
    /\ nextTask = 1 /\ working = [w \in Worker |-> 0] /\ stack = [w \in Worker |-> <<>>]
    /\ subtrees = <<>> /\ folded = 0
    /\ token = FALSE /\ aborted = FALSE /\ splitAt = Nothing

-----------------------------------------------------------------------------
(* splitNode(): a leaf ends where the range does *)

Small(r) == r.to - r.from <= LeafSize \/ r.depth >= MaxDepth

\* stop() is asked of large ranges only.
Stops(r) == ~Small(r) /\ r.to - r.from >= PollSpan /\ (aborted \/ token)

Middles(r) == IF Small(r) \/ Stops(r) THEN {r.to} ELSE r.from + 1 .. r.to - 1

RangeOf(r) == [from |-> r.from, to |-> r.to]

\* A function that has one value more.
With(f, x, y) == [z \in DOMAIN f \cup {x} |-> IF z = x THEN y ELSE f[z]]

\* What splitting r at mid changes besides its node.
Noted(r, mid) ==
    /\ aborted' = (aborted \/ Stops(r))
    /\ splitAt' = IF mid = r.to THEN splitAt ELSE With(splitAt, RangeOf(r), mid)

Halves(r, left, mid) ==
    << [node |-> left, from |-> r.from, to |-> mid, depth |-> r.depth + 1],
       [node |-> left + 1, from |-> mid, to |-> r.to, depth |-> r.depth + 1] >>

-----------------------------------------------------------------------------
(* Phase 1: a level at a time *)

\* Some worker splits task i of the level, in any order.
SplitTask(i) ==
    /\ phase = "level" /\ depth < TaskDepth /\ i \in DOMAIN tasks \ DOMAIN splits
    /\ \E mid \in Middles(tasks[i]) :
         /\ splits' = With(splits, i, mid)
         /\ nodes' = IF mid = tasks[i].to THEN [nodes EXCEPT ![tasks[i].node] = Leaf(tasks[i])]
                     ELSE nodes
         /\ Noted(tasks[i], mid)
    /\ UNCHANGED <<phase, tasks, depth, workVars, folded, token>>

\* All joined: the children are allocated on this thread, in level order.
NextLevel ==
    /\ phase = "level" /\ depth < TaskDepth /\ tasks # <<>>
    /\ DOMAIN splits = DOMAIN tasks
    /\ LET inner == {i \in DOMAIN tasks : splits[i] # tasks[i].to}
           left(i) == Len(nodes) + 2 * Cardinality({j \in inner : j < i}) + 1
       IN  /\ nodes' = [n \in 1 .. Len(nodes) + 2 * Cardinality(inner) |->
                  IF n > Len(nodes) THEN Placeholder
                  ELSE IF \E i \in inner : tasks[i].node = n
                  THEN Inner(left(CHOOSE i \in inner : tasks[i].node = n))
                  ELSE nodes[n]]
           /\ tasks' = FlattenSeq([i \in DOMAIN tasks |->
                  IF i \in inner THEN Halves(tasks[i], left(i), splits[i]) ELSE <<>>])
    /\ depth' = depth + 1 /\ splits' = Nothing
    /\ UNCHANGED <<phase, workVars, folded, token, aborted, splitAt>>

LevelsEnd ==
    /\ phase = "level" /\ (depth = TaskDepth \/ tasks = <<>>)
    /\ phase' = "subtrees"
    /\ subtrees' = [t \in DOMAIN tasks |-> <<>>]
    /\ UNCHANGED <<buildVars, nextTask, working, stack, folded, token, aborted, splitAt>>

-----------------------------------------------------------------------------
(* Phase 2: whole subtrees *)

\* fetch_add() of the counter; the root of the subtree is node 1 of its array.
TakeTask(w) ==
    /\ phase = "subtrees" /\ working[w] = 0 /\ nextTask <= Len(tasks)
    /\ working' = [working EXCEPT ![w] = nextTask]
    /\ nextTask' = nextTask + 1
    /\ subtrees' = [subtrees EXCEPT ![nextTask] = <<Placeholder>>]
    /\ stack' = [stack EXCEPT ![w] = <<[tasks[nextTask] EXCEPT !.node = 1]>>]
    /\ UNCHANGED <<phase, buildVars, folded, token, aborted, splitAt>>

\* buildSubtree(), one node: depth first, the left child before the right.
BuildNode(w) ==
    /\ phase = "subtrees" /\ working[w] # 0 /\ stack[w] # <<>>
    /\ LET r == Head(stack[w])
           local == subtrees[working[w]]
       IN  \E mid \in Middles(r) :
             /\ Noted(r, mid)
             /\ IF mid = r.to
                THEN /\ subtrees' = [subtrees EXCEPT ![working[w]][r.node] = Leaf(r)]
                     /\ stack' = [stack EXCEPT ![w] = Tail(@)]
                ELSE /\ subtrees' = [subtrees EXCEPT ![working[w]] =
                            [local EXCEPT ![r.node] = Inner(Len(local) + 1)]
                                \o <<Placeholder, Placeholder>>]
                     /\ stack' = [stack EXCEPT ![w] = Halves(r, Len(local) + 1, mid) \o Tail(@)]
    /\ UNCHANGED <<phase, buildVars, nextTask, working, folded, token>>

TaskBuilt(w) ==
    /\ phase = "subtrees" /\ working[w] # 0 /\ stack[w] = <<>>
    /\ working' = [working EXCEPT ![w] = 0]
    /\ UNCHANGED <<phase, buildVars, nextTask, stack, subtrees, folded, token, aborted, splitAt>>

Joined == phase = "subtrees" /\ nextTask > Len(tasks) /\ \A w \in Worker : working[w] = 0

\* A poll that saw the request: what was built is thrown away.
GivesUp ==
    /\ Joined
    /\ IF aborted THEN phase' = "cancelled" /\ nodes' = <<>> ELSE phase' = "fold" /\ UNCHANGED nodes
    /\ UNCHANGED <<tasks, depth, splits, workVars, folded, token, aborted, splitAt>>

-----------------------------------------------------------------------------
(* The fold *)

\* Mutant: a private index is shifted as if its root were appended too.
ShiftWithRoot(n, by) == IF n.left = 0 THEN n ELSE [n EXCEPT !.left = @ + by + 1]

\* relink()
Shifted(n, by) == IF n.left = 0 THEN n ELSE [n EXCEPT !.left = @ + by]

\* The next subtree: its root takes the placeholder, the rest is appended.
Fold ==
    /\ phase = "fold" /\ folded < Len(tasks)
    /\ folded' = folded + 1
    /\ LET local == subtrees[folded + 1]
           by == Len(nodes) - 1
       IN  nodes' = [nodes EXCEPT ![tasks[folded + 1].node] = Shifted(local[1], by)]
                        \o [k \in 1 .. Len(local) - 1 |-> Shifted(local[k + 1], by)]
    /\ UNCHANGED <<phase, tasks, depth, splits, workVars, token, aborted, splitAt>>

Folded ==
    /\ phase = "fold" /\ folded = Len(tasks)
    /\ phase' = "done"
    /\ UNCHANGED <<buildVars, workVars, folded, token, aborted, splitAt>>

RequestCancel ==
    /\ ~token /\ token' = TRUE
    /\ UNCHANGED <<phase, buildVars, workVars, folded, aborted, splitAt>>

Serial == NextLevel \/ LevelsEnd \/ GivesUp \/ Fold \/ Folded
Parallel == (\E i \in DOMAIN tasks : SplitTask(i))
                \/ \E w \in Worker : TakeTask(w) \/ BuildNode(w) \/ TaskBuilt(w)

\* What goes on as long as some thread can: nobody need cancel.
Working == Serial \/ Parallel

Next == Working \/ RequestCancel

Spec == Init /\ [][Next]_vars

-----------------------------------------------------------------------------
(* Properties *)

TypeOK ==
    /\ phase \in {"level", "subtrees", "fold", "done", "cancelled"}
    /\ depth \in 0 .. TaskDepth /\ nextTask \in 1 .. Len(tasks) + 1
    /\ working \in [Worker -> 0 .. Len(tasks)] /\ folded \in 0 .. Len(tasks)
    /\ \A i \in DOMAIN nodes : nodes[i].left \in 0 .. Len(nodes) - 1

\* The halves of a range, in a tree with these split points.
Children(at, r) == IF r \notin DOMAIN at THEN <<>>
                   ELSE << [from |-> r.from, to |-> at[r]], [from |-> at[r], to |-> r.to] >>

\* Its levels from the root to the deepest that is built breadth-first; and, per size
\* and range, what lies below the range: its halves, then what lies below each.
Levels(at) ==
    LET level[d \in 0 .. TaskDepth] ==
            IF d = 0 THEN <<Range0>>
            ELSE FlattenSeq([k \in DOMAIN level[d - 1] |-> Children(at, level[d - 1][k])])
    IN  level

Below(at) ==
    LET below[n \in 1 .. Refs] ==
            [r \in [from : 0 .. Refs, to : 0 .. Refs] |->
                IF r.to - r.from # n \/ r \notin DOMAIN at THEN <<>>
                ELSE Children(at, r) \o below[at[r] - r.from][[from |-> r.from, to |-> at[r]]]
                                     \o below[r.to - at[r]][[from |-> at[r], to |-> r.to]]]
    IN  below

Under(at, r) == Below(at)[r.to - r.from][r]

\* The serial layout: the levels, then below each range of the last its pairs depth first.
Layout(at) ==
    LET level == Levels(at)
        last == level[TaskDepth]
    IN  FlattenSeq([d \in 1 .. TaskDepth + 1 |-> level[d - 1]])
            \o FlattenSeq([k \in DOMAIN last |-> Under(at, last[k])])

\* "the hierarchy ... is the same on every machine and whether or not any worker
\* actually started": in whatever order the workers ran, the nodes are those of
\* the serial layout, each at its place and linked to its own children.
SameHierarchy ==
    phase = "done" =>
        LET layout == Layout(splitAt)
        IN  /\ Len(nodes) = Len(layout)
            /\ \A i \in DOMAIN nodes :
                 IF layout[i] \notin DOMAIN splitAt THEN nodes[i] = Leaf(layout[i])
                 ELSE /\ nodes[i].left # 0
                      /\ SubSeq(layout, nodes[i].left, nodes[i].left + 1)
                            = Children(splitAt, layout[i])

\* A build cut short by a cancel is never taken for a hierarchy: a tree that is
\* handed out has only leaves of the size a full build makes.
NoTruncatedTree ==
    /\ phase = "cancelled" => nodes = <<>>
    /\ phase = "done" /\ MaxDepth >= Refs =>
           \A i \in DOMAIN nodes : nodes[i].left = 0 => nodes[i].to - nodes[i].from <= LeafSize

\* A build is over when it is done, or when a poll saw it cancelled.
Over == phase = "done" \/ (phase = "cancelled" /\ aborted)
=============================================================================
