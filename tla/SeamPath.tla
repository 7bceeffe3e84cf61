-------------------------------- MODULE SeamPath --------------------------------
(***************************************************************************)
(* A pending seam path (src/src/uv/src/seam_path.cpp): waypoints on a mesh *)
(* with one cached route per consecutive pair, found by Dijkstra's search  *)
(* (src/src/retopo/include/cyber/retopo/paths.hpp), edited, committed to a *)
(* SeamSet and taken back, while the mesh may change under it.             *)
(*                                                                         *)
(* Abstracted: the mesh is a graph, an edge the set of its ends, and its   *)
(* cost a number that stays (the options are those the path was made       *)
(* with).  A drag (moveWaypointTo) picks some vertex.  routeRevision is    *)
(* `on`, the graph a segment was routed on last.                           *)
(***************************************************************************)
EXTENDS Integers, FiniteSets, SequencesExt

CONSTANTS
    Mesh,          \* the graphs the mesh goes through: a sequence of sets of edges
    EdgeCost,      \* per edge, its length times its weight
    Least, Far,    \* per mesh, the least cost of a way between two vertices, Far for
                   \* none: what routes are measured by, and no part of the code
    MaxWaypoints,  \* bound on the waypoints pending, one less for each commit
    MaxCommits     \* bound on the commits that stand

NoVertex == 0
Vertex == UNION UNION Range(Mesh)

SeamAssumption ==
    /\ Vertex \subseteq Nat \ {NoVertex}
    /\ \A graph \in Range(Mesh) : \A e \in graph : Cardinality(e) = 2 /\ EdgeCost[e] \in Nat \ {0}
    /\ \A i \in DOMAIN Mesh, from, v \in Vertex :   \* Bellman's equations
          Least[i][from][v] =
            IF v = from THEN 0
            ELSE Min({Far} \cup {Least[i][from][u] + EdgeCost[{u, v}] :
                                u \in {u \in Vertex : {u, v} \in Mesh[i]}})

VARIABLES
    at,                   \* the mesh is Mesh[at]
    waypoints, segments,  \* m_waypoints and m_segments
    resume,               \* m_resume
    seams,                \* the SeamSet
    commits               \* the records of the host, the newest last, each with
                          \* what the seams were before (a history)

vars == <<at, waypoints, segments, resume, seams, commits>>

edges == Mesh[at]
Alive(v) == v \in UNION edges

Init ==
    /\ at = 1 /\ waypoints = <<>> /\ segments = <<>> /\ resume = NoVertex
    /\ seams = {} /\ commits = <<>>

-----------------------------------------------------------------------------
(* Routes *)

\* The queue is ordered by distance, then by vertex.
Top(frontier) == CHOOSE p \in frontier : \A q \in frontier : p[1] < q[1] \/ (p[1] = q[1] /\ p[2] <= q[2])

RECURSIVE Search(_, _, _, _)
Search(to, frontier, distance, previous) ==
    LET d == Top(frontier)[1]
        u == Top(frontier)[2]
        rest == frontier \ {<<d, u>>}
        step(v) == d + EdgeCost[{u, v}]
        nearer == {v \in UNION edges : /\ {u, v} \in edges /\ v # u
                                       /\ (v \in DOMAIN distance => step(v) < distance[v])}
    IN  IF frontier = {} THEN previous
        ELSE IF d > distance[u] THEN Search(to, rest, distance, previous)
        ELSE IF u = to THEN previous
        ELSE Search(to, rest \cup {<<step(v), v>> : v \in nearer},
                    [v \in nearer |-> step(v)] @@ distance, [v \in nearer |-> u] @@ previous)

RECURSIVE Trace(_, _, _)
Trace(from, v, previous) ==
    IF v = from THEN <<v>> ELSE Append(Trace(from, previous[v], previous), v)

weightedVertexPath(from, to) ==
    LET previous == Search(to, {<<0, from>>}, (from :> 0), << >>)
    IN  IF ~Alive(from) \/ ~Alive(to) \/ from = to \/ to \notin DOMAIN previous THEN <<>>
        ELSE Trace(from, to, previous)

Segment(from, to) == [vertices |-> weightedVertexPath(from, to), on |-> at]
routedSegment(s) == s.vertices # <<>>

-----------------------------------------------------------------------------
(* Editing the path *)

SamePath == UNCHANGED <<at, resume, seams, commits>>

\* With nothing pending the resume marker is the waypoint before the first.
Seed == IF waypoints = <<>> /\ resume # NoVertex /\ Alive(resume) THEN <<resume>> ELSE waypoints

addWaypoint(v) ==
    /\ Alive(v) /\ (Seed # <<>> => Last(Seed) # v)
    /\ Len(Seed) + Len(commits) < MaxWaypoints
    /\ waypoints' = Append(Seed, v)
    /\ segments' = IF Seed = <<>> THEN segments ELSE Append(segments, Segment(Last(Seed), v))
    /\ SamePath

\* Mutant: every segment is routed anew.
moveWaypointReroutes(i, v) ==
    /\ i \in DOMAIN waypoints /\ Alive(v) /\ waypoints[i] # v
    /\ waypoints' = [waypoints EXCEPT ![i] = v]
    /\ segments' = [j \in DOMAIN segments |-> Segment(waypoints'[j], waypoints'[j + 1])]
    /\ SamePath

\* rerouteAround(): the segments that touch waypoint i.
moveWaypoint(i, v) ==
    /\ i \in DOMAIN waypoints /\ Alive(v) /\ waypoints[i] # v
    /\ waypoints' = [waypoints EXCEPT ![i] = v]
    /\ segments' = [j \in DOMAIN segments |->
                       IF j \in {i - 1, i} THEN Segment(waypoints'[j], waypoints'[j + 1])
                       ELSE segments[j]]
    /\ SamePath

\* Mutant: the merged segment keeps the route to the waypoint that is gone.
removeWaypointUnrouted(i) ==
    /\ i \in DOMAIN waypoints
    /\ waypoints' = RemoveAt(waypoints, i)
    /\ segments' = IF segments = <<>> THEN segments
                   ELSE IF i = Len(waypoints) THEN Front(segments)
                   ELSE RemoveAt(segments, i)
    /\ SamePath

\* The two segments at an inner waypoint become one, routed anew.
removeWaypoint(i) ==
    /\ i \in DOMAIN waypoints
    /\ waypoints' = RemoveAt(waypoints, i)
    /\ segments' =
        IF segments = <<>> THEN segments
        ELSE IF i = 1 THEN Tail(segments)
        ELSE IF i = Len(waypoints) THEN Front(segments)
        ELSE [RemoveAt(segments, i) EXCEPT ![i - 1] = Segment(waypoints[i - 1], waypoints[i + 1])]
    /\ SamePath

clearPending == waypoints' = <<>> /\ segments' = <<>>

Clears == waypoints # <<>> /\ clearPending /\ SamePath

dropResumeMarker ==
    /\ resume # NoVertex /\ resume' = NoVertex
    /\ UNCHANGED <<at, waypoints, segments, seams, commits>>

-----------------------------------------------------------------------------
(* What the path would mark, and marking it *)

\* vertices(): joined routes, without the joint they share.
vertices ==
    LET joined(chain, s) ==
            IF ~routedSegment(s) THEN chain
            ELSE chain \o (IF chain = <<>> THEN s.vertices ELSE Tail(s.vertices))
    IN  FoldLeft(joined, <<>>, segments)

Steps(chain) == {{chain[i], chain[i + 1]} : i \in 1 .. Len(chain) - 1}

pendingEdges == Steps(vertices) \cap edges

routed == segments # <<>> /\ \A i \in DOMAIN segments : routedSegment(segments[i])

\* Mutant: the record lists edges that were seams before.
commitListsAll ==
    /\ routed /\ Len(commits) < MaxCommits
    /\ seams' = seams \cup pendingEdges
    /\ commits' = Append(commits, [marked |-> pendingEdges, before |-> seams])
    /\ resume' = Last(vertices) /\ clearPending /\ UNCHANGED at

commit ==
    /\ routed /\ Len(commits) < MaxCommits
    /\ seams' = seams \cup pendingEdges
    /\ commits' = Append(commits, [marked |-> pendingEdges \ seams, before |-> seams])
    /\ resume' = Last(vertices) /\ clearPending /\ UNCHANGED at

\* The host takes back its last commit; the resume marker stays.
revertCommit ==
    /\ commits # <<>>
    /\ seams' = seams \ Last(commits).marked
    /\ commits' = Front(commits)
    /\ UNCHANGED <<at, waypoints, segments, resume>>

-----------------------------------------------------------------------------
\* The mesh is edited; the path "does not observe topology changes".
MeshEdited ==
    /\ at < Len(Mesh) /\ at' = at + 1
    /\ UNCHANGED <<waypoints, segments, resume, seams, commits>>

Next ==
    \/ \E v \in Vertex : addWaypoint(v)
    \/ \E i \in 1 .. MaxWaypoints, v \in Vertex : moveWaypoint(i, v)
    \/ \E i \in 1 .. MaxWaypoints : removeWaypoint(i)
    \/ Clears \/ dropResumeMarker \/ commit \/ revertCommit
    \/ MeshEdited

Spec == Init /\ [][Next]_vars

-----------------------------------------------------------------------------
(* Properties *)

TypeOK ==
    /\ at \in DOMAIN Mesh /\ waypoints \in Seq(Vertex)
    /\ resume \in Vertex \cup {NoVertex} /\ seams \subseteq UNION Range(Mesh)

CostOf(chain) == FoldSet(LAMBDA i, sum : sum + EdgeCost[{chain[i], chain[i + 1]}], 0, 1 .. Len(chain) - 1)

RightRoute(s, from, to) ==
    LET best == Least[s.on][from][to]
        in == \A v \in {from, to} : v \in UNION Mesh[s.on]
    IN  IF routedSegment(s)
        THEN /\ s.vertices[1] = from /\ Last(s.vertices) = to
             /\ Steps(s.vertices) \subseteq Mesh[s.on] /\ CostOf(s.vertices) = best
        ELSE from = to \/ best = Far \/ ~in

\* However waypoints were added, moved and removed, there is a segment for each
\* consecutive pair, and it is the cheapest route between just these two on the
\* mesh it was routed on, or none where there is none.
CacheMatchesWaypoints ==
    /\ Len(segments) = (IF waypoints = <<>> THEN 0 ELSE Len(waypoints) - 1)
    /\ \A i \in DOMAIN segments : RightRoute(segments[i], waypoints[i], waypoints[i + 1])

OfRoutes == UNION {Steps(segments[i].vertices) : i \in DOMAIN segments}
Gaps == {i \in DOMAIN segments : ~routedSegment(segments[i])}

\* "Live edges the pending path would turn into seams": of a path without a gap,
\* the edges of its routes that are still there.  Of one with a gap, all up to the
\* gap; and none of another's, if it has one gap and the mesh has not changed.
PendingIsRouted ==
    /\ Gaps = {} => pendingEdges = OfRoutes \cap edges
    /\ \A i \in DOMAIN segments :
          (1 .. i) \cap Gaps = {} => Steps(segments[i].vertices) \cap edges \subseteq pendingEdges
    /\ Cardinality(Gaps) = 1 /\ (\A i \in DOMAIN segments : segments[i].on = at) =>
          pendingEdges \subseteq OfRoutes

\* What the comment of vertices() says: "pendingEdges() drops the bogus jump" over
\* the gap that unrouted segments leave in the chain.
NoBogusJump == pendingEdges \subseteq OfRoutes

\* A commit can be taken back: what it marked is all that it added.
RevertRestores ==
    \A i \in DOMAIN commits :
        (IF i = Len(commits) THEN seams ELSE commits[i + 1].before) \ commits[i].marked
            = commits[i].before

SeamPathSound == TypeOK /\ CacheMatchesWaypoints /\ PendingIsRouted /\ RevertRestores

\* "an edit re-routes ONLY the at most two segments adjacent to the touched
\* waypoint": a segment between two waypoints that stay keeps its route, also when
\* the mesh has changed since; and what a commit marks is live edges.
SeamEditsAreLocal == [][
    /\ Len(waypoints') > Len(waypoints) => IsPrefix(segments, segments')
    /\ Len(waypoints') = Len(waypoints) =>
        \A j \in DOMAIN segments :
            waypoints'[j] = waypoints[j] /\ waypoints'[j + 1] = waypoints[j + 1] =>
                segments'[j] = segments[j]
    /\ Len(waypoints') = Len(waypoints) - 1 /\ waypoints' # <<>> =>
        \E i \in DOMAIN waypoints :
            /\ waypoints' = RemoveAt(waypoints, i)
            /\ \A j \in 1 .. i - 2 : segments'[j] = segments[j]
            /\ \A j \in i + 1 .. Len(segments) : segments'[j - 1] = segments[j]
    /\ seams' \ seams \subseteq edges]_vars

=============================================================================
