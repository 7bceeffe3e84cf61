---------------------------- MODULE MeshPreparation ----------------------------
(***************************************************************************)
(* What the pipeline (src/src/core/src/pipeline.cpp) makes of its input    *)
(* before the stages: triangles, welded where vertices coincide, wound     *)
(* alike, and cut into islands that become meshes of their own.            *)
(*                                                                         *)
(* Abstracted: a position is the place it is rounded to, a number, so that *)
(* vertices coincide when they have the same; the sign of the volume of a  *)
(* closed component is a choice, "inward" being the faces of those that    *)
(* are inside out.                                                         *)
(***************************************************************************)
EXTENDS MeshParts

\* The points of a mesh counted as they are written, and its faces over them.
Indexed(m) ==
    LET faces == Ordered(m.face)
        Corners(c) == [i \in DOMAIN c |-> vertexMap(m, c[i])]
    IN  [k \in DOMAIN faces |-> Corners(FaceVertices(m, faces[k]))]

-----------------------------------------------------------------------------
(* Welding *)

\* Points keep the order in which their places are first met.
Landing(place, i) ==
    LET first == CHOOSE j \in DOMAIN place :
                    place[j] = place[i] /\ \A k \in 1 .. j - 1 : place[k] # place[i]
    IN  Cardinality({place[j] : j \in 1 .. first})

\* A face without the corners that fell together with the one before.
Fused(place, corners) ==
    LET kept == FoldLeft(LAMBDA nf, v : IF nf # <<>> /\ Last(nf) = Landing(place, v) THEN nf
                                        ELSE Append(nf, Landing(place, v)), <<>>, corners)
    IN  IF Len(kept) > 1 /\ Head(kept) = Last(kept) THEN Front(kept) ELSE kept

weldCoincidentVertices(m, place) ==
    LET faces == Indexed(m)
        fused == [k \in DOMAIN faces |-> Fused(place, faces[k])]
        places == Cardinality(ToSet(place))
    IN  IF places = Len(place) THEN m
        ELSE FromIndexed(places, SelectSeq(fused, LAMBDA f : Len(f) >= 3))

-----------------------------------------------------------------------------
(* Winding: a flood from the first face of each component over the edges of just  *)
(* two faces.  "faces" is Indexed(m), "turned" those to be turned, by their place. *)

SidesOf(corners) == {Side(corners, i) : i \in DOMAIN corners}
Opposed(side) == <<side[2], side[1]>>

\* The faces that have a side, one way or the other.
Incident(faces, side) ==
    {k \in DOMAIN faces : {side, Opposed(side)} \cap SidesOf(faces[k]) # {}}

\* Mutant: a neighbour is compared with the face as it was given.
SpreadUnturned(faces, flood, f) ==
    FoldLeft(LAMBDA acc, i :
        LET side == Side(faces[f], i)
            next == Incident(faces, side) \ ({f} \cup ToSet(acc.queue))
        IN  IF Cardinality(Incident(faces, side)) # 2 THEN [acc EXCEPT !.closed = FALSE]
            ELSE [acc EXCEPT !.queue = @ \o SetToSeq(next),
                             !.turned = @ \cup {g \in next : side \in SidesOf(faces[g])}],
        flood, [i \in DOMAIN faces[f] |-> i])

Spread(faces, flood, f) ==
    FoldLeft(LAMBDA acc, i :
        LET side == Side(faces[f], i)
            next == Incident(faces, side) \ ({f} \cup ToSet(acc.queue))
        IN  IF Cardinality(Incident(faces, side)) # 2 THEN [acc EXCEPT !.closed = FALSE]
            ELSE [acc EXCEPT
                     !.queue = @ \o SetToSeq(next),
                     !.turned = @ \cup {g \in next :
                         (side \in SidesOf(faces[g])) # (f \in acc.turned)}],
        flood, [i \in DOMAIN faces[f] |-> i])

Flood(faces, seed) ==
    FoldLeft(LAMBDA acc, k : IF k > Len(acc.queue) THEN acc ELSE Spread(faces, acc, acc.queue[k]),
             [queue |-> <<seed>>, turned |-> {}, closed |-> TRUE], [k \in DOMAIN faces |-> k])

Turned(faces, inward) ==
    FoldLeft(LAMBDA acc, s :
        IF s \in acc.visited THEN acc
        ELSE LET flood == Flood(faces, s)
                 comp == ToSet(flood.queue)
             IN  [visited |-> acc.visited \cup comp,
                  turned |-> acc.turned \cup
                      IF flood.closed /\ s \in inward THEN comp \ flood.turned ELSE flood.turned],
        [visited |-> {}, turned |-> {}], [k \in DOMAIN faces |-> k]).turned

orientFacesConsistently(m, inward) ==
    LET faces == Indexed(m)
        turned == Turned(faces, inward)
    IN  IF turned = {} THEN m
        ELSE FromIndexed(m.vertex.live, [k \in DOMAIN faces |->
                 IF k \in turned THEN Reverse(faces[k]) ELSE faces[k]])

-----------------------------------------------------------------------------
(* Islands as meshes: the points are counted as the corners name them.             *)

extractIsland(m, island) ==
    LET faces == [k \in DOMAIN island |-> FaceVertices(m, island[k])]
        points == FoldLeft(LAMBDA found, v : IF v \in ToSet(found) THEN found
                                             ELSE Append(found, v), <<>>, FlattenSeq(faces))
    IN  [points |-> points,
         mesh |-> FromIndexed(Len(points), [k \in DOMAIN faces |->
                      [i \in DOMAIN faces[k] |-> IndexIn(points, faces[k][i])]])]

IslandMeshes(m) ==
    LET found == islands(m)
    IN  [k \in DOMAIN found |->
            extractIsland(m, SelectSeq(Ordered(m.face), LAMBDA f : f \in found[k]))]

-----------------------------------------------------------------------------
(* Properties                                                               *)

\* Nothing coincides, or two of the vertices do.
Places ==
    LET points == 1 .. mesh.vertex.live
    IN  {[i \in points |-> i]} \cup
            {[i \in points |-> IF i = pair[2] THEN pair[1] ELSE i] :
                pair \in {p \in points \X points : p[1] < p[2]}}

\* "The weld merges only coincident vertices" (test_pipeline.cpp): there is a point for
\* each place, and of the faces those with their corners in three places, as they were.
WeldTrue(triangles, place, welded) ==
    LET faces == Indexed(triangles)
        Spans(f) == Cardinality({place[v] : v \in ToSet(f)}) = 3
        kept == SelectSeq(faces, Spans)
        now == Indexed(welded)
    IN  /\ welded.vertex.live = Cardinality(ToSet(place))
        /\ Len(now) = Len(kept)
        /\ \E at \in {[i \in DOMAIN place |-> IF ToSet(place) = DOMAIN place THEN i
                                             ELSE Landing(place, i)]} :
            /\ \A i, j \in DOMAIN place : at[i] = at[j] <=> place[i] = place[j]
            /\ \A k \in DOMAIN now : now[k] = [c \in 1 .. 3 |-> at[kept[k][c]]]

\* Two faces that meet where no third does pass the side they share in turn.
Alike(faces) ==
    \A f, g \in DOMAIN faces : f # g =>
        \A side \in SidesOf(faces[f]) \cap SidesOf(faces[g]) :
            Cardinality(Incident(faces, side)) > 2

TurnedBy(faces, S) == [k \in DOMAIN faces |-> IF k \in S THEN Reverse(faces[k]) ELSE faces[k]]

\* "Make every face's winding agree with its neighbours" (pipeline.cpp): wherever the
\* faces can be wound alike they are, and none is touched otherwise; a mesh that is
\* wound alike and outward is the one that was given, and the first face of a mesh with
\* a border keeps its winding.
WindingTrue(welded, inward, out) ==
    LET faces == Indexed(welded)
        now == Indexed(out)
        AllOpen == \A s \in DOMAIN faces : ~Flood(faces, s).closed
    IN  /\ Len(now) = Len(faces)
        /\ \A k \in DOMAIN faces : now[k] \in {faces[k], Reverse(faces[k])}
        /\ Alike(now) \/ ~\E S \in SUBSET DOMAIN faces : Alike(TurnedBy(faces, S))
        /\ Alike(faces) /\ (AllOpen \/ inward = {}) => out = welded
        /\ AllOpen /\ faces # <<>> => now[1] = faces[1]

\* Each island becomes a mesh with its faces, wound as they were, and with their points
\* alone; together they are the mesh.
IslandsTrue(m, parts) ==
    LET Face(part, f) == LET c == FaceVertices(part.mesh, f)
                         IN  [i \in DOMAIN c |-> part.points[c[i]]]
        drawn == {<<k, f>> : k \in DOMAIN parts, f \in 1 .. m.face.live}
        there == {d \in drawn : IsAlive(parts[d[1]].mesh.face, d[2])}
    IN  /\ \A k \in DOMAIN parts :
            /\ IsInjective(parts[k].points)
            /\ \A v \in AliveIds(parts[k].mesh.vertex) : \E f \in AliveIds(parts[k].mesh.face) :
                v \in ToSet(FaceVertices(parts[k].mesh, f))
            /\ Len(islands(parts[k].mesh)) = 1
        /\ Cardinality(there) = m.face.live
        /\ {Face(parts[d[1]], d[2]) : d \in there}
             = {FaceVertices(m, f) : f \in AliveIds(m.face)}

\* Preparing a mesh is a call like others, and counts in their bound.
PreparationSound == call.left > 0 =>
    \E triangles \in {Triangulate(mesh)} : \A place \in Places :
        \E welded \in {weldCoincidentVertices(triangles, place)} :
            /\ WeldTrue(triangles, place, welded)
            /\ \E parts \in {IslandMeshes(welded)} : IslandsTrue(welded, parts)
            /\ \A inward \in {{}, DOMAIN Indexed(welded)} :
                WindingTrue(welded, inward, orientFacesConsistently(welded, inward))
=============================================================================
