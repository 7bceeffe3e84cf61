------------------------------- MODULE MeshParts -------------------------------
(***************************************************************************)
(* What is made of a mesh without changing it: its islands                 *)
(* (mesh_diagnostics.cpp), which the pipeline works on one by one, and its *)
(* subdivision into quads (mesh_ops.cpp), which it ends with.              *)
(*                                                                         *)
(* Abstracted: the stack of the search for an island, whose faces are      *)
(* sorted at its end; the averaging of rows (paint is the face's row,      *)
(* which its children get as it is).                                       *)
(***************************************************************************)
EXTENDS MeshKernel

\* The live ids of a store, in their order.
Ordered(store) == SelectSeq([i \in DOMAIN store.at |-> i], LAMBDA i : store.at[i].alive)

-----------------------------------------------------------------------------
(* islands *)

\* Mutant: the face after this one in the cycle, which on an edge of three is not all.
NextAcross(m, f) == {m.loop.at[m.loop.at[l].radialNext].face : l \in ToSet(FaceLoops(m, f))}

Across(m, f) ==
    UNION {LET cycle == CycleFrom(l, [k \in DOMAIN m.loop.at |-> m.loop.at[k].radialNext])
           IN  {m.loop.at[r].face : r \in ToSet(cycle)} : l \in ToSet(FaceLoops(m, f))}

\* Breadth by breadth instead of with a stack.
Island(m, seed) ==
    FoldLeft(LAMBDA found, i : found \cup UNION {Across(m, f) : f \in found},
             {seed}, Ordered(m.face))

islands(m) ==
    FoldLeft(LAMBDA found, seed : IF \E k \in DOMAIN found : seed \in found[k] THEN found
                                  ELSE Append(found, Island(m, seed)),
             <<>>, Ordered(m.face))

-----------------------------------------------------------------------------
(* linearSubdivide: the points of the vertices, then of the edges, then of the    *)
(* faces; then a quad for each corner.                                            *)

IndexIn(ids, id) == CHOOSE k \in DOMAIN ids : ids[k] = id

vertexMap(m, v) == IndexIn(Ordered(m.vertex), v)
midMap(m, e) == m.vertex.live + IndexIn(Ordered(m.edge), e)
faceMap(m, f) == m.vertex.live + m.edge.live + IndexIn(Ordered(m.face), f)

\* Each corner of each face: its vertex, the edges after and before it.
AllCorners(m) ==
    LET faces == Ordered(m.face)
        CornersOf(f) ==
            LET ls == FaceLoops(m, f)
                n == Len(ls)
            IN  [i \in DOMAIN ls |->
                    [face |-> f, vertex |-> m.loop.at[ls[i]].vertex,
                     next |-> m.loop.at[ls[i]].edge,
                     prev |-> m.loop.at[ls[((i + n - 2) % n) + 1]].edge]]
    IN  FlattenSeq([k \in DOMAIN faces |-> CornersOf(faces[k])])

\* Mutant: the edge before the corner is not looked at.
InheritNextOnly(m, out, c) ==
    IF m.edge.at[c.next].feature
    THEN [out EXCEPT !.edge.at[EdgeBetween(out, vertexMap(m, c.vertex), midMap(m, c.next))].feature
                        = TRUE]
    ELSE out

\* The halves of the edges of a corner are tagged as these are.
Inherit(m, out, c) ==
    FoldLeft(LAMBDA acc, e :
                IF m.edge.at[e].feature
                THEN [acc EXCEPT !.edge.at[EdgeBetween(acc, vertexMap(m, c.vertex),
                                                       midMap(m, e))].feature = TRUE]
                ELSE acc,
             out, <<c.next, c.prev>>)

linearSubdivide(m) ==
    LET Child(out, c) ==
            LET quad == <<vertexMap(m, c.vertex), midMap(m, c.next), faceMap(m, c.face),
                          midMap(m, c.prev)>>
                painted == [AddFace(out, quad) EXCEPT
                               !.face.at[NextId(out.face)].paint = m.face.at[c.face].paint]
            IN  IF AcceptsFace(out, quad) THEN Inherit(m, painted, c) ELSE out
    IN  FoldLeft(Child, FromIndexed(m.vertex.live + m.edge.live + m.face.live, <<>>), AllCorners(m))

-----------------------------------------------------------------------------
(* Properties                                                               *)

Side(c, i) == <<c[i], c[(i % Len(c)) + 1]>>
Sides(m, f) == LET c == FaceVertices(m, f) IN {Side(c, i) : i \in DOMAIN c}
Joined(m, f, g) ==
    \E s \in Sides(m, f) : {{s[1], s[2]}} \cap {{t[1], t[2]} : t \in Sides(m, g)} # {}

\* "Island detection SHALL account for every input face exactly once" (mesh-core
\* spec): every live face is in exactly one island; faces that share a side, also one of three
\* faces or of two that are turned against each other, are in the same; and no
\* island falls apart.
IslandsPartition ==
    LET found == islands(mesh)
        Whole(S) == \A T \in SUBSET S \ {{}, S} : \E f \in T, g \in S \ T : Joined(mesh, f, g)
    IN  /\ UNION ToSet(found) = AliveIds(mesh.face) /\ {} \notin ToSet(found)
        /\ \A i, j \in DOMAIN found : i # j =>
            \A f \in found[i], g \in found[j] : f # g /\ ~Joined(mesh, f, g)
        /\ \A i \in DOMAIN found : Whole(found[i])

\* "Subdivision into quads" (mesh.hpp) of whatever mesh: nothing but quads, one for
\* each corner, painted and turned as their face; each edge is halved, and its
\* halves have as many faces and the tag it has; what is inside a face has two and none.
SubdivisionTrue ==
    \E out \in {linearSubdivide(mesh)} :
        LET Half(v, e) == EdgeBetween(out, vertexMap(mesh, v), midMap(mesh, e))
            Children(f) ==
                {q \in AliveIds(out.face) : faceMap(mesh, f) \in ToSet(FaceVertices(out, q))}
            halves == {Half(v, e) : v \in UNION {Ends(mesh, d) : d \in AliveIds(mesh.edge)},
                                    e \in AliveIds(mesh.edge)} \ {None}
        IN  /\ \A l \in AliveIds(out.loop) : LoopValid(out, l)
            /\ \A q \in AliveIds(out.face) : FaceValid(out, q) /\ out.face.at[q].size = 4
            /\ \A f \in AliveIds(mesh.face) :
                /\ Cardinality(Children(f)) = mesh.face.at[f].size
                /\ \A q \in Children(f) : out.face.at[q].paint = mesh.face.at[f].paint
                /\ \A s \in Sides(mesh, f) :
                    LET mid == midMap(mesh, EdgeBetween(mesh, s[1], s[2]))
                    IN  {<<vertexMap(mesh, s[1]), mid>>, <<mid, vertexMap(mesh, s[2])>>}
                            \subseteq UNION {Sides(out, q) : q \in Children(f)}
            /\ out.face.live = Cardinality(UNION {Children(f) : f \in AliveIds(mesh.face)})
            /\ \A e \in AliveIds(mesh.edge) : \A v \in Ends(mesh, e) :
                /\ Len(EdgeFaces(out, Half(v, e))) = Len(EdgeFaces(mesh, e))
                /\ out.edge.at[Half(v, e)].feature = mesh.edge.at[e].feature
            /\ \A d \in AliveIds(out.edge) \ halves :
                Len(EdgeFaces(out, d)) = 2 /\ ~out.edge.at[d].feature

\* These are calls like others, and count in their bound.
PartsSound == call.left > 0 => IslandsPartition /\ SubdivisionTrue
=============================================================================
