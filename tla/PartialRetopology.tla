--------------------------- MODULE PartialRetopology ---------------------------
(***************************************************************************)
(* The replacement of a selected region by a patch of quads                *)
(* (src/src/core/src/partial_retopology.cpp): the analysis that refuses    *)
(* what the construction cannot do, and the construction, which works on a *)
(* copy and gives the source back when a face of the patch is refused.     *)
(*                                                                         *)
(* Abstracted: reasons are one refusal; positions, and what is transferred *)
(* by them (rows of the new vertices); rows of corners.                    *)
(***************************************************************************)
EXTENDS MeshParts

FacesAt(m, side) == ToSet(EdgeFaces(m, EdgeBetween(m, side[1], side[2])))

\* The selected faces that are reached from one of them inside the selection.
Connected(m, selected, seed) ==
    FoldLeft(LAMBDA found, i :
                 LET sides == UNION {Sides(m, f) : f \in found}
                 IN  found \cup (selected \cap UNION {FacesAt(m, s) : s \in sides}),
             {seed}, [i \in 1 .. Cardinality(selected) |-> i])

\* Mutant: the edge is asked for its corners in the selection only.
TouchesOpenInside(m, selected) ==
    \E s \in UNION {Sides(m, f) : f \in selected} : Cardinality(FacesAt(m, s) \cap selected) > 2

\* Some edge of the region has a face too few or too many.
TouchesOpen(m, selected) ==
    \E s \in UNION {Sides(m, f) : f \in selected} :
        Len(EdgeFaces(m, EdgeBetween(m, s[1], s[2]))) # 2

\* The directed edges with the selection on one side only.
Border(m, selected) ==
    {s \in UNION {Sides(m, f) : f \in selected} : Cardinality(FacesAt(m, s) \cap selected) = 1}

Branches(border) ==
    \E s, t \in border : s # t /\ (s[1] = t[1] \/ s[2] = t[2])

\* The vertices met on the way along the border from its smallest, None when it ends.
Walk(border) ==
    LET n == Cardinality(border)
        next(v) == (CHOOSE s \in border : s[1] = v)[2]
        start == CHOOSE v \in {s[1] : s \in border} : \A s \in border : v <= s[1]
        at[i \in 1 .. n + 1] ==
            IF i = 1 THEN start
            ELSE IF at[i - 1] \in {s[1] : s \in border} THEN next(at[i - 1]) ELSE None
    IN  [i \in 1 .. n + 1 |-> at[i]]

\* The walk is back where it began after all of the border, and not before.
ClosesOnce(walk) ==
    /\ Last(walk) = Head(walk)
    /\ \A i \in 2 .. Len(walk) - 1 : walk[i] \notin {None, Head(walk)}

Refused == [ready |-> FALSE]

analyzePartialRetopology(m, faces, allQuads) ==
    LET selected == ToSet(faces)
        border == Border(m, selected)
        walk == Walk(border)
    IN  IF \/ faces = <<>> \/ ~(selected \subseteq AliveIds(m.face)) \/ ~IsInjective(faces)
           \/ Connected(m, selected, Head(faces)) # selected
           \/ TouchesOpen(m, selected) \/ Branches(border)
           \/ border = {} \/ ~ClosesOnce(walk)
           \/ allQuads /\ Len(walk) - 1 # 4
        THEN Refused
        ELSE [ready |-> TRUE, boundary |-> Front(walk),
              faces |-> SelectSeq(Ordered(m.face), LAMBDA f : f \in selected)]

\* Mutant: the inner side of the quad is not turned.
RingQuadTwisted(boundary, inner, i) ==
    LET j == (i % Len(boundary)) + 1 IN <<boundary[i], boundary[j], inner[i], inner[j]>>

RingQuad(boundary, inner, i) ==
    LET j == (i % Len(boundary)) + 1 IN <<boundary[i], boundary[j], inner[j], inner[i]>>

\* A face of the patch, with the row of the first face of the region.
Stitch(acc, corners, paint) ==
    IF ~acc.ok \/ ~AcceptsFace(acc.mesh, corners) THEN [acc EXCEPT !.ok = FALSE]
    ELSE [acc EXCEPT !.mesh = [AddFace(@, corners) EXCEPT
                                   !.face.at[NextId(acc.mesh.face)].paint = paint]]

Replaced(m, region) ==
    LET boundary == region.boundary
        n == Len(boundary)
        cleared == FoldLeft(RemoveFace, m, region.faces)
        inner == NextIds(cleared.vertex, n)
        grown == FoldLeft(LAMBDA acc, v : AddVertex(acc), cleared, inner)
        paint == m.face.at[region.faces[1]].paint
        ring == FoldLeft(LAMBDA acc, i : Stitch(acc, RingQuad(boundary, inner, i), paint),
                         [ok |-> TRUE, mesh |-> grown], [i \in 1 .. n |-> i])
    IN  Stitch(ring, inner, paint)

\* A patch that was refused, or is not valid, leaves the source.
Accepted(m, made) ==
    IF made.ok /\ Validates(made.mesh) THEN [applied |-> TRUE, mesh |-> made.mesh]
    ELSE [applied |-> FALSE, mesh |-> m]

partialRetopologize(m, region) ==
    IF region.ready THEN Accepted(m, Replaced(m, region)) ELSE [applied |-> FALSE, mesh |-> m]

-----------------------------------------------------------------------------
(* Properties                                                               *)

\* What a host may select: any faces, one of them twice, one that is not alive.
Selections ==
    {SelectSeq(Ordered(mesh.face), LAMBDA f : f \in S) : S \in SUBSET AliveIds(mesh.face)}
        \cup {<<f, f>> : f \in AliveIds(mesh.face)}
        \cup {<<f>> : f \in DOMAIN mesh.face.at \ AliveIds(mesh.face)}

\* "Ready means one connected selected component bounded by one simple, closed,
\* manifold, four-edge interior loop" (partial_retopology.hpp), said without a walk:
\* no part of the selection is without a side in common with the rest, and the edges
\* of the border, as many as their vertices, hang together, two at each vertex.
OneRegion(S) ==
    \A T \in SUBSET S \ {{}, S} : \E f \in T, g \in S \ T : Joined(mesh, f, g)
OneLoop(edges) ==
    LET VerticesOf(E) == UNION E
    IN  /\ edges # {}
        /\ \A v \in VerticesOf(edges) : Cardinality({e \in edges : v \in e}) = 2
        /\ \A E \in SUBSET edges \ {{}, edges} : VerticesOf(E) \cap VerticesOf(edges \ E) # {}
WoundAlike(S) ==
    \A f, g \in S : f # g => Sides(mesh, f) \cap Sides(mesh, g) = {}

ReadyTrue(faces, allQuads, region) ==
    LET S == ToSet(faces)
        Around(s) == {f \in AliveIds(mesh.face) :
                         {s, <<s[2], s[1]>>} \cap Sides(mesh, f) # {}}
        all == UNION {Sides(mesh, f) : f \in S}
        edges == {{s[1], s[2]} : s \in {t \in all : Cardinality(Around(t) \cap S) = 1}}
        fits == /\ faces # <<>> /\ Len(faces) = Cardinality(S) /\ OneRegion(S)
                /\ \A s \in all : Cardinality(Around(s)) = 2
                /\ OneLoop(edges)
                /\ allQuads => Cardinality(edges) = 4
    IN  S \subseteq AliveIds(mesh.face) =>
        /\ region.ready => fits
        /\ fits /\ WoundAlike(S) => region.ready
        /\ region.ready =>
            /\ {{region.boundary[i], region.boundary[(i % Len(region.boundary)) + 1]} :
                    i \in DOMAIN region.boundary} = edges
            /\ \A i \in DOMAIN region.boundary : Side(region.boundary, i) \in all

\* "On rejection mesh is an unchanged copy of source; on success it shares every
\* exterior element id with source": the faces outside are as they were, with their
\* corners, edges and tags, also on the border; all vertices are there; each edge of
\* the border has two faces again; a region made of quads is one of quads, n + 1.
RegionTrue(faces, region, result) ==
    LET S == ToSet(faces)
        outside == AliveIds(mesh.face) \ S
        out == result.mesh
        patch == AliveIds(out.face) \ outside
        n == Len(region.boundary)
    IN  /\ ~result.applied => out = mesh
        /\ result.applied <=> region.ready
        /\ result.applied =>
            /\ Validates(out)
            /\ AliveIds(mesh.vertex) \subseteq AliveIds(out.vertex)
            /\ out.vertex.live = mesh.vertex.live + n
            /\ \A f \in outside :
                /\ IsAlive(out.face, f) /\ out.face.at[f] = mesh.face.at[f]
                /\ FaceLoops(out, f) = FaceLoops(mesh, f)
                /\ FaceVertices(out, f) = FaceVertices(mesh, f)
                /\ \A l \in ToSet(FaceLoops(mesh, f)) :
                    LET e == mesh.loop.at[l].edge
                    IN  /\ out.loop.at[l].edge = e
                        /\ out.edge.at[e].feature = mesh.edge.at[e].feature
                        /\ Len(EdgeFaces(out, e)) = Len(EdgeFaces(mesh, e))
            /\ Cardinality(patch) = n + 1
            /\ \A f \in patch : out.face.at[f].paint = mesh.face.at[region.faces[1]].paint
            /\ \A f \in patch : \A s \in Sides(out, f) : Cardinality(FacesAt(out, s)) = 2
            /\ \A f, g \in patch : f # g => Sides(out, f) \cap Sides(out, g) = {}
            /\ n = 4 => \A f \in patch : out.face.at[f].size = 4

\* Replacing a region is a call like others, and counts in their bound.
PartialSound == call.left > 0 =>
    \A faces \in Selections, allQuads \in BOOLEAN :
        \E region \in {analyzePartialRetopology(mesh, faces, allQuads)} :
            /\ ReadyTrue(faces, allQuads, region)
            /\ RegionTrue(faces, region, partialRetopologize(mesh, region))
=============================================================================
