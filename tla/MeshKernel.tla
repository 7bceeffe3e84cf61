------------------------------ MODULE MeshKernel ------------------------------
(***************************************************************************)
(* The half-edge mesh kernel, cyber::Mesh: the linked structure of         *)
(* vertices, edges, loops (face corners) and faces, the free lists their   *)
(* ids are recycled through, and every operator that rewrites it.          *)
(*                                                                         *)
(* The mesh is one value and each operator a function from meshes to       *)
(* meshes, as in the code, where an operator is a member function that     *)
(* runs alone.  Ids start at 1 and None is kInvalidIndex.  Positions and   *)
(* the attribute columns are left out, save one: "paint" stands for a      *)
(* face's row of attributes (a material or group id), because operators    *)
(* that rebuild faces have to carry it over and recycled ids must not      *)
(* inherit it.                                                             *)
(***************************************************************************)
EXTENDS Integers, Sequences, FiniteSets, SequencesExt

CONSTANTS Seeds,       \* the imported meshes: [points: how many, faces: corner lists,
                       \* calls: bound, the calls a host makes on this mesh]
          FaceSizes,   \* the numbers of corners of the faces a host adds
          HoleLimit,   \* the limit fillHoles is called with
          None         \* the invalid id

KernelAssumption ==
    /\ FaceSizes \subseteq Nat /\ HoleLimit \in Nat
    /\ \A seed \in Seeds : seed.points \in Nat /\ seed.calls \in Nat
    /\ None \notin Nat

VARIABLES mesh,       \* the structure
          exported,   \* what toIndexed shows of it: the points and the bag of polygons
          call        \* the call that made it

vars == <<mesh, exported, call>>

Plain == 0   \* the default of the attribute column

-----------------------------------------------------------------------------
(* Element stores: an array with alive flags, a LIFO free list, a counter.  *)

EmptyStore == [at |-> <<>>, free |-> <<>>, live |-> 0]

NextIds(s, n) ==   \* the ids the next n allocations hand out
    [i \in 1..n |-> IF i <= Len(s.free) THEN s.free[Len(s.free) + 1 - i]
                    ELSE Len(s.at) + i - Len(s.free)]

NextId(s) == NextIds(s, 1)[1]

Alloc(s, element) ==
    IF s.free = <<>>
    THEN [at |-> Append(s.at, element), free |-> <<>>, live |-> s.live + 1]
    ELSE [at |-> [s.at EXCEPT ![Last(s.free)] = element],
          free |-> Front(s.free), live |-> s.live + 1]

Free(s, i) == [at |-> [s.at EXCEPT ![i].alive = FALSE],
               free |-> Append(s.free, i), live |-> s.live - 1]

IsAlive(s, i) == i \in DOMAIN s.at /\ s.at[i].alive
AliveIds(s) == {i \in DOMAIN s.at : s.at[i].alive}

EmptyMesh == [vertex |-> EmptyStore, edge |-> EmptyStore,
              loop |-> EmptyStore, face |-> EmptyStore]

AddVertex(m) == [m EXCEPT !.vertex = Alloc(@, [edges |-> <<>>, alive |-> TRUE])]

AllocEdge(m, a, b) ==
    [m EXCEPT !.edge = Alloc(@, [v0 |-> a, v1 |-> b, radial |-> None,
                                 feature |-> FALSE, alive |-> TRUE])]

AllocLoop(m, v, f, next, prev) ==
    [m EXCEPT !.loop = Alloc(@, [vertex |-> v, face |-> f, next |-> next, prev |-> prev,
                                 edge |-> None, radialNext |-> None, radialPrev |-> None,
                                 alive |-> TRUE])]

AllocFaceKeepsRow(m, first, size) ==   \* wrong: a recycled id keeps its attributes
    LET f == NextId(m.face)
    IN [m EXCEPT !.face = Alloc(@, [first |-> first, size |-> size, alive |-> TRUE,
            paint |-> IF f \in DOMAIN m.face.at THEN m.face.at[f].paint ELSE Plain])]

AllocFace(m, first, size) ==
    [m EXCEPT !.face = Alloc(@, [first |-> first, size |-> size,
                                 paint |-> Plain, alive |-> TRUE])]

-----------------------------------------------------------------------------
(* Adjacency.                                                               *)

CycleFrom(l, succ) ==   \* l, succ[l], ... up to the one before l comes again
    LET walk[s \in Seq(DOMAIN succ)] ==
            IF succ[Last(s)] = l \/ Len(s) = Len(succ) THEN s
            ELSE walk[Append(s, succ[Last(s)])]
    IN walk[<<l>>]

FaceLoops(m, f) ==
    CycleFrom(m.face.at[f].first, [l \in DOMAIN m.loop.at |-> m.loop.at[l].next])

FaceVertices(m, f) ==
    LET ls == FaceLoops(m, f) IN [i \in DOMAIN ls |-> m.loop.at[ls[i]].vertex]

EdgeLoops(m, e) ==
    IF m.edge.at[e].radial = None THEN <<>>
    ELSE CycleFrom(m.edge.at[e].radial, [l \in DOMAIN m.loop.at |-> m.loop.at[l].radialNext])

EdgeFaces(m, e) ==
    LET ls == EdgeLoops(m, e) IN [i \in DOMAIN ls |-> m.loop.at[ls[i]].face]

Ends(m, e) == {m.edge.at[e].v0, m.edge.at[e].v1}

EdgeBetween(m, a, b) ==
    LET hits == SelectSeq(m.vertex.at[a].edges, LAMBDA e : Ends(m, e) = {a, b})
    IN IF hits = <<>> THEN None ELSE Head(hits)

Neighbours(m, v) == {CHOOSE w \in Ends(m, e) : w # v : e \in ToSet(m.vertex.at[v].edges)}

VertexFaces(m, v) ==   \* in the order of their ids
    SetToSortSeq(UNION {ToSet(EdgeFaces(m, e)) : e \in ToSet(m.vertex.at[v].edges)}, <)

-----------------------------------------------------------------------------
(* Linkage.                                                                 *)

FindOrCreateEdge(m, a, b) ==   \* the mesh in which EdgeBetween(a, b) is valid
    IF EdgeBetween(m, a, b) # None THEN m
    ELSE LET e == NextId(m.edge)
         IN [AllocEdge(m, a, b) EXCEPT !.vertex.at[a].edges = Append(@, e),
                                       !.vertex.at[b].edges = Append(@, e)]

RadialInsertAfterHead(m, e, l) ==   \* wrong: what came after the head is unlinked
    LET head == m.edge.at[e].radial
    IN IF head = None
       THEN [m EXCEPT !.loop.at[l].edge = e, !.loop.at[l].radialNext = l,
                      !.loop.at[l].radialPrev = l, !.edge.at[e].radial = l]
       ELSE [m EXCEPT !.loop.at[l].edge = e, !.loop.at[l].radialNext = head,
                      !.loop.at[l].radialPrev = head,
                      !.loop.at[head].radialNext = l, !.loop.at[head].radialPrev = l]

RadialInsert(m, e, l) ==   \* at the tail of the cycle
    LET head == m.edge.at[e].radial
        tail == m.loop.at[head].radialPrev
    IN IF head = None
       THEN [m EXCEPT !.loop.at[l].edge = e, !.loop.at[l].radialNext = l,
                      !.loop.at[l].radialPrev = l, !.edge.at[e].radial = l]
       ELSE [m EXCEPT !.loop.at[l].edge = e, !.loop.at[l].radialNext = head,
                      !.loop.at[l].radialPrev = tail,
                      !.loop.at[tail].radialNext = l, !.loop.at[head].radialPrev = l]

RadialRemove(m, l) ==
    LET loop == m.loop.at[l]
        unlinked ==
            IF loop.radialNext = l
            THEN [m EXCEPT !.edge.at[loop.edge].radial = None]
            ELSE [m EXCEPT !.loop.at[loop.radialPrev].radialNext = loop.radialNext,
                           !.loop.at[loop.radialNext].radialPrev = loop.radialPrev,
                           !.edge.at[loop.edge].radial = IF @ = l THEN loop.radialNext ELSE @]
    IN [unlinked EXCEPT !.loop.at[l].radialNext = None, !.loop.at[l].radialPrev = None]

DestroyEdgeIfUnused(m, e) ==
    LET edge == m.edge.at[e]
        Others(list) == SelectSeq(list, LAMBDA x : x # e)
    IN IF ~edge.alive \/ edge.radial # None THEN m
       ELSE [m EXCEPT !.vertex.at[edge.v0].edges = Others(@),
                      !.vertex.at[edge.v1].edges = Others(@),
                      !.edge = Free(@, e)]

-----------------------------------------------------------------------------
(* Construction.                                                            *)

AcceptsFace(m, corners) ==
    /\ Len(corners) >= 3
    /\ \A i \in DOMAIN corners : IsAlive(m.vertex, corners[i])
    /\ IsInjective(corners)

AddFace(m, corners) ==
    LET n == Len(corners)
        f == NextId(m.face)
        loops == NextIds(m.loop, n)
        LinkCorner(acc, i) ==
            LET a == corners[i]
                b == corners[(i % n) + 1]
                withLoop == AllocLoop(acc, a, f, loops[(i % n) + 1], loops[((i + n - 2) % n) + 1])
                withEdge == FindOrCreateEdge(withLoop, a, b)
            IN RadialInsert(withEdge, EdgeBetween(withEdge, a, b), loops[i])
    IN IF ~AcceptsFace(m, corners) THEN m
       ELSE FoldLeftDomain(LinkCorner, AllocFace(m, loops[1], n), corners)

RemoveFace(m, f) ==
    LET loops == FaceLoops(m, f)
        edges == [i \in DOMAIN loops |-> m.loop.at[loops[i]].edge]
        DropLoop(acc, l) == [RadialRemove(acc, l) EXCEPT !.loop = Free(@, l)]
    IN [FoldLeft(DestroyEdgeIfUnused, FoldLeft(DropLoop, m, loops), edges)
            EXCEPT !.face = Free(@, f)]

FromIndexed(points, faces) ==
    FoldLeft(AddFace, FoldLeft(LAMBDA m, i : AddVertex(m), EmptyMesh, [i \in 1..points |-> i]),
             faces)

-----------------------------------------------------------------------------
(* Operators.                                                               *)

NoLinkCondition(m, e, a, b) == TRUE   \* wrong: collapses whatever is asked

LinkConditionHolds(m, e, a, b) ==   \* shared neighbours are apexes of the edge's faces
    (Neighbours(m, a) \cap Neighbours(m, b)) \ {a}
        \subseteq UNION {ToSet(FaceVertices(m, f)) : f \in ToSet(EdgeFaces(m, e))} \ {a, b}

DedupeCyclic(corners) ==
    LET kept == SetToSortSeq({i \in DOMAIN corners :
                                corners[i] # corners[(i % Len(corners)) + 1]}, <)
    IN [i \in DOMAIN kept |-> corners[kept[i]]]

MergeVertices(m, keep, remove) ==
    LET around == m.vertex.at[remove].edges
        other(e) == CHOOSE w \in Ends(m, e) : w # remove
        affected == VertexFaces(m, remove)
        rebuilt(f) == DedupeCyclic(ReplaceAll(FaceVertices(m, f), remove, keep))
        Rebuild(acc, f) ==
            IF AcceptsFace(acc, rebuilt(f))
            THEN [AddFace(acc, rebuilt(f)) EXCEPT !.face.at[NextId(acc.face)].paint
                                                      = m.face.at[f].paint]
            ELSE acc   \* degenerate or touching itself: deleted
        RestoreTag(acc, e) ==
            LET merged == EdgeBetween(acc, keep, other(e))
            IN IF other(e) = keep \/ merged = None THEN acc
               ELSE [acc EXCEPT !.edge.at[merged].feature = @ \/ m.edge.at[e].feature]
        merged == FoldLeft(RestoreTag,
                           FoldLeft(Rebuild, FoldLeft(RemoveFace, m, affected), affected),
                           around)
    IN IF merged.vertex.at[remove].edges = <<>>
       THEN [merged EXCEPT !.vertex = Free(@, remove)] ELSE merged

CollapseIntoSecond(m, e) ==   \* wrong: the other end is kept
    LET a == m.edge.at[e].v0
        b == m.edge.at[e].v1
    IN IF LinkConditionHolds(m, e, a, b) THEN MergeVertices(m, b, a) ELSE m

CollapseEdge(m, e) ==
    LET a == m.edge.at[e].v0
        b == m.edge.at[e].v1
    IN IF LinkConditionHolds(m, e, a, b) THEN MergeVertices(m, a, b) ELSE m

Opposite(m, f, e) == CHOOSE v \in ToSet(FaceVertices(m, f)) : v \notin Ends(m, e)

CanFlip(m, e) ==
    LET faces == EdgeFaces(m, e)
    IN /\ Len(faces) = 2
       /\ m.face.at[faces[1]].size = 3 /\ m.face.at[faces[2]].size = 3
       /\ Opposite(m, faces[1], e) # Opposite(m, faces[2], e)
       /\ EdgeBetween(m, Opposite(m, faces[1], e), Opposite(m, faces[2], e)) = None

FlipEdge(m, e) ==
    LET faces == EdgeFaces(m, e)
        c == Opposite(m, faces[1], e)
        d == Opposite(m, faces[2], e)
        u == m.loop.at[m.edge.at[e].radial].vertex   \* the first face runs u -> w
        w == CHOOSE v \in Ends(m, e) : v # u
        rim == <<<<u, c>>, <<c, w>>, <<w, d>>, <<d, u>>>>
        bare == RemoveFace(RemoveFace(m, faces[1]), faces[2])
        n0 == NextIds(bare.face, 2)[1]
        n1 == NextIds(bare.face, 2)[2]
        faced == [AddFace(AddFace(bare, <<u, d, c>>), <<d, w, c>>)
                    EXCEPT !.face.at[n0].paint = m.face.at[faces[1]].paint,
                           !.face.at[n1].paint = m.face.at[faces[2]].paint]
        RestoreTag(acc, side) ==
            [acc EXCEPT !.edge.at[EdgeBetween(acc, side[1], side[2])].feature
                            = m.edge.at[EdgeBetween(m, side[1], side[2])].feature]
    IN FoldLeft(RestoreTag, faced, rim)

SplitEdge(m, e) ==
    LET a == m.edge.at[e].v0
        b == m.edge.at[e].v1
        mid == NextId(m.vertex)
        halves == FindOrCreateEdge(FindOrCreateEdge(AddVertex(m), a, mid), mid, b)
        ea == EdgeBetween(halves, a, mid)
        eb == EdgeBetween(halves, mid, b)
        tagged == [halves EXCEPT !.edge.at[ea].feature = m.edge.at[e].feature,
                                 !.edge.at[eb].feature = m.edge.at[e].feature]
        Relink(acc, l) ==
            LET loop == acc.loop.at[l]
                lm == NextId(acc.loop)
                forward == loop.vertex = a
                inserted == [AllocLoop(RadialRemove(acc, l), mid, loop.face, loop.next, l)
                               EXCEPT !.loop.at[loop.next].prev = lm, !.loop.at[l].next = lm]
            IN [RadialInsert(RadialInsert(inserted, IF forward THEN ea ELSE eb, l),
                             IF forward THEN eb ELSE ea, lm)
                  EXCEPT !.face.at[loop.face].size = @ + 1]
    IN DestroyEdgeIfUnused(FoldLeft(Relink, tagged, EdgeLoops(m, e)), e)

CornerAt(m, f, v) ==
    LET hits == SelectSeq(FaceLoops(m, f), LAMBDA l : m.loop.at[l].vertex = v)
    IN IF hits = <<>> THEN None ELSE Head(hits)

CanSplitFace(m, f, a, b) ==
    LET la == CornerAt(m, f, a)
        lb == CornerAt(m, f, b)
    IN /\ IsAlive(m.face, f) /\ a # b /\ la # None /\ lb # None
       /\ m.loop.at[la].next # lb /\ m.loop.at[lb].next # la

SplitFace(m, f, a, b) ==   \* f keeps a .. b, the new face gets b .. a
    LET la == CornerAt(m, f, a)
        lb == CornerAt(m, f, b)
        laPrev == m.loop.at[la].prev
        lbPrev == m.loop.at[lb].prev
        cut == FindOrCreateEdge(m, a, b)
        diagonal == EdgeBetween(cut, a, b)
        closeF == NextIds(m.loop, 2)[1]
        closeN == NextIds(m.loop, 2)[2]
        new == NextId(m.face)
        paired == [AllocFace(AllocLoop(AllocLoop(cut, b, f, la, lbPrev), a, new, lb, laPrev), lb, 0)
                     EXCEPT !.loop.at[lbPrev].next = closeF, !.loop.at[la].prev = closeF,
                            !.loop.at[laPrev].next = closeN, !.loop.at[lb].prev = closeN,
                            !.face.at[f].first = la,
                            !.face.at[new].paint = m.face.at[f].paint]
        linked == RadialInsert(RadialInsert(paired, diagonal, closeF), diagonal, closeN)
        moved == FoldLeft(LAMBDA acc, l : [acc EXCEPT !.loop.at[l].face = new],
                          linked, FaceLoops(linked, new))
    IN [moved EXCEPT !.face.at[f].size = Len(FaceLoops(moved, f)),
                     !.face.at[new].size = Len(FaceLoops(moved, new))]

TriangulateFace(m, f) ==   \* cut an ear off, go on with the rest
    LET CutEar(acc, i) ==
            LET v == FaceVertices(acc.m, acc.f)
            IN IF acc.m.face.at[acc.f].size <= 3 \/ ~CanSplitFace(acc.m, acc.f, v[1], v[3])
               THEN acc
               ELSE [m |-> SplitFace(acc.m, acc.f, v[1], v[3]), f |-> NextId(acc.m.face)]
    IN FoldLeft(CutEar, [m |-> m, f |-> f], [i \in 1..m.face.at[f].size |-> i]).m

Triangulate(m) ==   \* the faces there are when it starts
    FoldLeft(LAMBDA acc, f : IF IsAlive(acc.face, f) THEN TriangulateFace(acc, f) ELSE acc,
             m, [f \in DOMAIN m.face.at |-> f])

(* fillHoles walks the table of hole edges in the table's order, which the *)
(* language leaves open: "first" is the vertex that comes first in it.     *)

HoleEdges(m) ==   \* the open side <<b, a>> of each boundary corner a -> b
    {<<m.loop.at[m.loop.at[l].next].vertex, m.loop.at[l].vertex>> :
        l \in {k \in AliveIds(m.loop) : Len(EdgeFaces(m, m.loop.at[k].edge)) = 1}}

HoleVertices(m) == {h[1] : h \in HoleEdges(m)}

WalkHole(m, limit, start) ==   \* the vertices visited, and how the walk ends
    LET holes == HoleEdges(m)
        Out(v) == {h[2] : h \in {g \in holes : g[1] = v}}
        Visit(w) ==
            LET loop == Append(w.loop, w.cur)
                next == CHOOSE v \in Out(w.cur) : TRUE
            IN IF Cardinality(Out(w.cur)) > 1 THEN [w EXCEPT !.end = "branches"]
               ELSE IF Out(w.cur) = {} THEN [w EXCEPT !.loop = loop, !.end = "open"]
               ELSE [loop |-> loop, cur |-> next,
                     end |-> IF next = start THEN "closed"
                             ELSE IF Len(loop) > limit THEN "long" ELSE "walking"]
    IN FoldLeft(LAMBDA w, i : IF w.end = "walking" THEN Visit(w) ELSE w,
                [loop |-> <<>>, cur |-> start, end |-> "walking"], [i \in 1..limit + 2 |-> i])

FillHoles(m, limit, first) ==
    LET Fill(acc, start) ==
            LET walk == WalkHole(m, limit, start)
                seen == acc.visited \cup ToSet(walk.loop)
            IN IF start \in acc.visited THEN acc
               ELSE [visited |-> seen,
                     m |-> IF walk.end = "closed" /\ Len(walk.loop) <= limit
                           THEN AddFace(acc.m, walk.loop) ELSE acc.m]
        order == <<first>> \o SetToSortSeq(HoleVertices(m) \ {first}, <)
    IN IF limit < 3 THEN m ELSE FoldLeft(Fill, [m |-> m, visited |-> {}], order).m

TagFeatureEdges(m, creased) ==   \* creased: every dihedral angle is beyond the threshold
    [m EXCEPT !.edge.at = [e \in DOMAIN @ |->
        IF IsAlive(m.edge, e)
        THEN [@[e] EXCEPT !.feature = creased \/ Len(EdgeFaces(m, e)) # 2] ELSE @[e]]]

-----------------------------------------------------------------------------
(* The calls a host makes.  One that an early return refuses changes        *)
(* nothing and is no step.                                                  *)

Canonical(cycle) ==   \* the same cycle, started at its smallest vertex
    LET n == Len(cycle)
        k == CHOOSE k \in 1..n : \A i \in 1..n : cycle[k] <= cycle[i]
    IN [i \in 1..n |-> cycle[((k + i - 2) % n) + 1]]

Polygon(m, f) == [corners |-> Canonical(FaceVertices(m, f)), paint |-> m.face.at[f].paint]

ToIndexed(m) ==   \* without the renumbering of the points
    LET drawn == {Polygon(m, f) : f \in AliveIds(m.face)}
    IN [points |-> AliveIds(m.vertex),
        polygons |-> [p \in drawn |-> Cardinality({f \in AliveIds(m.face) : Polygon(m, f) = p})]]

Calls(op, args, new) ==
    /\ call.left > 0
    /\ call' = [op |-> op, args |-> args, left |-> call.left - 1]
    /\ mesh' = new
    /\ exported' = ToIndexed(mesh')

Init == \E seed \in Seeds :
    LET m == FromIndexed(seed.points, seed.faces)
    IN /\ mesh = [m EXCEPT !.face.at = [f \in DOMAIN @ |-> [@[f] EXCEPT !.paint = f]]]
       /\ exported = ToIndexed(mesh)
       /\ call = [op |-> "import", args |-> <<>>, left |-> seed.calls]

HostAddsVertex == Calls("addVertex", <<NextId(mesh.vertex)>>, AddVertex(mesh))

HostAddsFace == \E n \in FaceSizes : \E corners \in [1..n -> AliveIds(mesh.vertex)] :
    /\ AcceptsFace(mesh, corners)
    /\ corners = Canonical(corners)   \* bound: the new face starts at its smallest vertex
    /\ Calls("addFace", corners, AddFace(mesh, corners))

HostRemovesFace == \E f \in AliveIds(mesh.face) :
    Calls("removeFace", Polygon(mesh, f), RemoveFace(mesh, f))

HostRemovesVertex == \E v \in AliveIds(mesh.vertex) :
    /\ mesh.vertex.at[v].edges = <<>>
    /\ Calls("removeIsolatedVertex", <<v>>, [mesh EXCEPT !.vertex = Free(@, v)])

HostMerges == \E keep, remove \in AliveIds(mesh.vertex) :
    /\ keep # remove
    /\ Calls("mergeVertices", <<keep, remove>>, MergeVertices(mesh, keep, remove))

EndPair(e) == <<mesh.edge.at[e].v0, mesh.edge.at[e].v1>>

HostCollapses == \E e \in AliveIds(mesh.edge) :
    /\ LinkConditionHolds(mesh, e, EndPair(e)[1], EndPair(e)[2])
    /\ Calls("collapseEdge", EndPair(e), CollapseEdge(mesh, e))

HostFlips == \E e \in AliveIds(mesh.edge) :
    /\ CanFlip(mesh, e)
    /\ Calls("flipEdge", EndPair(e), FlipEdge(mesh, e))

HostSplits == \E e \in AliveIds(mesh.edge) :
    Calls("splitEdge", Append(EndPair(e), NextId(mesh.vertex)), SplitEdge(mesh, e))

HostCutsFace == \E f \in AliveIds(mesh.face) : \E a, b \in ToSet(FaceVertices(mesh, f)) :
    /\ CanSplitFace(mesh, f, a, b)
    /\ Calls("splitFace", <<Polygon(mesh, f), a, b>>, SplitFace(mesh, f, a, b))

HostTriangulates ==
    /\ \E f \in AliveIds(mesh.face) : mesh.face.at[f].size > 3
    /\ Calls("triangulate", <<>>, Triangulate(mesh))

HostFillsHoles == \E first \in HoleVertices(mesh) :
    Calls("fillHoles", <<HoleLimit>>, FillHoles(mesh, HoleLimit, first))

HostTags == \E creased \in BOOLEAN :
    Calls("tagFeatureEdges", <<creased>>, TagFeatureEdges(mesh, creased))

Next == \/ HostAddsVertex \/ HostAddsFace \/ HostRemovesFace \/ HostRemovesVertex
        \/ HostMerges \/ HostCollapses \/ HostFlips \/ HostSplits
        \/ HostCutsFace \/ HostTriangulates \/ HostFillsHoles \/ HostTags

Spec == Init /\ [][Next]_vars

-----------------------------------------------------------------------------
(* What validate() checks, and what it does not.                            *)

LoopValid(m, l) ==
    LET loop == m.loop.at[l]
    IN /\ IsAlive(m.vertex, loop.vertex) /\ IsAlive(m.face, loop.face) /\ IsAlive(m.edge, loop.edge)
       /\ m.loop.at[loop.next].prev = l
       /\ m.loop.at[loop.radialNext].radialPrev = l
       /\ m.loop.at[loop.radialNext].edge = loop.edge
       /\ m.loop.at[loop.next].face = loop.face
       /\ Ends(m, loop.edge) = {loop.vertex, m.loop.at[loop.next].vertex}

FaceValid(m, f) ==
    /\ IsAlive(m.loop, m.face.at[f].first)
    /\ Len(FaceLoops(m, f)) = m.face.at[f].size
    /\ m.face.at[f].size >= 3

EdgeValid(m, e) ==
    /\ m.edge.at[e].v0 # m.edge.at[e].v1
    /\ m.edge.at[e].radial # None
    /\ \A v \in Ends(m, e) :
          /\ IsAlive(m.vertex, v)
          /\ Len(SelectSeq(m.vertex.at[v].edges, LAMBDA x : x = e)) = 1

VertexValid(m, v) == \A e \in ToSet(m.vertex.at[v].edges) : IsAlive(m.edge, e) /\ v \in Ends(m, e)

Validates(m) ==
    /\ \A l \in AliveIds(m.loop) : LoopValid(m, l)
    /\ \A f \in AliveIds(m.face) : FaceValid(m, f)
    /\ \A e \in AliveIds(m.edge) : EdgeValid(m, e)
    /\ \A v \in AliveIds(m.vertex) : VertexValid(m, v)
    /\ \A s \in {m.vertex, m.edge, m.face, m.loop} : s.live = Cardinality(AliveIds(s))

\* After every operator the structure passes the validator the repository's
\* property tests run (Mesh::validate): no reference dangles, the face and
\* radial cycles close, no edge is left without a face.
Valid == Validates(mesh)

\* What validate() does not look at: the radial cycle an edge points at holds
\* every corner that runs along the edge (a face missing from it would be
\* invisible to edgeFaces, the link condition and the flips), and two vertices
\* are joined by one edge.
RadialCyclesComplete ==
    /\ \A e \in AliveIds(mesh.edge) :
          ToSet(EdgeLoops(mesh, e)) = {l \in AliveIds(mesh.loop) : mesh.loop.at[l].edge = e}
    /\ \A d, e \in AliveIds(mesh.edge) : d # e => Ends(mesh, d) # Ends(mesh, e)

StoreSound(s) ==
    /\ IsInjective(s.free)
    /\ ToSet(s.free) = DOMAIN s.at \ AliveIds(s)
    /\ s.live = Cardinality(AliveIds(s))

\* Ids are recycled soundly: each free list holds every dead id exactly once
\* (an id twice on it would be handed to two elements), and the counters are
\* the numbers of live elements.
FreeListsExact == \A s \in {mesh.vertex, mesh.edge, mesh.loop, mesh.face} : StoreSound(s)

\* A host may go on with what any sequence of calls has left: its links, its
\* cycles and its free lists are whole.
StructureSound == Valid /\ RadialCyclesComplete /\ FreeListsExact

Manifold(m) == \A e \in AliveIds(m.edge) : Len(EdgeFaces(m, e)) <= 2

\* What the link condition is for (mesh.hpp, collapseEdge): in a mesh of
\* triangles whose edges have at most two faces, a collapse that is not refused
\* leaves no edge with three.
CollapseKeepsManifold ==
    [][(/\ call'.op = "collapseEdge" /\ Manifold(mesh)
        /\ \A f \in AliveIds(mesh.face) : mesh.face.at[f].size = 3) => Manifold(mesh')]_vars

Kept(f) ==   \* the face has its id, its corners, its loops and its edges
    /\ IsAlive(mesh'.face, f)
    /\ FaceLoops(mesh', f) = FaceLoops(mesh, f)
    /\ FaceVertices(mesh', f) = FaceVertices(mesh, f)
    /\ \A l \in ToSet(FaceLoops(mesh, f)) : mesh'.loop.at[l].edge = mesh.loop.at[l].edge

Touched(f) ==   \* the call is about this face
    LET on == ToSet(FaceVertices(mesh, f))
        args == call'.args
    IN CASE call'.op \in {"mergeVertices", "collapseEdge"} -> args[2] \in on
         [] call'.op \in {"flipEdge", "splitEdge"} -> {args[1], args[2]} \subseteq on
         [] call'.op = "splitFace" -> Polygon(mesh, f) = args[1]
         [] call'.op = "removeFace" -> Polygon(mesh, f) = args
         [] call'.op = "triangulate" -> mesh.face.at[f].size > 3
         [] OTHER -> FALSE

\* "ids stay stable across unrelated mutations" (mesh.hpp): a face that a call
\* is not about keeps its id, its loops and its edges, even while ids around
\* it are freed and handed out again within the call.
UnrelatedFacesStay ==
    [][\A f \in AliveIds(mesh.face) : Touched(f) \/ Kept(f)]_vars

TagOf(m, pair) == m.edge.at[EdgeBetween(m, pair[1], pair[2])].feature

Tagged(m, v) == \E e \in ToSet(m.vertex.at[v].edges) : m.edge.at[e].feature

\* Feature tags "remap consistently through operators that preserve the edge"
\* (mesh-core spec).  A collapse of two vertices without a tagged edge, the only
\* ones the isotropic remesher collapses, leaves every tagged edge that is still
\* there tagged.
TagsSurviveCollapse ==
    [][(/\ call'.op = "collapseEdge"
        /\ ~Tagged(mesh, call'.args[1]) /\ ~Tagged(mesh, call'.args[2]))
       => \A e \in AliveIds(mesh.edge) :
             LET kept == EdgeBetween(mesh', EndPair(e)[1], EndPair(e)[2])
             IN mesh.edge.at[e].feature /\ kept # None => mesh'.edge.at[kept].feature]_vars

Abstract == INSTANCE PolygonMesh WITH points <- exported.points, polygons <- exported.polygons

\* The linked structure does to the polygons what each call promises: no face is
\* lost, doubled or turned, each keeps its attributes through a rebuild, and no
\* recycled id lends its old attributes to a new face.
ImplementsPolygons == Abstract!Spec
=============================================================================
