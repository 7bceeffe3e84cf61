----------------------------- MODULE PolygonMesh -----------------------------
(***************************************************************************)
(* What the mesh kernel promises its callers: a set of points and a bag of *)
(* polygons over them, each a cycle of corners with one attribute value.   *)
(* There are no edges, loops, ids of faces or free lists here: an edge is  *)
(* two consecutive corners.  MeshKernel implements it.                     *)
(***************************************************************************)
EXTENDS Integers, Sequences, FiniteSets, SequencesExt, BagsExt

CONSTANTS Plain    \* the default attribute value

VARIABLES points, polygons,
          call     \* the last call: [op, args, left]

vars == <<points, polygons, call>>

Following(c, i) == c[(i % Len(c)) + 1]
DirectedEdges(c) == {<<c[i], Following(c, i)>> : i \in DOMAIN c}
EdgesOf(c) == {{c[i], Following(c, i)} : i \in DOMAIN c}

Started(c, i) == [j \in DOMAIN c |-> c[((i + j - 2) % Len(c)) + 1]]   \* at the i-th corner
Cycle(c) == Started(c, CHOOSE i \in DOMAIN c : \A j \in DOMAIN c : c[i] <= c[j])

PolygonOf(c, p) == [corners |-> Cycle(c), paint |-> p]

Edges == UNION {EdgesOf(p.corners) : p \in BagToSet(polygons)}
Around(v) == {w \in points : {v, w} \in Edges}

Count(B, S) == MapThenSumSet(LAMBDA p : B[p], S)   \* how many the bag has of a set

Having(edge) == {p \in BagToSet(polygons) : edge \in EdgesOf(p.corners)}
Users(edge) == Count(polygons, Having(edge))

Calls(op, args) == call'.op = op /\ call'.args = args

\* The polygons change one by one, as Change says; those it leaves with fewer
\* than three corners are dropped.
Become(Change(_)) ==
    LET left == {p \in BagToSet(polygons) : Len(Change(p)) >= 3}
        Changed(p) == PolygonOf(Change(p), p.paint)
    IN polygons' = [q \in {Changed(p) : p \in left} |->
                        Count(polygons, {p \in left : Changed(p) = q})]

-----------------------------------------------------------------------------
AddVertex(v) ==
    /\ Calls("addVertex", <<v>>)
    /\ v \notin points /\ points' = points \cup {v}
    /\ UNCHANGED polygons

RemoveIsolatedVertex(v) ==
    /\ Calls("removeIsolatedVertex", <<v>>)
    /\ v \in points /\ Around(v) = {}
    /\ points' = points \ {v}
    /\ UNCHANGED polygons

AddFace(c) ==
    /\ Calls("addFace", c)
    /\ Len(c) >= 3 /\ IsInjective(c) /\ ToSet(c) \subseteq points
    /\ polygons' = BagAdd(polygons, PolygonOf(c, Plain))
    /\ UNCHANGED points

RemoveFace(p) ==
    /\ Calls("removeFace", p)
    /\ BagIn(p, polygons)
    /\ polygons' = BagRemove(polygons, p)
    /\ UNCHANGED points

\* A polygon with both ends of an edge loses one corner, one with both vertices
\* that are not neighbours in it is dropped, one with "remove" alone gets "keep".
Merged(c, keep, remove) ==
    IF remove \notin ToSet(c) THEN c
    ELSE IF keep \notin ToSet(c) THEN [i \in DOMAIN c |-> IF c[i] = remove THEN keep ELSE c[i]]
    ELSE IF {keep, remove} \in EdgesOf(c) THEN Remove(c, remove)
    ELSE <<>>

Merge(keep, remove) ==
    /\ {keep, remove} \subseteq points /\ keep # remove
    /\ points' = points \ {remove}
    /\ Become(LAMBDA p : Merged(p.corners, keep, remove))

MergeVertices(keep, remove) ==
    Calls("mergeVertices", <<keep, remove>>) /\ Merge(keep, remove)

\* Only when the ends share no neighbour but the corners of the edge's polygons.
CollapseEdge(a, b) ==
    /\ Calls("collapseEdge", <<a, b>>)
    /\ {a, b} \in Edges
    /\ Around(a) \cap Around(b) \subseteq UNION {ToSet(p.corners) : p \in Having({a, b})}
    /\ Merge(a, b)

\* Two triangles (u, w, c) and (w, u, d), or (u, w, d), become (u, d, c) and
\* (d, w, c), each with the attributes of the one it replaces.
FlipEdge(a, b) ==
    /\ Calls("flipEdge", <<a, b>>)
    /\ Users({a, b}) = 2
    /\ \E p, q \in Having({a, b}) : \E c, d \in points : \E u, w \in {a, b} :
          /\ u # w /\ c # d /\ {c, d} \notin Edges
          /\ p.corners = Cycle(<<u, w, c>>)
          /\ q.corners \in {Cycle(<<w, u, d>>), Cycle(<<u, w, d>>)}
          /\ polygons' = BagAdd(BagAdd(BagRemove(BagRemove(polygons, p), q),
                                       PolygonOf(<<u, d, c>>, p.paint)),
                                PolygonOf(<<d, w, c>>, q.paint))
    /\ UNCHANGED points

\* Every polygon along the edge gets the new vertex between the edge's ends.
SplitEdge(a, b, mid) ==
    LET Between(p) == CHOOSE i \in DOMAIN p.corners :
                        {p.corners[i], Following(p.corners, i)} = {a, b}
    IN /\ Calls("splitEdge", <<a, b, mid>>)
       /\ {a, b} \in Edges /\ mid \notin points
       /\ points' = points \cup {mid}
       /\ Become(LAMBDA p : IF {a, b} \in EdgesOf(p.corners)
                            THEN InsertAt(p.corners, Between(p) + 1, mid) ELSE p.corners)

\* The polygon, started at a, is cut where b comes.
SplitFace(p, a, b) ==
    LET c == Started(p.corners, CHOOSE i \in DOMAIN p.corners : p.corners[i] = a)
        k == CHOOSE k \in DOMAIN c : c[k] = b
    IN /\ Calls("splitFace", <<p, a, b>>)
       /\ BagIn(p, polygons) /\ a # b /\ {a, b} \notin EdgesOf(p.corners)
       /\ polygons' = BagAdd(BagAdd(BagRemove(polygons, p),
                                    PolygonOf(SubSeq(c, 1, k), p.paint)),
                             PolygonOf(SubSeq(c, k, Len(c)) \o <<a>>, p.paint))
       /\ UNCHANGED points

\* Triangles alone are left; as many as the corners ask for, of each paint;
\* and together they have the boundary the polygons had (a side counts +1 along
\* one direction and -1 along the other).
Boundary(B, x, y) ==
    Count(B, {p \in BagToSet(B) : <<x, y>> \in DirectedEdges(p.corners)})
    - Count(B, {p \in BagToSet(B) : <<y, x>> \in DirectedEdges(p.corners)})

Ears(B, paint) ==
    MapThenSumSet(LAMBDA p : B[p] * (Len(p.corners) - 2),
                  {p \in BagToSet(B) : p.paint = paint})

Triangulate ==
    /\ Calls("triangulate", <<>>)
    /\ \A p \in BagToSet(polygons') : Len(p.corners) = 3
    /\ \A paint \in {p.paint : p \in BagToSet(polygons) \cup BagToSet(polygons')} :
          Ears(polygons', paint) = Ears(polygons, paint)
    /\ \A x, y \in points : Boundary(polygons', x, y) = Boundary(polygons, x, y)
    /\ UNCHANGED points

\* Holes: simple cycles of open sides.  What is filled is a hole of at most
\* "limit" sides, turned as its surroundings are; and a hole of at most "limit"
\* sides with nothing else open at its corners is filled.
OpenSides(B) ==
    {<<e[2], e[1]>> : e \in {d \in UNION {DirectedEdges(p.corners) : p \in BagToSet(B)} :
        Count(B, {p \in BagToSet(B) : {d[1], d[2]} \in EdgesOf(p.corners)}) = 1}}

CleanHole(open, S) ==   \* S is made of cycles of open sides with nothing else open there
    \A v \in S : \E x, y \in S : {s \in open : v \in {s[1], s[2]}} = {<<x, v>>, <<v, y>>}

FillHoles(limit) ==
    LET new == polygons' (-) polygons
        open == OpenSides(polygons')
    IN /\ Calls("fillHoles", <<limit>>)
       /\ polygons' = polygons (+) new
       /\ \A h \in BagToSet(new) :
             /\ new[h] = 1 /\ h.paint = Plain /\ Len(h.corners) \in 3..limit
             /\ DirectedEdges(h.corners) \subseteq OpenSides(polygons)
             /\ \A g \in BagToSet(new) \ {h} : ToSet(g.corners) \cap ToSet(h.corners) = {}
       /\ ~ \E S \in SUBSET {s[1] : s \in open} :
              S # {} /\ Cardinality(S) <= limit /\ CleanHole(open, S)
       /\ UNCHANGED points

TagFeatureEdges == call'.op = "tagFeatureEdges" /\ UNCHANGED <<points, polygons>>

-----------------------------------------------------------------------------
Init == IsABag(polygons) /\ \A p \in BagToSet(polygons) : ToSet(p.corners) \subseteq points

Next ==
    LET arg == call'.args
    IN CASE call'.op = "addVertex" -> AddVertex(arg[1])
         [] call'.op = "removeIsolatedVertex" -> RemoveIsolatedVertex(arg[1])
         [] call'.op = "addFace" -> AddFace(arg)
         [] call'.op = "removeFace" -> RemoveFace(arg)
         [] call'.op = "mergeVertices" -> MergeVertices(arg[1], arg[2])
         [] call'.op = "collapseEdge" -> CollapseEdge(arg[1], arg[2])
         [] call'.op = "flipEdge" -> FlipEdge(arg[1], arg[2])
         [] call'.op = "splitEdge" -> SplitEdge(arg[1], arg[2], arg[3])
         [] call'.op = "splitFace" -> SplitFace(arg[1], arg[2], arg[3])
         [] call'.op = "triangulate" -> Triangulate
         [] call'.op = "fillHoles" -> FillHoles(arg[1])
         [] call'.op = "tagFeatureEdges" -> TagFeatureEdges
         [] OTHER -> FALSE

Spec == Init /\ [][Next]_vars
=============================================================================
