------------------------------ MODULE MeshSeeds ------------------------------
(***************************************************************************)
(* Small meshes a host imports: a fan around an inner vertex, a quad beside *)
(* a triangle, three triangles on one edge, a tetrahedron, two triangles,   *)
(* and an octahedron.  And two meshes for SeamPath, as graphs: a triangle   *)
(* with a dear side and an edge apart from it, and the same without the     *)
(* vertex opposite that side, with the least costs on them, by Floyd's      *)
(* algorithm.                                                               *)
(***************************************************************************)
EXTENDS Integers, FiniteSetsExt, SequencesExt

Fan   == [points |-> 5, faces |-> <<<<1, 2, 3>>, <<1, 3, 4>>, <<1, 4, 5>>, <<1, 5, 2>>>>, calls |-> 2]
Strip == [points |-> 5, faces |-> <<<<1, 2, 3, 4>>, <<3, 2, 5>>>>, calls |-> 2]
Book  == [points |-> 5, faces |-> <<<<1, 2, 3>>, <<2, 1, 4>>, <<1, 2, 5>>>>, calls |-> 2]
Tetra == [points |-> 4, faces |-> <<<<1, 2, 3>>, <<1, 4, 2>>, <<2, 4, 3>>, <<3, 4, 1>>>>, calls |-> 2]
Pair  == [points |-> 4, faces |-> <<<<1, 2, 3>>, <<2, 4, 3>>>>, calls |-> 3]

\* A square around two inner vertices, 5 and 6.
Square == [points |-> 6, faces |-> <<<<1, 2, 5>>, <<2, 6, 5>>, <<2, 3, 6>>, <<3, 4, 6>>,
                                     <<4, 5, 6>>, <<4, 1, 5>>>>, calls |-> 2]

Octa  == [points |-> 6, faces |-> <<<<1, 2, 5>>, <<2, 3, 5>>, <<3, 4, 5>>, <<4, 1, 5>>,
                                    <<2, 1, 6>>, <<3, 2, 6>>, <<4, 3, 6>>, <<1, 4, 6>>>>, calls |-> 1]

SeedMeshes == {Fan, Strip, Book, Tetra, Pair, Octa}
SquareMesh == {Square}

-----------------------------------------------------------------------------
Triangle == {{1, 2}, {2, 3}, {1, 3}, {4, 5}}
SeamMesh == <<Triangle, Triangle \ {{1, 2}, {2, 3}}>>
SeamCost == [e \in Triangle |-> IF e = {1, 3} THEN 3 ELSE 1]

FarAway == 100
Through(least, k) ==
    [u \in 1 .. 5 |-> [v \in 1 .. 5 |-> Min({least[u][v], least[u][k] + least[k][v], FarAway})]]
SeamLeast ==
    [i \in DOMAIN SeamMesh |->
        FoldLeft(Through,
                 [u \in 1 .. 5 |-> [v \in 1 .. 5 |->
                    IF u = v THEN 0 ELSE IF {u, v} \in SeamMesh[i] THEN SeamCost[{u, v}] ELSE FarAway]],
                 <<1, 2, 3, 4, 5>>)]
=============================================================================
