------------------------------- MODULE MCBridge -------------------------------
(* The bridge with few threads, descriptor numbers, clients and meshes. *)
EXTENDS Bridge, TLC

\* Connection threads are interchangeable.
Symmetry == Permutations(Handler)
=============================================================================
