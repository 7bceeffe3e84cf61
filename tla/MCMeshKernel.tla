---------------------------- MODULE MCMeshKernel ----------------------------
(* The mesh kernel alone, on the meshes of MeshSeeds. *)
EXTENDS MeshKernel, MeshSeeds
=============================================================================
