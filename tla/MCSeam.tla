-------------------------------- MODULE MCSeam --------------------------------
(* SeamPath alone, on the meshes of MeshSeeds. *)
EXTENDS SeamPath, MeshSeeds
=============================================================================
