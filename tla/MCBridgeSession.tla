--------------------------- MODULE MCBridgeSession ---------------------------
(* BridgeSession with two clients that keep a copy of the EditMesh. *)
EXTENDS BridgeSession, TLC

MarkerOps == {"push_editmesh", "pull_editmesh", "query_changed", "clear_scene"}

Symmetry == Permutations(Client) \cup Permutations(Mesh) \cup Permutations(Action)
=============================================================================
