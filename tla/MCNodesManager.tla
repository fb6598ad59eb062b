-------------------------- MODULE MCNodesManager --------------------------
(* The messages about automations of the run of NodesManager. *)
EXTENDS NodesManager

Lists == {<<"u1","u2">>}
=============================================================================
