--------------------------- MODULE MCNodeProcess ---------------------------
(* Instances of NodeProcess for TLC. *)
EXTENDS NodeProcess

TwoNodes == <<"node-1", "node-2">>
=============================================================================
