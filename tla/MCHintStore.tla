---------------------------- MODULE MCHintStore ----------------------------
(* Instances of HintStore for TLC. *)
EXTENDS HintStore

CONSTANTS v1, v2, v3, k1, k2

\* Two versions of one key, one of another.
VersionKey == v1 :> k1 @@ v2 :> k1 @@ v3 :> k2
=============================================================================
