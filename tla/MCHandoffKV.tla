---------------------------- MODULE MCHandoffKV ----------------------------
(* Instances of HandoffKV for TLC. *)
EXTENDS HandoffKV, TLC

PutsAlike == Permutations(Put)
=============================================================================
