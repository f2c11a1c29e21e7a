----------------------------- MODULE MCQuorumKV -----------------------------
(* Instances of QuorumKV for TLC: a symmetry set. *)
EXTENDS QuorumKV, TLC

\* Where all replicas or none are suspected they are all alike, and so are the puts.
ReplicasAndPuts == Permutations(Prefs) \cup Permutations(Put)
=============================================================================
