---------------------------- MODULE VectorClock ----------------------------
(***************************************************************************)
(* Vector clocks and sibling versions of one key: the pure functions of    *)
(* dynamokv/vector_clock.py.                                               *)
(*                                                                         *)
(* A clock is a total function from nodes to counters; the entry a         *)
(* dictionary does not have reads as 0 in the code (VectorClock.get), so   *)
(* it is 0 here.  A version is an opaque identifier: an immutable value    *)
(* minted once.  Its clock is looked up in a function clk, because two     *)
(* different values may well carry equal clocks.  A sibling list is the    *)
(* set of its versions: reconcile never keeps two versions of equal clock, *)
(* and the order inside one list never decides which version survives      *)
(* (HintStoreProofs proves both of the lists of SiblingMerge).             *)
(***************************************************************************)
EXTENDS Integers, FiniteSets, Sequences

CONSTANT Node            \* the cluster roster: who can author a write

Clock == [Node -> Nat]
ZeroClock == [n \in Node |-> 0]

Largest(S) == CHOOSE x \in S : \A y \in S : y <= x

-----------------------------------------------------------------------------
(* VectorClock methods *)

\* A "slip" is a plausible bug of the operator after it, for the mutation runs.
\* Slip: a write counts twice.
IncrementedTwice(c, n) == [c EXCEPT ![n] = @ + 2]

Incremented(c, n) == [c EXCEPT ![n] = @ + 1]

Compare(c, d) ==
    LET ge == \A n \in Node : c[n] >= d[n]
        le == \A n \in Node : d[n] >= c[n]
    IN  IF ge /\ le THEN "equal" ELSE IF ge THEN "dominates"
        ELSE IF le THEN "dominated" ELSE "concurrent"

DominatesOrEqual(c, d) == Compare(c, d) \in {"dominates", "equal"}

MergeClocks(C) == [n \in Node |-> Largest({0} \cup {c[n] : c \in C})]

-----------------------------------------------------------------------------
(* Sibling sets: versions of one key, none of which supersedes another *)

\* Some version of S carries everything the clock c counts.
Covers(clk, S, c) == \E v \in S : DominatesOrEqual(clk[v], c)

IsAntichain(clk, S) ==
    \A v, w \in S : v # w => ~ DominatesOrEqual(clk[v], clk[w])

\* Slips: keep the versions that incoming supersedes; take incoming unseen.
ReconcileNoDrop(clk, existing, incoming) ==
    IF Covers(clk, existing, clk[incoming]) THEN existing
    ELSE existing \cup {incoming}

ReconcileLastWins(clk, existing, incoming) == {incoming}

\* reconcile(existing, incoming)
Reconcile(clk, existing, incoming) ==
    IF Covers(clk, existing, clk[incoming]) THEN existing
    ELSE {v \in existing : Compare(clk[incoming], clk[v]) # "dominates"}
            \cup {incoming}

(***************************************************************************)
(* The loop of _merged_read: every version of every list, list after list, *)
(* reconciled into an empty one.  What the fold leaves is said without     *)
(* one: the versions nothing dominates and, where two versions have equal  *)
(* clocks, the one of the earlier list.  (HintStoreProofs proves that the  *)
(* loop over lists, in SiblingMerge, leaves this set.)                     *)
(***************************************************************************)
MergeInOrder(clk, lists) ==
    {v \in UNION {lists[i] : i \in DOMAIN lists} :
        \E i \in DOMAIN lists :
            /\ v \in lists[i]
            /\ \A j \in DOMAIN lists : \A w \in lists[j] :
                  DominatesOrEqual(clk[w], clk[v]) =>
                      /\ clk[w] = clk[v]
                      /\ j >= i}
=============================================================================
