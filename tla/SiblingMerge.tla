---------------------------- MODULE SiblingMerge ----------------------------
(***************************************************************************)
(* reconcile and the merged read on lists, exactly as in the code.  The    *)
(* other modules work on sets of versions; HintStore, which keeps lists,   *)
(* checks that the two agree.                                              *)
(***************************************************************************)
EXTENDS VectorClock, Picking, SequencesExt

Superseded(clk, incoming, v) == Compare(clk[incoming], clk[v]) = "dominates"
Known(clk, sibs, incoming) ==
    \E i \in DOMAIN sibs : DominatesOrEqual(clk[sibs[i]], clk[incoming])

\* Slip: superseded siblings are left in place.
ReconcileListNoDrop(clk, sibs, incoming) ==
    IF Known(clk, sibs, incoming) THEN sibs ELSE Append(sibs, incoming)

\* Slip: an equal clock is taken for a retransmission that may be replaced.
ReconcileListReplaceEqual(clk, sibs, incoming) ==
    IF \E i \in DOMAIN sibs : Compare(clk[sibs[i]], clk[incoming]) = "dominates"
    THEN sibs
    ELSE Append(Picked(sibs, {i \in DOMAIN sibs :
                    ~ DominatesOrEqual(clk[incoming], clk[sibs[i]])}), incoming)

ReconcileList(clk, sibs, incoming) ==
    IF Known(clk, sibs, incoming) THEN sibs
    ELSE Append(Picked(sibs, {i \in DOMAIN sibs : ~ Superseded(clk, incoming, sibs[i])}),
                incoming)

\* The inner loop of _merged_read: one list, version after version, reconciled
\* into the siblings found so far.
Absorbed(clk, sibs, list) ==
    LET after[i \in 0..Len(list)] ==
            IF i = 0 THEN sibs ELSE ReconcileList(clk, after[i - 1], list[i])
    IN  after[Len(list)]

\* Slip: the merge restarts with every answer, so only the last one counts.
MergedListLastAnswer(clk, answers) == Absorbed(clk, <<>>, Last(answers))

\* The outer loop: answer after answer, into an empty list.
MergedList(clk, answers) ==
    LET after[i \in 0..Len(answers)] ==
            IF i = 0 THEN <<>> ELSE Absorbed(clk, after[i - 1], answers[i])
    IN  after[Len(answers)]
=============================================================================
