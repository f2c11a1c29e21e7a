----------------------------- MODULE HintStore -----------------------------
(***************************************************************************)
(* The hint store of one holder (dynamokv/hint_store.py) and the threads   *)
(* that use it.  Each target replica has one row in the hint database: a   *)
(* dictionary from keys to sibling lists.  add and clear_key load the row, *)
(* change it and write it back under one lock; pending_for reads without   *)
(* the lock.  add runs in executor threads and in request threads, the     *)
(* flush in the gossip thread.  The process may stop anywhere; the rows,   *)
(* written in one transaction each, stay.                                  *)
(***************************************************************************)
EXTENDS SiblingMerge

CONSTANTS Target, Key, Version,
          KeyOf,         \* the key each version is a version of
          Adder,         \* threads that add hints
          Flusher,       \* the gossip thread
          Nobody,
          MaxCounter,    \* bound: counters of the clocks
          MaxAdds,       \* bound: calls of add
          MaxCrashes     \* bound: stops of the process

ASSUME HintTargets == IsFiniteSet(Target)
ASSUME HintKeys == KeyOf \in [Version -> Key]
ASSUME HintThreads == Flusher \notin Adder /\ Nobody \notin Adder \cup {Flusher}
ASSUME HintBounds == MaxCounter \in Nat /\ MaxAdds \in Nat /\ MaxCrashes \in Nat

VARIABLES
    clk,        \* the clock each version was minted with
    rows,       \* the hint database: per target that has a row, its dictionary
    lock,       \* the thread inside add or clear_key
    adding,     \* what each adder is doing
    flush,      \* what the gossip thread is doing
    adds, crashes,
    got         \* history: per target and key, the versions added since it
                \* was last cleared, first one first

threadVars == <<lock, adding, flush>>
vars == <<clk, rows, threadVars, adds, crashes, got>>

Thread == Adder \cup {Flusher}
NoBlob == <<>>
Resting == [to |-> Nobody]
Waiting == [to |-> Nobody, left |-> NoBlob, todo |-> <<>>, step |-> "rest", blob |-> NoBlob]

\* d[x] = y and del d[x], of a dictionary.
With(d, x, y) == [z \in DOMAIN d \cup {x} |-> IF z = x THEN y ELSE d[z]]
Without(d, x) == [z \in DOMAIN d \ {x} |-> d[z]]

\* _load: the dictionary of a target, {} without a row.
Load(t) == IF t \in DOMAIN rows THEN rows[t] ELSE NoBlob
\* blob.get(key, [])
Siblings(blob, k) == IF k \in DOMAIN blob THEN blob[k] ELSE <<>>

Init == /\ clk \in [Version -> [Node -> 0..MaxCounter] \ {ZeroClock}]
        /\ rows = <<>>
        /\ lock = Nobody
        /\ adding = [a \in Adder |-> Resting]
        /\ flush = Waiting
        /\ adds = 0 /\ crashes = 0
        /\ got = [t \in Target |-> [k \in Key |-> <<>>]]

-----------------------------------------------------------------------------
(* add *)

\* Slip: add does not take the lock.
MayEnterUnlocked(th) == TRUE
MayEnter(th) == lock = Nobody

\* Into the lock, and the blob is loaded.
StartAdd(a, t, v) ==
    /\ adding[a] = Resting /\ MayEnter(a) /\ adds < MaxAdds
    /\ lock' = a
    /\ adds' = adds + 1
    /\ adding' = [adding EXCEPT ![a] = [to |-> t, put |-> v, blob |-> Load(t)]]
    /\ UNCHANGED <<clk, rows, flush, crashes, got>>

WithHint(blob, v) ==
    With(blob, KeyOf[v], ReconcileList(clk, Siblings(blob, KeyOf[v]), v))

FinishAdd(a) ==
    /\ adding[a] # Resting
    /\ LET c == adding[a]
       IN  /\ rows' = With(rows, c.to, WithHint(c.blob, c.put))
           /\ got' = [got EXCEPT ![c.to][KeyOf[c.put]] = Append(@, c.put)]
    /\ lock' = Nobody
    /\ adding' = [adding EXCEPT ![a] = Resting]
    /\ UNCHANGED <<clk, flush, adds, crashes>>

-----------------------------------------------------------------------------
(* _flush_hints_for, in the gossip thread *)

\* pending_for: a copy, read without the lock.
StartFlush(t) ==
    /\ flush = Waiting /\ Load(t) # NoBlob
    /\ flush' = [Waiting EXCEPT !.to = t, !.left = Load(t), !.step = "send"]
    /\ UNCHANGED <<clk, rows, lock, adding, adds, crashes, got>>

\* The next key of the copy; its versions are sent in the order of the list.
BeginKey(k) ==
    /\ flush.step = "send" /\ flush.todo = <<>> /\ k \in DOMAIN flush.left
    /\ flush' = [flush EXCEPT !.todo = flush.left[k], !.left = Without(@, k)]
    /\ UNCHANGED <<clk, rows, lock, adding, adds, crashes, got>>

Sending == flush.step = "send" /\ flush.todo # <<>>

\* The replica answers 200 ...
Delivered ==
    /\ Sending
    /\ flush' = [flush EXCEPT !.step = "clear"]
    /\ UNCHANGED <<clk, rows, lock, adding, adds, crashes, got>>

\* ... or something else, or the call fails: the next version is tried.
NotDelivered ==
    /\ Sending
    /\ flush' = [flush EXCEPT !.todo = Tail(@)]
    /\ UNCHANGED <<clk, rows, lock, adding, adds, crashes, got>>

EndFlush ==
    /\ flush.step = "send" /\ flush.todo = <<>> /\ flush.left = NoBlob
    /\ flush' = Waiting
    /\ UNCHANGED <<clk, rows, lock, adding, adds, crashes, got>>

\* clear_key: into the lock, and the blob is loaded.
StartClear ==
    /\ flush.step = "clear" /\ MayEnter(Flusher)
    /\ lock' = Flusher
    /\ flush' = [flush EXCEPT !.step = "save", !.blob = Load(flush.to)]
    /\ UNCHANGED <<clk, rows, adding, adds, crashes, got>>

\* Slip: an empty row is kept.
ClearedKeepRow(t, blob, k) == With(rows, t, Without(blob, k))
\* The database after clear_key of a blob that has the key: a row for what is
\* left, none if nothing is.
Cleared(t, blob, k) ==
    IF DOMAIN blob = {k} THEN Without(rows, t) ELSE With(rows, t, Without(blob, k))

FinishClear ==
    /\ flush.step = "save"
    /\ LET k == KeyOf[Head(flush.todo)]
       IN  /\ rows' = IF k \in DOMAIN flush.blob THEN Cleared(flush.to, flush.blob, k) ELSE rows
           /\ got' = [got EXCEPT ![flush.to][k] = <<>>]
    /\ lock' = Nobody
    /\ flush' = [flush EXCEPT !.step = "send", !.todo = Tail(@), !.blob = NoBlob]
    /\ UNCHANGED <<clk, adding, adds, crashes>>

-----------------------------------------------------------------------------
\* The process stops and starts again: its threads and its lock are new.
Crash ==
    /\ crashes < MaxCrashes
    /\ crashes' = crashes + 1
    /\ lock' = Nobody
    /\ adding' = [a \in Adder |-> Resting]
    /\ flush' = Waiting
    /\ UNCHANGED <<clk, rows, adds, got>>

\* Nothing to send is left, and no more hints come.
Drained == /\ adds = MaxAdds /\ flush = Waiting /\ rows = <<>>
           /\ \A a \in Adder : adding[a] = Resting
           /\ UNCHANGED vars

Next == \/ \E a \in Adder, t \in Target, v \in Version : StartAdd(a, t, v)
        \/ \E a \in Adder : FinishAdd(a)
        \/ \E t \in Target : StartFlush(t)
        \/ \E k \in Key : BeginKey(k)
        \/ Delivered \/ NotDelivered \/ EndFlush \/ StartClear \/ FinishClear
        \/ Crash \/ Drained

Spec == Init /\ [][Next]_vars

-----------------------------------------------------------------------------
(* Properties *)

\* A target has a row exactly while something is kept for it: has_pending, which
\* only looks whether the row exists, never disagrees with pending_for.  A row
\* is a dictionary from keys to lists of versions of that key.
RowMeansPending ==
    /\ DOMAIN rows \subseteq Target
    /\ \A t \in DOMAIN rows :
          /\ rows[t] # NoBlob /\ DOMAIN rows[t] \subseteq Key
          /\ \A k \in DOMAIN rows[t] :
                /\ rows[t][k] # <<>>
                /\ ToSet(rows[t][k]) \subseteq {v \in Version : KeyOf[v] = k}

\* Of versions sent in a list, those that no other dominates, one per clock.
MaximalClocks(S) == {c \in {clk[v] : v \in S} :
                        \A w \in S : Compare(clk[w], c) # "dominates"}

Kept(t, k) == Siblings(Load(t), k)

\* Whatever threads add at once, clear and stop in whatever order: each list
\* has exactly the maximal clocks of what was added and not cleared since, each
\* on one version: "the true antichain" of the docstring of reconcile.
OrderIndependent ==
    \A t \in Target, k \in Key :
        LET sibs == ToSet(Kept(t, k))
        IN  /\ {clk[v] : v \in sibs} = MaximalClocks(ToSet(got[t][k]))
            /\ IsAntichain(clk, sibs)
            /\ Len(Kept(t, k)) = Cardinality(sibs)

\* The order decides one thing only, which of several values minted under one
\* clock is kept: the first, however often the others are added.
FirstOfEqualClocks ==
    \A t \in Target, k \in Key : \A v \in ToSet(Kept(t, k)) :
        \A i \in DOMAIN got[t][k] :
            clk[got[t][k][i]] = clk[v] => \E j \in 1..i : got[t][k][j] = v

\* Lists that reconcile built, merged by the loop of _merged_read in any order,
\* leave what MergeInOrder says: the modules that use the operator use the code.
MergeIsFold ==
    \A k \in Key : \A order \in SetToSeqs(Target) :
        LET answers == [i \in DOMAIN order |-> Kept(order[i], k)]
            sets    == [i \in DOMAIN order |-> ToSet(answers[i])]
        IN  ToSet(MergedList(clk, answers)) = MergeInOrder(clk, sets)

\* The store is a mailbox per replica and key, as Mailbox promises: no add is
\* lost to another thread's add or clear, a clear takes one key of one target,
\* after a 200, and a stop between load and save leaves all as it was.
KeptSets == [t \in Target |-> [k \in Key |-> ToSet(Kept(t, k))]]
DueBoxes == IF flush.step \in {"clear", "save"}
            THEN {<<flush.to, KeyOf[Head(flush.todo)]>>} ELSE {}

Promise == INSTANCE Mailbox WITH mail <- KeptSets, due <- DueBoxes
IsMailbox == Promise!Spec
=============================================================================
