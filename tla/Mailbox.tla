------------------------------ MODULE Mailbox ------------------------------
(***************************************************************************)
(* What a hint holder promises, with no thread, lock, blob or row in it:   *)
(* for each replica and key a mailbox of versions.  A version is taken in  *)
(* with one step; a mailbox is emptied with one step, of that replica and  *)
(* key alone, and only when the replica has just accepted a version of     *)
(* that key.  (Module HintStore implements it.)                            *)
(***************************************************************************)
EXTENDS VectorClock

CONSTANTS Target, Key, Version, KeyOf

VARIABLES clk,     \* the clock each version was minted with
          mail,    \* the versions kept, per replica and key
          due      \* the mailboxes whose replica has just accepted a version

Init == /\ clk \in [Version -> Clock \ {ZeroClock}]
        /\ mail = [t \in Target |-> [k \in Key |-> {}]]
        /\ due = {}

Take(t, v) ==
    /\ mail' = [mail EXCEPT ![t][KeyOf[v]] = Reconcile(clk, @, v)]
    /\ UNCHANGED <<clk, due>>

\* The replica answers a delivery of what was, some time, in its mailbox.
Accept(t, k) == due' = {<<t, k>>} /\ UNCHANGED <<clk, mail>>

Empty(t, k) ==
    /\ due = {<<t, k>>}
    /\ mail' = [mail EXCEPT ![t][k] = {}]
    /\ due' = {}
    /\ UNCHANGED clk

\* A holder that restarts keeps its mail, and delivers it again.
Forget == due' = {} /\ UNCHANGED <<clk, mail>>

Next == \/ \E t \in Target, v \in Version : Take(t, v)
        \/ \E t \in Target, k \in Key : Accept(t, k) \/ Empty(t, k)
        \/ Forget

Spec == Init /\ [][Next]_<<clk, mail, due>>
=============================================================================
