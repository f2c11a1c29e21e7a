----------------------------- MODULE HandoffKV -----------------------------
(***************************************************************************)
(* QuorumKV together with the other half of hinted handoff: the gossip     *)
(* thread of the holder, which after every round sends what it keeps for a *)
(* replica it does not believe down to that replica (_flush_hints_for).    *)
(* The replica handles the call like any replica write, with the same      *)
(* unlocked put_local.  Which replicas are believed down is gossip's, and  *)
(* may be wrong either way, so a flush of any replica may begin any time.  *)
(***************************************************************************)
EXTENDS QuorumKV

CONSTANT NoVersion

ASSUME HolderIsKnown == Holder # NoNode
ASSUME NoVersionAssumption == NoVersion \notin Put

VARIABLES
    flush,        \* what the gossip thread of the holder is doing
    handed,       \* handoff calls no replica thread has begun to handle
    unpacking,    \* handoff put_local calls between their read and their write;
                  \* of each call, whether the flush still waits for it
    dropped       \* history: hints cleared that the flush had not delivered

handoffVars == <<flush, handed, unpacking, dropped>>
allVars == <<vars, handoffVars>>

\* Between flushes: no target, nothing to send, no call waited for.
Idle == [to |-> NoNode, left |-> {}, now |-> NoVersion, ok |-> FALSE]

HInit == Init /\ flush = Idle /\ handed = {} /\ unpacking = {} /\ dropped = {}

\* pending_for: a copy of what is kept for the replica, read without the lock.
BeginFlush(n) ==
    /\ flush = Idle /\ hints[n] # {}
    /\ flush' = [Idle EXCEPT !.to = n, !.left = hints[n]]
    /\ UNCHANGED <<vars, handed, unpacking, dropped>>

\* The versions of the copy are sent one after the other.
SendHint(v) ==
    /\ v \in flush.left /\ flush.now = NoVersion
    /\ flush' = [flush EXCEPT !.left = @ \ {v}, !.now = v]
    /\ handed' = handed \cup {[put |-> v, at |-> flush.to, waited |-> TRUE]}
    /\ UNCHANGED <<vars, unpacking, dropped>>

\* put_local at the replica, first half.
LoadHanded(v, n) ==
    /\ \E c \in handed :
          /\ c.put = v /\ c.at = n
          /\ handed' = handed \ {c}
          /\ unpacking' = unpacking \cup
                {[put |-> v, at |-> n, waited |-> c.waited, base |-> store[n]]}
    /\ UNCHANGED <<vars, flush, dropped>>

\* put_local, second half, and the 200 if the flush still waits for it.
StoreHanded(v, n) ==
    /\ \E h \in unpacking :
          /\ h.put = v /\ h.at = n
          /\ unpacking' = unpacking \ {h}
          /\ store' = [store EXCEPT ![n] = Reconcile(clk, h.base, v)]
          /\ raced' = IF h.base = store[n] THEN raced ELSE raced \cup {n}
          /\ flush' = IF h.waited THEN [flush EXCEPT !.ok = TRUE] ELSE flush
    /\ UNCHANGED <<hints, found, requestVars, writeVars, callVars, handed, dropped>>

\* Slips: clear although the call failed; never clear.
ClearKeyAlways(n) ==
    /\ flush.now # NoVersion
    /\ hints' = [hints EXCEPT ![n] = {}]
ClearKeyNever(n) == flush.ok /\ UNCHANGED hints
\* On a 200, clear_key removes all that is kept for the replica under the key,
\* the versions not sent yet and those added since pending_for included.
ClearKey(n) == flush.ok /\ hints' = [hints EXCEPT ![n] = {}]

HintHanded ==
    /\ flush.to \in Prefs
    /\ ClearKey(flush.to)
    /\ dropped' = dropped \cup ((hints[flush.to] \ {flush.now}) \X {flush.to})
    /\ flush' = [flush EXCEPT !.now = NoVersion, !.ok = FALSE]
    /\ UNCHANGED <<store, raced, found, requestVars, writeVars, callVars, handed, unpacking>>

Abandoned(calls) == {[c EXCEPT !.waited = FALSE] : c \in calls}

\* The call fails, handled or not: what is kept stays, for the next round.
HandoffFails ==
    /\ flush.now # NoVersion /\ ~ flush.ok /\ faults < MaxFaults
    /\ faults' = faults + 1
    /\ flush' = [flush EXCEPT !.now = NoVersion]
    /\ handed' = Abandoned(handed) /\ unpacking' = Abandoned(unpacking)
    /\ UNCHANGED <<sent, loading, stray, replicaVars, requestVars, writeVars, dropped>>

EndFlush ==
    /\ flush.to # NoNode /\ flush.left = {} /\ flush.now = NoVersion
    /\ flush' = Idle
    /\ UNCHANGED <<vars, handed, unpacking, dropped>>

FlushStep == \/ \E n \in Prefs : BeginFlush(n)
             \/ \E v \in Put : SendHint(v)
             \/ \E v \in Put, n \in Prefs : LoadHanded(v, n) \/ StoreHanded(v, n)
             \/ HintHanded \/ HandoffFails \/ EndFlush

HNext == (Next /\ UNCHANGED handoffVars) \/ FlushStep

HSpec == HInit /\ [][HNext]_allVars

-----------------------------------------------------------------------------
(* Scheduling: as in QuorumKV, and the gossip thread goes on for ever; a     *)
(* replica that stays reachable is believed up again and again, so its turn  *)
(* comes, and the call the flush waits for is handled or fails.              *)

Waited(v, n) == \E c \in handed \cup unpacking : c.put = v /\ c.at = n /\ c.waited

HandoffFairness ==
    /\ \A n \in Prefs : WF_allVars(BeginFlush(n))
    /\ \A v \in Put : WF_allVars(SendHint(v))
    /\ \A v \in Put, n \in Prefs :
          WF_allVars(Waited(v, n) /\ (LoadHanded(v, n) \/ StoreHanded(v, n)))
    /\ WF_allVars(HintHanded) /\ WF_allVars(EndFlush)

HFairSpec == HSpec /\ Fairness /\ HandoffFairness

-----------------------------------------------------------------------------
(* Properties *)

\* Where the version of p for replica n can still be found, or what excuses it.
GivenUp(p, n) == /\ Minted(p) /\ phase[p] # "handoff"
                 /\ n \in missed[p] \/ n \notin targets[p]
KeptOrStored(p, n) == Covers(clk, hints[n], clk[p]) \/ Covers(clk, store[n], clk[p])

\* A version handed to the holder for a replica that was given up is never
\* lost: it, or a newer one, is still kept for the replica or stored there.
\* The exceptions are a hint call that failed, put_local calls that raced at
\* the replica, a hint that was cleared although it was not delivered, and a
\* delete, which leaves nothing behind that a hint could be older than.
HintsConserved ==
    NoDelete => \A p \in Put, n \in Prefs :
        GivenUp(p, n) /\ n \notin raced /\ <<p, n>> \notin stray
        /\ (\A d \in dropped : d[2] # n)
            => KeptOrStored(p, n)

\* Handing off an old hint never takes a newer version from a replica: what a
\* replica forgets it forgets as in QuorumKV.
HandoffForgetsNothing ==
    [][\A n \in Prefs :
          \/ n \in raced'
          \/ \E d \in Delete : <<d, n>> \in sent \ sent'
          \/ \A v \in store[n] : Covers(clk', store'[n], clk[v])]_allVars

\* README, "How it works": a replica's missed write is handed to a neighbour
\* and "delivered once gossip reports it's back": what is kept goes out.
HintsDrain == \A n \in Prefs : hints[n] # {} ~> hints[n] = {}

\* ... and arrives, with the version itself or a newer one; the exceptions are
\* those of HintsConserved.
HintsArrive ==
    \A p \in Put, n \in Prefs :
        GivenUp(p, n) /\ <<p, n>> \notin stray ~>
            \/ Covers(clk, store[n], clk[p])
            \/ n \in raced \/ \E d \in dropped : d[2] = n

\* The Node docstring, without exceptions for siblings and timing: the holder
\* "delivers it once gossip reports the real target is back".
HintedIsNotLost ==
    \A p \in Put, n \in Prefs :
        GivenUp(p, n) /\ n \notin raced /\ <<p, n>> \notin stray => KeptOrStored(p, n)
=============================================================================
