------------------------------ MODULE QuorumKV ------------------------------
(***************************************************************************)
(* The quorum operations of dynamokv/node.py on one key: get, put and      *)
(* delete coordinated by any node, fanned out to the replicas of the key's *)
(* preference list, with hinted handoff to one neighbour for the replicas  *)
(* a put cannot reach.  Keys do not interact, so one key is modelled.      *)
(*                                                                         *)
(* A request runs in a thread of its coordinator.  Each of its calls to a  *)
(* replica runs in a thread of its own (the executor, then the replica's   *)
(* request thread) and outlives the request when the quorum is met without *)
(* it.  A call that fails at the caller, by a timeout or a broken          *)
(* connection, may or may not have reached the replica and may still take  *)
(* effect there at any later time.  put_local is not atomic: it reads the  *)
(* stored list, reconciles, and writes the result with no lock held.       *)
(***************************************************************************)
EXTENDS VectorClock

CONSTANTS
    Prefs,           \* the preference list of the key: the N replicas
    Holder,          \* the next node of the ring, that takes hints; or NoNode
    NoNode,
    R, W,            \* read and write quorum, as configured
    Put, Get, Delete,\* the requests; a put also names the version it mints
    Suspects,        \* replicas that gossip may report down, rightly or not
    MaxActive,       \* bound: requests a client may have open at a time
    MaxFaults        \* bound: calls that fail at their caller

Write   == Put \cup Delete
Request == Put \cup Get \cup Delete

ASSUME RingAssumption ==
    /\ Prefs \subseteq Node /\ Prefs # {} /\ IsFiniteSet(Prefs)
    /\ NoNode \notin Node
    /\ Holder \in (Node \ Prefs) \cup {NoNode}
    /\ Suspects \subseteq Prefs

ASSUME QuorumAssumption == R \in Nat \ {0} /\ W \in Nat \ {0}

ASSUME RequestAssumption ==
    /\ IsFiniteSet(Put)
    /\ Put \cap Get = {} /\ Put \cap Delete = {} /\ Get \cap Delete = {}

ASSUME BoundAssumption == MaxActive \in Nat /\ MaxFaults \in Nat

VARIABLES
    \* at the replicas and at the holder
    store,     \* the sibling list each replica stores for the key
    hints,     \* what the holder keeps for each replica (HintStore)
    \* at the coordinators, per request
    phase, coord,
    answers,   \* replies to the read fan-out that came back in time
    merged,    \* what the merged read returned
    targets,   \* replicas the write fan-out goes to
    acked,     \* replicas whose write call returned success
    missed,    \* replicas whose call of the current fan-out failed
    hinting,   \* replicas a hint is being delivered for
    clk,       \* the clock a put minted; ZeroClock before
    \* calls under way
    sent,      \* write calls no replica thread has begun to handle
    loading,   \* put_local calls between their read and their write
    stray,     \* hint calls that failed at the coordinator
    faults,
    \* history, for the properties only
    before,    \* the writes acknowledged before the request began
    hist,      \* the versions a put's version was minted on top of, and itself
    raced,     \* replicas where a put_local overwrote what it had not read
    found      \* delete calls that removed something

replicaVars == <<store, hints, raced, found>>
requestVars == <<phase, coord, answers, merged, before>>
writeVars   == <<targets, acked, missed, hinting, clk, hist>>
callVars    == <<sent, loading, stray, faults>>
vars == <<replicaVars, requestVars, writeVars, callVars>>

-----------------------------------------------------------------------------
(* Quorums *)

\* min(self.r, len(prefs)) and min(self.w, len(prefs))
AtMostPrefs(q) == IF q <= Cardinality(Prefs) THEN q ELSE Cardinality(Prefs)
ReadThreshold  == AtMostPrefs(R)
WriteThreshold == AtMostPrefs(W)

Open(o) == phase[o] \in {"read", "handoff", "write"}
MayStart(o) == /\ phase[o] = "idle"
               /\ Cardinality({q \in Request : Open(q)}) < MaxActive

Answered(o) == {a.from : a \in answers[o]}

\* Slip: one answer short of the quorum is enough.
ReadQuorumOffByOne(o) == Cardinality(answers[o]) + 1 >= ReadThreshold
ReadQuorum(o) == Cardinality(answers[o]) >= ReadThreshold

\* Slip: a replica that was given up, and hinted, counts as written.
WriteQuorumWithHints(o) == Cardinality(acked[o] \cup missed[o]) >= WriteThreshold
WriteQuorum(o) == Cardinality(acked[o]) >= WriteThreshold

\* The answers in an order as_completed may yield them in.
Arrival(o) == {s \in [1..Cardinality(answers[o]) -> answers[o]] :
                  \A i, j \in DOMAIN s : i # j => s[i] # s[j]}
MergedRead(order) == MergeInOrder(clk, [i \in DOMAIN order |-> order[i].versions])

\* The clock of a new version: what was read, plus one write of this node.
\* Slips: count on from the coordinator's own entry only; reuse the clock read.
NewClockOwnEntry(read, c) ==
    [ZeroClock EXCEPT ![c] = MergeClocks({clk[v] : v \in read})[c] + 1]
NewClockNoIncrement(read, c) ==
    IF read = {} THEN Incremented(ZeroClock, c)
    ELSE MergeClocks({clk[v] : v \in read})
NewClock(read, c) == Incremented(MergeClocks({clk[v] : v \in read}), c)

-----------------------------------------------------------------------------
Init ==
    /\ store = [n \in Prefs |-> {}] /\ hints = [n \in Prefs |-> {}]
    /\ raced = {} /\ found = {}
    /\ phase = [o \in Request |-> "idle"]
    /\ coord = [o \in Request |-> NoNode]
    /\ answers = [o \in Request |-> {}]
    /\ merged = [o \in Request |-> {}]
    /\ before = [o \in Request |-> {}]
    /\ targets = [o \in Write |-> {}] /\ acked = [o \in Write |-> {}]
    /\ missed = [o \in Request |-> {}] /\ hinting = [p \in Put |-> {}]
    /\ clk = [p \in Put |-> ZeroClock] /\ hist = [p \in Put |-> {}]
    /\ sent = {} /\ loading = {} /\ stray = {} /\ faults = 0

-----------------------------------------------------------------------------
(* The merged read that begins every get and every put *)

\* get(key) or put(key, value) arrives at node c, which asks all replicas.
StartRead(o, c) ==
    /\ o \in Put \cup Get /\ MayStart(o)
    /\ phase' = [phase EXCEPT ![o] = "read"]
    /\ coord' = [coord EXCEPT ![o] = c]
    /\ before' = [before EXCEPT ![o] = {q \in Write : phase[q] = "done"}]
    /\ UNCHANGED <<answers, merged, replicaVars, writeVars, callVars>>

Reading(o, n) == /\ phase[o] = "read" /\ ~ ReadQuorum(o)
                 /\ n \notin Answered(o) \cup missed[o]

\* The replica answers with what it stores now (get_local).
ServeRead(o, n) ==
    /\ Reading(o, n)
    /\ answers' = [answers EXCEPT ![o] = @ \cup {[from |-> n, versions |-> store[n]]}]
    /\ UNCHANGED <<phase, coord, merged, before, replicaVars, writeVars, callVars>>

\* The call raises: the replica does not count.  A local read makes no call.
MissRead(o, n) ==
    /\ Reading(o, n) /\ n # coord[o] /\ faults < MaxFaults
    /\ missed' = [missed EXCEPT ![o] = @ \cup {n}]
    /\ faults' = faults + 1
    /\ UNCHANGED <<targets, acked, hinting, clk, hist, sent, loading, stray,
                   replicaVars, requestVars>>

\* Slip: wait for a quorum that can no longer come.
RefuseReadOnlyIfAllMissed(o) ==
    /\ phase[o] = "read" /\ missed[o] = Prefs
    /\ phase' = [phase EXCEPT ![o] = "refused"]
    /\ UNCHANGED <<coord, answers, merged, before, replicaVars, writeVars, callVars>>

\* 503: all calls returned, too few with an answer.
RefuseRead(o) ==
    /\ phase[o] = "read" /\ ~ ReadQuorum(o)
    /\ Answered(o) \cup missed[o] = Prefs
    /\ phase' = [phase EXCEPT ![o] = "refused"]
    /\ UNCHANGED <<coord, answers, merged, before, replicaVars, writeVars, callVars>>

\* get: 404 on an empty merged list, 200 on one version, 409 on more.
AnswerGet(g) ==
    /\ g \in Get /\ phase[g] = "read" /\ ReadQuorum(g)
    /\ \E order \in Arrival(g) : merged' = [merged EXCEPT ![g] = MergedRead(order)]
    /\ phase' = [phase EXCEPT ![g] = "done"]
    /\ answers' = [answers EXCEPT ![g] = {}]
    /\ UNCHANGED <<coord, before, replicaVars, writeVars, callVars>>

-----------------------------------------------------------------------------
(* put, after its read *)

\* What _partition_by_liveness may find presumed down; never the node itself.
PresumedDown(c) == SUBSET (Suspects \ {c})

\* The new version is minted, then the replicas are split by what gossip says
\* of them; nothing keeps another put of this node from minting in between.
MintVersion(p) ==
    /\ p \in Put /\ phase[p] = "read" /\ ReadQuorum(p)
    /\ \E order \in Arrival(p), down \in PresumedDown(coord[p]) :
          LET read == MergedRead(order)
          IN  /\ merged' = [merged EXCEPT ![p] = read]
              /\ clk' = [clk EXCEPT ![p] = NewClock(read, coord[p])]
              /\ hist' = [hist EXCEPT ![p] = {p} \cup UNION {hist[v] : v \in read}]
              /\ targets' = [targets EXCEPT ![p] = Prefs \ down]
              /\ hinting' = [hinting EXCEPT ![p] = IF Holder = NoNode THEN {} ELSE down]
    /\ phase' = [phase EXCEPT ![p] = "handoff"]
    /\ answers' = [answers EXCEPT ![p] = {}]
    /\ missed' = [missed EXCEPT ![p] = {}]
    /\ UNCHANGED <<coord, before, acked, replicaVars, callVars>>

\* Slip: a call whose failure was hinted for is never counted as missed.
HintDoneUncounted(p, n) ==
    hinting' = [hinting EXCEPT ![p] = @ \ {n}] /\ UNCHANGED missed

\* The failure of a call counts only after its hint was attempted.
HintDone(p, n) ==
    /\ hinting' = [hinting EXCEPT ![p] = @ \ {n}]
    /\ missed' = IF phase[p] = "handoff" THEN missed
                 ELSE [missed EXCEPT ![p] = @ \cup {n}]

\* HintStore.add at the holder, under its lock.
AddHint(n, p) == hints' = [hints EXCEPT ![n] = Reconcile(clk, @, p)]

\* _deliver_hint reaches the holder.
DeliverHint(p, n) ==
    /\ n \in hinting[p]
    /\ AddHint(n, p) /\ HintDone(p, n)
    /\ UNCHANGED <<store, raced, found, targets, acked, clk, hist, requestVars, callVars>>

\* _deliver_hint fails, which it keeps to itself.
LoseHint(p, n) ==
    /\ n \in hinting[p] /\ coord[p] # Holder /\ faults < MaxFaults
    /\ stray' = stray \cup {<<p, n>>}
    /\ faults' = faults + 1
    /\ HintDone(p, n)
    /\ UNCHANGED <<targets, acked, clk, hist, sent, loading, replicaVars, requestVars>>

\* A hint call that timed out is handled after all.
StrayHint(p, n) ==
    /\ <<p, n>> \in stray
    /\ AddHint(n, p)
    /\ stray' = stray \ {<<p, n>>}
    /\ UNCHANGED <<store, raced, found, sent, loading, faults, requestVars, writeVars>>

\* The hints for presumed-down replicas come before the fan-out to the others.
FanOut(p) ==
    /\ p \in Put /\ phase[p] = "handoff" /\ hinting[p] = {}
    /\ phase' = [phase EXCEPT ![p] = "write"]
    /\ sent' = sent \cup ({p} \X targets[p])
    /\ UNCHANGED <<coord, answers, merged, before, loading, stray, faults,
                   replicaVars, writeVars>>

-----------------------------------------------------------------------------
(* delete: no read, no liveness split, no hints *)

StartDelete(d, c) ==
    /\ d \in Delete /\ MayStart(d)
    /\ phase' = [phase EXCEPT ![d] = "write"]
    /\ coord' = [coord EXCEPT ![d] = c]
    /\ before' = [before EXCEPT ![d] = {q \in Write : phase[q] = "done"}]
    /\ targets' = [targets EXCEPT ![d] = Prefs]
    /\ sent' = sent \cup ({d} \X Prefs)
    /\ UNCHANGED <<answers, merged, acked, missed, hinting, clk, hist,
                   loading, stray, faults, replicaVars>>

-----------------------------------------------------------------------------
(* The write calls, at the replicas *)

Hinting(o) == IF o \in Put THEN hinting[o] ELSE {}
Waiting(o, n) == n \in targets[o] \ (acked[o] \cup missed[o] \cup Hinting(o))

\* The call returns success, if its caller still waits for it.
Ack(o, n) == acked' = IF Waiting(o, n) THEN [acked EXCEPT ![o] = @ \cup {n}] ELSE acked

\* put_local, first half: the stored list is read.
LoadLocal(p, n) ==
    /\ p \in Put /\ <<p, n>> \in sent
    /\ sent' = sent \ {<<p, n>>}
    /\ loading' = loading \cup {[put |-> p, at |-> n, base |-> store[n]]}
    /\ UNCHANGED <<stray, faults, replicaVars, requestVars, writeVars>>

\* put_local, second half: what was read, reconciled, is written.
StoreLocal(p, n) ==
    /\ \E h \in loading :
          /\ h.put = p /\ h.at = n
          /\ loading' = loading \ {h}
          /\ store' = [store EXCEPT ![n] = Reconcile(clk, h.base, p)]
          /\ raced' = IF h.base = store[n] THEN raced ELSE raced \cup {n}
    /\ Ack(p, n)
    /\ UNCHANGED <<hints, found, targets, missed, hinting, clk, hist,
                   sent, stray, faults, requestVars>>

\* delete_local is one call of the storage, which locks.
DeleteLocal(d, n) ==
    /\ d \in Delete /\ <<d, n>> \in sent
    /\ sent' = sent \ {<<d, n>>}
    /\ store' = [store EXCEPT ![n] = {}]
    /\ found' = IF store[n] = {} THEN found ELSE found \cup {<<d, n>>}
    /\ Ack(d, n)
    /\ UNCHANGED <<hints, raced, targets, missed, hinting, clk, hist,
                   loading, stray, faults, requestVars>>

\* A write call fails at the coordinator, even after the response to the
\* client; a put then hands the version to the holder.
FailWrite(o, n) ==
    /\ phase[o] \in {"write", "done"} /\ Waiting(o, n) /\ n # coord[o]
    /\ faults < MaxFaults
    /\ faults' = faults + 1
    /\ IF o \in Put /\ Holder # NoNode
       THEN hinting' = [hinting EXCEPT ![o] = @ \cup {n}] /\ UNCHANGED missed
       ELSE missed' = [missed EXCEPT ![o] = @ \cup {n}] /\ UNCHANGED hinting
    /\ UNCHANGED <<targets, acked, clk, hist, sent, loading, stray,
                   replicaVars, requestVars>>

AnswerWrite(o) ==
    /\ phase[o] = "write" /\ WriteQuorum(o)
    /\ phase' = [phase EXCEPT ![o] = "done"]
    /\ UNCHANGED <<coord, answers, merged, before, replicaVars, writeVars, callVars>>

\* 503: all calls returned, too few with success.  Nothing is rolled back.
RefuseWrite(o) ==
    /\ phase[o] = "write" /\ ~ WriteQuorum(o)
    /\ acked[o] \cup missed[o] = targets[o]
    /\ phase' = [phase EXCEPT ![o] = "refused"]
    /\ UNCHANGED <<coord, answers, merged, before, replicaVars, writeVars, callVars>>

-----------------------------------------------------------------------------
Quiesced == /\ \A o \in Request : phase[o] \in {"done", "refused"}
            /\ sent = {} /\ loading = {} /\ stray = {}
            /\ \A p \in Put : hinting[p] = {}
            /\ UNCHANGED vars

ReadStep(o) == \/ \E c \in Node : StartRead(o, c)
               \/ \E n \in Prefs : ServeRead(o, n) \/ MissRead(o, n)
               \/ RefuseRead(o) \/ AnswerGet(o)

WriteStep(o) == \/ \E c \in Node : StartDelete(o, c)
                \/ MintVersion(o) \/ FanOut(o)
                \/ AnswerWrite(o) \/ RefuseWrite(o)

CallStep(o, n) == \/ LoadLocal(o, n) \/ StoreLocal(o, n)
                  \/ DeleteLocal(o, n) \/ FailWrite(o, n)

HintStep(p, n) == \/ DeliverHint(p, n) \/ LoseHint(p, n) \/ StrayHint(p, n)

Next == \/ \E o \in Request : ReadStep(o)
        \/ \E o \in Write : WriteStep(o) \/ \E n \in Prefs : CallStep(o, n)
        \/ \E p \in Put, n \in Prefs : HintStep(p, n)
        \/ Quiesced

Spec == Init /\ [][Next]_vars
-----------------------------------------------------------------------------
(* Scheduling.  Every call ends, with an answer or by the 5 s timeout of the *)
(* HTTP client; the thread of a request, once it can go on, does; and a call *)
(* that is still waited for is handled by its replica or fails.  Nothing is  *)
(* assumed of calls that were given up: they may be handled or not.          *)
CallEnds(o, n) == LoadLocal(o, n) \/ StoreLocal(o, n) \/ DeleteLocal(o, n)

Fairness ==
    /\ \A o \in Request :
          /\ WF_vars(RefuseRead(o)) /\ WF_vars(AnswerGet(o))
          /\ \A n \in Prefs : WF_vars(ServeRead(o, n) \/ MissRead(o, n))
    /\ \A o \in Write :
          /\ WF_vars(MintVersion(o)) /\ WF_vars(FanOut(o))
          /\ WF_vars(AnswerWrite(o)) /\ WF_vars(RefuseWrite(o))
          /\ \A n \in Prefs : WF_vars(Waiting(o, n) /\ CallEnds(o, n))
    /\ \A p \in Put, n \in Prefs : WF_vars(DeliverHint(p, n))

FairSpec == Spec /\ Fairness

-----------------------------------------------------------------------------
(* Properties *)

Phase == {"idle", "read", "handoff", "write", "done", "refused"}

\* Types of all variables.
TypeOK ==
    /\ store \in [Prefs -> SUBSET Put] /\ hints \in [Prefs -> SUBSET Put]
    /\ raced \subseteq Prefs /\ found \subseteq Delete \X Prefs
    /\ phase \in [Request -> Phase]
    /\ coord \in [Request -> Node \cup {NoNode}]
    /\ answers \in [Request -> SUBSET [from : Prefs, versions : SUBSET Put]]
    /\ merged \in [Request -> SUBSET Put]
    /\ before \in [Request -> SUBSET Write]
    /\ targets \in [Write -> SUBSET Prefs] /\ acked \in [Write -> SUBSET Prefs]
    /\ missed \in [Request -> SUBSET Prefs]
    /\ hinting \in [Put -> SUBSET Prefs]
    /\ clk \in [Put -> Clock] /\ hist \in [Put -> SUBSET Put]
    /\ sent \subseteq Write \X Prefs
    /\ loading \subseteq [put : Put, at : Prefs, base : SUBSET Put]
    /\ stray \subseteq Put \X Prefs
    /\ faults \in 0..MaxFaults

Minted(p)  == clk[p] # ZeroClock
HasRead(o) == IF o \in Get THEN phase[o] = "done" ELSE o \in Put /\ Minted(o)
NoDelete   == \A d \in Delete : phase[d] = "idle"

\* No stored, hinted, loaded or returned list ever holds a version another one
\* of the list supersedes, nor two under one clock ("no version here is
\* superseded by another", reconcile): put_local may write a list built from
\* what it read long ago, and hints are merged from several coordinators.
Antichains ==
    /\ \A n \in Prefs : IsAntichain(clk, store[n]) /\ IsAntichain(clk, hints[n])
    /\ \A h \in loading : IsAntichain(clk, h.base)
    /\ \A o \in Request : /\ IsAntichain(clk, merged[o])
                          /\ \A a \in answers[o] : IsAntichain(clk, a.versions)

\* The replicas by which a read and a write quorum overlap.
Overlap == ReadThreshold + WriteThreshold - Cardinality(Prefs)

\* A put that was answered 200 is stored, or superseded, on as many replicas as
\* the write quorum: hints, presumed-down replicas and failed calls never stand
\* in for one (the Node docstring).  Each replica where an overlapping
\* put_local overwrote what it had not read costs one.
DurableQuorum ==
    \A p \in Put : phase[p] = "done" /\ NoDelete =>
        Cardinality({n \in Prefs : Covers(clk, store[n], clk[p])})
            >= WriteThreshold - Cardinality(raced)

\* A read that begins after a put was acknowledged returns the put's version or
\* one that supersedes it, whatever calls fail, are late or overlap, as long as
\* fewer replicas had put_local calls racing than the two quorums share.
ReadSeesAcked ==
    \A o \in Put \cup Get : HasRead(o) /\ NoDelete /\ Cardinality(raced) < Overlap =>
        \A p \in before[o] \cap Put : Covers(clk, merged[o], clk[p])

\* Two puts of which one began after the other was acknowledged never look
\* concurrent, nor alike: the later version dominates (node.put mints on top of
\* its merged read), so one client that waits for its answers sees no conflict.
SequentialPutsOrdered ==
    \A p, q \in Put :
        Minted(q) /\ p \in before[q] /\ NoDelete /\ Cardinality(raced) < Overlap =>
            Compare(clk[q], clk[p]) = "dominates"

\* Each put of a node was minted on top of the ones this node minted earlier.
OneWriteAtATime ==
    \A p, q \in {v \in Put : Minted(v)} :
        coord[p] = coord[q] => p \in hist[q] \/ q \in hist[p]

\* What a clock is for: it dominates another exactly when its version was made
\* with knowledge of the other's.  True as long as no node mints a version
\* without knowledge of its own earlier ones; which quorums do not ensure.
ClockIsHistory ==
    OneWriteAtATime =>
        \A p, q \in {v \in Put : Minted(v)} :
            DominatesOrEqual(clk[q], clk[p]) <=> p \in hist[q]

\* A counter never exceeds the writes its node has authored (VectorClock
\* docstring), so no clock claims knowledge of a write that does not exist.
ClockCountsWrites ==
    \A p \in Put, c \in Node :
        clk[p][c] <= Cardinality({q \in Put : Minted(q) /\ coord[q] = c})

\* A replica forgets a version only for one that supersedes it, for a delete it
\* handles, or when put_local calls raced there.
OnlyDeletesForget ==
    [][\A n \in Prefs :
          \/ n \in raced'
          \/ \E d \in Delete : <<d, n>> \in sent \ sent'
          \/ \A v \in store[n] : Covers(clk', store'[n], clk[v])]_vars

CallUnderWay(o, n) == \/ <<o, n>> \in sent \/ n \in Hinting(o)
                      \/ \E h \in loading : h.put = o /\ h.at = n

\* No write waits for nothing: once none of its calls and hints is under way, each
\* call is accounted for, as a success or as missed, and as_completed ends: the
\* request is answered or refused, whatever failed, and after whichever hint.
WritesAwaitCalls ==
    \A o \in Write : phase[o] = "write" /\ (\A n \in Prefs : ~ CallUnderWay(o, n)) =>
        WriteQuorum(o) \/ acked[o] \cup missed[o] = targets[o]

\* Every request is answered in the end, with a result or a 503: no combination
\* of failed, late and hinted calls leaves its thread waiting.
RequestAnswered == \A o \in Request : Open(o) ~> phase[o] \in {"done", "refused"}

\* To its clients the store is the regular register of module Register, sound as
\* long as fewer replicas had put_local calls racing than the quorums share: all
\* that replicas, fan-outs, failed and late calls and hints do in between shows
\* in no answer but in ways the register allows.
Stage(o) == IF Open(o) THEN "open" ELSE phase[o]
Regular == INSTANCE Register WITH
              stage <- [o \in Request |-> Stage(o)],
              result <- merged,
              sound <- Cardinality(raced) < Overlap
IsRegister == Regular!Spec

-----------------------------------------------------------------------------
(* What the documents say without a condition *)

\* README.md, "Design decisions": "a successful write is never invisible to a
\* subsequent read under normal operation", for R + W > N.
AckedIsVisible ==
    Overlap > 0 =>
        \A o \in Put \cup Get : HasRead(o) /\ NoDelete =>
            \A p \in before[o] \cap Put : Covers(clk, merged[o], clk[p])

\* README.md, "Design decisions": "two writes neither of which causally precedes
\* the other" surface "as a 409 with both versions, rather than being silently
\* resolved": a read after both has each write, or one made knowing of it.
ConflictSurfaces ==
    Overlap > 0 /\ raced = {} =>
        \A o \in Get : HasRead(o) /\ NoDelete =>
            before[o] \cap Put \subseteq UNION {hist[v] : v \in merged[o]}
=============================================================================
