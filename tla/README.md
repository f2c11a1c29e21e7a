# TLA+ models of dynamokv

Specifications, model-checking runs and machine-checked proofs of the Dynamo-style
key-value store in `src/dynamokv`: quorum reads and writes on vector clocks, hinted
handoff, liveness gossip, the hash ring, the path of a request through auth and logs, the
thread pools, and the life of the processes with their keys and certificates. `PROJECT.json` maps every definition to the
lines it models (paths there start at the repository's own `src/`, so `node.py` is
`src/src/dynamokv/node.py`) and lists components, runs, mutants, findings, hazards and
theorems. This file is the prose that goes with it.

## 1. Inventory

A cluster is a fixed roster of processes, identical but for their name. Each runs a public
server (clients), an internal one (peers) and a metrics one on one event loop; route
handlers run in a thread pool, the calls of a fan-out in an executor of the `Node`, and
gossip in a thread of its own. Nothing but HTTP connects processes, and inside a process
nothing but a lock in `HintStore` and one in `recent_ops` orders threads.

| Component | State | Operations | Interacts with | What is hard |
|---|---|---|---|---|
| quorum operations, `node.py` | none across requests; one fan-out per request | `get`, `put`, `delete`, `_quorum_op`, `_merged_read`, replica side `get_local`, `put_local`, `delete_local` | ring (who), peers (internal PUT/GET/DELETE), storage, gossip (who is down), hint holder | stragglers after the answer, failed calls that take effect, unlocked read-reconcile-write, read-then-mint |
| vector clocks, `vector_clock.py` | immutable | `incremented`, `compare`, `merge`, `reconcile` | every list of siblings | order and repetition of merges, equal clocks on different values |
| hint store and handoff, `hint_store.py`, `node.py` | per target, per key a list of siblings, in a storage of its own | `add`, `pending_for`, `clear_key`; `_deliver_hint`, `_flush_hints_for` | coordinators add, the gossip thread hands off to the target's `put_local` | adding while flushing, clearing what was not sent, retries |
| gossip, `gossip.py`, `node.py` | a table of counters with local timestamps | `tick`, `to_wire`, `merge_wire`, `believed_down`, `gossip_round`, `handle_gossip` | every node's gossip thread and request threads | merges race without a lock, restarts reset counters, old tables arrive late |
| hash ring, `ring.py` | points and their owners | `add_node`, `remove_node`, `get_node`, `get_preference_list` | `node.py` for replicas and hint holder | wrap-around, exact hits, repeated joins and leaves |
| gossip worker, `gossip_worker.py`, lifespan in `main.py` | thread, stop event | `start`, `stop`, `_run` | `gossip_round` | stop gives up on a thread that goes on; start clears the event it was to see |
| thread pools, `Node._executor`, the server's handler threads | who is on which thread | submit, run, time out | every fan-out, every handler | handlers wait for handlers of other nodes; stragglers and dead peers hold workers |
| storage, `storage/` | a table | `get`, `put`, `delete`, `exists` | replicas, hint store | atomic by itself; the read-modify-write above it is not |
| encryption, `crypto.py` | a key file | `load_or_create_encryption_key`, the wrapper | boot, storage | a stop between creating and writing the key |
| public and internal API, `auth.py`, `audit.py`, `logging_middleware.py`, `recent_ops.py`, `metrics.py` | audit files, recent operations (bounded), metrics | one request through dependency, handler and middlewares | all of the above; the dashboard reads recent operations | which outcome which log sees; threads copy what the event loop appends |
| certificate script, `scripts/gen_certs.py` | `certs/` | `main` | every process at boot | stopped half way and run again; read while it writes |
| wiring, `run.py`, `main.py`, `config.py`, `mtls.py` | | build a node twice, serve, stop | all of the above | a process reads its files in two readings |
| dashboard, benchmarks, adversarial scripts | | | | outside the cluster's behaviour |

What makes each correct, in a sentence: an acknowledged put is on a write quorum and a
later read finds it or a successor (quorum operations); sibling lists are exactly the
versions nothing supersedes, whatever the order of arrival (clocks); a version handed to
the neighbour is kept until the replica has it (handoff); counters are never ahead of
their owner, an exchange tells the peer of the caller, and only news ends a suspicion (gossip); replicas depend on the
roster alone and move little when it changes (ring); a request is noted everywhere or
nowhere, under the name of who sent it, and has effects only if it was granted (request
path); rows can be decrypted, a node with rows can boot again, peers accept each other, and
one thread gossips, whatever is stopped when (processes); whoever waits for a thread gets one, if only by a timeout (pools).

## 2. Modules

    VectorClock            operators: clocks, dominance, reconcile, the merged read
      SiblingMerge         reconcile and the merged read on lists
        HintStore          the rows of the hint database and the threads that use them
      Mailbox              what a hint store promises (abstract); HintStore implements it
      Register             what the store promises for a key (abstract); QuorumKV and
                           HandoffKV implement it
      QuorumKV             get, put, delete of one key by any number of coordinators
        HandoffKV          QuorumKV and the gossip thread that hands hints off
    Gossip                 gossip rounds, merges, crashes, suspicion
    HashRing               the ring, its lookups, the choice of the hint holder
    Picking                elements of a list at some positions (SiblingMerge, HashRing)
    RequestPath            one request: token, handler, middlewares, recent operations
    NodeProcess            certificates, key files, boots, the gossip worker
    ThreadPools            handler threads and executors, and who waits for whom

    VectorClockProofs, QuorumKVProofs (HandoffKV too), HintStoreProofs, GossipProofs,
    HashRingProofs, RequestPathProofs, NodeProcessProofs, ThreadPoolsProofs   theorems
    MCQuorumKV, MCHandoffKV, MCHintStore, MCRequestPath, MCNodeProcess   instances for TLC

An operator called a *slip* (`WriteQuorumWithHints`, `ClearKeyAlways`, ...) is a plausible
bug of the operator after it. No specification uses one; the mutation runs put it in place
of the right operator, and the property named with it must then fail.

### VectorClock and SiblingMerge (`vector_clock.py`, `Node._merged_read`)

A clock is a total function to the naturals, as a missing entry reads as 0. A version is an
identifier; its clock is looked up in a function, because two values may carry equal
clocks. A sibling list is a *set* of versions in VectorClock and what builds on it.
SiblingMerge has the same on the real lists: `ReconcileList`, and `Absorbed` and `MergedList`, the
inner and the outer loop of `_merged_read`. The survivors of a list are `Picked` (module Picking) by the rank of their
positions, which is the comprehension in `reconcile` without a recursion. HintStore builds lists with them, in any order, with repetitions and
clears in between, and the run hint_store checks that the sets and `MergeInOrder`, the
loop's result said without a loop, agree with them. `FirstOfEqualClocks` shows where the
docstring's "in any order" ends: among versions of *equal* clock the first one stays.

### QuorumKV (`Node.get`, `put`, `delete` and the replicas' side)

One key is modelled; operations on different keys share no state but the ring. A request
goes through phases in the thread of its coordinator:

| Code | Actions |
|---|---|
| `_merged_read` of a get or put | `StartRead`, `ServeRead`, `MissRead`, `RefuseRead` (503), `AnswerGet` (200/404/409) |
| minting, choosing targets, hints for replicas presumed down | `MintVersion`, `DeliverHint`, `LoseHint`, `FanOut` |
| the call at a replica | `LoadLocal`, `StoreLocal` (the two halves of `put_local`), `DeleteLocal` |
| a failed call, and its hint in `guarded_put_op` | `FailWrite`, `DeliverHint`, `LoseHint`, `StrayHint` |
| the answer | `AnswerWrite`, `RefuseWrite` (503) |
| `delete` | `StartDelete`, `DeleteLocal` |

A call is sent once, may be handled at any later time, also after the request was answered,
and may fail at the coordinator at any moment whether it was handled or not; that is what a
timeout of the HTTP client leaves behind. Gossip's part is a choice: any subset of
`Suspects` may be presumed down at each put. History variables (`before`, `hist`, `raced`,
`found`) are read by properties only. Storage failures of the coordinator's own replica are
not modelled: calls of a node to itself do not fail.

### Register (`Node.get`, `put` and `delete` as their clients see them)

The abstract specification of QuorumKV: no replica, call, hint or stored list. `Begin` notes
which writes were acknowledged before a request; `Answer` is a get, `Mint` the read of a put
and the version made on top of it, `Return` and `Refuse` the 200 and the 503. A read returns an
antichain of minted versions that covers every put acknowledged before it began (`MayReturn`),
and any of those that overlap it or were refused: a *regular* register, not an atomic
one, since two reads may see an unfinished put in the wrong order. A version dominates all its put read. `sound`
is what that hangs on: in QuorumKV, that fewer replicas had `put_local` calls racing than the
quorums share; it only ever falls (`Weaken`). After the first delete reads may miss what they
like, since a delete leaves nothing a read could return. `IsRegister` is the refinement: a
request in phase read, handoff or write is open, `result` is `merged`, and all that
replicas, calls and hints do is a stutter or, once, `Weaken`.

### HintStore and Mailbox (`hint_store.py`)

One holder's database: per target one row with all its keys. `add` is `StartAdd` (into the
lock, load) and `FinishAdd` (reconcile, save, out of the lock); `clear_key` is `StartClear`
and `FinishClear`; `pending_for` is the copy `StartFlush` takes without the lock. `BeginKey`
takes the next key of the copy, in any order, `Delivered` and `NotDelivered` are the answers to
one version of its list, `EndFlush` the end of both loops. Adders are executor and request threads, the flusher is the gossip
thread. `Crash` ends them all anywhere; rows stay, as each save is one transaction.

Mailbox is the abstract specification: a mailbox of versions per replica and key, a version
taken in one step, a mailbox emptied in one step, only of the replica that has just accepted
a version of that key. `IsMailbox` says that HintStore implements it (`INSTANCE Mailbox WITH
mail <- KeptSets, due <- DueBoxes`). That is what HandoffKV relies on when it makes each
method one step and has a single key.

### HandoffKV (`_flush_hints_for`)

Extends QuorumKV with the flush: `BeginFlush` copies what is kept (`pending_for`),
`SendHint` sends one version, `LoadHanded` and `StoreHanded` are the replica's `put_local`,
`HintHanded` is the 200 followed by `clear_key`, `HandoffFails` a failed call, `EndFlush`
the end. Puts go on all the time, so hints are added while a flush is under way. The target
is up or down as the environment likes, so a flush may begin at any time.

### Gossip (`gossip.py`, `Node.gossip_round`, `handle_gossip`)

`BeginRound` ticks and sends; `Handle` starts a merge in a request thread, `CompareEntry` and
`WriteEntry` are the two halves of an iteration of `merge_wire`, `EndMerge` answers or ends the
round, `TakeReply` starts the caller's own merge. Several merges run on one node at once; one
keeps the entry it compared with as `current`, so that `Overtaken` can say that another has
replaced it since. `CallFails` gives up a call that may be handled later; `PeerGone` is the
refused connection of a process that stopped. `Crash` and `Restart` lose the table, which lives
in memory. A crash ends the request threads of the process; what the process was sending arrives
or is cut off, one by one, and peers handle the calls that arrived from it, also after its
restart, when a table of its earlier life may meet the new one. The clock is
abstracted to the set of nodes silent for too long; `FallSilent` may add one at any time.

### HashRing (`ring.py`, `Node.put` lines 301-302)

The hash of each virtual node is chosen freely at the start, without collisions (64 bits,
150 points per node). `Insorted` is `bisect.insort` of a node's points, by the rank of each
among all. `PreferenceList` is the walk over the sorted points as the code does
it; `NearestFirst` is what it means. QuorumKV's assumption on `Prefs` and `Holder` is what
`HolderIsNextNode` checks.

### RequestPath (`routes.py`, `auth.py`, `audit.py`, `logging_middleware.py`, `recent_ops.py`, `metrics.py`)

`Arrive` takes a request of either app. A client's is checked by `Authorize` (which stashes
the client id before it decides) or refused by the body's validation, `Unprocessable`; then
`Handle` runs the handler, which answers with one of its `Codes`, or `HandlerFails` with an
exception that is no HTTPException: any route's, before or after it took effect (`MayTouch`), and
cluster-state's at the hint storage, which it asks before it copies the recent operations.
`Respond` enters the innermost middleware, `Raise` passes all of them. `Audit`, `Log` and `Count` are the middlewares, in the order `Added`
derives from the order they are added in; `AuditFails` is an entry that cannot be written.
`StartCopy` and `FinishCopy` are `recent_operations` in a handler thread, between which the
event loop may want to append. What a handler does to data is left to the other modules,
but for the fact that it did something (`effects`); internal calls have no token.

### NodeProcess (`gen_certs.py`, `run.py`, `main.py`, `crypto.py`, `mtls.py`, `gossip_worker.py`)

The script: `StartScript` is the check and the new CA, `WriteFile` one file after the other,
`StopScript` a stop between two files or within one (which leaves it `Torn`), `WipeCerts`
"delete certs/". A certificate is the run that issued it. A process goes through `BootSteps`:
run.py imports main.py, whose module-level app opens both databases, and then builds the node
that serves, which opens them again; certificates are read twice, to dial and to serve. `LoadKey`,
`CreateKey` and `BadKey` are the outcomes of `load_or_create_encryption_key`, `LoadDialCert`, `Serve`
and `BadCert` those of reading certificates. `Serve` starts the gossip worker, whose threads
are `BeginRound`, `EndRound`, `EndLoop`; `BeginStop`, `Joined` and `JoinTimesOut` are `stop`;
`ServeAgain` enters the lifespan again in the same process; `Exit` and `Crash` end it.

### ThreadPools (`Node._executor`, `_quorum_op`, the apps' handler threads)

Only waiting is modelled. A client's request holds a handler thread from `Begin` to `Answer`;
`FanOut` submits a task per replica; `RunLocal` and `StartCall` take a worker, the latter until
`Serve`, which needs a handler thread of the peer for a moment, or `TimeOut`. A call whose task
gave up stays and is handled all the same. A hung node takes calls and handles none.
run.py serves all apps of a process from one event loop, which is why clients and peers share
the handler threads.

## 3. Runs

All finish within two minutes with two workers, most within half a minute.

| Run | Instance | Shows |
|---|---|---|
| quorum_core | N=3, R=W=2 as deployed; two puts and a get, two at a time, no failed call | sibling lists are antichains; reads see acknowledged puts; later puts dominate earlier ones; the operations implement Register |
| quorum_partial | two replicas and a hint holder, R=1, W=2; two puts and a delete, two failed calls | acknowledged puts stay on a quorum, and hints and failed calls never stand in for replicas; dominance is exactly knowledge as long as no node mints twice from one past; clocks count real writes only; what makes a replica forget; a write never waits for a call that is not under way |
| handoff | two replicas and a holder, R=2, W=1; two puts one after the other whose calls overlap, one failed call, one replica may be presumed down; under fairness | nothing handed over is lost but for named exceptions; old hints displace nothing; hints leave the holder and arrive; every request is answered |
| hint_store | two targets, two keys, three versions of any clocks, three adds by two threads, one stop | the store implements Mailbox; lists hold exactly the antichain in every order; rows mean pending; sets and lists agree |
| gossip | two nodes, two rounds per life, a failed call or a crash and restart | no invented beat; an exchange leaves the caller's counter at the peer; only a larger counter ends a suspicion; no deadlock |
| hash_ring | three nodes, two points each, all arrangements | the ring is a function of the roster; preference lists; hint holder; little moves |
| request_path | two requests of any route and token, a deque of one entry, a failing audit write, a stop; under fairness | noted by all middlewares or none; audit entries tell who and how; effects need a grant; polls survive appends; requests end |
| node_process | two nodes, two runs of the script, one stop, one deletion of certs/, an app served twice; under fairness | keys stay with the data; certificates are of one run; peers accept each other; one loop; stops and boots end; a node with rows boots again |
| thread_pools | two nodes with one handler thread and one worker each, three requests, one of them a put, a hung node; under fairness | only full or hung nodes block anyone; everyone is answered; executors drain |

Why the bounds are enough to be interesting. Quorum overlap needs N=3 with R=W=2, and a
stale overwrite needs two writers and one late call, which `MaxActive = 2` and calls that
outlive their request give; the get after two overlapping puts is what sees a lost one. A
write that comes up short needs W above the replicas that answer, hence two failed calls on
two replicas in quorum_partial, with R=1 so that the next put reads only part of it. A failed
call is the only thing `MaxFaults` bounds: late calls are free. In handoff the puts follow
each other, which keeps the run small; that they overlap in the holder is hint_store's part.
There three versions, two of one key, make an antichain, a domination and a second key in the
same row, and two adders and the flusher every race for the lock. In Gossip two nodes suffice
for a race of merges (a node merges what it is sent and what it is answered), and two rounds
per life for a counter that is overtaken; `MaxMishaps` bounds failed calls and crashes
together. Knowledge that travels by way of a third node is what the theorems cover, which hold
for any roster. In the ring six points on six positions hit every exact and every wrap-around
case, and the walk of one or two of the three nodes leaves gaps. In RequestPath one request
copies while the other records, and a deque of one entry drops one. In NodeProcess two runs of
the script are what could be mixed, two keys what could replace each other, and one stop
reaches every position of a boot or a run. In ThreadPools one thread and one worker per node
make every pool fill up; both quorums and each choice of a hung node are initial states.

Fairness. The thread of a request that can go on does (the operating system schedules it).
Every call that is waited for is handled or fails: the HTTP client has a timeout of 5 s.
Nothing is assumed of calls that were given up. `MaxFaults` makes failures finite, which is what
HintsArrive needs: a replica that fails for ever gets nothing. In HandoffKV the gossip thread repeats its
rounds for ever (`GossipWorker._run` swallows every exception), and a replica that stays up is
flushed again and again. Gossip has safety properties only, and needs none.
In RequestPath threads and the event loop go on. In NodeProcess the script
and a boot, once begun, go on (a boot may end by an exception), a round ends as each of its calls
does, and a thread that waits sees the stop event; nobody has to start, stop or store anything.
In ThreadPools a free thread or worker is used some time, and every call times out.

### Findings: runs that end in a violation

Each checks one sentence of the repository, without the exceptions the properties above make.

| Run | The sentence | What happens |
|---|---|---|
| straggler_hides_write | README: "a successful write is never invisible to a subsequent read under normal operation" | a late `put_local` of an earlier put overwrites a later one: it read the list before |
| conflict_lost | README: a conflict "surfaces to the client as a 409 with both versions" | two puts on one coordinator mint the same clock; one is dropped as a duplicate |
| hint_lost | README: a missed write is "delivered once gossip reports it's back" | `clear_key` deletes a hint added while the flush was under way |

Other behaviours the properties make exceptions for, and a reader should know of:

* A delete compares no clocks, so its call to a slow replica, handled after a later put's call
  there, erases the newer version (`OnlyDeletesForget` allows every delete; `ReadSeesAcked` and
  `DurableQuorum` are stated for keys never deleted).
* Two puts on two coordinators can both read before either writes, and leave siblings although
  R + W > N. `tests/test_node_conflicts.py:4-7` holds that for impossible at the defaults;
  `SequentialPutsOrdered` is what remains true.
* When two siblings are kept for one replica, the 200 for the first clears both; if the call of
  the second then fails, nothing is left to send again, against the comment at `node.py:220`.
  `HintsConserved` excepts replicas for which that happened (`dropped`).
* Two merges that race on one node may write the older counter last, against the comment at
  `gossip.py:42`. `PeerKnowsBeat` excepts the pairs of nodes for which that happened (`raced`),
  `OnlyNewsLiftsSuspicion` the one step of a merge that another overtook between its compare and
  its write: a comparison that lets old news through on its own violates both.
* A restarted node counts from 0 again, and `merge_wire` takes only larger counters: its peers hear
  nothing new of it until it has beaten its old counter, so it may be believed down for as long as it
  had run, against the sense of `gossip.py:23`. `NoInventedBeat` is stated for
  lives without a restart, `PeerKnowsBeat` and `OnlyNewsLiftsSuspicion` for all.
* A handler that raises, or an audit entry that cannot be written, leaves no trace of the request in any
  of the three logs, and the client a 500, though the write may have taken effect (`AllTracesOrNone`).
* An empty key file, left by a stop at the wrong moment of the first boot, ends every later boot, at
  `AESGCM(key)`; so does a certificate file that is torn or missing, which `gen_certs.py` does not write
  again while `ca.crt` is there. Nothing is lost by either, and somebody has to delete the files
  (`BootsEnd` says that such a boot ends). Neither can befall a node that has stored a row
  (`DataComesBack`).
* A test that serves one app twice may have two gossip loops, if the first `stop` gave up waiting for a
  round: `start` clears the event the old loop was to see. `OneLoop` allows it there, one loop more per
  stop that gave up, and in no process that serves once, which is what run.py does.
* Nodes whose handler threads are all taken by clients wait for each other until calls time out after
  5 s, and then answer 503 (`WaitsOnlyOnFullNodes`).
* With no more nodes than N, as in `docker-compose.yml`, there is no hint holder and reads repair
  nothing, so a replica that missed a put has it only after the next put of the key
  (`PROGRESS.md` says so).
* A node asked for N = 0 replicas answers with all nodes, since the loop tests its target after
  an append.

## 4. Proofs

TLAPS checks the following for every value of the constants, from the assumptions named in
the modules (the preference list is a finite non-empty part of the roster, quorums are
positive, requests of different kinds are different, finitely many puts; rosters are finite; identifiers that stand
for nobody are nobody's; the node list names each node once and none "ca"; bounds are naturals).

* `VectorClockProofs`: dominance is a partial order; `incremented` dominates strictly;
  `merge` is the least upper bound; `reconcile` keeps an antichain one and covers all that was
  covered; the merged read of antichains is an antichain and covers its answers. What lists and maxima need is
  proved with finite-set theorems, as the library's induction theorems cannot be instantiated: a finite set with an
  order has a maximal element, ranks number a finite set (`RanksNumber`), and `Picked` lists the
  positions given, in order (`PickedPositions`).
* `QuorumKVProofs`: all safety properties of QuorumKV. `TypeCorrect` and `SiblingsAreAntichains` come
  first. The latter is not inductive by itself, since `clk` is looked up by version: minting a clock
  must not disturb lists that hold the version already. `Inv` therefore adds that only minted versions
  are in play anywhere (`MintedInPlay`); minting then changes the clock of a version no list holds.
  - `WritesAreDurable`, `ReadsSeeAckedWrites`, `SequentialPutsAreOrdered`. Two quorums meet outside any
    smaller set of replicas than `Overlap`, by the cardinality of unions (`QuorumsMeet`). What has to be
    followed through a request is which quorum: the replicas that acknowledge a put go on growing after
    its answer, while a read may have asked some of them before. `QuorumInv` fixes one quorum per read
    and acknowledged put at the moment the read begins (`AnswersSeeQuorum`), and says that every answer
    from that quorum covers the put; that stored versions cover what a replica acknowledged
    (`AckedIsStored`), that a done put has its quorum (`DoneHasQuorum`), and that a version
    supersedes all its put read (`MintedOnRead`), which is what orders sequential puts.
  - `QuorumsAreRegister`, the refinement of Register, from the same invariant. The merged read of a quorum is one
    the register may return (`QuorumMayReturn`, by the argument of `ReadsSeeAckedWrites`), and minting
    dominates it. No other step changes stages, results or clocks, and the racing replicas only grow in number,
    so soundness falls at most once (`WeakenOrStutter`).
  - `WritesWaitForCalls`. `Accounted` says for each write where each of its calls stands: nothing
    is asked of replicas before the fan-out, then each replica asked has acknowledged, is missed, is being
    hinted for or has a call under way. So the threads of writes never wait for nobody, which is what
    `RequestAnswered` needs besides fairness.
  - `ReplicasForgetOnlyForDeletes`, an action property, from `reconcile` covering what was covered.
  - `ClocksCountWrites`, `ClocksAreHistories`. `HistoryInv` says of each version that its history is
    closed, that its clock dominates those of its history and has in each entry the counter of the last
    put of that node in its history (`Histories`); where a node's own puts know of each other, counters
    of one node are then in the order of their histories, so dominance is knowledge.

  After the antichains the proofs go by what a step does to the variables (`Effects`: what minting,
  storing, asking and merging may change) instead of by action. Each action is shown to have these
  effects once, and the invariants are proved of the effects.

  Of HandoffKV, in the same module: `QuorumsHoldWithHandoff`, `HandoffKeepsVersions`, `HandoffIsRegister`,
  `WritesWaitForCallsWithHandoff`, `HintsAreConserved`. The steps of
  the gossip thread have the same `Effects`, so what the quorums promise holds with handoff by the same
  lemmas, and to the register they are stutters or `Weaken`. `ConservedInv` says that a call the flush waits for is the one it made (`WaitedCall`), that
  after a 200 the version is covered at the replica (`Delivered`), which is what makes `clear_key` safe
  where it is, and where a request's hints stand (`HintingOpen`), so that a version that the holder
  has taken is kept or stored (`OwedIsPlaced`). Keys with a delete are excepted: it takes from a
  replica what a hint had brought there.
* `HintStoreProofs`: `RowsMeanPending`, `ListsAreOrderIndependent`, `FirstValueIsKept`, `MergedReadsAreMerges`, and
  `HintStoreIsMailbox`, the refinement of Mailbox step by step. `StoreInv` says that a thread between load
  and save of `add` or `clear_key` holds the lock and has in hand what the row holds
  (`LoadedUnderLock`), so that its save changes one list; and that each list is what `reconcile` leaves
  of the versions added since (`ListsOfAdded`): an antichain without repeats that covers all of them and
  has, of equal clocks, the first. That lists and sets agree on `reconcile` is `ReconcileListElements`;
  `Picked` is reasoned about by `PickedPositions`. `MergedReadsAreMerges` is `MergeIsFold` for any number of answers of
  any length: the loops of `_merged_read` are recursive functions over the rounds, and what holds before
  the first round and is kept by each holds after the last (`EveryRound`: the largest round up to which it
  holds is the last one, by the maximum of a finite set). What a round keeps is that the list so far has the
  versions `MergeInOrder` gives for the answers so far (`MergeOneMore`).
* `HashRingProofs`: `RingsAgree`, `ReplicasAreNearest`, `HoldersAreNext`, `MovesOnlyNeighbours`, all properties
  of the run. `RingInv` adds the types and the collision-free hash to `RingIsRoster`, which is then inductive:
  a node's points are in no other's, so `insort` puts in what is nowhere (`InsortedIsSorted`) and `pop`
  takes out what is nobody else's. The walk of `get_preference_list` visits the points in the order of
  their clockwise distance (`WalkIsClockwise`, by `bisect` and the index modulo the length) and meets
  each node first at its nearest point (`MetOnce`), so that all lists of a key are beginnings of one list
  of the nodes by distance (`ListsByDistance`). `NearestFirst` and `HolderIsNextNode` are read off that; for
  the action property, lists by distance of the nodes that stay agree wherever they end, as the rank of
  an element is the number of nodes up to it (`NearestAgree`).
* `GossipProofs`: `GossipTypeCorrect` and `NoBeatIsInvented`. A merge that held an entry of
  its own node could set that node's counter below what others know, so `Inv` adds that none
  does, and that without a crash every node runs (a restart starts a counter again).
  `ExchangeReachesPeer` is `PeerKnowsBeat`: `XInv` follows a call from request to answer, through
  crashes and restarts: its caller makes no beat meanwhile (`Carried`), since it has one call at a time
  that it waits for (`OneCall`), and the merge has the caller's entry before it, in hand, or left it in
  the table (`Passed`). From there only a merge that sets it back can take it, for what a merge holds
  was larger than what it compared with (`Compared`), and a peer that loses its table in a stop
  loses the calls it handles (`Alive`). `SuspicionNeedsNews` is the action property
  `OnlyNewsLiftsSuspicion`, from `Compared`.
* `RequestPathProofs`: `PathTypeCorrect`, `NotedByAllOrNone`, `AuditIsTrue`, `ShownIsAudited`,
  `CopyIsUndisturbed`, `OnlyGrantedEffects`. `PathInv` says what is known of a request at each stage:
  which middlewares have noted it, that its one audit entry is what it still is, that it was granted
  before its handler ran, and that whoever copies the deque holds the lock, which is why a copy that
  has begun ends well (`CopyIsUndisturbed`, an action property).
* `NodeProcessProofs`: `ProcessTypeCorrect`, `KeysStayWithData`, `CertificatesOfOneRun`,
  `OneGossipThread`, `PeersAccept`, `NodesComeBack`. `ScriptInv` says what a run has written so far, and that one
  stopped before `ca.crt` leaves nothing but the CA's key; `TrustInv` that a process past its
  readings holds the certificates that are there now; `LoopInv` that a thread that runs and was not
  given up is the worker's, `OnceInv` that a process which serves once has started but one. For
  `NodesComeBack` what was read must still be there at the next boot (`ReadyInv`), though the script may
  be stopped in the middle of a file: it never writes a file twice, as no file is listed twice
  (`DistinctFiles`), and what it has still to write is not there (`PendingInv`).
* `ThreadPoolsProofs`: `PoolsStayBounded`, `WaitsAreOwed`, `OnlyFullNodesBlock`, from `PoolInv`: threads and workers in use
  are finite sets of at most as many as there are (`PoolsBounded`), a task on a worker and a call that
  is waited for are in step (`CallsMatchTasks`), and a fan-out has heard of each replica or has a task
  out for it (`FanOutsComplete`). That is the part of `EveryoneIsAnswered` that is no liveness: nobody
  waits for something that cannot come. For `WaitsOnlyOnFullNodes` a node that is full is followed to what its
  requests wait for, a call of its own (`FanOutsWaitForCalls`), which goes to another node (`CallsGoOut`)
  and stands still only if that is hung or full too.

The invariants of the quorum operations, handoff, hint store and pools were model-checked on the
instances of their runs before they were proved.
`Stuck` says by guards what `ENABLED` says of the steps; that the two agree was checked on the
instance of thread_pools. The types of all modules, `SequentialPutsOrdered` (in the run a consequence of `IsRegister`: a put covers
what was acknowledged before it and supersedes what it read), `RecentIsAudited`, `NobodyWaitsForNothing`
and the joint theorem `QuorumsHoldWithHandoff` are proved and not checked by a run besides.

Only model-checked, and why:

* Liveness under fairness (`HintsDrain`, `HintsArrive`, `RequestAnswered`, `RequestsEnd`,
  `StopIsObeyed`, `BootsEnd`, `EveryoneIsAnswered`, `ExecutorsDrain`): out of the prover's reach.
* That the graph of steps has no deadlock but where `Quiesced` and its like say so: a matter of `ENABLED`. `WritesAwaitCalls`
  and `WaitsAreOwed` state by guards what it rests on.

Every invariant, action property and refinement of a passing run is a theorem.

## 5. Not modelled

* Storage that raises in the middle of an operation, or that is torn by a failure of the machine: a
  backend's operations are single steps, and stops are stops of a process. The key file is not synced
  to disk by the code, so a failure of the machine could lose it after rows were stored; no module has that.
* The interpreter's RuntimeError when `to_wire` iterates while a merge adds an entry.
* The cipher and TLS themselves, which are libraries; the environment's configuration, which is constant.
* The dashboard. Its polls overlap, and an older one that ends last puts older results back until the
  next; the cluster takes no notice.
* The benchmarks (`scripts/dynamodb_bench*.py`, `bench_*.py`): sequential load generators whose results
  are measured times and percentiles of them.
* The adversarial scripts: straight lines of requests and docker commands against a running cluster,
  each with a verdict. The behaviours they provoke are in the modules above; the lines of the scripts
  would only be written out again. These two make up most of the lines no definition maps.

## 6. Plan

In order of importance.

1. *Cluster*: gossip's `down` drives the liveness split and the flush, in place of the free choice.
2. *Storage faults*: a save that raises, under `put_local` and under the hint store's lock.
3. *Dashboard*: overlapping polls and the list of known nodes.
