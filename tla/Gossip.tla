------------------------------- MODULE Gossip -------------------------------
(***************************************************************************)
(* Liveness gossip: dynamokv/gossip.py, the rounds of node.py and the      *)
(* thread of gossip_worker.py that repeats them.                           *)
(*                                                                         *)
(* A round is one push-pull exchange with a random peer.  The peer merges  *)
(* the table in a request thread, the caller merges the answer in its      *)
(* gossip thread, and nothing locks the table: merge_wire compares an      *)
(* entry and writes it in two steps, and merges of several threads of one  *)
(* node interleave.  The wall clock is abstracted to its effect: "down" is *)
(* the set of nodes whose counter has not advanced here for longer than    *)
(* the failure timeout, and any node may fall silent that long at any time.*)
(***************************************************************************)
EXTENDS Integers, FiniteSets

CONSTANTS Node,
          Nobody,
          MaxBeat,       \* bound: rounds of a node between restarts
          MaxFaults,     \* bound: calls that fail although the peer is up
          MaxCrashes,    \* bound: processes that stop
          MaxMishaps     \* bound: failed calls and stops together

ASSUME NobodyAssumption == Nobody \notin Node
ASSUME GossipBounds == MaxBeat \in Nat /\ MaxFaults \in Nat /\ MaxCrashes \in Nat
                       /\ MaxMishaps \in Nat

VARIABLES
    table,      \* per node, the counter it knows of each node; Unknown if none
    down,       \* per node, the known nodes silent for longer than the timeout
    up,         \* the nodes that run
    worker,     \* what each gossip thread is doing
    requests,   \* gossip calls no thread of the peer handles yet
    merging,    \* merge_wire activations
    replies,    \* answers on their way to a caller that waits
    faults, crashes,
    raced       \* history: <<n, x>> once a merge at n, overtaken between its
                \* compare and its write, set the counter of x back

vars == <<table, down, up, worker, requests, merging, replies, faults, crashes, raced>>

Unknown == -1
Known(t) == {x \in Node : t[x] # Unknown}
Fresh(n) == [x \in Node |-> IF x = n THEN 0 ELSE Unknown]

Init == /\ table = [n \in Node |-> Fresh(n)]
        /\ down = [n \in Node |-> {}]
        /\ up = Node
        /\ worker = [n \in Node |-> "waiting"]
        /\ requests = {} /\ merging = {} /\ replies = {}
        /\ faults = 0 /\ crashes = 0 /\ raced = {}

-----------------------------------------------------------------------------
(* A round: tick, then one call *)

\* Slip: the table is sent before the tick.
BeatAfterSending(n) == table[n]
Beat(n) == [table[n] EXCEPT ![n] = @ + 1]

BeginRound(n, peer) ==
    /\ n \in up /\ worker[n] = "waiting" /\ n # peer
    /\ table[n][n] < MaxBeat
    /\ table' = [table EXCEPT ![n][n] = @ + 1]
    /\ requests' = requests \cup {[from |-> n, to |-> peer, wire |-> Beat(n), waited |-> TRUE]}
    /\ worker' = [worker EXCEPT ![n] = "calling"]
    /\ UNCHANGED <<down, up, merging, replies, faults, crashes, raced>>

\* handle_gossip begins at the peer, in a request thread: whatever the peer's own
\* gossip thread is doing.
Handle(r) ==
    /\ r.to \in up
    /\ requests' = requests \ {r}
    /\ merging' = merging \cup {[at |-> r.to, for |-> r.from, wire |-> r.wire,
                                 waited |-> r.waited, todo |-> Known(r.wire),
                                 held |-> Nobody, current |-> Unknown]}
    /\ UNCHANGED <<table, down, up, worker, replies, faults, crashes, raced>>

Becomes(m, m2) == merging' = (merging \ {m}) \cup {m2}

\* Slip: any entry is taken as a sign of life.
NewsAny(n, x, counter) == x # n
\* merge_wire takes an entry that is new here, or a larger counter, and never
\* the node's own.
News(n, x, counter) == x # n /\ counter > table[n][x]

\* merge_wire reads one entry, its "current", and compares ...
CompareEntry(m, x) ==
    /\ m.held = Nobody /\ x \in m.todo
    /\ Becomes(m, IF News(m.at, x, m.wire[x])
                  THEN [m EXCEPT !.todo = @ \ {x}, !.held = x, !.current = table[m.at][x]]
                  ELSE [m EXCEPT !.todo = @ \ {x}])
    /\ UNCHANGED <<table, down, up, worker, requests, replies, faults, crashes, raced>>

\* Slip: hearing of a node counts as one more beat of it.
TakenAsBeat(m) == m.wire[m.held] + 1
Taken(m) == m.wire[m.held]

\* Another merge of the node has replaced the entry that this one compared with.
Overtaken(m) == m.held # Nobody /\ table[m.at][m.held] # m.current
SetsBack(m) == Overtaken(m) /\ m.wire[m.held] < table[m.at][m.held]

\* ... and writes it, with the time of now, whatever is there by then.
WriteEntry(m) ==
    /\ m.held # Nobody
    /\ table' = [table EXCEPT ![m.at][m.held] = Taken(m)]
    /\ down' = [down EXCEPT ![m.at] = @ \ {m.held}]
    /\ raced' = IF SetsBack(m) THEN raced \cup {<<m.at, m.held>>} ELSE raced
    /\ Becomes(m, [m EXCEPT !.held = Nobody, !.current = Unknown])
    /\ UNCHANGED <<up, worker, requests, replies, faults, crashes>>

\* The request thread answers with the peer's table, or the round ends.
EndMerge(m) ==
    /\ m.todo = {} /\ m.held = Nobody
    /\ merging' = merging \ {m}
    /\ IF m.for = m.at
       THEN /\ worker' = [worker EXCEPT ![m.at] = "waiting"]
            /\ UNCHANGED replies
       ELSE /\ replies' = IF m.waited
                          THEN replies \cup {[from |-> m.at, to |-> m.for, wire |-> table[m.at]]}
                          ELSE replies
            /\ UNCHANGED worker
    /\ UNCHANGED <<table, down, up, requests, faults, crashes, raced>>

TakeReply(r) ==
    /\ replies' = replies \ {r}
    /\ worker' = [worker EXCEPT ![r.to] = "merging"]
    /\ merging' = merging \cup {[at |-> r.to, for |-> r.to, wire |-> r.wire,
                                 waited |-> TRUE, todo |-> Known(r.wire),
                                 held |-> Nobody, current |-> Unknown]}
    /\ UNCHANGED <<table, down, up, requests, faults, crashes, raced>>

\* The caller gives up on its call.  A peer that it has reached may handle it
\* later all the same; it has not reached one that does not run.
GiveUp(n) ==
    /\ requests' = {IF r.from = n THEN [r EXCEPT !.waited = FALSE] ELSE r :
                       r \in {q \in requests : q.from = n => q.to \in up}}
    /\ merging' = {IF m.for = n THEN [m EXCEPT !.waited = FALSE] ELSE m : m \in merging}
    /\ replies' = {r \in replies : r.to # n}

CallFails(n) ==
    /\ worker[n] = "calling"
    /\ faults < MaxFaults /\ faults + crashes < MaxMishaps
    /\ faults' = faults + 1
    /\ GiveUp(n)
    /\ worker' = [worker EXCEPT ![n] = "waiting"]
    /\ UNCHANGED <<table, down, up, crashes, raced>>

\* A call to a process that stopped fails, whatever it had done.
PeerGone(n) ==
    /\ worker[n] = "calling"
    /\ {r \in requests : r.from = n /\ r.waited /\ r.to \in up} = {}
    /\ {m \in merging : m.for = n /\ m.waited} = {} /\ {r \in replies : r.to = n} = {}
    /\ GiveUp(n)
    /\ worker' = [worker EXCEPT ![n] = "waiting"]
    /\ UNCHANGED <<table, down, up, faults, crashes, raced>>

-----------------------------------------------------------------------------
(* Time and crashes *)

\* The timeout passes without an advance of x's counter at n.
FallSilent(n, x) ==
    /\ n \in up /\ x \in Known(table[n]) \ (down[n] \cup {n})
    /\ down' = [down EXCEPT ![n] = @ \cup {x}]
    /\ UNCHANGED <<table, up, worker, requests, merging, replies, faults, crashes, raced>>

\* The process stops, and with it the threads that handle calls at it.  What it
\* was sending, calls or answers, arrives or is cut off; peers go on handling the
\* calls of it that have arrived, also when it has started again.
Crash(n) ==
    /\ n \in up /\ crashes < MaxCrashes /\ faults + crashes < MaxMishaps
    /\ crashes' = crashes + 1
    /\ up' = up \ {n}
    /\ worker' = [worker EXCEPT ![n] = "stopped"]
    /\ \E lost \in SUBSET {r \in requests \cup replies : r.from = n} :
          /\ requests' = {IF r.from = n THEN [r EXCEPT !.waited = FALSE] ELSE r :
                             r \in {q \in requests \ lost : q.to \in up \ {n}}}
          /\ replies' = {r \in replies \ lost : r.to # n}
    /\ merging' = {IF m.for = n THEN [m EXCEPT !.waited = FALSE] ELSE m :
                      m \in {k \in merging : k.at # n}}
    /\ UNCHANGED <<table, down, faults, raced>>

\* GossipState lives in memory: the process starts with a table of its own 0.
Restart(n) ==
    /\ n \notin up
    /\ up' = up \cup {n}
    /\ table' = [table EXCEPT ![n] = Fresh(n)]
    /\ down' = [down EXCEPT ![n] = {}]
    /\ worker' = [worker EXCEPT ![n] = "waiting"]
    /\ UNCHANGED <<requests, merging, replies, faults, crashes, raced>>

\* The bound on rounds is reached everywhere and nothing is under way.
Exhausted == /\ requests = {} /\ merging = {} /\ replies = {}
             /\ \A n \in up : worker[n] = "waiting" /\ table[n][n] = MaxBeat
             /\ UNCHANGED vars

RoundStep(n) == \/ \E peer \in Node : BeginRound(n, peer)
                \/ CallFails(n) \/ PeerGone(n)
                \/ \E x \in Node : FallSilent(n, x)
                \/ Crash(n) \/ Restart(n)

MergeStep == \/ \E r \in requests : Handle(r)
             \/ \E m \in merging : WriteEntry(m) \/ EndMerge(m)
             \/ \E m \in merging, x \in Node : CompareEntry(m, x)
             \/ \E r \in replies : TakeReply(r)

Next == (\E n \in Node : RoundStep(n)) \/ MergeStep \/ Exhausted

Spec == Init /\ [][Next]_vars

-----------------------------------------------------------------------------
(* Properties *)

Wire == [Node -> Unknown..MaxBeat]

\* Types of all variables.
TypeOK ==
    /\ table \in [Node -> Wire] /\ down \in [Node -> SUBSET Node] /\ up \subseteq Node
    /\ worker \in [Node -> {"waiting", "calling", "merging", "stopped"}]
    /\ requests \subseteq [from : Node, to : Node, wire : Wire, waited : BOOLEAN]
    /\ merging \subseteq [at : Node, for : Node, wire : Wire, waited : BOOLEAN,
                          todo : SUBSET Node, held : Node \cup {Nobody}, current : Unknown..MaxBeat]
    /\ replies \subseteq [from : Node, to : Node, wire : Wire]
    /\ faults \in 0..MaxFaults /\ crashes \in 0..MaxCrashes
    /\ raced \subseteq Node \X Node

\* No counter is ever invented: while no process restarts, no table, merge or
\* message anywhere claims a beat of a node that the node has not made.
NoInventedBeat ==
    crashes = 0 =>
        \A x \in Node :
            /\ \A n \in Node : table[n][x] <= table[x][x]
            /\ \A r \in requests \cup merging \cup replies : r.wire[x] <= table[x][x]

\* A push-pull exchange works: when the peer's answer comes back, the peer knew
\* no less than the caller's present counter ("proof of life for the next peer it
\* gossips with", tick), however its merge interleaved with others, whatever calls
\* were given up, and whichever tables of an earlier life of the caller came in
\* between.  A peer where racing merges set the caller's counter back is excepted.
PeerKnowsBeat ==
    \A r \in replies : <<r.from, r.to>> \notin raced => r.wire[r.to] >= table[r.to][r.to]

\* A suspicion is lifted only by news: a node that believes another down stops
\* doing so when a larger counter of it arrives, never because an old table came
\* late, twice, by way of a third node or from before a restart (merge_wire:
\* "stale or duplicate info, ignore").  The exception is the step of a merge that
\* another one of the node overtook, which compared with an entry that is gone.
OnlyNewsLiftsSuspicion ==
    [][\A n \in up, x \in Node :
          x \in down[n] \ down'[n] =>
              \/ table'[n][x] > table[n][x]
              \/ \E m \in merging : m.at = n /\ m.held = x /\ Overtaken(m)]_vars
=============================================================================
