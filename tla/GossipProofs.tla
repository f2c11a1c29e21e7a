---------------------------- MODULE GossipProofs ----------------------------
(***************************************************************************)
(* Type correctness of Gossip, that no heartbeat is invented, and that an  *)
(* exchange does what it is for, for any roster and any number of rounds,  *)
(* failed calls and crashes.                                               *)
(*                                                                         *)
(* NoInventedBeat is not inductive: a merge that held an entry of its own  *)
(* node could set that node's counter back, below what others know.  Inv   *)
(* adds that no merge ever does, and that without a crash every node runs  *)
(* (a restart is what makes a counter begin again).                        *)
(***************************************************************************)
EXTENDS Gossip, TLAPS

Inv == /\ TypeOK
       /\ crashes = 0 => up = Node
       /\ \A m \in merging : m.held # m.at
       /\ NoInventedBeat

Request == [from : Node, to : Node, wire : Wire, waited : BOOLEAN]
Merge == [at : Node, for : Node, wire : Wire, waited : BOOLEAN,
          todo : SUBSET Node, held : Node \cup {Nobody}, current : Unknown..MaxBeat]
Reply == [from : Node, to : Node, wire : Wire]

\* A counter that was ticked once more is still in bounds.
LEMMA BeatIsWire ==
    ASSUME TypeOK, NEW n \in Node, table[n][n] < MaxBeat
    PROVE  /\ Beat(n) \in Wire /\ [table EXCEPT ![n] = Beat(n)] \in [Node -> Wire]
           /\ [table EXCEPT ![n][n] = @ + 1] = [table EXCEPT ![n] = Beat(n)]
<1>1. table[n] \in Wire /\ table[n][n] \in Unknown..MaxBeat
  BY DEF TypeOK, Wire
<1>2. table[n][n] + 1 \in Unknown..MaxBeat
  BY <1>1, GossipBounds DEF Unknown
<1>3. Beat(n) \in Wire
  BY <1>1, <1>2 DEF Beat, Wire
<1> QED
  BY <1>3 DEF TypeOK, Beat

LEMMA TypeInit == Init => TypeOK
<1> SUFFICES ASSUME Init PROVE TypeOK
  OBVIOUS
<1>1. \A n \in Node : Fresh(n) \in Wire
  BY GossipBounds DEF Fresh, Wire, Unknown
<1> QED
  BY <1>1, GossipBounds DEF Init, TypeOK

\* The effects of giving up a call, on the types of what it touches.
LEMMA GiveUpTypes ==
    ASSUME TypeOK, NEW n \in Node, GiveUp(n)
    PROVE  requests' \subseteq Request /\ merging' \subseteq Merge /\ replies' \subseteq Reply
<1>1. \A r \in Request : [r EXCEPT !.waited = FALSE] \in Request
  BY DEF Request
<1>2. \A m \in Merge : [m EXCEPT !.waited = FALSE] \in Merge
  BY DEF Merge
<1>3. requests \subseteq Request /\ merging \subseteq Merge /\ replies \subseteq Reply
  BY DEF TypeOK, Request, Merge, Reply
<1> QED
  BY <1>1, <1>2, <1>3 DEF GiveUp

\* ... and those of a stop.
LEMMA CrashTypes ==
    ASSUME TypeOK, NEW n \in Node, Crash(n)
    PROVE  requests' \subseteq Request /\ merging' \subseteq Merge /\ replies' \subseteq Reply
<1>1. \A r \in Request : [r EXCEPT !.waited = FALSE] \in Request
  BY DEF Request
<1>2. \A m \in Merge : [m EXCEPT !.waited = FALSE] \in Merge
  BY DEF Merge
<1>3. requests \subseteq Request /\ merging \subseteq Merge /\ replies \subseteq Reply
  BY DEF TypeOK, Request, Merge, Reply
<1> QED
  BY <1>1, <1>2, <1>3 DEF Crash

LEMMA TypeNext == TypeOK /\ [Next]_vars => TypeOK'
<1> SUFFICES ASSUME TypeOK, [Next]_vars PROVE TypeOK'
  OBVIOUS
<1> USE GossipBounds
<1>t. /\ requests \subseteq Request /\ merging \subseteq Merge /\ replies \subseteq Reply
      /\ table \in [Node -> Wire]
  BY DEF TypeOK, Request, Merge, Reply
<1>1. ASSUME NEW n \in Node, NEW peer \in Node, BeginRound(n, peer) PROVE TypeOK'
  <2>1. table' \in [Node -> Wire] /\ Beat(n) \in Wire
    BY <1>1, BeatIsWire DEF BeginRound
  <2>2. [from |-> n, to |-> peer, wire |-> Beat(n), waited |-> TRUE] \in Request
    BY <2>1 DEF Request
  <2>3. requests' \subseteq Request
    BY <2>2, <1>t, <1>1 DEF BeginRound
  <2> QED
    BY <1>1, <2>1, <2>3 DEF BeginRound, TypeOK, Request
<1>2. ASSUME NEW r \in requests, Handle(r) PROVE TypeOK'
  <2>1. r \in Request
    BY <1>t
  <2>2. [at |-> r.to, for |-> r.from, wire |-> r.wire, waited |-> r.waited,
         todo |-> Known(r.wire), held |-> Nobody, current |-> Unknown] \in Merge
    BY <2>1 DEF Request, Merge, Known, Unknown
  <2>3. merging' \subseteq Merge
    BY <2>2, <1>t, <1>2 DEF Handle
  <2> QED
    BY <1>2, <2>3 DEF Handle, TypeOK, Merge
<1>3. ASSUME NEW m \in merging, NEW x \in Node, CompareEntry(m, x) PROVE TypeOK'
  <2>1. m \in Merge /\ table[m.at][x] \in Unknown..MaxBeat
    BY <1>t DEF Merge, Wire
  <2>2. /\ [m EXCEPT !.todo = @ \ {x}, !.held = x, !.current = table[m.at][x]] \in Merge
        /\ [m EXCEPT !.todo = @ \ {x}] \in Merge
    BY <2>1 DEF Merge
  <2>3. merging' \subseteq Merge
    BY <2>2, <1>t, <1>3 DEF CompareEntry, Becomes
  <2> QED
    BY <1>3, <2>3 DEF CompareEntry, TypeOK, Merge
<1>4. ASSUME NEW m \in merging, WriteEntry(m) PROVE TypeOK'
  <2>1. m \in Merge /\ m.held \in Node
    BY <1>t, <1>4 DEF WriteEntry, Merge
  <2>2. /\ m.at \in Node /\ m.wire[m.held] \in Unknown..MaxBeat
        /\ [m EXCEPT !.held = Nobody, !.current = Unknown] \in Merge
    <3>1. m.at \in Node /\ m.wire \in Wire
      BY <2>1 DEF Merge
    <3>3. m.wire[m.held] \in Unknown..MaxBeat
      BY <2>1, <3>1 DEF Wire
    <3>2. [m EXCEPT !.held = Nobody, !.current = Unknown] \in Merge
      <4>1. Unknown \in Unknown..MaxBeat
        BY DEF Unknown
      <4> QED
        BY <4>1, <2>1 DEF Merge
    <3> QED BY <3>1, <3>2, <3>3
  <2>3. table' \in [Node -> Wire]
    BY <1>4, <2>1, <2>2, <1>t DEF WriteEntry, Taken, Wire
  <2>4. merging' \subseteq Merge
    BY <2>2, <1>t, <1>4 DEF WriteEntry, Becomes
  <2>5. down' \in [Node -> SUBSET Node] /\ raced' \subseteq Node \X Node
    BY <1>4, <2>1, <2>2 DEF WriteEntry, TypeOK
  <2> QED
    BY <1>4, <2>3, <2>4, <2>5 DEF WriteEntry, TypeOK, Merge
<1>5. ASSUME NEW m \in merging, EndMerge(m) PROVE TypeOK'
  <2>1. m \in Merge /\ m.at \in Node /\ m.for \in Node /\ table[m.at] \in Wire
    BY <1>t DEF Merge
  <2>2. [from |-> m.at, to |-> m.for, wire |-> table[m.at]] \in Reply
    BY <2>1 DEF Reply
  <2>3. replies' \subseteq Reply
    BY <2>2, <1>t, <1>5 DEF EndMerge
  <2>4. merging' \subseteq Merge
    BY <1>t, <1>5 DEF EndMerge
  <2>5. worker' \in [Node -> {"waiting", "calling", "merging", "stopped"}]
    BY <1>5, <2>1 DEF EndMerge, TypeOK
  <2> QED
    BY <1>5, <2>3, <2>4, <2>5 DEF EndMerge, TypeOK, Merge, Reply
<1>6. ASSUME NEW r \in replies, TakeReply(r) PROVE TypeOK'
  <2>1. r \in Reply
    BY <1>t
  <2>2. [at |-> r.to, for |-> r.to, wire |-> r.wire, waited |-> TRUE,
         todo |-> Known(r.wire), held |-> Nobody, current |-> Unknown] \in Merge
    BY <2>1 DEF Reply, Merge, Known, Unknown
  <2>3. merging' \subseteq Merge
    BY <2>2, <1>t, <1>6 DEF TakeReply
  <2> QED
    BY <1>6, <2>1, <2>3 DEF TakeReply, TypeOK, Merge, Reply
<1>7. ASSUME NEW n \in Node, CallFails(n) \/ PeerGone(n) PROVE TypeOK'
  <2>1. requests' \subseteq Request /\ merging' \subseteq Merge /\ replies' \subseteq Reply
    BY <1>7, GiveUpTypes DEF CallFails, PeerGone
  <2> QED
    BY <1>7, <2>1 DEF CallFails, PeerGone, TypeOK, Request, Merge, Reply
<1>8. ASSUME NEW n \in Node, NEW x \in Node, FallSilent(n, x) PROVE TypeOK'
  BY <1>8 DEF FallSilent, TypeOK
<1>9. ASSUME NEW n \in Node, Crash(n) PROVE TypeOK'
  <2>1. requests' \subseteq Request /\ merging' \subseteq Merge /\ replies' \subseteq Reply
    BY <1>9, CrashTypes
  <2> QED
    BY <1>9, <2>1 DEF Crash, TypeOK, Request, Merge, Reply
<1>10. ASSUME NEW n \in Node, Restart(n) PROVE TypeOK'
  <2>1. Fresh(n) \in Wire
    BY DEF Fresh, Wire, Unknown
  <2> QED
    BY <1>10, <2>1 DEF Restart, TypeOK
<1>11. CASE Exhausted \/ UNCHANGED vars
  BY <1>11 DEF Exhausted, vars, TypeOK
<1> QED
  BY <1>1, <1>2, <1>3, <1>4, <1>5, <1>6, <1>7, <1>8, <1>9, <1>10, <1>11
  DEF Next, RoundStep, MergeStep

\* Every variable keeps its type, whatever threads, calls and crashes do (the
\* statement of Gossip's TypeOK for any roster and bounds).
THEOREM GossipTypeCorrect == Spec => []TypeOK
<1>1. Init => TypeOK
  BY TypeInit
<1>2. TypeOK /\ [Next]_vars => TypeOK'
  BY TypeNext
<1> QED
  BY <1>1, <1>2, PTL DEF Spec

-----------------------------------------------------------------------------
(* No counter ahead of its owner's *)

\* Nothing w says of a node exceeds what the node itself counts in T.
Honest(w, T) == \A x \in Node : w[x] <= T[x][x]

LEMMA InvMeaning ==
    NoInventedBeat <=>
        (crashes = 0 => /\ \A n \in Node : Honest(table[n], table)
                        /\ \A r \in requests \cup merging \cup replies : Honest(r.wire, table))
BY DEF NoInventedBeat, Honest

LEMMA InvInit == Init => Inv
<1> SUFFICES ASSUME Init PROVE Inv
  OBVIOUS
<1>1. TypeOK
  BY TypeInit
<1>2. ASSUME NEW n \in Node PROVE Honest(table[n], table)
  BY DEF Init, Fresh, Honest, Unknown
<1>3. requests \cup merging \cup replies = {} /\ up = Node
  BY DEF Init
<1> QED
  BY <1>1, <1>2, <1>3, InvMeaning DEF Inv

\* Where counters of owners do not go down, what was honest stays so.
LEMMA HonestStays ==
    ASSUME TypeOK, TypeOK', NEW w \in Wire, Honest(w, table),
           \A x \in Node : table[x][x] <= table'[x][x]
    PROVE  Honest(w, table')
<1>1. \A x \in Node : /\ w[x] \in Int /\ table[x][x] \in Int /\ table'[x][x] \in Int
                      /\ w[x] <= table[x][x]
  BY GossipBounds DEF TypeOK, Wire, Unknown, Honest
<1> QED
  BY <1>1 DEF Honest

LEMMA InvNext == Inv /\ [Next]_vars => Inv'
<1> SUFFICES ASSUME Inv, [Next]_vars PROVE Inv'
  OBVIOUS
<1>t. TypeOK /\ TypeOK' /\ (\A m \in merging : m.held # m.at)
  BY TypeNext DEF Inv
<1>r. /\ requests \subseteq Request /\ merging \subseteq Merge /\ replies \subseteq Reply
      /\ table \in [Node -> Wire] /\ crashes \in Nat
  BY <1>t DEF TypeOK, Request, Merge, Reply
<1>w. \A r \in requests \cup merging \cup replies : r.wire \in Wire
  BY <1>r DEF Request, Merge, Reply
<1>h. ASSUME crashes = 0
      PROVE  /\ up = Node /\ \A n \in Node : Honest(table[n], table)
             /\ \A r \in requests \cup merging \cup replies : Honest(r.wire, table)
  BY <1>h, InvMeaning DEF Inv
<1>s. ASSUME UNCHANGED <<table, up, crashes>>,
             \A r \in (requests \cup merging \cup replies)' :
                 \/ \E q \in requests \cup merging \cup replies : r.wire = q.wire
                 \/ \E n \in Node : r.wire = table[n],
             \A m \in merging' : m.held # m.at
      PROVE  Inv'
  <2>1. \A w : Honest(w, table') <=> Honest(w, table)
    BY <1>s DEF Honest
  <2>2. crashes' = 0 => /\ \A n \in Node : Honest(table'[n], table')
                        /\ \A r \in (requests \cup merging \cup replies)' : Honest(r.wire, table')
    BY <2>1, <1>s, <1>h
  <2>3. NoInventedBeat'
    BY <2>2 DEF NoInventedBeat, Honest
  <2> QED
    BY <2>3, <1>s, <1>t DEF Inv
<1>1. ASSUME NEW n \in Node, NEW peer \in Node, BeginRound(n, peer) PROVE Inv'
  <2>1. /\ table' = [table EXCEPT ![n] = Beat(n)] /\ Beat(n) \in Wire
        /\ Beat(n)[n] = table[n][n] + 1 /\ \A x \in Node \ {n} : Beat(n)[x] = table[n][x]
    BY <1>1, <1>t, <1>r, BeatIsWire DEF BeginRound, Beat, Wire
  <2>2. \A x \in Node : table[x][x] \in Int /\ table[n][x] \in Int
    BY <1>r, GossipBounds DEF Wire, Unknown
  <2>3. \A x \in Node : table[x][x] <= table'[x][x]
    BY <2>1, <2>2, <1>r
  <2>4. ASSUME crashes = 0 PROVE Honest(Beat(n), table')
    <3>1. \A x \in Node : table[n][x] <= table[x][x]
      BY <1>h, <2>4 DEF Honest
    <3> QED
      BY <3>1, <2>1, <2>2, <1>r DEF Honest
  <2>5. ASSUME crashes = 0, NEW k \in Node PROVE Honest(table'[k], table')
    <3>1. CASE k = n
      BY <3>1, <2>1, <2>4, <2>5, <1>r
    <3>2. CASE k # n
      <4>1. table'[k] = table[k] /\ table[k] \in Wire /\ Honest(table[k], table)
        BY <3>2, <2>1, <2>5, <1>h, <1>r
      <4>2. Honest(table[k], table')
        BY <4>1, <2>3, <1>t, HonestStays DEF Honest
      <4> QED
        BY <4>1, <4>2
    <3> QED
      BY <3>1, <3>2
  <2>6. ASSUME crashes = 0, NEW r \in (requests \cup merging \cup replies)'
        PROVE  Honest(r.wire, table')
    <3>1. r \in requests \cup merging \cup replies \/ r.wire = Beat(n)
      BY <1>1 DEF BeginRound
    <3>2. CASE r \in requests \cup merging \cup replies
      BY <3>2, <2>3, <2>6, <1>h, <1>w, <1>t, HonestStays
    <3> QED
      BY <3>1, <3>2, <2>4, <2>6
  <2>7. NoInventedBeat'
    BY <2>5, <2>6, <1>1 DEF NoInventedBeat, Honest, BeginRound
  <2> QED
    BY <2>7, <1>1, <1>t, <1>h DEF Inv, BeginRound
<1>2. ASSUME NEW r \in requests, Handle(r) PROVE Inv'
  <2>1. \A m \in merging' : m \in merging \/ (m.wire = r.wire /\ m.held = Nobody /\ m.at \in Node)
    BY <1>2, <1>r DEF Handle, Request
  <2> QED
    BY <2>1, <1>2, <1>s, <1>t, NobodyAssumption DEF Handle
<1>3. ASSUME NEW m \in merging, NEW x \in Node, CompareEntry(m, x) PROVE Inv'
  <2> DEFINE m2 == IF News(m.at, x, m.wire[x])
                   THEN [m EXCEPT !.todo = @ \ {x}, !.held = x, !.current = table[m.at][x]]
                   ELSE [m EXCEPT !.todo = @ \ {x}]
  <2>1. m \in Merge
    BY <1>r
  <2>2. m2.wire = m.wire /\ m2.at = m.at /\ m2.held = IF News(m.at, x, m.wire[x]) THEN x ELSE Nobody
    BY <2>1, <1>3 DEF Merge, CompareEntry
  <2>3. m2.held # m2.at
    BY <2>1, <2>2, NobodyAssumption DEF News, Merge
  <2>4. merging' = (merging \ {m}) \cup {m2}
    BY <1>3 DEF CompareEntry, Becomes
  <2> HIDE DEF m2
  <2> QED
    BY <2>2, <2>3, <2>4, <1>3, <1>s, <1>t DEF CompareEntry
<1>4. ASSUME NEW m \in merging, WriteEntry(m) PROVE Inv'
  <2> DEFINE m2 == [m EXCEPT !.held = Nobody, !.current = Unknown]
  <2>1. m \in Merge /\ m.held \in Node /\ m.at \in Node /\ m.held # m.at /\ m.wire \in Wire
    BY <1>4, <1>r, <1>t DEF WriteEntry, Merge
  <2>2. /\ table' = [table EXCEPT ![m.at] = [table[m.at] EXCEPT ![m.held] = m.wire[m.held]]]
        /\ table[m.at] \in Wire
    BY <1>4, <2>1, <1>r DEF WriteEntry, Taken
  <2>3. \A x \in Node : table'[x][x] = table[x][x]
    BY <2>1, <2>2, <1>r DEF Wire
  <2>4. \A x \in Node : table[x][x] \in Int
    BY <1>r, GossipBounds DEF Wire, Unknown
  <2>5. \A w : Honest(w, table') <=> Honest(w, table)
    BY <2>3 DEF Honest
  <2>6. ASSUME crashes = 0, NEW k \in Node PROVE Honest(table'[k], table)
    <3>1. Honest(table[k], table) /\ Honest(m.wire, table)
      BY <2>6, <1>h
    <3> QED
      BY <3>1, <2>1, <2>2, <1>r DEF Honest, Wire
  <2>7. /\ (requests \cup replies)' = requests \cup replies /\ UNCHANGED <<crashes, up>>
        /\ merging' = (merging \ {m}) \cup {m2}
    BY <1>4 DEF WriteEntry, Becomes
  <2>8. m2.wire = m.wire /\ m2.held = Nobody /\ m2.at = m.at
    BY <2>1 DEF Merge
  <2> HIDE DEF m2
  <2>9. NoInventedBeat'
    BY <2>5, <2>6, <2>7, <2>8, <1>h DEF NoInventedBeat, Honest
  <2> QED
    BY <2>1, <2>7, <2>8, <2>9, <1>t, <1>h, NobodyAssumption DEF Inv
<1>5. ASSUME NEW m \in merging, EndMerge(m) PROVE Inv'
  <2>1. m.at \in Node /\ merging' \subseteq merging
    BY <1>5, <1>r DEF EndMerge, Merge
  <2>2. \A r \in replies' : r \in replies \/ r.wire = table[m.at]
    BY <1>5 DEF EndMerge
  <2> QED
    BY <2>1, <2>2, <1>5, <1>s, <1>t DEF EndMerge
<1>6. ASSUME NEW r \in replies, TakeReply(r) PROVE Inv'
  <2>1. \A m \in merging' : m \in merging \/ (m.wire = r.wire /\ m.held = Nobody /\ m.at \in Node)
    BY <1>6, <1>r DEF TakeReply, Reply
  <2> QED
    BY <2>1, <1>6, <1>s, <1>t, NobodyAssumption DEF TakeReply
<1>7. ASSUME NEW n \in Node, CallFails(n) \/ PeerGone(n) PROVE Inv'
  <2>1. /\ \A r \in Request : [r EXCEPT !.waited = FALSE].wire = r.wire
        /\ \A m \in Merge : /\ [m EXCEPT !.waited = FALSE].wire = m.wire
                            /\ [m EXCEPT !.waited = FALSE].held = m.held
                            /\ [m EXCEPT !.waited = FALSE].at = m.at
    BY DEF Request, Merge
  <2>2. ASSUME NEW r \in requests' PROVE \E q \in requests : r.wire = q.wire
    <3>1. PICK q \in requests : r = IF q.from = n THEN [q EXCEPT !.waited = FALSE] ELSE q
      BY <1>7 DEF CallFails, PeerGone, GiveUp
    <3> QED
      BY <3>1, <2>1, <1>r
  <2>3. ASSUME NEW m \in merging'
        PROVE  \E q \in merging : m.wire = q.wire /\ m.held = q.held /\ m.at = q.at
    <3>1. PICK q \in merging : m = IF q.for = n THEN [q EXCEPT !.waited = FALSE] ELSE q
      BY <1>7 DEF CallFails, PeerGone, GiveUp
    <3> QED
      BY <3>1, <2>1, <1>r
  <2>4. replies' \subseteq replies /\ UNCHANGED <<table, up, crashes>>
    BY <1>7 DEF CallFails, PeerGone, GiveUp
  <2> QED
    BY <2>2, <2>3, <2>4, <1>s, <1>t
<1>8. ASSUME NEW n \in Node, NEW x \in Node, FallSilent(n, x) PROVE Inv'
  BY <1>8, <1>s, <1>t DEF FallSilent
<1>9. ASSUME NEW n \in Node, Crash(n) PROVE Inv'
  <2>1. crashes' # 0
    BY <1>9, <1>r DEF Crash
  <2>2. \A m \in Merge : /\ [m EXCEPT !.waited = FALSE].held = m.held
                         /\ [m EXCEPT !.waited = FALSE].at = m.at
    BY DEF Merge
  <2>3. ASSUME NEW m \in merging' PROVE m.held # m.at
    <3>1. PICK q \in merging : m = IF q.for = n THEN [q EXCEPT !.waited = FALSE] ELSE q
      BY <1>9 DEF Crash
    <3> QED
      BY <3>1, <2>2, <1>t, <1>r
  <2> QED
    BY <2>1, <2>3, <1>t DEF Inv, NoInventedBeat
<1>10. ASSUME NEW n \in Node, Restart(n) PROVE Inv'
  <2>1. crashes # 0 /\ crashes' = crashes /\ merging' = merging
    BY <1>10, <1>h DEF Restart
  <2> QED
    BY <2>1, <1>t DEF Inv, NoInventedBeat
<1>11. CASE Exhausted \/ UNCHANGED vars
  BY <1>11, <1>s, <1>t DEF Exhausted, vars
<1> QED
  BY <1>1, <1>2, <1>3, <1>4, <1>5, <1>6, <1>7, <1>8, <1>9, <1>10, <1>11
  DEF Next, RoundStep, MergeStep

\* However merges race, calls are repeated or given up and tables travel by way
\* of third nodes, no table, merge or message claims a beat of a node that the
\* node has not made, as long as no process restarts (Gossip's NoInventedBeat).
THEOREM NoBeatIsInvented == Spec => []NoInventedBeat
<1>1. Inv => NoInventedBeat
  BY DEF Inv
<1> QED
  BY <1>1, InvInit, InvNext, PTL DEF Spec

-----------------------------------------------------------------------------
(***************************************************************************)
(* A push-pull exchange works for any roster: the answer that comes back   *)
(* was given by a peer that knew no less than the caller's present counter.*)
(*                                                                         *)
(* The argument follows one call from the request to its answer.  Until it *)
(* is answered or given up its caller makes no other beat, so the counter  *)
(* it carries stays the caller's present one (Carried); the merge at the   *)
(* peer has the caller's entry still to do, is about to write it, or has   *)
(* left it in the table (Passed).  There a write displaces it only by a    *)
(* larger counter (Compared), unless another merge came in between, which  *)
(* is what raced records.  That the caller does nothing else meanwhile     *)
(* rests on its having one call at a time (OneCall), and that a restart    *)
(* resets no table a merge works on, on stopped nodes having none (Alive). *)
(***************************************************************************)

\* What a merge is about to write is more than what it compared with.
Compared == \A m \in merging : m.held # Nobody => m.wire[m.held] > m.current

\* A process that does not run waits for no answer and merges nothing.
Alive == /\ \A n \in Node : worker[n] \in {"calling", "merging"} => n \in up
         /\ \A m \in merging : m.at \in up

\* The caller still waits, and its counter is the one it sent.
Carried(caller, wire) ==
    worker[caller] = "calling" /\ wire[caller] = table[caller][caller]

\* The caller's counter is not lost in merge m.
Passed(m) == \/ m.for \in m.todo \/ m.held = m.for
             \/ table[m.at][m.for] >= table[m.for][m.for]

RequestInv == \A r \in requests :
    r.from # r.to /\ (r.waited => Carried(r.from, r.wire))

MergeInv == \A m \in merging :
    /\ m.for = m.at => m.waited /\ worker[m.at] = "merging"
    /\ m.for # m.at /\ m.waited =>
           Carried(m.for, m.wire) /\ (<<m.at, m.for>> \notin raced => Passed(m))

ReplyInv == \A r \in replies :
    /\ r.from # r.to /\ worker[r.to] = "calling"
    /\ <<r.from, r.to>> \notin raced => r.wire[r.to] >= table[r.to][r.to]

\* What a caller waits for is one request, one merge or one answer.
OneCall ==
    /\ \A r, q \in requests : r.waited /\ q.waited /\ r.from = q.from => r = q
    /\ \A m, k \in merging : m.waited /\ k.waited /\ m.for = k.for => m = k
    /\ \A r, q \in replies : r.to = q.to => r = q
    /\ \A r \in requests, m \in merging : r.waited /\ m.waited => r.from # m.for
    /\ \A r \in requests, q \in replies : r.waited => r.from # q.to
    /\ \A m \in merging, q \in replies : m.waited => m.for # q.to

Started == \A n \in Node : table[n][n] >= 0

Exchange == Started /\ RequestInv /\ MergeInv /\ ReplyInv /\ OneCall

XInv == Inv /\ Compared /\ Alive /\ Exchange

LEMMA XInit == Init => XInv
<1> SUFFICES ASSUME Init PROVE XInv
  OBVIOUS
<1>1. Inv
  BY InvInit
<1>2. Started
  BY DEF Init, Fresh, Started
<1>3. RequestInv /\ MergeInv /\ ReplyInv /\ OneCall /\ Compared /\ Alive
  BY DEF Init, RequestInv, MergeInv, ReplyInv, OneCall, Compared, Alive
<1> QED
  BY <1>1, <1>2, <1>3 DEF XInv, Exchange

\* A merge keeps the entry it compared with while it holds the larger one.
LEMMA ComparedNext == TypeOK /\ Compared /\ [Next]_vars => Compared'
<1> SUFFICES ASSUME TypeOK, Compared, [Next]_vars PROVE Compared'
  OBVIOUS
<1>r. merging \subseteq Merge
  BY DEF TypeOK, Merge
<1>1. ASSUME NEW m \in merging, NEW x \in Node, CompareEntry(m, x) PROVE Compared'
  <2> DEFINE k == IF News(m.at, x, m.wire[x])
                  THEN [m EXCEPT !.todo = @ \ {x}, !.held = x, !.current = table[m.at][x]]
                  ELSE [m EXCEPT !.todo = @ \ {x}]
  <2>1. merging' = (merging \ {m}) \cup {k} /\ m \in Merge /\ m.held = Nobody
    BY <1>1, <1>r DEF CompareEntry, Becomes
  <2>2. k.held # Nobody => k.wire[k.held] > k.current
    BY <2>1 DEF News, Merge
  <2> HIDE DEF k
  <2> QED
    BY <2>1, <2>2 DEF Compared
<1>2. ASSUME NEW m \in merging, WriteEntry(m) PROVE Compared'
  <2> DEFINE k == [m EXCEPT !.held = Nobody, !.current = Unknown]
  <2>1. merging' = (merging \ {m}) \cup {k} /\ m \in Merge
    BY <1>2, <1>r DEF WriteEntry, Becomes
  <2>2. k.held = Nobody
    BY <2>1 DEF Merge
  <2> HIDE DEF k
  <2> QED
    BY <2>1, <2>2 DEF Compared
<1>3. ASSUME \A m \in merging' :
               \/ m.held = Nobody
               \/ \E q \in merging : m.held = q.held /\ m.wire = q.wire /\ m.current = q.current
      PROVE  Compared'
  BY <1>3 DEF Compared
<1>4. ASSUME NEW n \in Node, CallFails(n) \/ PeerGone(n) \/ Crash(n) PROVE Compared'
  <2>1. ASSUME NEW m \in merging'
        PROVE  \E q \in merging : m.held = q.held /\ m.wire = q.wire /\ m.current = q.current
    <3>1. PICK q \in merging : m = IF q.for = n THEN [q EXCEPT !.waited = FALSE] ELSE q
      BY <1>4 DEF CallFails, PeerGone, GiveUp, Crash
    <3>2. q \in Merge
      BY <1>r
    <3> QED
      BY <3>1, <3>2 DEF Merge
  <2> QED
    BY <2>1, <1>3
<1>5. ASSUME NEW r, Handle(r) \/ TakeReply(r) PROVE Compared'
  BY <1>5, <1>3 DEF Handle, TakeReply
<1>6. ASSUME NEW m, EndMerge(m) PROVE Compared'
  BY <1>6, <1>3 DEF EndMerge
<1>7. CASE UNCHANGED merging
  BY <1>7, <1>3
<1> QED
  BY <1>1, <1>2, <1>4, <1>5, <1>6, <1>7
  DEF Next, RoundStep, MergeStep, BeginRound, FallSilent, Restart, Exhausted, vars

\* Threads run in processes that run.
LEMMA AliveNext == TypeOK /\ Alive /\ ReplyInv /\ [Next]_vars => Alive'
<1> SUFFICES ASSUME TypeOK, Alive, ReplyInv, [Next]_vars PROVE Alive'
  OBVIOUS
<1>r. /\ requests \subseteq Request /\ merging \subseteq Merge /\ replies \subseteq Reply
      /\ worker \in [Node -> {"waiting", "calling", "merging", "stopped"}]
  BY DEF TypeOK, Request, Merge, Reply
<1>1. ASSUME NEW n \in Node, NEW peer \in Node, BeginRound(n, peer) PROVE Alive'
  BY <1>1, <1>r DEF BeginRound, Alive
<1>2. ASSUME NEW r \in requests, Handle(r) PROVE Alive'
  BY <1>2 DEF Handle, Alive
<1>3. ASSUME NEW m \in merging, NEW x \in Node, CompareEntry(m, x) PROVE Alive'
  <2> DEFINE k == IF News(m.at, x, m.wire[x])
                  THEN [m EXCEPT !.todo = @ \ {x}, !.held = x, !.current = table[m.at][x]]
                  ELSE [m EXCEPT !.todo = @ \ {x}]
  <2>1. merging' = (merging \ {m}) \cup {k} /\ m \in Merge /\ UNCHANGED <<worker, up>>
    BY <1>3, <1>r DEF CompareEntry, Becomes
  <2>2. k.at = m.at
    BY <2>1 DEF Merge
  <2> HIDE DEF k
  <2> QED
    BY <2>1, <2>2 DEF Alive
<1>4. ASSUME NEW m \in merging, WriteEntry(m) PROVE Alive'
  <2> DEFINE k == [m EXCEPT !.held = Nobody, !.current = Unknown]
  <2>1. merging' = (merging \ {m}) \cup {k} /\ m \in Merge /\ UNCHANGED <<worker, up>>
    BY <1>4, <1>r DEF WriteEntry, Becomes
  <2>2. k.at = m.at
    BY <2>1 DEF Merge
  <2> HIDE DEF k
  <2> QED
    BY <2>1, <2>2 DEF Alive
<1>5. ASSUME NEW m \in merging, EndMerge(m) PROVE Alive'
  BY <1>5, <1>r DEF EndMerge, Alive
<1>6. ASSUME NEW r \in replies, TakeReply(r) PROVE Alive'
  <2>1. r.to \in Node /\ r.to \in up
    BY <1>r DEF Alive, ReplyInv, Reply
  <2> QED
    BY <1>6, <1>r, <2>1 DEF TakeReply, Alive
<1>7. ASSUME NEW n \in Node, CallFails(n) \/ PeerGone(n) PROVE Alive'
  <2>1. ASSUME NEW m \in merging' PROVE m.at \in up
    <3>1. PICK q \in merging : m = IF q.for = n THEN [q EXCEPT !.waited = FALSE] ELSE q
      BY <1>7 DEF CallFails, PeerGone, GiveUp
    <3>2. q \in Merge
      BY <1>r
    <3> QED
      BY <3>1, <3>2 DEF Merge, Alive
  <2> QED
    BY <2>1, <1>7, <1>r DEF CallFails, PeerGone, Alive
<1>8. ASSUME NEW n \in Node, Crash(n) PROVE Alive'
  <2>1. ASSUME NEW m \in merging' PROVE m.at \in up \ {n}
    <3>1. PICK q \in merging : q.at # n /\ m = IF q.for = n THEN [q EXCEPT !.waited = FALSE] ELSE q
      BY <1>8 DEF Crash
    <3>2. q \in Merge
      BY <1>r
    <3> QED
      BY <3>1, <3>2 DEF Merge, Alive
  <2>2. up' = up \ {n} /\ worker' = [worker EXCEPT ![n] = "stopped"]
    BY <1>8 DEF Crash
  <2> QED
    BY <2>1, <2>2, <1>r DEF Alive
<1>9. ASSUME NEW n \in Node, Restart(n) PROVE Alive'
  BY <1>9, <1>r DEF Restart, Alive
<1>10. CASE UNCHANGED <<worker, up, merging>>
  BY <1>10 DEF Alive
<1> QED
  BY <1>1, <1>2, <1>3, <1>4, <1>5, <1>6, <1>7, <1>8, <1>9, <1>10
  DEF Next, RoundStep, MergeStep, FallSilent, Exhausted, vars

LEMMA XNext == XInv /\ [Next]_vars => XInv'
<1> SUFFICES ASSUME XInv, [Next]_vars PROVE Exchange'
  BY InvNext, ComparedNext, AliveNext DEF XInv, Inv, Exchange
<1>t. /\ TypeOK /\ (\A m \in merging : m.held # m.at) /\ Compared /\ Alive
      /\ Started /\ RequestInv /\ MergeInv /\ ReplyInv /\ OneCall
  BY DEF XInv, Inv, Exchange
<1>r. /\ requests \subseteq Request /\ merging \subseteq Merge /\ replies \subseteq Reply
      /\ table \in [Node -> Wire] /\ worker \in [Node -> {"waiting", "calling", "merging", "stopped"}]
  BY <1>t DEF TypeOK, Request, Merge, Reply
<1>i. \A w \in Wire, x \in Node : w[x] \in Int
  BY GossipBounds DEF Wire, Unknown
<1>1. ASSUME NEW n \in Node, NEW peer \in Node, BeginRound(n, peer) PROVE Exchange'
  <2> DEFINE call == [from |-> n, to |-> peer, wire |-> Beat(n), waited |-> TRUE]
  <2>1. /\ call.from = n /\ call.to = peer /\ call.wire = Beat(n) /\ call.waited
        /\ requests' = requests \cup {call} /\ n # peer /\ worker[n] = "waiting"
        /\ worker' = [worker EXCEPT ![n] = "calling"]
        /\ UNCHANGED <<merging, replies, raced>>
    BY <1>1 DEF BeginRound
  <2> HIDE DEF call
  <2>2. /\ table' = [table EXCEPT ![n] = Beat(n)] /\ Beat(n)[n] = table[n][n] + 1
        /\ \A x \in Node \ {n} : Beat(n)[x] = table[n][x]
    BY <1>1, <1>t, <1>r, BeatIsWire DEF BeginRound, Beat, Wire
  <2>3. /\ \A k, x \in Node : k # n \/ x # n => table'[k][x] = table[k][x]
        /\ table'[n][n] = table[n][n] + 1
    BY <2>2, <1>r
  <2>4. Started'
    BY <2>3, <1>t, <1>r, GossipBounds DEF Started, Wire, Unknown
  <2>5. /\ \A r \in requests : r.waited => r.from # n
        /\ \A m \in merging : m.waited => m.for # n
        /\ \A r \in replies : r.to # n
    BY <2>1, <1>t, <1>r DEF RequestInv, MergeInv, ReplyInv, Carried, Request, Merge, Reply
  <2>6. RequestInv'
    BY <2>1, <2>2, <2>3, <2>5, <1>t, <1>r DEF RequestInv, Carried, Request
  <2>7. MergeInv'
    <3>1. ASSUME NEW m \in merging, m.for # m.at, m.waited
          PROVE  /\ table'[m.at][m.for] = table[m.at][m.for]
                 /\ table'[m.for][m.for] = table[m.for][m.for]
                 /\ worker'[m.for] = worker[m.for]
      BY <3>1, <2>1, <2>3, <2>5, <1>r DEF Merge
    <3>2. ASSUME NEW m \in merging, m.for = m.at PROVE m.waited /\ worker'[m.at] = "merging"
      BY <3>2, <2>1, <2>5, <1>t, <1>r DEF MergeInv, Merge
    <3> QED
      BY <3>1, <3>2, <2>1, <1>t DEF MergeInv, Carried, Passed
  <2>8. ReplyInv'
    <3>1. ASSUME NEW r \in replies
          PROVE  table'[r.to][r.to] = table[r.to][r.to] /\ worker'[r.to] = worker[r.to]
      BY <2>1, <2>3, <2>5, <1>r DEF Reply
    <3> QED
      BY <3>1, <2>1, <1>t DEF ReplyInv
  <2>9. OneCall'
    BY <2>1, <2>5, <1>t DEF OneCall
  <2> QED
    BY <2>4, <2>6, <2>7, <2>8, <2>9 DEF Exchange
<1>2. ASSUME NEW r \in requests, Handle(r) PROVE Exchange'
  <2> DEFINE m == [at |-> r.to, for |-> r.from, wire |-> r.wire, waited |-> r.waited,
                   todo |-> Known(r.wire), held |-> Nobody, current |-> Unknown]
  <2>1. /\ m.at = r.to /\ m.for = r.from /\ m.wire = r.wire /\ m.waited = r.waited
        /\ m.todo = Known(r.wire)
        /\ requests' = requests \ {r} /\ merging' = merging \cup {m}
        /\ UNCHANGED <<table, worker, replies, raced>>
    BY <1>2 DEF Handle
  <2> HIDE DEF m
  <2>2. r \in Request /\ r.from \in Node /\ r.wire \in Wire /\ r.from # r.to
    BY <1>r, <1>t DEF Request, RequestInv
  <2>3. r.waited => Carried(r.from, r.wire) /\ r.from \in Known(r.wire)
    <3>1. table[r.from][r.from] >= 0
      BY <2>2, <1>t DEF Started
    <3> QED
      BY <3>1, <2>2, <1>t DEF RequestInv, Carried, Known, Unknown
  <2>4. RequestInv'
    BY <2>1, <1>t DEF RequestInv, Carried
  <2>5. MergeInv'
    BY <2>1, <2>2, <2>3, <1>t DEF MergeInv, Carried, Passed
  <2>6. OneCall'
    BY <2>1, <1>t DEF OneCall
  <2> QED
    BY <2>1, <2>4, <2>5, <2>6, <1>t DEF Exchange, Started, ReplyInv
<1>3. ASSUME NEW m \in merging, NEW x \in Node, CompareEntry(m, x) PROVE Exchange'
  <2> DEFINE k == IF News(m.at, x, m.wire[x])
                  THEN [m EXCEPT !.todo = @ \ {x}, !.held = x, !.current = table[m.at][x]]
                  ELSE [m EXCEPT !.todo = @ \ {x}]
  <2>1. m \in Merge /\ m.at \in Node /\ m.for \in Node /\ m.wire \in Wire
    BY <1>r DEF Merge
  <2>2. /\ k.at = m.at /\ k.for = m.for /\ k.wire = m.wire /\ k.waited = m.waited
        /\ k.todo = m.todo \ {x} /\ k.held = IF News(m.at, x, m.wire[x]) THEN x ELSE Nobody
    BY <2>1, <1>3 DEF Merge, CompareEntry
  <2>3. /\ merging' = (merging \ {m}) \cup {k} /\ m.held = Nobody
        /\ UNCHANGED <<table, worker, requests, replies, raced>>
    BY <1>3 DEF CompareEntry, Becomes
  <2> HIDE DEF k
  <2>4. ASSUME m.for # m.at, m.waited, <<m.at, m.for>> \notin raced PROVE Passed(k)
    <3>1. Carried(m.for, m.wire) /\ Passed(m)
      BY <2>4, <1>t DEF MergeInv
    <3>2. CASE x = m.for
      <4>1. table[m.at][m.for] \in Int /\ table[m.for][m.for] \in Int
        BY <1>r, <1>i, <2>1
      <4> QED
        BY <3>1, <3>2, <4>1, <2>2, <2>3, <2>4 DEF News, Carried, Passed
    <3>3. CASE x # m.for
      BY <3>1, <3>3, <2>1, <2>2, <2>3, NobodyAssumption DEF Passed
    <3> QED
      BY <3>2, <3>3
  <2>5. MergeInv'
    BY <2>2, <2>3, <2>4, <1>t DEF MergeInv, Carried, Passed
  <2>6. OneCall'
    BY <2>2, <2>3, <1>t DEF OneCall
  <2> QED
    BY <2>3, <2>5, <2>6, <1>t DEF Exchange, Started, ReplyInv, RequestInv, Carried
<1>4. ASSUME NEW m \in merging, WriteEntry(m) PROVE Exchange'
  <2> DEFINE k == [m EXCEPT !.held = Nobody, !.current = Unknown]
  <2>1. /\ m \in Merge /\ m.held \in Node /\ m.at \in Node /\ m.for \in Node
        /\ m.held # m.at /\ m.wire \in Wire
    BY <1>4, <1>r, <1>t DEF WriteEntry, Merge
  <2>2. /\ k.at = m.at /\ k.for = m.for /\ k.wire = m.wire /\ k.waited = m.waited
        /\ k.todo = m.todo /\ k.held = Nobody
    BY <2>1 DEF Merge
  <2>3. /\ merging' = (merging \ {m}) \cup {k}
        /\ UNCHANGED <<worker, requests, replies>> /\ raced \subseteq raced'
    BY <1>4, <2>1 DEF WriteEntry, Becomes
  <2>4. /\ table'[m.at][m.held] = m.wire[m.held]
        /\ \A n, x \in Node : n # m.at \/ x # m.held => table'[n][x] = table[n][x]
    BY <1>4, <2>1, <1>r DEF WriteEntry, Taken, Wire
  <2>5. \A x \in Node : table'[x][x] = table[x][x]
    BY <2>1, <2>4
  <2> HIDE DEF k
  <2>n. /\ table[m.at][m.held] \in Int /\ m.wire[m.held] \in Int /\ table[m.held][m.held] \in Int
        /\ <<m.at, m.held>> \notin raced' => m.wire[m.held] >= table[m.at][m.held]
    <3>1. /\ table[m.at][m.held] \in Int /\ m.wire[m.held] \in Int
          /\ table[m.held][m.held] \in Int
      BY <2>1, <1>r, <1>i
    <3>2. m.held # Nobody /\ m.wire[m.held] > m.current
      BY <2>1, <1>t, NobodyAssumption DEF Compared
    <3>3. <<m.at, m.held>> \notin raced' => ~ SetsBack(m)
      BY <1>4 DEF WriteEntry
    <3> QED
      BY <3>1, <3>2, <3>3 DEF SetsBack, Overtaken
  <2>6. ASSUME NEW q \in merging, q.for # q.at, q.waited, <<q.at, q.for>> \notin raced'
        PROVE  q.for \in q.todo \/ q.held = q.for \/ table'[q.at][q.for] >= table'[q.for][q.for]
    <3>1. Passed(q) /\ q.at \in Node /\ q.for \in Node
      BY <2>3, <2>6, <1>t, <1>r DEF MergeInv, Merge
    <3>2. CASE q.at = m.at /\ q.for = m.held
      <4>1. table'[m.at][m.held] >= table[m.at][m.held]
        BY <2>n, <2>4, <2>6, <3>2
      <4> QED
        BY <3>1, <3>2, <4>1, <2>n, <2>1, <2>4, <2>5 DEF Passed
    <3>3. CASE q.at # m.at \/ q.for # m.held
      BY <3>1, <3>3, <2>4, <2>5 DEF Passed
    <3> QED
      BY <3>2, <3>3
  <2>7. ASSUME k.for # k.at, k.waited, <<k.at, k.for>> \notin raced'
        PROVE  k.for \in k.todo \/ k.held = k.for \/ table'[k.at][k.for] >= table'[k.for][k.for]
    <3>1. CASE m.held = m.for
      <4>1. m.wire[m.for] = table[m.for][m.for]
        BY <2>2, <2>7, <1>t DEF MergeInv, Carried
      <4> QED
        BY <3>1, <4>1, <2>1, <2>2, <2>4, <2>5, <2>n
    <3>2. CASE m.held # m.for
      BY <3>2, <2>2, <2>6, <2>7
    <3> QED
      BY <3>1, <3>2
  <2>8. RequestInv'
    BY <2>3, <2>5, <1>t, <1>r DEF RequestInv, Carried, Request
  <2>9. MergeInv'
    <3>1. \A q \in merging \cup {k} : q.for \in Node
      BY <2>1, <2>2, <1>r DEF Merge
    <3>2. ASSUME NEW q \in merging \cup {k}, q.for # q.at, q.waited
          PROVE  worker'[q.for] = "calling" /\ q.wire[q.for] = table'[q.for][q.for]
      <4>1. worker[q.for] = "calling" /\ q.wire[q.for] = table[q.for][q.for]
        BY <3>2, <2>2, <1>t DEF MergeInv, Carried
      <4> QED
        BY <3>1, <4>1, <2>3, <2>5
    <3>3. \A q \in merging' : q.for = q.at => q.waited /\ worker'[q.at] = "merging"
      BY <2>2, <2>3, <1>t DEF MergeInv
    <3> QED
      BY <3>2, <3>3, <2>3, <2>6, <2>7 DEF MergeInv, Passed, Carried
  <2>10. ReplyInv'
    BY <2>3, <2>5, <1>t, <1>r DEF ReplyInv, Reply
  <2>11. OneCall'
    BY <2>2, <2>3, <1>t DEF OneCall
  <2> QED
    BY <2>5, <2>8, <2>9, <2>10, <2>11, <1>t DEF Exchange, Started
<1>5. ASSUME NEW m \in merging, EndMerge(m) PROVE Exchange'
  <2>1. /\ m \in Merge /\ m.at \in Node /\ m.for \in Node /\ m.todo = {} /\ m.held # m.for
        /\ merging' = merging \ {m} /\ UNCHANGED <<table, requests, raced>>
    BY <1>5, <1>r, NobodyAssumption DEF EndMerge, Merge
  <2>2. Started'
    BY <2>1, <1>t DEF Started
  <2>3. CASE m.for = m.at
    <3>1. /\ worker' = [worker EXCEPT ![m.at] = "waiting"] /\ replies' = replies
          /\ m.waited /\ worker[m.at] = "merging"
      BY <1>5, <2>3, <1>t DEF EndMerge, MergeInv
    <3>2. /\ \A r \in requests : r.waited => r.from # m.at
          /\ \A q \in merging' : q.waited => q.for # m.at
          /\ \A r \in replies : r.to # m.at
      BY <3>1, <2>1, <2>3, <1>t DEF OneCall
    <3>3. RequestInv'
      BY <3>1, <3>2, <2>1, <1>t, <1>r DEF RequestInv, Carried, Request
    <3>4. MergeInv'
      BY <3>1, <3>2, <2>1, <1>t, <1>r DEF MergeInv, Carried, Passed, Merge
    <3>5. ReplyInv'
      BY <3>1, <3>2, <2>1, <1>t, <1>r DEF ReplyInv, Reply
    <3>6. OneCall'
      BY <3>1, <2>1, <1>t DEF OneCall
    <3> QED
      BY <2>2, <3>3, <3>4, <3>5, <3>6 DEF Exchange
  <2>4. CASE m.for # m.at
    <3> DEFINE r == [from |-> m.at, to |-> m.for, wire |-> table[m.at]]
    <3>1. /\ r.from = m.at /\ r.to = m.for /\ r.wire = table[m.at] /\ worker' = worker
          /\ replies' = IF m.waited THEN replies \cup {r} ELSE replies
      BY <1>5, <2>4 DEF EndMerge
    <3> HIDE DEF r
    <3>2. m.waited => /\ worker[m.for] = "calling"
                      /\ <<m.at, m.for>> \notin raced => table[m.at][m.for] >= table[m.for][m.for]
      BY <2>1, <2>4, <1>t DEF MergeInv, Carried, Passed
    <3>3. RequestInv' /\ MergeInv'
      BY <3>1, <2>1, <1>t DEF RequestInv, MergeInv, Carried, Passed
    <3>4. ReplyInv'
      BY <3>1, <3>2, <2>1, <2>4, <1>t DEF ReplyInv
    <3>5. OneCall'
      BY <3>1, <2>1, <1>t DEF OneCall
    <3> QED
      BY <2>2, <3>3, <3>4, <3>5 DEF Exchange
  <2> QED
    BY <2>3, <2>4
<1>6. ASSUME NEW r \in replies, TakeReply(r) PROVE Exchange'
  <2> DEFINE m == [at |-> r.to, for |-> r.to, wire |-> r.wire, waited |-> TRUE,
                   todo |-> Known(r.wire), held |-> Nobody, current |-> Unknown]
  <2>1. /\ m.at = r.to /\ m.for = r.to /\ m.waited /\ r.to \in Node
        /\ replies' = replies \ {r} /\ merging' = merging \cup {m}
        /\ worker' = [worker EXCEPT ![r.to] = "merging"]
        /\ UNCHANGED <<table, requests, raced>>
    BY <1>6, <1>r DEF TakeReply, Reply
  <2> HIDE DEF m
  <2>2. /\ \A q \in requests : q.waited => q.from # r.to
        /\ \A q \in merging : q.waited => q.for # r.to
        /\ \A q \in replies' : q.to # r.to
    BY <2>1, <1>t DEF OneCall
  <2>3. RequestInv'
    BY <2>1, <2>2, <1>t, <1>r DEF RequestInv, Carried, Request
  <2>4. MergeInv'
    BY <2>1, <2>2, <1>t, <1>r DEF MergeInv, Carried, Passed, Merge
  <2>5. ReplyInv'
    BY <2>1, <2>2, <1>t, <1>r DEF ReplyInv, Reply
  <2>6. OneCall'
    BY <2>1, <2>2, <1>t DEF OneCall
  <2> QED
    BY <2>1, <2>3, <2>4, <2>5, <2>6, <1>t DEF Exchange, Started
<1>7. ASSUME NEW n \in Node, CallFails(n) \/ PeerGone(n) PROVE Exchange'
  <2>1. /\ worker[n] = "calling" /\ worker' = [worker EXCEPT ![n] = "waiting"]
        /\ replies' = {r \in replies : r.to # n} /\ UNCHANGED <<table, raced>>
    BY <1>7 DEF CallFails, PeerGone, GiveUp
  <2>2. ASSUME NEW r \in requests'
        PROVE  \E q \in requests : /\ r.from = q.from /\ r.to = q.to /\ r.wire = q.wire
                                   /\ r.waited => r.from # n /\ r = q
    <3>1. PICK q \in requests : r = IF q.from = n THEN [q EXCEPT !.waited = FALSE] ELSE q
      BY <1>7 DEF CallFails, PeerGone, GiveUp
    <3>2. q \in Request
      BY <1>r
    <3> QED
      BY <3>1, <3>2 DEF Request
  <2>3. ASSUME NEW m \in merging'
        PROVE  \E q \in merging : /\ m.at = q.at /\ m.for = q.for
                                  /\ m.waited => m.for # n /\ m = q
                                  /\ m.for # n => m = q
    <3>1. PICK q \in merging : m = IF q.for = n THEN [q EXCEPT !.waited = FALSE] ELSE q
      BY <1>7 DEF CallFails, PeerGone, GiveUp
    <3>2. q \in Merge
      BY <1>r
    <3> QED
      BY <3>1, <3>2 DEF Merge
  <2>4. RequestInv'
    BY <2>1, <2>2, <1>t, <1>r DEF RequestInv, Carried, Request
  <2>5. MergeInv'
    <3>1. ASSUME NEW m \in merging', m.for = m.at PROVE m.waited /\ worker'[m.at] = "merging"
      <4>1. PICK q \in merging : m.at = q.at /\ m.for = q.for /\ (m.for # n => m = q)
        BY <2>3
      <4>2. worker[m.at] = "merging" /\ m.at \in Node
        BY <4>1, <3>1, <1>t, <1>r DEF MergeInv, Merge
      <4> QED
        BY <4>1, <4>2, <3>1, <2>1, <1>t, <1>r DEF MergeInv
    <3>2. ASSUME NEW m \in merging', m.waited PROVE m \in merging /\ m.for # n
      BY <3>2, <2>3
    <3> QED
      BY <3>1, <3>2, <2>1, <1>t, <1>r DEF MergeInv, Carried, Passed, Merge
  <2>6. ReplyInv'
    BY <2>1, <1>t, <1>r DEF ReplyInv, Reply
  <2>7. OneCall'
    <3>1. \A r \in requests' : r.waited => r \in requests
      BY <2>2
    <3>2. \A m \in merging' : m.waited => m \in merging
      BY <2>3
    <3> QED
      BY <3>1, <3>2, <2>1, <1>t DEF OneCall
  <2> QED
    BY <2>1, <2>4, <2>5, <2>6, <2>7, <1>t DEF Exchange, Started
<1>8. CASE UNCHANGED <<table, worker, requests, merging, replies, raced>>
  BY <1>8, <1>t DEF Exchange, Started, RequestInv, MergeInv, ReplyInv, OneCall, Carried, Passed
<1>9. ASSUME NEW n \in Node, Crash(n) PROVE Exchange'
  <2>1. /\ worker' = [worker EXCEPT ![n] = "stopped"] /\ UNCHANGED <<table, raced>>
        /\ \A r \in replies' : r \in replies /\ r.to # n
    BY <1>9 DEF Crash
  <2>2. ASSUME NEW r \in requests'
        PROVE  \E q \in requests : /\ r.from = q.from /\ r.to = q.to /\ r.wire = q.wire
                                   /\ r.waited => r.from # n /\ r = q
    <3>1. PICK q \in requests : r = IF q.from = n THEN [q EXCEPT !.waited = FALSE] ELSE q
      BY <1>9 DEF Crash
    <3>2. q \in Request
      BY <1>r
    <3> QED
      BY <3>1, <3>2 DEF Request
  <2>3. ASSUME NEW m \in merging'
        PROVE  \E q \in merging : /\ m.at = q.at /\ m.for = q.for /\ m.at # n
                                  /\ m.waited => m.for # n /\ m = q
                                  /\ m.for # n => m = q
    <3>1. PICK q \in merging : q.at # n /\ m = IF q.for = n THEN [q EXCEPT !.waited = FALSE] ELSE q
      BY <1>9 DEF Crash
    <3>2. q \in Merge
      BY <1>r
    <3> QED
      BY <3>1, <3>2 DEF Merge
  <2>4. RequestInv'
    BY <2>1, <2>2, <1>t, <1>r DEF RequestInv, Carried, Request
  <2>5. MergeInv'
    <3>1. ASSUME NEW m \in merging', m.for = m.at PROVE m.waited /\ worker'[m.at] = "merging"
      <4>1. PICK q \in merging : m.at = q.at /\ m.at # n /\ (m.for # n => m = q)
        BY <2>3
      <4> QED
        BY <4>1, <3>1, <2>1, <1>t, <1>r DEF MergeInv, Merge
    <3>2. ASSUME NEW m \in merging', m.waited PROVE m \in merging /\ m.for # n
      BY <3>2, <2>3
    <3> QED
      BY <3>1, <3>2, <2>1, <1>t, <1>r DEF MergeInv, Carried, Passed, Merge
  <2>6. ReplyInv'
    BY <2>1, <1>t, <1>r DEF ReplyInv, Reply
  <2>7. OneCall'
    <3>1. \A r \in requests' : r.waited => r \in requests
      BY <2>2
    <3>2. \A m \in merging' : m.waited => m \in merging
      BY <2>3
    <3> QED
      BY <3>1, <3>2, <2>1, <1>t DEF OneCall
  <2> QED
    BY <2>1, <2>4, <2>5, <2>6, <2>7, <1>t DEF Exchange, Started
<1>10. ASSUME NEW n \in Node, Restart(n) PROVE Exchange'
  <2>1. /\ \A k \in Node : k # n => table'[k] = table[k] /\ worker'[k] = worker[k]
        /\ table'[n][n] = 0 /\ UNCHANGED <<requests, merging, replies, raced>> /\ n \notin up
    BY <1>10, <1>r DEF Restart, Fresh
  <2>2. /\ worker[n] # "calling" /\ \A m \in merging : m.at # n
    BY <2>1, <1>t DEF Alive
  <2>3. /\ \A r \in requests : r.waited => r.from # n
        /\ \A m \in merging : m.for # m.at /\ m.waited => m.for # n
        /\ \A r \in replies : r.to # n
    BY <2>2, <1>t DEF RequestInv, MergeInv, ReplyInv, Carried
  <2>4. RequestInv'
    BY <2>1, <2>3, <1>t, <1>r DEF RequestInv, Carried, Request
  <2>5. MergeInv'
    BY <2>1, <2>2, <2>3, <1>t, <1>r DEF MergeInv, Carried, Passed, Merge
  <2>6. ReplyInv'
    BY <2>1, <2>3, <1>t, <1>r DEF ReplyInv, Reply
  <2>7. Started'
    <3>1. \A k \in Node : k # n => table'[k][k] >= 0
      BY <2>1, <1>t DEF Started
    <3> QED
      BY <3>1, <2>1 DEF Started
  <2>8. OneCall'
    BY <2>1, <1>t DEF OneCall
  <2> QED
    BY <2>4, <2>5, <2>6, <2>7, <2>8 DEF Exchange
<1> QED
  BY <1>1, <1>2, <1>3, <1>4, <1>5, <1>6, <1>7, <1>8, <1>9, <1>10
  DEF Next, RoundStep, MergeStep, FallSilent, Exhausted, vars

\* Whoever else merges at the peer meanwhile, whatever calls are given up or
\* handled late, and whoever stops and starts again, an answer that comes back
\* was given by a peer that knew no less than the caller's present counter, for
\* any roster and any number of rounds, failed calls and crashes; a peer where
\* racing merges set that counter back is excepted (Gossip's PeerKnowsBeat).
THEOREM ExchangeReachesPeer == Spec => []PeerKnowsBeat
<1>1. XInv => PeerKnowsBeat
  BY DEF XInv, Exchange, ReplyInv, PeerKnowsBeat
<1> QED
  BY <1>1, XInit, XNext, PTL DEF Spec

-----------------------------------------------------------------------------
(* Suspicion *)

\* The step that lifts a suspicion is a write, and by Compared what it writes is
\* more than what it replaces, unless the entry has changed since the compare.
LEMMA LiftedByNews ==
    ASSUME TypeOK, Compared, [Next]_vars,
           NEW n \in up, NEW x \in Node, x \in down[n], x \notin down'[n]
    PROVE  \/ table'[n][x] > table[n][x]
           \/ \E m \in merging : m.at = n /\ m.held = x /\ Overtaken(m)
<1>t. /\ table \in [Node -> Wire] /\ down \in [Node -> SUBSET Node] /\ n \in Node
      /\ merging \subseteq Merge
  BY DEF TypeOK, Merge
<1>1. ASSUME NEW m \in merging, WriteEntry(m)
      PROVE  table'[n][x] > table[n][x] \/ (m.at = n /\ m.held = x /\ Overtaken(m))
  <2>1. m.at \in Node /\ m.held \in Node /\ m.held # Nobody
    BY <1>1, <1>t DEF WriteEntry, Merge
  <2>2. down' = [down EXCEPT ![m.at] = @ \ {m.held}]
    BY <1>1 DEF WriteEntry
  <2>3. n = m.at /\ x = m.held
    BY <1>t, <2>1, <2>2
  <2>4. m.wire[m.held] > m.current
    BY <2>1 DEF Compared
  <2>5. table'[n][x] = m.wire[m.held]
    BY <1>1, <1>t, <2>1, <2>3 DEF WriteEntry, Taken, Wire
  <2>6. CASE table[m.at][m.held] = m.current
    BY <2>3, <2>4, <2>5, <2>6
  <2>7. CASE table[m.at][m.held] # m.current
    BY <2>1, <2>3, <2>7 DEF Overtaken
  <2> QED BY <2>6, <2>7
<1>2. ASSUME NEW y \in Node, NEW z \in Node, FallSilent(y, z)
      PROVE  FALSE
  <2>1. down' = [down EXCEPT ![y] = @ \cup {z}]
    BY <1>2 DEF FallSilent
  <2> QED BY <1>t, <2>1
<1>3. ASSUME NEW y \in Node, Restart(y)
      PROVE  FALSE
  <2>1. down' = [down EXCEPT ![y] = {}] /\ y # n
    BY <1>3 DEF Restart
  <2> QED BY <1>t, <2>1
<1>4. \/ \E m \in merging : WriteEntry(m)
      \/ \E y \in Node, z \in Node : FallSilent(y, z)
      \/ \E y \in Node : Restart(y)
      \/ UNCHANGED down
  BY DEF Next, RoundStep, MergeStep, BeginRound, CallFails, PeerGone, Crash, Handle,
         CompareEntry, EndMerge, TakeReply, Exhausted, vars
<1> QED BY <1>1, <1>2, <1>3, <1>4

\* A suspicion ends only when a larger counter of the suspect arrives, or in the
\* write of a merge whose compare was overtaken: never by an old table that comes
\* late, twice, by way of a third node or from before a restart, for any roster
\* and any number of calls, crashes and restarts (OnlyNewsLiftsSuspicion).
THEOREM SuspicionNeedsNews == Spec => OnlyNewsLiftsSuspicion
<1>1. Init => TypeOK /\ Compared
  BY TypeInit DEF Init, Compared
<1>2. TypeOK /\ Compared /\ [Next]_vars => (TypeOK /\ Compared)'
  BY TypeNext, ComparedNext
<1>3. TypeOK /\ Compared /\ [Next]_vars =>
         [\A n \in up, x \in Node :
            x \in down[n] \ down'[n] =>
               \/ table'[n][x] > table[n][x]
               \/ \E m \in merging : m.at = n /\ m.held = x /\ Overtaken(m)]_vars
  BY LiftedByNews
<1> QED BY <1>1, <1>2, <1>3, PTL DEF Spec, OnlyNewsLiftsSuspicion
=============================================================================
