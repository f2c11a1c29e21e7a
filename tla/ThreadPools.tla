---------------------------- MODULE ThreadPools ----------------------------
(***************************************************************************)
(* The two bounded resources behind every request, and how requests of     *)
(* several nodes wait for each other in them.  A handler runs on one of    *)
(* the threads that the process keeps for handlers, the same for clients   *)
(* and for peers since run.py serves all its apps from one event loop; a   *)
(* client's handler stays on its thread while it waits for its fan-outs.   *)
(* Node._executor runs the fan-outs, one task per replica; a task stays on *)
(* its worker until the replica answered or the 5 s of the HTTP client are *)
(* over.  Quorum logic and stored data are those of QuorumKV, and are left *)
(* out; all nodes hold every key, so nobody is there to take hints.        *)
(***************************************************************************)
EXTENDS Integers, FiniteSets

CONSTANTS Node, Nobody,
          Put,           \* requests that fan out twice, to read and to write
          Single,        \* requests that fan out once: gets and deletes
          Threads,       \* handler threads of a process
          Workers,       \* max_workers of the executor
          MaxHung        \* bound: nodes that take calls and never handle them

Request == Put \cup Single

ASSUME FiniteRoster == IsFiniteSet(Node)
ASSUME NobodyIsNoNode == Nobody \notin Node
ASSUME PoolBounds == /\ MaxHung \in Nat
                     /\ Threads \in Nat \ {0} /\ Workers \in Nat \ {0}

VARIABLES
    quorum,     \* R and W, configured
    hung,       \* nodes that never handle a call
    at,         \* the coordinator of each request
    stage,      \* of each request
    round,      \* the fan-out it is in
    done, failed, \* replicas whose task of that fan-out returned, or raised
    tasks,      \* what the executors have to do or are doing
    calls       \* calls to a peer that wait for one of its threads

vars == <<quorum, hung, at, stage, round, done, failed, tasks, calls>>

Rounds(o) == IF o \in Put THEN 2 ELSE 1

\* Threads of n that clients' handlers stay on; a peer's call needs one of the
\* others, for a moment.
Holding(n) == {o \in Request : at[o] = n /\ stage[o] = "running"}
ThreadFree(n) == Cardinality(Holding(n)) < Threads

Calling(n) == {t \in tasks : at[t.req] = n /\ t.calling}
WorkerFree(n) == Cardinality(Calling(n)) < Workers

Init == /\ quorum \in 1..Cardinality(Node)
        /\ hung \in {S \in SUBSET Node : Cardinality(S) <= MaxHung}
        /\ at = [o \in Request |-> Nobody] /\ stage = [o \in Request |-> "absent"]
        /\ round = [o \in Request |-> 0]
        /\ done = [o \in Request |-> {}] /\ failed = [o \in Request |-> {}]
        /\ tasks = {} /\ calls = {}

-----------------------------------------------------------------------------
(* A client's request *)

Arrive(o, n) ==
    /\ stage[o] = "absent" /\ n \notin hung
    /\ stage' = [stage EXCEPT ![o] = "queued"]
    /\ at' = [at EXCEPT ![o] = n]
    /\ UNCHANGED <<quorum, hung, round, done, failed, tasks, calls>>

\* _quorum_op submits one task per replica.
FanOut(o, i) ==
    /\ round' = [round EXCEPT ![o] = i]
    /\ done' = [done EXCEPT ![o] = {}] /\ failed' = [failed EXCEPT ![o] = {}]
    /\ tasks' = tasks \cup [req : {o}, round : {i}, to : Node, calling : {FALSE}]

Begin(o) ==
    /\ stage[o] = "queued" /\ ThreadFree(at[o])
    /\ stage' = [stage EXCEPT ![o] = "running"]
    /\ FanOut(o, 1)
    /\ UNCHANGED <<quorum, hung, at, calls>>

Enough(o) == Cardinality(done[o]) >= quorum
\* Slip: a fan-out is over only when a quorum has answered.
AllBackWithQuorum(o) == Enough(o)
AllBack(o) == done[o] \cup failed[o] = Node

WriteAfterRead(o) ==
    /\ stage[o] = "running" /\ Enough(o) /\ round[o] < Rounds(o)
    /\ FanOut(o, round[o] + 1)
    /\ UNCHANGED <<quorum, hung, at, stage, calls>>

\* A result, or a 503 when all tasks are back and too few of them with success.
Answer(o) ==
    /\ stage[o] = "running"
    /\ (Enough(o) /\ round[o] = Rounds(o)) \/ (AllBack(o) /\ ~ Enough(o))
    /\ stage' = [stage EXCEPT ![o] = "answered"]
    /\ UNCHANGED <<quorum, hung, at, round, done, failed, tasks, calls>>

-----------------------------------------------------------------------------
(* Its tasks; those of a fan-out that is over go on, "stragglers" *)

Current(t) == stage[t.req] = "running" /\ round[t.req] = t.round
Counted(t, results) ==
    IF Current(t) THEN [results EXCEPT ![t.req] = @ \cup {t.to}] ELSE results

\* The coordinator's own replica is read or written by the worker itself.
RunLocal(t) ==
    /\ ~ t.calling /\ t.to = at[t.req] /\ WorkerFree(at[t.req])
    /\ tasks' = tasks \ {t}
    /\ done' = Counted(t, done)
    /\ UNCHANGED <<quorum, hung, at, stage, round, failed, calls>>

StartCall(t) ==
    /\ ~ t.calling /\ t.to # at[t.req] /\ WorkerFree(at[t.req])
    /\ tasks' = (tasks \ {t}) \cup {[t EXCEPT !.calling = TRUE]}
    /\ calls' = calls \cup {[req |-> t.req, round |-> t.round, to |-> t.to, waited |-> TRUE]}
    /\ UNCHANGED <<quorum, hung, at, stage, round, done, failed>>

\* Slip: the peer handles replica calls in its executor.
CanServeInExecutor(n) == n \notin hung /\ WorkerFree(n)
CanServe(n) == n \notin hung /\ ThreadFree(n)

\* The peer finds a thread, and answers without waiting for anything else; the
\* call of a task that has given up is handled all the same.
Serve(c) ==
    /\ CanServe(c.to)
    /\ calls' = calls \ {c}
    /\ IF c.waited
       THEN LET t == [req |-> c.req, round |-> c.round, to |-> c.to, calling |-> TRUE]
            IN  tasks' = tasks \ {t} /\ done' = Counted(t, done)
       ELSE UNCHANGED <<tasks, done>>
    /\ UNCHANGED <<quorum, hung, at, stage, round, failed>>

\* Slip: only a call whose request still waits has a timeout.
MayTimeOutIfCurrent(t) == Current(t)
MayTimeOut(t) == TRUE

\* The HTTP client gives up, and so does the task.
TimeOut(t) ==
    /\ t.calling /\ MayTimeOut(t)
    /\ tasks' = tasks \ {t}
    /\ failed' = Counted(t, failed)
    /\ calls' = {IF c.req = t.req /\ c.round = t.round /\ c.to = t.to
                 THEN [c EXCEPT !.waited = FALSE] ELSE c : c \in calls}
    /\ UNCHANGED <<quorum, hung, at, stage, round, done>>

-----------------------------------------------------------------------------
\* Calls that nobody waits for may stay at a hung node for ever.
Rest == /\ \A o \in Request : stage[o] = "answered"
        /\ tasks = {} /\ UNCHANGED vars

RequestStep(o) == Begin(o) \/ WriteAfterRead(o) \/ Answer(o)
WorkerStep == \E t \in tasks : RunLocal(t) \/ StartCall(t)
PeerStep == \E c \in calls : Serve(c)

Next == \/ \E o \in Request : RequestStep(o) \/ \E n \in Node : Arrive(o, n)
        \/ WorkerStep \/ PeerStep \/ Rest
        \/ \E t \in tasks : TimeOut(t)

Task == [req : Request, round : 1..2, to : Node, calling : BOOLEAN]

\* Threads, workers and peers do what they can do, and every call times out.
Spec == /\ Init /\ [][Next]_vars
        /\ \A o \in Request : WF_vars(RequestStep(o))
        /\ WF_vars(WorkerStep) /\ WF_vars(PeerStep)
        /\ \A t \in Task : WF_vars(t \in tasks /\ TimeOut(t))

-----------------------------------------------------------------------------
(* Properties *)

TypeOK ==
    /\ quorum \in 1..Cardinality(Node) /\ hung \subseteq Node
    /\ at \in [Request -> Node \cup {Nobody}]
    /\ stage \in [Request -> {"absent", "queued", "running", "answered"}]
    /\ round \in [Request -> 0..2]
    /\ done \in [Request -> SUBSET Node] /\ failed \in [Request -> SUBSET Node]
    /\ tasks \subseteq Task
    /\ calls \subseteq [req : Request, round : 1..2, to : Node, waited : BOOLEAN]
    /\ \A n \in Node : /\ Cardinality(Holding(n)) <= Threads
                       /\ Cardinality(Calling(n)) <= Workers

\* The guards of RequestStep, WorkerStep and PeerStep.
CanStep(o) == \/ stage[o] = "queued" /\ ThreadFree(at[o])
              \/ stage[o] = "running" /\ (Enough(o) \/ AllBack(o))
CanWork(t) == ~ t.calling /\ WorkerFree(at[t.req])

\* Without a timeout nothing can go on.
Stuck ==
    /\ \E o \in Request : stage[o] \in {"queued", "running"}
    /\ \A o \in Request : ~ CanStep(o)
    /\ \A t \in tasks : ~ CanWork(t)
    /\ \A c \in calls : ~ CanServe(c.to)

Full(n) == ~ ThreadFree(n)

\* Requests wait for each other in a circle only between nodes that have all
\* their threads taken by clients: workers never wait for workers, nor a peer's
\* call for a fan-out (routes.py: replica calls do not "re-fan-out all over
\* again").  One node that is full, or one that is busy, stops nobody; a hung
\* node can, through the workers that wait for it.
WaitsOnlyOnFullNodes ==
    Stuck => /\ \A t \in tasks : t.calling => t.to \in hung \/ Full(t.to)
             /\ hung # {} \/ Cardinality({n \in Node : Full(n)}) >= 2

\* All the same every request is answered, through the timeout of calls, whatever
\* waits for what: the pools may be exhausted at all nodes at once.
EveryoneIsAnswered ==
    \A o \in Request : stage[o] = "queued" ~> stage[o] = "answered"

\* Stragglers do not pile up: workers and queues of the executors become free
\* again when requests stop coming.
ExecutorsDrain == <>[](tasks = {})
=============================================================================
