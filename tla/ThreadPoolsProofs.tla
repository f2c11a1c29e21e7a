------------------------- MODULE ThreadPoolsProofs -------------------------
(***************************************************************************)
(* The bounds of the thread pools, for any number of nodes, requests,      *)
(* threads and workers, and what every answer rests on: whoever waits for  *)
(* a fan-out has a task out for each replica that is not back, and a task  *)
(* that waits has its call out.                                            *)
(***************************************************************************)
EXTENDS ThreadPools, FiniteSetTheorems, TLAPS

-----------------------------------------------------------------------------
(* Sets of at most k elements *)

AtMost(S, k) == IsFiniteSet(S) /\ Cardinality(S) <= k

LEMMA FewerAreAtMost ==
    ASSUME NEW k \in Nat, NEW S, AtMost(S, k), NEW T \in SUBSET S
    PROVE  AtMost(T, k)
<1>1. IsFiniteSet(T) /\ Cardinality(T) <= Cardinality(S)
  BY FS_Subset DEF AtMost
<1>2. Cardinality(S) \in Nat /\ Cardinality(T) \in Nat
  BY <1>1, FS_CardinalityType DEF AtMost
<1> QED BY <1>1, <1>2 DEF AtMost

LEMMA OneMoreIsAtMost ==
    ASSUME NEW k \in Nat, NEW S, AtMost(S, k), Cardinality(S) < k, NEW x
    PROVE  AtMost(S \cup {x}, k)
<1>1. Cardinality(S) \in Nat
  BY FS_CardinalityType DEF AtMost
<1>2. /\ IsFiniteSet(S \cup {x})
      /\ \/ Cardinality(S \cup {x}) = Cardinality(S)
         \/ Cardinality(S \cup {x}) = Cardinality(S) + 1
  BY FS_AddElement DEF AtMost
<1> QED BY <1>1, <1>2 DEF AtMost

LEMMA NoneAreAtMost == \A k \in Nat : AtMost({}, k)
BY FS_EmptySet DEF AtMost

-----------------------------------------------------------------------------
(* The invariant *)

Types ==
    /\ quorum \in 1..Cardinality(Node) /\ hung \subseteq Node
    /\ at \in [Request -> Node \cup {Nobody}]
    /\ stage \in [Request -> {"absent", "queued", "running", "answered"}]
    /\ round \in [Request -> 0..2]
    /\ done \in [Request -> SUBSET Node] /\ failed \in [Request -> SUBSET Node]
    /\ tasks \subseteq Task
    /\ calls \subseteq [req : Request, round : 1..2, to : Node, waited : BOOLEAN]

\* The threads and workers in use are no more than there are.  (A request has
\* a node as long as it has tasks, so no task changes its executor.)
PoolsBounded ==
    /\ \A o \in Request : stage[o] # "absent" => at[o] \in Node
    /\ \A t \in tasks : stage[t.req] # "absent"
    /\ \A n \in Node : AtMost(Holding(n), Threads) /\ AtMost(Calling(n), Workers)

\* A task that waits has its call out, and a call that is waited for its task.
CallOf(t) == [req |-> t.req, round |-> t.round, to |-> t.to, waited |-> TRUE]
TaskOf(c) == [req |-> c.req, round |-> c.round, to |-> c.to, calling |-> TRUE]

CallsMatchTasks ==
    /\ \A t \in tasks : t.calling => CallOf(t) \in calls
    /\ \A c \in calls : c.waited => TaskOf(c) \in tasks

\* A fan-out that runs has heard of each replica or has a task out for it.
FanOutsComplete ==
    \A o \in Request : stage[o] = "running" =>
        \A n \in Node : \/ n \in done[o] \cup failed[o]
                        \/ \E t \in tasks : t.req = o /\ t.round = round[o] /\ t.to = n

PoolInv == Types /\ PoolsBounded /\ CallsMatchTasks /\ FanOutsComplete

LEMMA PoolInvInit == Init => PoolInv
<1> SUFFICES ASSUME Init PROVE PoolInv
  OBVIOUS
<1>1. Types
  BY DEF Init, Types, Task
<1>2. PoolsBounded
  <2>1. \A n \in Node : Holding(n) = {} /\ Calling(n) = {}
    BY DEF Init, Holding, Calling
  <2> QED BY <2>1, NoneAreAtMost, PoolBounds DEF Init, PoolsBounded
<1>3. CallsMatchTasks /\ FanOutsComplete
  BY DEF Init, CallsMatchTasks, FanOutsComplete
<1> QED BY <1>1, <1>2, <1>3 DEF PoolInv

-----------------------------------------------------------------------------
(* Types *)

LEMMA FanOutTypes ==
    ASSUME Types, NEW o \in Request, NEW i \in 1..2, FanOut(o, i)
    PROVE  /\ round' \in [Request -> 0..2] /\ tasks' \subseteq Task
           /\ done' \in [Request -> SUBSET Node] /\ failed' \in [Request -> SUBSET Node]
<1>1. round' = [round EXCEPT ![o] = i] /\ i \in 0..2
  BY DEF FanOut
<1>2. round' \in [Request -> 0..2]
  BY <1>1 DEF Types
<1>3. [req : {o}, round : {i}, to : Node, calling : {FALSE}] \subseteq Task
  BY DEF Task
<1>4. tasks' \subseteq Task
  BY <1>3 DEF Types, FanOut
<1>5. done' \in [Request -> SUBSET Node] /\ failed' \in [Request -> SUBSET Node]
  BY DEF Types, FanOut
<1> QED BY <1>2, <1>4, <1>5

LEMMA CountedTypes ==
    ASSUME Types, NEW t \in Task, NEW results \in [Request -> SUBSET Node]
    PROVE  Counted(t, results) \in [Request -> SUBSET Node]
BY DEF Task, Counted

LEMMA TypesNext ==
    ASSUME Types, [Next]_vars
    PROVE  Types'
<1> USE DEF Types
<1>1. ASSUME NEW o \in Request, NEW n \in Node, Arrive(o, n) PROVE Types'
  BY <1>1 DEF Arrive
<1>2. ASSUME NEW o \in Request, Begin(o) PROVE Types'
  <2>1. FanOut(o, 1) /\ 1 \in 1..2
    BY <1>2 DEF Begin
  <2>2. stage' \in [Request -> {"absent", "queued", "running", "answered"}]
    BY <1>2 DEF Begin
  <2> QED BY <1>2, <2>1, <2>2, FanOutTypes DEF Begin
<1>3. ASSUME NEW o \in Request, WriteAfterRead(o) PROVE Types'
  <2>1. round[o] + 1 \in 1..2
    BY <1>3 DEF WriteAfterRead, Rounds
  <2>2. FanOut(o, round[o] + 1)
    BY <1>3 DEF WriteAfterRead
  <2> HIDE DEF Types
  <2>3. /\ round' \in [Request -> 0..2] /\ tasks' \subseteq Task
        /\ done' \in [Request -> SUBSET Node] /\ failed' \in [Request -> SUBSET Node]
    BY <2>1, <2>2, FanOutTypes
  <2> QED BY <1>3, <2>3 DEF Types, WriteAfterRead
<1>4. ASSUME NEW o \in Request, Answer(o) PROVE Types'
  BY <1>4 DEF Answer
<1>5. ASSUME NEW t \in tasks, RunLocal(t) PROVE Types'
  BY <1>5, CountedTypes DEF RunLocal
<1>6. ASSUME NEW t \in tasks, StartCall(t) PROVE Types'
  <2>1. t \in Task
    OBVIOUS
  <2>2. /\ [t EXCEPT !.calling = TRUE] \in Task
        /\ [req |-> t.req, round |-> t.round, to |-> t.to, waited |-> TRUE] \in
              [req : Request, round : 1..2, to : Node, waited : BOOLEAN]
    BY <2>1 DEF Task
  <2> QED BY <1>6, <2>2 DEF StartCall
<1>7. ASSUME NEW c \in calls, Serve(c) PROVE Types'
  <2>1. [req |-> c.req, round |-> c.round, to |-> c.to, calling |-> TRUE] \in Task
    BY DEF Task
  <2> QED BY <1>7, <2>1, CountedTypes DEF Serve
<1>8. ASSUME NEW t \in tasks, TimeOut(t) PROVE Types'
  <2>1. \A c \in calls : [c EXCEPT !.waited = FALSE] \in
                            [req : Request, round : 1..2, to : Node, waited : BOOLEAN]
    OBVIOUS
  <2> QED BY <1>8, <2>1, CountedTypes DEF TimeOut
<1>9. CASE Rest \/ UNCHANGED vars
  BY <1>9 DEF Rest, vars
<1> QED BY <1>1, <1>2, <1>3, <1>4, <1>5, <1>6, <1>7, <1>8, <1>9
        DEF Next, RequestStep, WorkerStep, PeerStep

-----------------------------------------------------------------------------
(* Threads and workers in use *)

LEMMA RequestOf ==
    ASSUME Types, NEW t \in tasks
    PROVE  /\ t \in Task /\ t.req \in Request /\ t.to \in Node /\ t.calling \in BOOLEAN
           /\ t = [req |-> t.req, round |-> t.round, to |-> t.to, calling |-> t.calling]
BY DEF Types, Task

\* Steps that give no thread and no worker to anyone.
LEMMA NoneTaken ==
    ASSUME PoolsBounded,
           \A n \in Node : Holding(n)' \subseteq Holding(n) /\ Calling(n)' \subseteq Calling(n)
    PROVE  \A n \in Node : AtMost(Holding(n)', Threads) /\ AtMost(Calling(n)', Workers)
<1>1. Threads \in Nat /\ Workers \in Nat
  BY PoolBounds
<1> QED BY <1>1, FewerAreAtMost DEF PoolsBounded

LEMMA FanOutTakesNoWorker ==
    ASSUME Types, NEW o \in Request, NEW i \in 1..2, FanOut(o, i), UNCHANGED at
    PROVE  /\ \A n \in Node : Calling(n)' = Calling(n)
           /\ \A t \in tasks' : t \in tasks \/ t.req = o
<1>1. tasks' = tasks \cup [req : {o}, round : {i}, to : Node, calling : {FALSE}]
  BY DEF FanOut
<1>2. \A t \in [req : {o}, round : {i}, to : Node, calling : {FALSE}] :
         t.req = o /\ ~ t.calling
  OBVIOUS
<1>3. \A t \in tasks' : t \in tasks \/ (t.req = o /\ ~ t.calling)
  BY <1>1, <1>2
<1>4. tasks \subseteq tasks'
  BY <1>1
<1> QED BY <1>3, <1>4 DEF Calling

LEMMA PoolsBoundedNext ==
    ASSUME Types, PoolsBounded, [Next]_vars
    PROVE  PoolsBounded'
<1>t. /\ stage \in [Request -> {"absent", "queued", "running", "answered"}]
      /\ at \in [Request -> Node \cup {Nobody}] /\ tasks \subseteq Task
      /\ Threads \in Nat /\ Workers \in Nat
  BY PoolBounds DEF Types
<1>p. /\ \A o \in Request : stage[o] # "absent" => at[o] \in Node
      /\ \A t \in tasks : stage[t.req] # "absent" /\ t.req \in Request
      /\ \A n \in Node : AtMost(Holding(n), Threads) /\ AtMost(Calling(n), Workers)
  BY RequestOf DEF PoolsBounded
<1>1. ASSUME NEW o \in Request, NEW n \in Node, Arrive(o, n)
      PROVE  PoolsBounded'
  <2>1. /\ stage[o] = "absent" /\ UNCHANGED tasks
        /\ stage' = [stage EXCEPT ![o] = "queued"] /\ at' = [at EXCEPT ![o] = n]
    BY <1>1 DEF Arrive
  <2>2. \A q \in Request : q # o => stage'[q] = stage[q] /\ at'[q] = at[q]
    BY <1>t, <2>1
  <2>3. stage'[o] = "queued" /\ at'[o] = n
    BY <1>t, <2>1
  <2>4. \A t \in tasks : t.req # o
    BY <1>p, <2>1
  <2>5. \A m \in Node : Holding(m)' \subseteq Holding(m)
    BY <2>2, <2>3 DEF Holding
  <2>6. \A m \in Node : Calling(m)' \subseteq Calling(m)
    BY <1>p, <2>1, <2>2, <2>4 DEF Calling
  <2>7. \A q \in Request : stage'[q] # "absent" => at'[q] \in Node
    BY <1>p, <2>2, <2>3
  <2>8. \A t \in tasks' : stage'[t.req] # "absent"
    BY <1>p, <2>1, <2>2, <2>4
  <2> QED BY <2>5, <2>6, <2>7, <2>8, NoneTaken DEF PoolsBounded
<1>2. ASSUME NEW o \in Request, Begin(o)
      PROVE  PoolsBounded'
  <2>1. /\ stage[o] = "queued" /\ ThreadFree(at[o]) /\ FanOut(o, 1) /\ UNCHANGED at
        /\ stage' = [stage EXCEPT ![o] = "running"] /\ 1 \in 1..2
    BY <1>2 DEF Begin
  <2>2. PICK n \in Node : n = at[o]
    BY <1>p, <2>1
  <2>3. /\ \A q \in Request : q # o => stage'[q] = stage[q]
        /\ stage'[o] = "running"
    BY <1>t, <2>1
  <2>4. /\ \A m \in Node : Calling(m)' = Calling(m)
        /\ \A t \in tasks' : t \in tasks \/ t.req = o
    BY <2>1, FanOutTakesNoWorker
  <2>5. Holding(n)' \subseteq Holding(n) \cup {o}
    BY <2>1, <2>3 DEF Holding
  <2>6. \A m \in Node : m # n => Holding(m)' \subseteq Holding(m)
    BY <2>1, <2>2, <2>3 DEF Holding
  <2>7. AtMost(Holding(n) \cup {o}, Threads)
    <3>1. AtMost(Holding(n), Threads) /\ Cardinality(Holding(n)) < Threads
      BY <1>p, <2>1, <2>2 DEF ThreadFree
    <3> QED BY <1>t, <3>1, OneMoreIsAtMost
  <2>8. \A m \in Node : AtMost(Holding(m)', Threads)
    <3>1. AtMost(Holding(n)', Threads)
      BY <1>t, <2>5, <2>7, FewerAreAtMost
    <3>2. \A m \in Node : m # n => AtMost(Holding(m)', Threads)
      BY <1>t, <1>p, <2>6, FewerAreAtMost
    <3> QED BY <3>1, <3>2
  <2>9. \A q \in Request : stage'[q] # "absent" => at'[q] \in Node
    BY <1>p, <2>1, <2>3
  <2>10. \A t \in tasks' : stage'[t.req] # "absent"
    BY <1>p, <2>3, <2>4
  <2> QED BY <1>p, <2>4, <2>8, <2>9, <2>10 DEF PoolsBounded
<1>3. ASSUME NEW o \in Request, WriteAfterRead(o)
      PROVE  PoolsBounded'
  <2>1. /\ FanOut(o, round[o] + 1) /\ UNCHANGED <<at, stage>> /\ stage[o] = "running"
        /\ round[o] + 1 \in 1..2
    BY <1>3 DEF WriteAfterRead, Rounds, Types
  <2>2. /\ \A m \in Node : Calling(m)' = Calling(m)
        /\ \A t \in tasks' : t \in tasks \/ t.req = o
    BY <2>1, FanOutTakesNoWorker
  <2>3. \A m \in Node : Holding(m)' = Holding(m)
    BY <2>1 DEF Holding
  <2>4. \A t \in tasks' : stage[t.req] # "absent"
    BY <1>p, <2>1, <2>2
  <2> QED BY <1>p, <2>1, <2>2, <2>3, <2>4 DEF PoolsBounded
<1>4. ASSUME NEW o \in Request, Answer(o)
      PROVE  PoolsBounded'
  <2>1. /\ stage[o] = "running" /\ stage' = [stage EXCEPT ![o] = "answered"]
        /\ UNCHANGED <<at, tasks>>
    BY <1>4 DEF Answer
  <2>2. /\ \A q \in Request : q # o => stage'[q] = stage[q]
        /\ stage'[o] = "answered"
    BY <1>t, <2>1
  <2>3. \A m \in Node : Holding(m)' \subseteq Holding(m) /\ Calling(m)' \subseteq Calling(m)
    BY <2>1, <2>2 DEF Holding, Calling
  <2>4. \A q \in Request : stage'[q] # "absent" => at'[q] \in Node
    BY <1>p, <2>1, <2>2
  <2>5. \A t \in tasks' : stage'[t.req] # "absent"
    BY <1>p, <2>1, <2>2
  <2> QED BY <2>3, <2>4, <2>5, NoneTaken DEF PoolsBounded
<1>5. ASSUME tasks' \subseteq tasks, UNCHANGED <<at, stage>>
      PROVE  PoolsBounded'
  <2>1. \A m \in Node : Holding(m)' \subseteq Holding(m) /\ Calling(m)' \subseteq Calling(m)
    BY <1>5 DEF Holding, Calling
  <2> QED BY <1>5, <1>p, <2>1, NoneTaken DEF PoolsBounded
<1>6. ASSUME NEW t \in tasks, StartCall(t)
      PROVE  PoolsBounded'
  <2>1. /\ WorkerFree(at[t.req]) /\ UNCHANGED <<at, stage>>
        /\ tasks' = (tasks \ {t}) \cup {[t EXCEPT !.calling = TRUE]}
    BY <1>6 DEF StartCall
  <2>2. PICK u : u = [t EXCEPT !.calling = TRUE]
    OBVIOUS
  <2>3. u.req = t.req
    BY <2>2, RequestOf, <1>p DEF Types
  <2>4. PICK n \in Node : n = at[t.req]
    BY <1>p
  <2>5. tasks' = (tasks \ {t}) \cup {u}
    BY <2>1, <2>2
  <2>6. Calling(n)' \subseteq Calling(n) \cup {u}
    BY <2>1, <2>5 DEF Calling
  <2>7. \A m \in Node : m # n => Calling(m)' \subseteq Calling(m)
    BY <2>1, <2>3, <2>4, <2>5 DEF Calling
  <2>8. AtMost(Calling(n) \cup {u}, Workers)
    <3>1. AtMost(Calling(n), Workers) /\ Cardinality(Calling(n)) < Workers
      BY <1>p, <2>1, <2>4 DEF WorkerFree
    <3> QED BY <1>t, <3>1, OneMoreIsAtMost
  <2>9. \A m \in Node : AtMost(Calling(m)', Workers)
    <3>1. AtMost(Calling(n)', Workers)
      BY <1>t, <2>6, <2>8, FewerAreAtMost
    <3>2. \A m \in Node : m # n => AtMost(Calling(m)', Workers)
      BY <1>t, <1>p, <2>7, FewerAreAtMost
    <3> QED BY <3>1, <3>2
  <2>10. \A m \in Node : Holding(m)' = Holding(m)
    BY <2>1 DEF Holding
  <2>11. \A s \in tasks' : stage[s.req] # "absent"
    BY <1>p, <2>3, <2>5
  <2> QED BY <1>p, <2>1, <2>9, <2>10, <2>11 DEF PoolsBounded
<1>7. \/ \E o \in Request, n \in Node : Arrive(o, n)
      \/ \E o \in Request : Begin(o) \/ WriteAfterRead(o) \/ Answer(o)
      \/ \E t \in tasks : StartCall(t)
      \/ tasks' \subseteq tasks /\ UNCHANGED <<at, stage>>
  BY DEF Next, RequestStep, WorkerStep, PeerStep, RunLocal, Serve, TimeOut, Rest, vars
<1> QED BY <1>1, <1>2, <1>3, <1>4, <1>5, <1>6, <1>7

-----------------------------------------------------------------------------
(* Tasks and calls *)

LEMMA CallFields ==
    ASSUME Types, NEW c \in calls
    PROVE  /\ c = [req |-> c.req, round |-> c.round, to |-> c.to, waited |-> c.waited]
           /\ c.waited \in BOOLEAN
BY DEF Types

LEMMA CallsMatchTasksNext ==
    ASSUME Types, CallsMatchTasks, [Next]_vars
    PROVE  CallsMatchTasks'
<1>h. /\ \A t \in tasks : t.calling => CallOf(t) \in calls
      /\ \A c \in calls : c.waited => TaskOf(c) \in tasks
  BY DEF CallsMatchTasks
<1>s. SUFFICES /\ \A t \in tasks' : t.calling => CallOf(t) \in calls'
               /\ \A c \in calls' : c.waited => TaskOf(c) \in tasks'
  BY DEF CallsMatchTasks, CallOf, TaskOf
<1>1. ASSUME NEW o \in Request, NEW i, FanOut(o, i), UNCHANGED calls
      PROVE  /\ \A t \in tasks' : t.calling => CallOf(t) \in calls'
             /\ \A c \in calls' : c.waited => TaskOf(c) \in tasks'
  <2>1. /\ tasks \subseteq tasks'
        /\ \A t \in tasks' : t \in tasks \/ ~ t.calling
    BY <1>1 DEF FanOut
  <2> QED BY <1>1, <1>h, <2>1
<1>2. ASSUME NEW t \in tasks, RunLocal(t)
      PROVE  /\ \A s \in tasks' : s.calling => CallOf(s) \in calls'
             /\ \A c \in calls' : c.waited => TaskOf(c) \in tasks'
  <2>1. tasks' = tasks \ {t} /\ calls' = calls /\ ~ t.calling
    BY <1>2 DEF RunLocal
  <2>2. \A c \in calls : TaskOf(c) # t
    BY <2>1 DEF TaskOf
  <2> QED BY <1>h, <2>1, <2>2
<1>3. ASSUME NEW t \in tasks, StartCall(t)
      PROVE  /\ \A s \in tasks' : s.calling => CallOf(s) \in calls'
             /\ \A c \in calls' : c.waited => TaskOf(c) \in tasks'
  <2>1. PICK u : u = [t EXCEPT !.calling = TRUE]
    OBVIOUS
  <2>2. /\ tasks' = (tasks \ {t}) \cup {u} /\ ~ t.calling
        /\ calls' = calls \cup {CallOf(t)}
    BY <1>3, <2>1 DEF StartCall, CallOf
  <2>3. CallOf(u) = CallOf(t) /\ TaskOf(CallOf(t)) = u
    <3>1. t = [req |-> t.req, round |-> t.round, to |-> t.to, calling |-> t.calling]
      BY RequestOf
    <3>2. u = [req |-> t.req, round |-> t.round, to |-> t.to, calling |-> TRUE]
      BY <2>1, <3>1
    <3> QED BY <3>2 DEF CallOf, TaskOf
  <2>4. \A c \in calls : TaskOf(c) # t
    BY <2>2 DEF TaskOf
  <2> QED BY <1>h, <2>2, <2>3, <2>4
<1>4. ASSUME NEW c \in calls, Serve(c), c.waited
      PROVE  /\ \A s \in tasks' : s.calling => CallOf(s) \in calls'
             /\ \A d \in calls' : d.waited => TaskOf(d) \in tasks'
  <2>1. tasks' = tasks \ {TaskOf(c)} /\ calls' = calls \ {c}
    BY <1>4 DEF Serve, TaskOf
  <2>2. ASSUME NEW s \in tasks, s.calling, CallOf(s) = c
        PROVE  s = TaskOf(c)
    BY <2>2, RequestOf DEF CallOf, TaskOf
  <2>3. ASSUME NEW d \in calls, d.waited, TaskOf(d) = TaskOf(c)
        PROVE  d = c
    <3>1. d.req = c.req /\ d.round = c.round /\ d.to = c.to
      BY <2>3 DEF TaskOf
    <3> QED BY <1>4, <2>3, <3>1, CallFields
  <2> QED BY <1>h, <2>1, <2>2, <2>3
<1>5. ASSUME NEW c \in calls, Serve(c), ~ c.waited
      PROVE  /\ \A s \in tasks' : s.calling => CallOf(s) \in calls'
             /\ \A d \in calls' : d.waited => TaskOf(d) \in tasks'
  <2>1. tasks' = tasks /\ calls' = calls \ {c}
    BY <1>5 DEF Serve
  <2>2. \A s \in tasks : CallOf(s) # c
    BY <1>5 DEF CallOf
  <2> QED BY <1>h, <2>1, <2>2
<1>6. ASSUME NEW t \in tasks, TimeOut(t)
      PROVE  /\ \A s \in tasks' : s.calling => CallOf(s) \in calls'
             /\ \A c \in calls' : c.waited => TaskOf(c) \in tasks'
  <2> DEFINE Of(c) == c.req = t.req /\ c.round = t.round /\ c.to = t.to
  <2>1. /\ tasks' = tasks \ {t} /\ t.calling
        /\ calls' = {IF Of(c) THEN [c EXCEPT !.waited = FALSE] ELSE c : c \in calls}
    BY <1>6 DEF TimeOut
  <2>2. ASSUME NEW s \in tasks, s # t, s.calling
        PROVE  CallOf(s) \in calls'
    <3>1. CallOf(s) \in calls
      BY <1>h, <2>2
    <3>2. ~ (s.req = t.req /\ s.round = t.round /\ s.to = t.to)
      BY <2>1, <2>2, RequestOf
    <3>3. ~ Of(CallOf(s))
      BY <3>2 DEF CallOf
    <3> HIDE DEF Of
    <3> QED BY <2>1, <3>1, <3>3
  <2>3. ASSUME NEW d \in calls', d.waited
        PROVE  TaskOf(d) \in tasks'
    <3>1. PICK c \in calls : d = IF Of(c) THEN [c EXCEPT !.waited = FALSE] ELSE c
      BY <2>1
    <3>2. ASSUME Of(c)
          PROVE  FALSE
      <4>1. d = [c EXCEPT !.waited = FALSE]
        BY <3>1, <3>2
      <4>2. d.waited = FALSE
        BY <4>1, CallFields
      <4> QED BY <2>3, <4>2
    <3>3. d = c /\ ~ Of(c)
      BY <3>1, <3>2
    <3>4. TaskOf(c) # t
      BY <3>3 DEF TaskOf
    <3> QED BY <1>h, <2>1, <2>3, <3>3, <3>4
  <2> QED BY <2>1, <2>2, <2>3
<1>7. ASSUME UNCHANGED <<tasks, calls>>
      PROVE  /\ \A t \in tasks' : t.calling => CallOf(t) \in calls'
             /\ \A c \in calls' : c.waited => TaskOf(c) \in tasks'
  BY <1>7, <1>h
<1>8. \/ UNCHANGED <<tasks, calls>>
      \/ \E o \in Request, i \in 1..2 : FanOut(o, i) /\ UNCHANGED calls
      \/ \E t \in tasks : RunLocal(t) \/ StartCall(t) \/ TimeOut(t)
      \/ \E c \in calls : Serve(c)
  <2>1. ASSUME NEW o \in Request, Begin(o)
        PROVE  FanOut(o, 1) /\ 1 \in 1..2 /\ UNCHANGED calls
    BY <2>1 DEF Begin
  <2>2. ASSUME NEW o \in Request, WriteAfterRead(o)
        PROVE  /\ FanOut(o, round[o] + 1) /\ round[o] + 1 \in 1..2 /\ UNCHANGED calls
    BY <2>2 DEF WriteAfterRead, Rounds, Types
  <2>3. \/ \E o \in Request : Begin(o) \/ WriteAfterRead(o)
        \/ \E t \in tasks : RunLocal(t) \/ StartCall(t) \/ TimeOut(t)
        \/ \E c \in calls : Serve(c)
        \/ UNCHANGED <<tasks, calls>>
    BY DEF Next, RequestStep, WorkerStep, PeerStep, Arrive, Answer, Rest, vars
  <2> QED BY <2>1, <2>2, <2>3
<1> QED BY <1>1, <1>2, <1>3, <1>4, <1>5, <1>6, <1>7, <1>8

\* A task that ends is counted where its fan-out still runs.
LEMMA TaskEnds ==
    ASSUME Types, FanOutsComplete, NEW t \in Task, tasks' = tasks \ {t},
           UNCHANGED <<stage, round>>,
           \/ done' = Counted(t, done) /\ UNCHANGED failed
           \/ failed' = Counted(t, failed) /\ UNCHANGED done
    PROVE  FanOutsComplete'
<1>t. done \in [Request -> SUBSET Node] /\ failed \in [Request -> SUBSET Node]
  BY DEF Types
<1> SUFFICES ASSUME NEW o \in Request, stage[o] = "running", NEW n \in Node
             PROVE  \/ n \in done'[o] \cup failed'[o]
                    \/ \E s \in tasks' : s.req = o /\ s.round = round[o] /\ s.to = n
  BY DEF FanOutsComplete
<1>1. done[o] \subseteq done'[o] /\ failed[o] \subseteq failed'[o]
  BY <1>t DEF Counted
<1>2. CASE n \in done[o] \cup failed[o]
  BY <1>1, <1>2
<1>3. CASE \E s \in tasks : s # t /\ s.req = o /\ s.round = round[o] /\ s.to = n
  BY <1>3
<1>4. CASE t.req = o /\ t.round = round[o] /\ t.to = n
  <2>1. Current(t)
    BY <1>4 DEF Current
  <2>2. \/ done' = [done EXCEPT ![o] = @ \cup {n}]
        \/ failed' = [failed EXCEPT ![o] = @ \cup {n}]
    BY <1>4, <2>1 DEF Counted
  <2>3. n \in done'[o] \cup failed'[o]
    BY <1>t, <2>2
  <2> QED BY <2>3
<1> QED BY <1>2, <1>3, <1>4 DEF FanOutsComplete

LEMMA FanOutStarts ==
    ASSUME Types, FanOutsComplete, NEW o \in Request, NEW i \in 1..2, FanOut(o, i),
           \A q \in Request : q # o => stage'[q] = stage[q]
    PROVE  FanOutsComplete'
<1>t. /\ done \in [Request -> SUBSET Node] /\ failed \in [Request -> SUBSET Node]
      /\ round \in [Request -> 0..2]
  BY DEF Types
<1>1. /\ round' = [round EXCEPT ![o] = i]
      /\ done' = [done EXCEPT ![o] = {}] /\ failed' = [failed EXCEPT ![o] = {}]
      /\ tasks' = tasks \cup [req : {o}, round : {i}, to : Node, calling : {FALSE}]
  BY DEF FanOut
<1> SUFFICES ASSUME NEW q \in Request, stage'[q] = "running", NEW n \in Node
             PROVE  \/ n \in done'[q] \cup failed'[q]
                    \/ \E s \in tasks' : s.req = q /\ s.round = round'[q] /\ s.to = n
  BY DEF FanOutsComplete
<1>2. CASE q = o
  <2>1. PICK s : s = [req |-> o, round |-> i, to |-> n, calling |-> FALSE]
    OBVIOUS
  <2>2. s \in [req : {o}, round : {i}, to : Node, calling : {FALSE}]
    BY <2>1
  <2>3. s.req = o /\ s.round = i /\ s.to = n
    BY <2>1
  <2>4. round'[o] = i
    BY <1>t, <1>1
  <2> QED BY <1>1, <1>2, <2>2, <2>3, <2>4
<1>3. CASE q # o
  <2>1. /\ stage[q] = "running" /\ round'[q] = round[q] /\ done'[q] = done[q]
        /\ failed'[q] = failed[q]
    BY <1>t, <1>1, <1>3
  <2>2. \/ n \in done[q] \cup failed[q]
        \/ \E s \in tasks : s.req = q /\ s.round = round[q] /\ s.to = n
    BY <2>1 DEF FanOutsComplete
  <2> QED BY <1>1, <2>1, <2>2
<1> QED BY <1>2, <1>3

LEMMA FanOutsCompleteNext ==
    ASSUME Types, FanOutsComplete, [Next]_vars
    PROVE  FanOutsComplete'
<1>t. stage \in [Request -> {"absent", "queued", "running", "answered"}]
  BY DEF Types
<1>1. ASSUME NEW o \in Request, Begin(o)
      PROVE  FanOutsComplete'
  BY <1>t, <1>1, FanOutStarts DEF Begin
<1>2. ASSUME NEW o \in Request, WriteAfterRead(o)
      PROVE  FanOutsComplete'
  <2>1. /\ FanOut(o, round[o] + 1) /\ round[o] + 1 \in 1..2 /\ UNCHANGED stage
    BY <1>2 DEF WriteAfterRead, Rounds, Types
  <2> QED BY <2>1, FanOutStarts
<1>3. ASSUME NEW t \in tasks, RunLocal(t) \/ TimeOut(t)
      PROVE  FanOutsComplete'
  BY <1>3, RequestOf, TaskEnds DEF RunLocal, TimeOut
<1>4. ASSUME NEW c \in calls, Serve(c), c.waited
      PROVE  FanOutsComplete'
  <2>1. /\ tasks' = tasks \ {TaskOf(c)} /\ done' = Counted(TaskOf(c), done)
        /\ UNCHANGED <<stage, round, failed>>
    BY <1>4 DEF Serve, TaskOf
  <2>2. TaskOf(c) \in Task
    BY DEF Types, TaskOf, Task
  <2> QED BY <2>1, <2>2, TaskEnds
<1>5. ASSUME NEW t \in tasks, StartCall(t)
      PROVE  FanOutsComplete'
  <2>1. PICK u : u = [t EXCEPT !.calling = TRUE]
    OBVIOUS
  <2>2. /\ tasks' = (tasks \ {t}) \cup {u}
        /\ UNCHANGED <<stage, round, done, failed>>
    BY <1>5, <2>1 DEF StartCall
  <2>3. u.req = t.req /\ u.round = t.round /\ u.to = t.to
    <3>1. t = [req |-> t.req, round |-> t.round, to |-> t.to, calling |-> t.calling]
      BY RequestOf
    <3> QED BY <2>1, <3>1
  <2> QED BY <2>2, <2>3 DEF FanOutsComplete
<1>6. ASSUME UNCHANGED <<round, done, failed, tasks>>,
             \A q \in Request : stage'[q] = "running" => stage[q] = "running"
      PROVE  FanOutsComplete'
  BY <1>6 DEF FanOutsComplete
<1>7. ASSUME NEW o \in Request, Answer(o) \/ \E n \in Node : Arrive(o, n)
      PROVE  /\ UNCHANGED <<round, done, failed, tasks>>
             /\ \A q \in Request : stage'[q] = "running" => stage[q] = "running"
  BY <1>t, <1>7 DEF Answer, Arrive
<1>8. \/ \E o \in Request : Begin(o) \/ WriteAfterRead(o)
      \/ \E o \in Request : Answer(o) \/ \E n \in Node : Arrive(o, n)
      \/ \E t \in tasks : RunLocal(t) \/ StartCall(t) \/ TimeOut(t)
      \/ \E c \in calls : Serve(c) /\ c.waited
      \/ UNCHANGED <<stage, round, done, failed, tasks>>
  BY DEF Next, RequestStep, WorkerStep, PeerStep, Serve, Rest, vars
<1> QED BY <1>1, <1>2, <1>3, <1>4, <1>5, <1>6, <1>7, <1>8

-----------------------------------------------------------------------------
(* Theorems *)

LEMMA PoolInvariant == Spec => []PoolInv
<1>1. PoolInv /\ [Next]_vars => PoolInv'
  BY TypesNext, PoolsBoundedNext, CallsMatchTasksNext, FanOutsCompleteNext DEF PoolInv
<1> QED BY <1>1, PoolInvInit, PTL DEF Spec

\* Types, and the bounds of both pools: handlers of clients never hold more
\* threads than a process has, nor calls more workers than max_workers, whatever
\* arrives, times out or hangs.
THEOREM PoolsStayBounded == Spec => []TypeOK
<1>1. PoolInv => TypeOK
  BY DEF PoolInv, Types, PoolsBounded, AtMost, TypeOK
<1> QED BY <1>1, PoolInvariant, PTL

\* The replicas that the fan-out of o has not heard of.
Unheard(o) == Node \ (done[o] \cup failed[o])

\* Each of them has a task out, and a task that has a worker has its call out.
NobodyWaitsForNothing ==
    \A o \in Request : stage[o] = "running" =>
        \A n \in Unheard(o) : \E t \in tasks :
            /\ t.req = o /\ t.round = round[o] /\ t.to = n
            /\ t.calling => CallOf(t) \in calls

\* What every answer rests on: a request waits for nothing but tasks that are
\* queued, or calls that can be served or time out; _quorum_op loses no result,
\* however late calls are handled and whichever fan-out they belonged to.
THEOREM WaitsAreOwed == Spec => []NobodyWaitsForNothing
<1>1. PoolInv => NobodyWaitsForNothing
  BY DEF PoolInv, FanOutsComplete, CallsMatchTasks, NobodyWaitsForNothing, Unheard
<1> QED BY <1>1, PoolInvariant, PTL

-----------------------------------------------------------------------------
(* Who waits for whom *)

\* The coordinator's own replica is never called.
CallsGoOut == \A t \in tasks : t.calling => t.to # at[t.req]

LEMMA CallsGoOutNext ==
    ASSUME PoolInv, CallsGoOut, [Next]_vars
    PROVE  CallsGoOut'
<1>t. /\ at \in [Request -> Node \cup {Nobody}] /\ tasks \subseteq Task
      /\ \A t \in tasks : t.req \in Request /\ stage[t.req] # "absent"
  BY DEF PoolInv, Types, PoolsBounded, Task
<1>1. ASSUME NEW o \in Request, NEW n \in Node, Arrive(o, n) PROVE CallsGoOut'
  <2>1. \A t \in tasks : t.req # o
    BY <1>t, <1>1 DEF Arrive
  <2>2. tasks' = tasks /\ \A t \in tasks : at'[t.req] = at[t.req]
    BY <1>t, <1>1, <2>1 DEF Arrive
  <2> QED BY <2>2 DEF CallsGoOut
<1>2. ASSUME NEW o \in Request, NEW i, FanOut(o, i), at' = at PROVE CallsGoOut'
  <2>1. \A t \in tasks' : t.calling => t \in tasks
    BY <1>2 DEF FanOut
  <2> QED BY <1>2, <2>1 DEF CallsGoOut
<1>3. ASSUME tasks' \subseteq tasks, at' = at PROVE CallsGoOut'
  BY <1>3 DEF CallsGoOut
<1>4. ASSUME NEW t \in tasks, StartCall(t) PROVE CallsGoOut'
  <2>1. PICK u : u = [t EXCEPT !.calling = TRUE]
    OBVIOUS
  <2>2. tasks' = (tasks \ {t}) \cup {u} /\ at' = at /\ t.to # at[t.req]
    BY <1>4, <2>1 DEF StartCall
  <2>3. u.req = t.req /\ u.to = t.to
    <3>1. t = [req |-> t.req, round |-> t.round, to |-> t.to, calling |-> t.calling]
      BY <1>t DEF Task
    <3> QED BY <2>1, <3>1
  <2> QED BY <2>2, <2>3 DEF CallsGoOut
<1>5. \/ \E o \in Request, n \in Node : Arrive(o, n)
      \/ \E o \in Request, i \in 1..2 : FanOut(o, i) /\ at' = at
      \/ \E t \in tasks : StartCall(t)
      \/ tasks' \subseteq tasks /\ at' = at
  <2>1. ASSUME NEW o \in Request, WriteAfterRead(o)
        PROVE  \E i \in 1..2 : FanOut(o, i) /\ at' = at
    <3>1. round[o] + 1 \in 1..2
      BY <2>1 DEF PoolInv, Types, WriteAfterRead, Rounds
    <3> QED BY <2>1, <3>1 DEF WriteAfterRead
  <2>2. ASSUME NEW o \in Request, Begin(o)
        PROVE  FanOut(o, 1) /\ at' = at
    BY <2>2 DEF Begin
  <2>3. ASSUME NEW o \in Request, Answer(o)
        PROVE  tasks' \subseteq tasks /\ at' = at
    BY <2>3 DEF Answer
  <2>4. ASSUME NEW t \in tasks, RunLocal(t) \/ TimeOut(t)
        PROVE  tasks' \subseteq tasks /\ at' = at
    BY <2>4 DEF RunLocal, TimeOut
  <2>5. ASSUME NEW c \in calls, Serve(c)
        PROVE  tasks' \subseteq tasks /\ at' = at
    BY <2>5 DEF Serve
  <2>6. ASSUME UNCHANGED vars
        PROVE  tasks' \subseteq tasks /\ at' = at
    BY <2>6 DEF vars
  <2>7. 1 \in 1..2
    OBVIOUS
  <2> QED BY <2>1, <2>2, <2>3, <2>4, <2>5, <2>6, <2>7
          DEF Next, RequestStep, WorkerStep, PeerStep, Rest
<1> QED BY <1>1, <1>2, <1>3, <1>4, <1>5

LEMMA CallsGoOutAlways == Spec => []CallsGoOut
<1>1. Init => CallsGoOut
  BY DEF Init, CallsGoOut
<1>2. PoolInv /\ CallsGoOut /\ [Next]_vars => CallsGoOut'
  BY CallsGoOutNext
<1> QED BY <1>1, <1>2, PoolInvariant, PTL DEF Spec

\* A call stands still only at a hung node or at one with no thread left.
LEMMA CallsWaitForThreads ==
    ASSUME PoolInv, Stuck, NEW t \in tasks, t.calling
    PROVE  t.to \in Node /\ (t.to \in hung \/ Full(t.to))
<1>1. CallOf(t) \in calls /\ t.to \in Node
  BY DEF PoolInv, Types, CallsMatchTasks, Task
<1>2. CallOf(t).to = t.to
  BY DEF CallOf
<1>3. ~ CanServe(t.to)
  BY <1>1, <1>2 DEF Stuck
<1> QED BY <1>1, <1>3 DEF CanServe, Full

\* A fan-out that stands still waits for a call of its node, its own or one
\* that keeps its worker.
LEMMA FanOutsWaitForCalls ==
    ASSUME PoolInv, Stuck, NEW o \in Request, stage[o] = "running"
    PROVE  \E t \in tasks : at[t.req] = at[o] /\ t.calling
<1>1. ~ AllBack(o)
  BY DEF Stuck, CanStep
<1>2. PICK n \in Node : n \notin done[o] \cup failed[o]
  BY <1>1 DEF AllBack, PoolInv, Types
<1>3. PICK t \in tasks : t.req = o
  BY <1>2 DEF PoolInv, FanOutsComplete
<1>4. CASE ~ t.calling
  <2>1. ~ WorkerFree(at[o])
    BY <1>3, <1>4 DEF Stuck, CanWork
  <2>2. Calling(at[o]) # {}
    BY <2>1, FS_EmptySet, PoolBounds DEF WorkerFree
  <2> QED BY <2>2 DEF Calling
<1> QED BY <1>3, <1>4

\* A node that has no thread left waits for another.
LEMMA FullNodesWait ==
    ASSUME PoolInv, CallsGoOut, Stuck, hung = {}, NEW b \in Node, Full(b)
    PROVE  \E c \in Node : c # b /\ Full(c)
<1>1. Holding(b) # {}
  BY FS_EmptySet, PoolBounds DEF Full, ThreadFree
<1>2. PICK o \in Request : at[o] = b /\ stage[o] = "running"
  BY <1>1 DEF Holding
<1>3. PICK t \in tasks : at[t.req] = b /\ t.calling
  BY <1>2, FanOutsWaitForCalls
<1>4. t.to \in Node /\ Full(t.to)
  BY <1>3, CallsWaitForThreads
<1>5. t.to # b
  BY <1>3 DEF CallsGoOut
<1> QED BY <1>4, <1>5

\* Nobody waits in a circle but nodes whose threads are all taken by clients:
\* a worker waits for a peer's thread only, and a peer's thread for nothing.
\* One node by itself, however busy, and pools that are merely in use never
\* hold anything up (run.py: one event loop; routes.py: no second fan-out).
THEOREM OnlyFullNodesBlock == Spec => []WaitsOnlyOnFullNodes
<1>1. ASSUME PoolInv, CallsGoOut, Stuck
      PROVE  /\ \A t \in tasks : t.calling => t.to \in hung \/ Full(t.to)
             /\ hung # {} \/ Cardinality({n \in Node : Full(n)}) >= 2
  <2>1. \A t \in tasks : t.calling => t.to \in Node /\ (t.to \in hung \/ Full(t.to))
    BY <1>1, CallsWaitForThreads
  <2>2. ASSUME hung = {}
        PROVE  Cardinality({n \in Node : Full(n)}) >= 2
    <3> DEFINE S == {n \in Node : Full(n)}
    <3>1. PICK o \in Request : stage[o] \in {"queued", "running"}
      BY <1>1 DEF Stuck
    <3>2. \E b \in Node : Full(b)
      <4>1. CASE stage[o] = "queued"
        <5>1. ~ ThreadFree(at[o]) /\ at[o] \in Node
          BY <1>1, <4>1 DEF Stuck, CanStep, PoolInv, PoolsBounded
        <5> QED BY <5>1 DEF Full
      <4>2. CASE stage[o] = "running"
        <5>1. PICK t \in tasks : t.calling
          BY <1>1, <4>2, FanOutsWaitForCalls
        <5> QED BY <2>1, <2>2, <5>1
      <4> QED BY <3>1, <4>1, <4>2
    <3>3. PICK b \in Node : Full(b)
      BY <3>2
    <3>4. PICK c \in Node : c # b /\ Full(c)
      BY <1>1, <2>2, <3>3, FullNodesWait
    <3>5. Cardinality({b, c}) = 2 /\ IsFiniteSet({b, c})
      <4>1. IsFiniteSet({b}) /\ Cardinality({b}) = 1
        BY FS_Singleton
      <4>2. {b, c} = {b} \cup {c} /\ c \notin {b}
        BY <3>4
      <4>3. Cardinality({b} \cup {c}) = 2 /\ IsFiniteSet({b} \cup {c})
        BY <4>1, <4>2, FS_AddElement
      <4> QED BY <4>2, <4>3
    <3>6. {b, c} \in SUBSET S /\ S \in SUBSET Node
      BY <3>3, <3>4
    <3> HIDE DEF S
    <3>7. IsFiniteSet(S) /\ Cardinality(S) \in Nat
      BY <3>6, FiniteRoster, FS_Subset, FS_CardinalityType
    <3>8. Cardinality({b, c}) <= Cardinality(S)
      BY <3>6, <3>7, FS_Subset
    <3>9. Cardinality(S) >= 2
      BY <3>5, <3>7, <3>8
    <3> QED BY <3>9 DEF S
  <2> QED BY <2>1, <2>2
<1>2. PoolInv /\ CallsGoOut => WaitsOnlyOnFullNodes
  BY <1>1 DEF WaitsOnlyOnFullNodes
<1> QED BY <1>2, PoolInvariant, CallsGoOutAlways, PTL
=============================================================================
