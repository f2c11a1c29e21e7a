------------------------- MODULE NodeProcessProofs -------------------------
(***************************************************************************)
(* Keys stay with the data, certificates of two runs are never mixed,      *)
(* peers accept each other, a node with data can boot again, and one       *)
(* gossip thread runs at a time: for any list of nodes and any number of   *)
(* starts, stops and deletions.                                            *)
(*                                                                         *)
(* None of them is inductive over the certificates alone: ScriptInv and    *)
(* PendingInv say what a run has written so far and has still to write,    *)
(* and what a stopped one leaves for the check of the next; TrustInv, that *)
(* a process which is past its reading of the certificates holds those     *)
(* that are there now; ReadyInv, that they can be read again.              *)
(***************************************************************************)
EXTENDS NodeProcess, FiniteSetTheorems, FunctionTheorems, TLAPS

\* While a run goes on there is nothing of another but perhaps the CA's key,
\* and after it stopped before ca.crt, nothing at all but that.
ScriptInv ==
    /\ script # NotRunning =>
          /\ script.run # None
          /\ \A f \in File \ {CaKey} : certs[f] \in {None, script.run}
          /\ script.done >= 1 => certs[CaKey] = script.run
          /\ script.done >= 2 <=> certs[CaCrt] # None
    /\ certs[CaCrt] = None => \A f \in File \ {CaKey} : certs[f] = None

LoopInv == \A n \in Node : Live(n) \ overdue[n] \subseteq {thread[n]}

\* No thread before the process serves, and later the one started then.
OnceInv == \A n \in Node \ Reused :
    /\ at[n] < Up => Live(n) = {}
    /\ \E i \in 0..MaxStarts : Live(n) \subseteq {i}

\* The position after which a process has loaded its certificates to dial with.
Dialled == 4
Current == [own |-> certs[CaCrt], ca |-> certs[CaCrt]]

TrustInv == wipes = 0 => \A n \in Node :
    /\ at[n] >= Dialled => Whole(certs[CaCrt]) /\ dials[n] = Current
    /\ at[n] >= Up => serves[n] = Current

\* What a running script has still to write is not there, but perhaps the CA's
\* key, so that stopping it tears nothing that was read.
PendingInv == script # NotRunning =>
    \A i \in 2..Len(Files) : i > script.done => certs[Files[i]] = None

\* A process past its first reading finds its files again, and so does a node with
\* rows, which was once up.
ReadyInv == wipes = 0 =>
    \A n \in Node : at[n] >= Dialled \/ sealed[n] # {} => Usable(n)

ProcessInv == /\ TypeOK /\ DataStaysReadable /\ ScriptInv /\ CertsOfOneRun
              /\ LoopInv /\ OnceInv /\ TrustInv /\ PendingInv /\ ReadyInv

-----------------------------------------------------------------------------
(* The files of certs/ *)

LEMMA FilesFacts ==
    /\ Len(NodeIds) \in Nat /\ DOMAIN Files = 1 .. 2 + 2 * Len(NodeIds)
    /\ Len(Files) \in Nat /\ Len(Files) = 2 + 2 * Len(NodeIds) /\ Len(Files) >= 2
    /\ Files[1] = CaKey /\ Files[2] = CaCrt /\ CaKey # CaCrt
    /\ CaKey \in File /\ CaCrt \in File
    /\ \A i \in 1..Len(Files) : Files[i] \in File /\ (Files[i] = CaCrt => i = 2)
<1>1. Len(NodeIds) \in Nat
  BY IdsAreDistinct
<1> DEFINE N == 2 + 2 * Len(NodeIds)
<1>2. N \in Nat /\ N >= 2 /\ DOMAIN Files = 1..N
  BY <1>1 DEF Files
<1>3. Len(Files) = N
  BY <1>2 DEF Files
<1>4. /\ Files[1] = CaKey /\ Files[2] = CaCrt
      /\ \A i \in 1..N : Files[i] \in File
  <2>1. 1 \in 1..N /\ 2 \in 1..N
    BY <1>2
  <2>2. Files[1] = CaKey /\ Files[2] = CaCrt
    BY <1>2, <2>1 DEF Files
  <2>3. \A i \in 1..N : Files[i] \in File
    BY <1>2 DEF File
  <2> QED
    BY <2>2, <2>3
<1>5. ASSUME NEW i \in 1..N, i # 1, i # 2 PROVE Files[i] # CaCrt
  <2>1. (i - 1) \div 2 \in 1..Len(NodeIds)
    BY <1>1, <1>5
  <2>2. NodeIds[(i - 1) \div 2] \in Node
    BY <2>1, IdsAreDistinct
  <2>3. Files[i][1] = NodeIds[(i - 1) \div 2]
    BY <1>2, <1>5 DEF Files
  <2> QED
    BY <2>2, <2>3, CaIsNoNode DEF CaCrt
<1>6. CaKey # CaCrt
  BY DEF CaKey, CaCrt
<1>7. CaKey \in File /\ CaCrt \in File
  BY <1>2, <1>4
<1> QED
  BY <1>1, <1>2, <1>3, <1>4, <1>5, <1>6, <1>7

LEMMA NodeFiles ==
    ASSUME NEW n \in Node PROVE <<n, "key">> \in File /\ <<n, "crt">> \in File
<1>1. PICK i \in DOMAIN NodeIds : NodeIds[i] = n
  BY DEF Node
<1>2. DOMAIN NodeIds = 1..Len(NodeIds) /\ i \in Int
  BY <1>1, IdsAreDistinct
<1>3. i \in 1..Len(NodeIds) /\ Len(NodeIds) \in Nat
  BY <1>2, FilesFacts
<1> DEFINE odd == 2 * i + 1
           even == 2 * i + 2
<1>4. /\ odd \in 1 .. 2 + 2 * Len(NodeIds) /\ odd # 1 /\ odd # 2
      /\ (odd - 1) \div 2 = i /\ odd % 2 = 1
  <2>1. odd \in 1 .. 2 + 2 * Len(NodeIds) /\ odd # 1 /\ odd # 2
    BY <1>3
  <2>2. (odd - 1) \div 2 = i
    BY <1>3
  <2>3. odd % 2 = 1
    BY <1>3
  <2> QED
    BY <2>1, <2>2, <2>3, Zenon
<1>5. /\ even \in 1 .. 2 + 2 * Len(NodeIds) /\ even # 1 /\ even # 2
      /\ (even - 1) \div 2 = i /\ even % 2 # 1
  <2>1. even \in 1 .. 2 + 2 * Len(NodeIds) /\ even # 1 /\ even # 2
    BY <1>3
  <2>2. (even - 1) \div 2 = i
    BY <1>3
  <2>3. even % 2 # 1
    BY <1>3
  <2> QED
    BY <2>1, <2>2, <2>3, Zenon
<1> HIDE DEF odd, even
<1>6. ASSUME NEW j \in 1 .. 2 + 2 * Len(NodeIds), j # 1, j # 2, (j - 1) \div 2 = i
      PROVE  Files[j] = <<n, IF j % 2 = 1 THEN "key" ELSE "crt">>
  BY <1>1, <1>6 DEF Files
<1>7. Files[odd] = <<n, "key">> /\ Files[even] = <<n, "crt">>
  BY <1>4, <1>5, <1>6
<1>8. odd \in DOMAIN Files /\ even \in DOMAIN Files
  BY <1>4, <1>5, FilesFacts
<1> QED
  BY <1>7, <1>8 DEF File

-----------------------------------------------------------------------------
(* The key of the data *)

LEMMA KeyNext == ASSUME TypeOK, DataStaysReadable, [Next]_vars PROVE DataStaysReadable'
<1>t. /\ keyFile \in [Node -> Torn..MaxKeys] /\ held \in [Node -> SUBSET (1..MaxKeys)]
      /\ sealed \in [Node -> SUBSET (1..MaxKeys)]
  BY DEF TypeOK
<1>e. \A n \in Node : keyFile[n] = None => held[n] = {} /\ sealed[n] = {}
  BY <1>t DEF DataStaysReadable, None
<1>1. CASE StartScript \/ WriteFile \/ StopScript \/ WipeCerts
  BY <1>1 DEF StartScript, WriteFile, StopScript, WipeCerts, keyVars, DataStaysReadable
<1>2. ASSUME NEW n \in Node, NEW i \in 1..MaxStarts, BeginRound(n, i) \/ EndRound(n, i) \/ EndLoop(n, i)
      PROVE  DataStaysReadable'
  BY <1>2 DEF BeginRound, EndRound, EndLoop, keyVars, DataStaysReadable
<1>3. ASSUME NEW n \in Node, Boot(n) \/ LoadDialCert(n) \/ Serve(n) \/ BeginStop(n) \/ Joined(n) \/ JoinTimesOut(n) \/ ServeAgain(n) PROVE DataStaysReadable'
  BY <1>3
  DEF Boot, LoadDialCert, Serve, BeginStop, Joined, JoinTimesOut, ServeAgain, keyVars,
      DataStaysReadable
<1>4. ASSUME NEW n \in Node, BadKey(n) \/ BadCert(n) \/ Exit(n) PROVE DataStaysReadable'
  BY <1>4, <1>t DEF BadKey, BadCert, Exit, Refused, Gone, DataStaysReadable
<1>5. ASSUME NEW n \in Node, LoadKey(n) PROVE DataStaysReadable'
  BY <1>5, <1>t DEF LoadKey, DataStaysReadable
<1>6. ASSUME NEW n \in Node, StoreRow(n) PROVE DataStaysReadable'
  BY <1>6, <1>t DEF StoreRow, DataStaysReadable
<1>7. ASSUME NEW n \in Node, CreateKey(n) PROVE DataStaysReadable'
  BY <1>7, <1>t, <1>e DEF CreateKey, HasKeyFile, DataStaysReadable
<1>8. ASSUME NEW n \in Node, Crash(n) PROVE DataStaysReadable'
  BY <1>8, <1>t, <1>e DEF Crash, Gone, HasKeyFile, DataStaysReadable
<1>9. CASE UNCHANGED vars
  BY <1>9 DEF vars, keyVars, DataStaysReadable
<1> QED
  BY <1>1, <1>2, <1>3, <1>4, <1>5, <1>6, <1>7, <1>8, <1>9
  DEF Next, ScriptStep, BootStep, LoopStep, LifeStep

-----------------------------------------------------------------------------
(* One gossip thread *)

LEMMA LoopNext == ASSUME TypeOK, LoopInv, [Next]_vars PROVE LoopInv'
<1>t. /\ thread \in [Node -> 0..MaxStarts] /\ overdue \in [Node -> SUBSET (1..MaxStarts)]
      /\ loops \in [Node -> [1..MaxStarts -> {"unborn", "waiting", "round", "ended"}]]
  BY DEF TypeOK
<1>u. ASSUME UNCHANGED workerVars PROVE LoopInv'
  BY <1>u DEF workerVars, LoopInv, Live
<1>g. ASSUME NEW n \in Node, Gone(n) PROVE LoopInv'
  <2>1. Live(n)' = {}
    BY <1>g, <1>t DEF Gone, NoLoops, Live
  <2>2. \A m \in Node \ {n} : /\ Live(m)' = Live(m) /\ overdue'[m] = overdue[m]
                             /\ thread'[m] = thread[m]
    BY <1>g, <1>t DEF Gone, Live
  <2> QED
    BY <2>1, <2>2 DEF LoopInv
<1>s. ASSUME NEW n \in Node, StartWorker(n) PROVE LoopInv'
  <2>1. PICK i : /\ thread' = [thread EXCEPT ![n] = i]
                 /\ loops' = [loops EXCEPT ![n][i] = "waiting"]
    BY <1>s DEF StartWorker
  <2>2. Live(n) \ overdue[n] = {} /\ overdue' = overdue
    <3>1. 0 \notin Live(n) /\ thread[n] = 0
      BY <1>s DEF StartWorker, Live, None
    <3> QED
      BY <3>1, <1>s DEF LoopInv, StartWorker
  <2>3. Live(n)' \subseteq Live(n) \cup {i}
    BY <2>1, <1>t DEF Live
  <2>4. \A m \in Node \ {n} : Live(m)' = Live(m) /\ thread'[m] = thread[m]
    BY <2>1, <1>t DEF Live
  <2>5. thread'[n] = i
    BY <2>1, <1>t
  <2> QED
    BY <2>2, <2>3, <2>4, <2>5 DEF LoopInv
<1>1. CASE StartScript \/ WriteFile \/ StopScript \/ WipeCerts
  BY <1>1, <1>u DEF StartScript, WriteFile, StopScript, WipeCerts
<1>2. ASSUME NEW n \in Node, Boot(n) \/ LoadKey(n) \/ CreateKey(n) \/ LoadDialCert(n) \/ StoreRow(n) PROVE LoopInv'
  BY <1>2, <1>u DEF Boot, LoadKey, CreateKey, LoadDialCert, StoreRow
<1>3. ASSUME NEW n \in Node, BadKey(n) \/ BadCert(n) \/ Exit(n) \/ Crash(n) PROVE LoopInv'
  BY <1>3, <1>g DEF BadKey, BadCert, Exit, Crash, Refused
<1>4. ASSUME NEW n \in Node, Serve(n) \/ ServeAgain(n) PROVE LoopInv'
  BY <1>4, <1>s DEF Serve, ServeAgain
<1>5. ASSUME NEW n \in Node, BeginStop(n) PROVE LoopInv'
  BY <1>5 DEF BeginStop, LoopInv, Live
<1>6. ASSUME NEW n \in Node, Joined(n) PROVE LoopInv'
  <2>1. /\ thread[n] \notin Live(n) /\ UNCHANGED <<loops, overdue>>
        /\ thread' = [thread EXCEPT ![n] = None]
    BY <1>6 DEF Joined, JoinReturns
  <2> QED
    BY <2>1, <1>t DEF LoopInv, Live
<1>7. ASSUME NEW n \in Node, JoinTimesOut(n) PROVE LoopInv'
  BY <1>7, <1>t DEF JoinTimesOut, LoopInv, Live
<1>8. ASSUME NEW n \in Node, NEW i \in 1..MaxStarts, BeginRound(n, i) \/ EndRound(n, i) \/ EndLoop(n, i)
      PROVE  LoopInv'
  <2>1. loops[n][i] \in {"waiting", "round"} /\ UNCHANGED <<thread, overdue>>
    BY <1>8 DEF BeginRound, EndRound, EndLoop
  <2>2. \E p : loops' = [loops EXCEPT ![n][i] = p]
    BY <1>8 DEF BeginRound, EndRound, EndLoop
  <2>3. \A m \in Node : Live(m)' \subseteq Live(m)
    BY <2>1, <2>2, <1>t DEF Live
  <2> QED
    BY <2>1, <2>3 DEF LoopInv
<1>9. CASE UNCHANGED vars
  BY <1>9, <1>u DEF vars
<1> QED
  BY <1>1, <1>2, <1>3, <1>4, <1>5, <1>6, <1>7, <1>8, <1>9
  DEF Next, ScriptStep, BootStep, LoopStep, LifeStep

-----------------------------------------------------------------------------
(* The certificates *)

LEMMA NodesLeaveCerts ==
    ASSUME NEW n \in Node, BootStep(n) \/ LoopStep(n) \/ LifeStep(n) PROVE UNCHANGED certVars
BY DEF BootStep, Boot, LoadKey, BadKey, CreateKey, LoadDialCert, BadCert, Serve,
   LoopStep, BeginRound, EndRound, EndLoop,
   LifeStep, StoreRow, BeginStop, Joined, JoinTimesOut, ServeAgain, Exit, Crash

LEMMA ScriptNext ==
    ASSUME TypeOK, ScriptInv, CertsOfOneRun, [Next]_vars PROVE ScriptInv' /\ CertsOfOneRun'
<1>t. /\ certs \in [File -> Torn..MaxRuns] /\ runs \in Nat
      /\ script \in [run : 0..MaxRuns, done : 0..Len(Files) - 1]
  BY ProcessBounds DEF TypeOK
<1>n. None = 0 /\ Torn = -1 /\ NotRunning.run = None /\ NotRunning.done = 0
  BY DEF None, Torn, NotRunning
<1>u. ASSUME UNCHANGED <<certs, script>> PROVE ScriptInv' /\ CertsOfOneRun'
  BY <1>u DEF ScriptInv, CertsOfOneRun
<1>1. CASE StartScript
  <2>1. /\ script' = [run |-> runs + 1, done |-> 0] /\ certs[CaCrt] = None /\ certs' = certs
        /\ script'.run = runs + 1 /\ script'.done = 0
    BY <1>1 DEF StartScript, MayGenerate
  <2>2. \A f \in File \ {CaKey} : certs[f] = None
    BY <2>1 DEF ScriptInv
  <2> QED
    BY <2>1, <2>2, <1>t, <1>n DEF ScriptInv, CertsOfOneRun
<1>2. CASE WriteFile
  <2> DEFINE k == script.run
             d == script.done
  <2>1. /\ script # NotRunning /\ certs' = [certs EXCEPT ![Files[d + 1]] = k]
        /\ script' = IF d + 1 = Len(Files) THEN NotRunning ELSE [script EXCEPT !.done = d + 1]
    BY <1>2 DEF WriteFile, LastFile
  <2>2. d \in 0 .. Len(Files) - 1 /\ k \in 0..MaxRuns /\ k # None /\ d + 1 \in 1..Len(Files)
    BY <2>1, <1>t, FilesFacts DEF ScriptInv
  <2>3. Files[d + 1] \in File /\ (Files[d + 1] = CaCrt <=> d = 1) /\ (d = 0 => Files[d + 1] = CaKey)
    BY <2>2, FilesFacts
  <2>4. script' # NotRunning => script'.run = k /\ script'.done = d + 1
    BY <2>1, <1>t
  <2>5. /\ \A f \in File \ {CaKey} : certs'[f] \in {None, k}
        /\ certs'[CaKey] = k
        /\ d = 0 <=> certs'[CaCrt] = None
    BY <2>1, <2>2, <2>3, <1>t, FilesFacts DEF ScriptInv
  <2>6. certs'[CaCrt] = None => \A f \in File \ {CaKey} : certs'[f] = None
    BY <2>1, <2>2, <2>3, <2>5, <1>t, FilesFacts DEF ScriptInv
  <2>7. ScriptInv'
    BY <2>2, <2>4, <2>5, <2>6, <1>n DEF ScriptInv
  <2>8. CertsOfOneRun'
    BY <2>5 DEF CertsOfOneRun, Whole
  <2> QED
    BY <2>7, <2>8
<1>3. CASE StopScript
  <2> DEFINE k == script.run
             d == script.done
  <2>1. /\ script # NotRunning /\ script' = NotRunning
        /\ certs' = certs \/ certs' = [certs EXCEPT ![Files[d + 1]] = Torn]
    BY <1>3 DEF StopScript
  <2>2. d \in 0 .. Len(Files) - 1 /\ Files[d + 1] \in File /\ (Files[d + 1] = CaCrt <=> d = 1)
        /\ (d = 0 => Files[d + 1] = CaKey)
    BY <2>1, <1>t, FilesFacts
  <2>3. \A f \in File : certs'[f] = certs[f] \/ certs'[f] = Torn
    BY <2>1, <1>t
  <2>4. d >= 1 => \A f \in File : certs[f] \in {None, k}
    BY <2>1, <2>2 DEF ScriptInv
  <2>5. d = 0 => certs'[CaCrt] = None
    BY <2>1, <2>2, <1>t, FilesFacts DEF ScriptInv
  <2>6. CertsOfOneRun'
    BY <2>2, <2>3, <2>4, <2>5, <1>n DEF CertsOfOneRun, Whole
  <2>7. certs'[CaCrt] = None => \A f \in File \ {CaKey} : certs'[f] = None
    <3>1. CASE certs' = certs
      BY <3>1 DEF ScriptInv
    <3>2. CASE certs' = [certs EXCEPT ![Files[d + 1]] = Torn]
      <4>1. CASE d = 0
        BY <3>2, <4>1, <2>2, <1>t, FilesFacts DEF ScriptInv
      <4>2. CASE d >= 1
        BY <3>2, <4>2, <2>1, <2>2, <1>t, <1>n, FilesFacts DEF ScriptInv
      <4> QED
        BY <4>1, <4>2, <2>2
    <3> QED
      BY <3>1, <3>2, <2>1
  <2> QED
    BY <2>1, <2>6, <2>7 DEF ScriptInv
<1>4. CASE WipeCerts
  <2>1. script = NotRunning /\ script' = NotRunning /\ \A f \in File : certs'[f] = None
    BY <1>4 DEF WipeCerts
  <2> QED
    BY <2>1, FilesFacts DEF ScriptInv, CertsOfOneRun
<1>5. ASSUME NEW n \in Node, BootStep(n) \/ LoopStep(n) \/ LifeStep(n)
      PROVE  ScriptInv' /\ CertsOfOneRun'
  <2>1. UNCHANGED certVars
    BY <1>5, NodesLeaveCerts
  <2> QED
    BY <2>1, <1>u DEF certVars
<1>6. CASE UNCHANGED vars
  BY <1>6, <1>u DEF vars, certVars
<1> QED
  BY <1>1, <1>2, <1>3, <1>4, <1>5, <1>6 DEF Next, ScriptStep

-----------------------------------------------------------------------------
(* Peers *)

\* While nobody deletes certs/, a CA certificate that is whole stays as it is.
LEMMA CaStays ==
    ASSUME TypeOK, ScriptInv, [Next]_vars, wipes' = 0, Whole(certs[CaCrt])
    PROVE  certs'[CaCrt] = certs[CaCrt]
<1>t. /\ certs \in [File -> Torn..MaxRuns] /\ wipes \in Nat
      /\ script \in [run : 0..MaxRuns, done : 0..Len(Files) - 1]
  BY ProcessBounds DEF TypeOK
<1>n. certs[CaCrt] # None
  BY DEF Whole
<1>1. ASSUME WriteFile \/ StopScript PROVE certs'[CaCrt] = certs[CaCrt]
  <2>1. script # NotRunning /\ script.done >= 2 /\ script.done + 1 \in 1..Len(Files)
    BY <1>1, <1>t, <1>n, FilesFacts DEF WriteFile, StopScript, ScriptInv
  <2>2. Files[script.done + 1] # CaCrt
    BY <2>1, <1>t, FilesFacts
  <2> QED
    BY <1>1, <2>2, <1>t, FilesFacts DEF WriteFile, StopScript
<1>2. ~ WipeCerts
  BY <1>t DEF WipeCerts
<1>3. CASE StartScript
  BY <1>3 DEF StartScript
<1>4. ASSUME NEW n \in Node, BootStep(n) \/ LoopStep(n) \/ LifeStep(n) PROVE certs' = certs
  BY <1>4, NodesLeaveCerts DEF certVars
<1> QED
  BY <1>1, <1>2, <1>3, <1>4 DEF Next, ScriptStep, vars, certVars

\* What a process loads, it loads of the one run there is.
LEMMA UsableIsCurrent ==
    ASSUME TypeOK, CertsOfOneRun, NEW n \in Node, Usable(n)
    PROVE  [own |-> certs[<<n, "crt">>], ca |-> certs[CaCrt]] = Current /\ Whole(certs[CaCrt])
BY NodeFiles, FilesFacts DEF Usable, CertsOfOneRun, Whole, Current

LEMMA WipesStay == ASSUME TypeOK, [Next]_vars, wipes' = 0 PROVE wipes = 0
<1>t. wipes \in Nat
  BY ProcessBounds DEF TypeOK
<1>1. CASE StartScript \/ WriteFile \/ StopScript
  BY <1>1 DEF StartScript, WriteFile, StopScript
<1>2. ~ WipeCerts
  BY <1>t DEF WipeCerts
<1>3. ASSUME NEW n \in Node, BootStep(n) PROVE wipes' = wipes
  BY <1>3 DEF BootStep, Boot, LoadKey, BadKey, CreateKey, LoadDialCert, BadCert, Serve
<1>4. ASSUME NEW n \in Node, LoopStep(n) PROVE wipes' = wipes
  BY <1>4 DEF LoopStep, BeginRound, EndRound, EndLoop
<1>5. ASSUME NEW n \in Node, LifeStep(n) PROVE wipes' = wipes
  BY <1>5 DEF LifeStep, StoreRow, BeginStop, Joined, JoinTimesOut, ServeAgain, Exit, Crash
<1>6. CASE UNCHANGED vars
  BY <1>6 DEF vars
<1> QED
  BY <1>1, <1>2, <1>3, <1>4, <1>5, <1>6 DEF Next, ScriptStep

LEMMA TrustNext ==
    ASSUME TypeOK, ScriptInv, CertsOfOneRun, TrustInv, [Next]_vars PROVE TrustInv'
<1> SUFFICES ASSUME wipes' = 0 PROVE TrustInv'
  BY DEF TrustInv
<1>t. /\ at \in [Node -> 0..9] /\ dials \in [Node -> Issue] /\ serves \in [Node -> Issue]
      /\ wipes \in Nat
  BY ProcessBounds DEF TypeOK, Down, Stopped, Stopping, Up, BootSteps
<1>n. Up = 7 /\ Stopping = 8 /\ Stopped = 9 /\ Down = 0 /\ Dialled = 4
  BY DEF Down, Stopped, Stopping, Up, BootSteps, Dialled
<1>b. \A n \in Node : /\ Booting(n, "dial") <=> at[n] = 3
                      /\ Booting(n, "serve") <=> at[n] = 6
                      /\ Opening(n) => at[n] \in {1, 2, 4, 5}
  BY <1>t DEF Booting, Opening, BootSteps
<1>w. wipes = 0
  BY WipesStay
<1>c. Whole(certs[CaCrt]) => Current' = Current /\ Whole(certs[CaCrt])'
  BY CaStays DEF Current
<1>i. \A n \in Node : /\ at[n] >= 4 => Whole(certs[CaCrt]) /\ dials[n] = Current
                      /\ at[n] >= 7 => serves[n] = Current
  BY <1>w, <1>n DEF TrustInv
<1>m. ASSUME \A n \in Node : /\ at'[n] >= 4 => Whole(certs[CaCrt]) /\ dials'[n] = Current
                             /\ at'[n] >= 7 => Whole(certs[CaCrt]) /\ serves'[n] = Current
      PROVE  TrustInv'
  BY <1>m, <1>c, <1>n, <1>t DEF TrustInv
\* A step that loads nothing, and lets no process pass a loading.
<1>k. ASSUME \A n \in Node : /\ at'[n] >= 4 => at[n] >= 4 /\ dials'[n] = dials[n]
                             /\ at'[n] >= 7 => at[n] >= 7 /\ serves'[n] = serves[n]
      PROVE  TrustInv'
  BY <1>k, <1>i, <1>c, <1>n, <1>t DEF TrustInv
<1>1. CASE StartScript \/ WriteFile \/ StopScript \/ WipeCerts
  BY <1>1, <1>k, <1>t DEF StartScript, WriteFile, StopScript, WipeCerts, tlsVars
<1>2. ASSUME NEW n \in Node, Boot(n) \/ LoadKey(n) \/ CreateKey(n) PROVE TrustInv'
  BY <1>2, <1>k, <1>b, <1>t, <1>n DEF Boot, LoadKey, CreateKey, Continue, tlsVars
<1>3. ASSUME NEW n \in Node, BadKey(n) \/ BadCert(n) \/ Exit(n) \/ Crash(n) PROVE TrustInv'
  BY <1>3, <1>k, <1>t, <1>n DEF BadKey, BadCert, Exit, Crash, Refused, Gone
<1>4. ASSUME NEW n \in Node, LoadDialCert(n) PROVE TrustInv'
  <2>1. Usable(n) /\ at[n] = 3 /\ at' = [at EXCEPT ![n] = @ + 1] /\ serves' = serves
    BY <1>4, <1>b DEF LoadDialCert, Continue, tlsVars
  <2>2. /\ Whole(certs[CaCrt])
        /\ [own |-> certs[<<n, "crt">>], ca |-> certs[CaCrt]] = Current
    BY <2>1, UsableIsCurrent
  <2>3. dials' = [dials EXCEPT ![n] = Current]
    BY <1>4, <2>2 DEF LoadDialCert
  <2>4. at'[n] = 4 /\ dials'[n] = Current
    BY <2>1, <2>3, <1>t
  <2>5. \A m \in Node \ {n} : at'[m] = at[m] /\ dials'[m] = dials[m]
    BY <2>1, <2>3, <1>t
  <2>6. \A m \in Node : /\ at'[m] >= 4 => Whole(certs[CaCrt]) /\ dials'[m] = Current
                        /\ at'[m] >= 7 => Whole(certs[CaCrt]) /\ serves'[m] = Current
    BY <2>1, <2>2, <2>4, <2>5, <1>i
  <2> QED
    BY <2>6, <1>m
<1>5. ASSUME NEW n \in Node, Serve(n) PROVE TrustInv'
  <2>1. Usable(n) /\ at[n] = 6 /\ at' = [at EXCEPT ![n] = @ + 1] /\ dials' = dials
    BY <1>5, <1>b DEF Serve, Continue, tlsVars
  <2>2. /\ Whole(certs[CaCrt])
        /\ [own |-> certs[<<n, "crt">>], ca |-> certs[CaCrt]] = Current
    BY <2>1, UsableIsCurrent
  <2>3. serves' = [serves EXCEPT ![n] = Current]
    BY <1>5, <2>2 DEF Serve
  <2>4. at'[n] = 7 /\ serves'[n] = Current
    BY <2>1, <2>3, <1>t
  <2>5. \A m \in Node \ {n} : at'[m] = at[m] /\ serves'[m] = serves[m]
    BY <2>1, <2>3, <1>t
  <2>6. \A m \in Node : /\ at'[m] >= 4 => Whole(certs[CaCrt]) /\ dials'[m] = Current
                        /\ at'[m] >= 7 => Whole(certs[CaCrt]) /\ serves'[m] = Current
    BY <2>1, <2>2, <2>4, <2>5, <1>i
  <2> QED
    BY <2>6, <1>m
<1>6. ASSUME NEW n \in Node, StoreRow(n) \/ BeginStop(n) \/ Joined(n) \/ JoinTimesOut(n) \/ ServeAgain(n) PROVE TrustInv'
  BY <1>6, <1>k, <1>t, <1>n DEF StoreRow, BeginStop, Joined, JoinTimesOut, ServeAgain, tlsVars
<1>7. ASSUME NEW n \in Node, NEW i \in 1..MaxStarts, BeginRound(n, i) \/ EndRound(n, i) \/ EndLoop(n, i)
      PROVE  TrustInv'
  BY <1>7, <1>k, <1>t DEF BeginRound, EndRound, EndLoop, tlsVars
<1>8. CASE UNCHANGED vars
  BY <1>8, <1>k, <1>t DEF vars, tlsVars
<1> QED
  BY <1>1, <1>2, <1>3, <1>4, <1>5, <1>6, <1>7, <1>8
  DEF Next, ScriptStep, BootStep, LoopStep, LifeStep

-----------------------------------------------------------------------------
(* Types *)

LEMMA ProcessTypeInit == Init => TypeOK
<1> SUFFICES ASSUME Init PROVE TypeOK
  OBVIOUS
<1>1. None \in Torn..MaxRuns /\ None \in Torn..MaxKeys /\ None \in 0..MaxStarts
      /\ Down \in Down..Stopped
  BY ProcessBounds DEF None, Torn, Down, Stopped, Stopping, Up, BootSteps
<1>2. NotRunning \in [run : 0..MaxRuns, done : 0..Len(Files) - 1] /\ NoCert \in Issue
  BY ProcessBounds, FilesFacts DEF NotRunning, NoCert, Issue, None
<1>3. NoLoops \in [1..MaxStarts -> {"unborn", "waiting", "round", "ended"}]
  BY DEF NoLoops
<1> QED
  BY <1>1, <1>2, <1>3, ProcessBounds DEF Init, TypeOK, None

\* The position of a process, and the boot steps it stands for.
LEMMA Positions ==
    /\ Up = 7 /\ Stopping = 8 /\ Stopped = 9 /\ Down = 0
    /\ \A n \in Node, s \in {"store", "hints", "dial", "serve"} :
          at \in [Node -> Down..Stopped] /\ Booting(n, s) => at[n] \in 1..6
BY DEF Up, Stopping, Stopped, Down, BootSteps, Booting

LEMMA ProcessTypeNext == ASSUME TypeOK, [Next]_vars PROVE TypeOK'
<1> DEFINE CertTypes == /\ certs \in [File -> Torn..MaxRuns]
                        /\ script \in [run : 0..MaxRuns, done : 0..Len(Files) - 1]
                        /\ runs \in 0..MaxRuns
           KeyTypes == /\ keyFile \in [Node -> Torn..MaxKeys] /\ minted \in [Node -> 0..MaxKeys]
                       /\ held \in [Node -> SUBSET (1..MaxKeys)]
                       /\ sealed \in [Node -> SUBSET (1..MaxKeys)]
           TlsTypes == dials \in [Node -> Issue] /\ serves \in [Node -> Issue]
           LoopTypes == /\ thread \in [Node -> 0..MaxStarts] /\ stopSet \in [Node -> BOOLEAN]
                        /\ loops \in [Node -> [1..MaxStarts -> {"unborn", "waiting", "round", "ended"}]]
                        /\ overdue \in [Node -> SUBSET (1..MaxStarts)]
           AtType == at \in [Node -> Down..Stopped]
           Bounds == crashes \in 0..MaxCrashes /\ wipes \in 0..MaxWipes
<1>a. /\ CertTypes /\ KeyTypes /\ TlsTypes /\ LoopTypes /\ AtType /\ Bounds
  BY DEF TypeOK
<1>q. ASSUME CertTypes', KeyTypes', TlsTypes', LoopTypes', AtType', Bounds' PROVE TypeOK'
  BY <1>q DEF TypeOK
<1>p. CertTypes' \/ ~ UNCHANGED certVars
  BY <1>a DEF certVars
<1>k. KeyTypes' \/ ~ UNCHANGED keyVars
  BY <1>a DEF keyVars
<1>s. TlsTypes' \/ ~ UNCHANGED tlsVars
  BY <1>a DEF tlsVars
<1>l. LoopTypes' \/ ~ UNCHANGED workerVars
  BY <1>a DEF workerVars
<1>c. Bounds' \/ ~ UNCHANGED <<crashes, wipes>>
  BY <1>a
<1>v. AtType' \/ ~ UNCHANGED at
  BY <1>a
<1>n. /\ None = 0 /\ Torn = -1 /\ Up = 7 /\ Stopping = 8 /\ Stopped = 9 /\ Down = 0
      /\ NoCert \in Issue /\ MaxRuns \in Nat /\ MaxKeys \in Nat /\ MaxStarts \in Nat
      /\ MaxCrashes \in Nat /\ MaxWipes \in Nat
      /\ NoLoops \in [1..MaxStarts -> {"unborn", "waiting", "round", "ended"}]
  BY Positions, ProcessBounds DEF None, Torn, NoCert, Issue, NoLoops
<1>o. NotRunning \in [run : 0..MaxRuns, done : 0..Len(Files) - 1]
  BY <1>n, FilesFacts DEF NotRunning
<1> HIDE DEF CertTypes, KeyTypes, TlsTypes, LoopTypes, AtType, Bounds
<1>g. ASSUME NEW n \in Node, Gone(n)
      PROVE  /\ AtType' /\ held' \in [Node -> SUBSET (1..MaxKeys)] /\ TlsTypes' /\ LoopTypes'
  <2>1. AtType'
    BY <1>g, <1>a, <1>n DEF Gone, AtType
  <2>2. held' \in [Node -> SUBSET (1..MaxKeys)]
    BY <1>g, <1>a DEF Gone, KeyTypes
  <2>3. TlsTypes'
    BY <1>g, <1>a, <1>n DEF Gone, TlsTypes
  <2>4. LoopTypes'
    <3>1. thread' \in [Node -> 0..MaxStarts] /\ stopSet' \in [Node -> BOOLEAN]
      BY <1>g, <1>a, <1>n DEF Gone, LoopTypes
    <3>2. loops' \in [Node -> [1..MaxStarts -> {"unborn", "waiting", "round", "ended"}]]
      BY <1>g, <1>a, <1>n DEF Gone, LoopTypes
    <3>3. overdue' \in [Node -> SUBSET (1..MaxStarts)]
      BY <1>g, <1>a DEF Gone, LoopTypes
    <3> QED
      BY <3>1, <3>2, <3>3 DEF LoopTypes
  <2> QED
    BY <2>1, <2>2, <2>3, <2>4
<1>w. ASSUME NEW n \in Node, StartWorker(n) PROVE LoopTypes'
  <2>1. PICK i \in 1..MaxStarts : /\ thread' = [thread EXCEPT ![n] = i]
                                  /\ loops' = [loops EXCEPT ![n][i] = "waiting"]
    BY <1>w DEF StartWorker, Unborn
  <2>2. i \in 0..MaxStarts
    BY <2>1, <1>n
  <2>3. thread' \in [Node -> 0..MaxStarts]
    BY <2>1, <2>2, <1>a DEF LoopTypes
  <2>4. loops' \in [Node -> [1..MaxStarts -> {"unborn", "waiting", "round", "ended"}]]
    BY <2>1, <1>a DEF LoopTypes
  <2>5. stopSet' \in [Node -> BOOLEAN] /\ overdue' \in [Node -> SUBSET (1..MaxStarts)]
    BY <1>w, <1>a DEF StartWorker, LoopTypes
  <2> QED
    BY <2>3, <2>4, <2>5 DEF LoopTypes
<1>1. CASE StartScript
  <2>1. runs + 1 \in 0..MaxRuns /\ 0 \in 0 .. Len(Files) - 1
    BY <1>1, <1>a, <1>n, FilesFacts DEF StartScript, CertTypes
  <2>2. CertTypes'
    BY <2>1, <1>1, <1>a DEF StartScript, CertTypes
  <2> QED
    BY <2>2, <1>1, <1>a, <1>k, <1>s, <1>l, <1>c, <1>v, <1>q DEF StartScript
<1>2. CASE WriteFile
  <2>1. certs' \in [File -> Torn..MaxRuns]
    <3>1. certs' = [certs EXCEPT ![Files[script.done + 1]] = script.run]
      BY <1>2 DEF WriteFile
    <3>2. script.run \in Torn..MaxRuns
      BY <1>a, <1>n DEF CertTypes
    <3> QED
      BY <3>1, <3>2, <1>a DEF CertTypes
  <2>2. script' \in [run : 0..MaxRuns, done : 0..Len(Files) - 1]
    BY <1>2, <1>a, <1>o, FilesFacts DEF WriteFile, LastFile, CertTypes
  <2>3. CertTypes'
    BY <2>1, <2>2, <1>2, <1>a DEF WriteFile, CertTypes
  <2> QED
    BY <2>3, <1>2, <1>a, <1>k, <1>s, <1>l, <1>c, <1>v, <1>q DEF WriteFile
<1>3. CASE StopScript
  <2>0. script.done + 1 \in 1..Len(Files) /\ Torn \in Torn..MaxRuns
    BY <1>a, <1>n, FilesFacts DEF CertTypes
  <2>1. certs' \in [File -> Torn..MaxRuns]
    <3>1. certs' = certs \/ certs' = [certs EXCEPT ![Files[script.done + 1]] = Torn]
      BY <1>3 DEF StopScript
    <3> QED
      BY <2>0, <3>1, <1>a DEF CertTypes
  <2>2. CertTypes'
    BY <2>1, <1>3, <1>a, <1>o DEF StopScript, CertTypes
  <2>3. Bounds'
    BY <1>3, <1>a, <1>n DEF StopScript, Bounds
  <2> QED
    BY <2>2, <2>3, <1>3, <1>a, <1>k, <1>s, <1>l, <1>v, <1>q DEF StopScript
<1>4. CASE WipeCerts
  <2>1. CertTypes'
    BY <1>4, <1>a, <1>n DEF WipeCerts, CertTypes
  <2>2. Bounds'
    BY <1>4, <1>a, <1>n DEF WipeCerts, Bounds
  <2> QED
    BY <2>1, <2>2, <1>4, <1>k, <1>s, <1>l, <1>v, <1>q DEF WipeCerts
<1>5. ASSUME NEW n \in Node, Boot(n) PROVE TypeOK'
  <2>1. AtType'
    BY <1>5, <1>a, <1>n DEF Boot, AtType
  <2> QED
    BY <2>1, <1>5, <1>p, <1>k, <1>s, <1>l, <1>c, <1>q DEF Boot
<1>6. ASSUME NEW n \in Node, at[n] \in DOMAIN BootSteps, Continue(n) PROVE AtType'
  <2>1. at[n] \in 1..6
    BY <1>6 DEF BootSteps
  <2> QED
    BY <2>1, <1>6, <1>a, <1>n DEF Continue, AtType
<1>7. ASSUME NEW n \in Node, LoadKey(n) PROVE TypeOK'
  <2>1. AtType'
    BY <1>7, <1>6 DEF LoadKey, Opening, Booting
  <2>2. keyFile[n] \in 1..MaxKeys
    BY <1>7, <1>a, <1>n DEF LoadKey, Whole, KeyTypes
  <2>3. KeyTypes'
    BY <2>2, <1>7, <1>a DEF LoadKey, KeyTypes
  <2> QED
    BY <2>1, <2>3, <1>7, <1>p, <1>s, <1>l, <1>c, <1>q DEF LoadKey
<1>8. ASSUME NEW n \in Node, BadKey(n) \/ BadCert(n) \/ Exit(n) PROVE TypeOK'
  <2>1. Gone(n) /\ UNCHANGED <<certVars, keyFile, minted, sealed, crashes, wipes>>
    BY <1>8 DEF BadKey, BadCert, Exit, Refused
  <2>2. KeyTypes'
    BY <2>1, <1>g, <1>a DEF KeyTypes
  <2> QED
    BY <2>1, <2>2, <1>g, <1>p, <1>c, <1>q
<1>9. ASSUME NEW n \in Node, CreateKey(n) PROVE TypeOK'
  <2>1. AtType'
    BY <1>9, <1>6 DEF CreateKey, Opening, Booting
  <2>2. minted[n] + 1 \in 1..MaxKeys
    BY <1>9, <1>a, <1>n DEF CreateKey, KeyTypes
  <2>3. KeyTypes'
    BY <2>2, <1>9, <1>a, <1>n DEF CreateKey, KeyTypes
  <2> QED
    BY <2>1, <2>3, <1>9, <1>p, <1>s, <1>l, <1>c, <1>q DEF CreateKey
<1>10. ASSUME NEW n \in Node, Usable(n)
       PROVE  [own |-> certs[<<n, "crt">>], ca |-> certs[CaCrt]] \in Issue
  BY <1>10, <1>a, <1>n, NodeFiles, FilesFacts DEF Usable, Whole, Issue, CertTypes
<1>11. ASSUME NEW n \in Node, LoadDialCert(n) PROVE TypeOK'
  <2>1. AtType'
    BY <1>11, <1>6 DEF LoadDialCert, Booting
  <2>2. TlsTypes'
    BY <1>11, <1>10, <1>a DEF LoadDialCert, TlsTypes
  <2> QED
    BY <2>1, <2>2, <1>11, <1>p, <1>k, <1>l, <1>c, <1>q DEF LoadDialCert
<1>12. ASSUME NEW n \in Node, Serve(n) PROVE TypeOK'
  <2>1. AtType'
    BY <1>12, <1>6 DEF Serve, Booting
  <2>2. TlsTypes'
    BY <1>12, <1>10, <1>a DEF Serve, TlsTypes
  <2> QED
    BY <2>1, <2>2, <1>12, <1>w, <1>p, <1>k, <1>c, <1>q DEF Serve
<1>13. ASSUME NEW n \in Node, StoreRow(n) PROVE TypeOK'
  <2>1. KeyTypes'
    BY <1>13, <1>a DEF StoreRow, KeyTypes
  <2> QED
    BY <2>1, <1>13, <1>p, <1>s, <1>l, <1>c, <1>v, <1>q DEF StoreRow
<1>14. ASSUME NEW n \in Node, NEW i \in 1..MaxStarts, BeginRound(n, i) \/ EndRound(n, i) \/ EndLoop(n, i)
       PROVE  TypeOK'
  <2>1. \E p \in {"waiting", "round", "ended"} : loops' = [loops EXCEPT ![n][i] = p]
    BY <1>14 DEF BeginRound, EndRound, EndLoop
  <2>2. UNCHANGED <<certVars, at, keyVars, tlsVars, thread, stopSet, overdue, crashes, wipes>>
    BY <1>14 DEF BeginRound, EndRound, EndLoop
  <2>3. LoopTypes'
    BY <2>1, <2>2, <1>a DEF LoopTypes
  <2> QED
    BY <2>2, <2>3, <1>p, <1>k, <1>s, <1>c, <1>v, <1>q
<1>15. ASSUME NEW n \in Node, BeginStop(n) PROVE TypeOK'
  <2>1. AtType'
    BY <1>15, <1>a, <1>n DEF BeginStop, AtType
  <2>2. LoopTypes'
    BY <1>15, <1>a DEF BeginStop, StopRequested, LoopTypes
  <2> QED
    BY <2>1, <2>2, <1>15, <1>p, <1>k, <1>s, <1>c, <1>q DEF BeginStop
<1>16. ASSUME NEW n \in Node, Joined(n) PROVE TypeOK'
  <2>1. AtType'
    BY <1>16, <1>a, <1>n DEF Joined, AtType
  <2>2. LoopTypes'
    BY <1>16, <1>a, <1>n DEF Joined, LoopTypes
  <2> QED
    BY <2>1, <2>2, <1>16, <1>p, <1>k, <1>s, <1>c, <1>q DEF Joined
<1>17. ASSUME NEW n \in Node, JoinTimesOut(n) PROVE TypeOK'
  <2>1. AtType'
    BY <1>17, <1>a, <1>n DEF JoinTimesOut, AtType
  <2>2. thread[n] \in 1..MaxStarts
    BY <1>17 DEF JoinTimesOut, Live
  <2>3. LoopTypes'
    BY <2>2, <1>17, <1>a, <1>n DEF JoinTimesOut, LoopTypes
  <2> QED
    BY <2>1, <2>3, <1>17, <1>p, <1>k, <1>s, <1>c, <1>q DEF JoinTimesOut
<1>18. ASSUME NEW n \in Node, ServeAgain(n) PROVE TypeOK'
  <2>1. AtType'
    BY <1>18, <1>a, <1>n DEF ServeAgain, AtType
  <2> QED
    BY <2>1, <1>18, <1>w, <1>p, <1>k, <1>s, <1>c, <1>q DEF ServeAgain
<1>19. ASSUME NEW n \in Node, Crash(n) PROVE TypeOK'
  <2>1. Gone(n) /\ UNCHANGED <<certVars, sealed, wipes>> /\ crashes < MaxCrashes
        /\ crashes' = crashes + 1
    BY <1>19 DEF Crash
  <2>2. keyFile' \in [Node -> Torn..MaxKeys] /\ minted' \in [Node -> 0..MaxKeys]
    <3>1. CASE UNCHANGED <<keyFile, minted>>
      BY <3>1, <1>a DEF KeyTypes
    <3>2. CASE /\ minted[n] < MaxKeys
               /\ keyFile' = [keyFile EXCEPT ![n] = Torn]
               /\ minted' = [minted EXCEPT ![n] = @ + 1]
      <4>1. minted[n] + 1 \in 0..MaxKeys /\ Torn \in Torn..MaxKeys
        BY <3>2, <1>a, <1>n DEF KeyTypes
      <4> QED
        BY <3>2, <4>1, <1>a DEF KeyTypes
    <3> QED
      BY <3>1, <3>2, <1>19 DEF Crash
  <2>3. KeyTypes'
    BY <2>1, <2>2, <1>g, <1>a DEF KeyTypes
  <2>4. Bounds'
    BY <2>1, <1>a, <1>n DEF Bounds
  <2> QED
    BY <2>1, <2>3, <2>4, <1>g, <1>p, <1>q
<1>20. CASE UNCHANGED vars
  BY <1>20, <1>p, <1>k, <1>s, <1>l, <1>c, <1>v, <1>q DEF vars
<1> QED
  BY <1>1, <1>2, <1>3, <1>4, <1>5, <1>7, <1>8, <1>9, <1>11, <1>12, <1>13, <1>14, <1>15,
     <1>16, <1>17, <1>18, <1>19, <1>20
  DEF Next, ScriptStep, BootStep, LoopStep, LifeStep

-----------------------------------------------------------------------------
(* One gossip thread in a process that serves once *)

\* A process that serves once starts one thread in its life.
LEMMA OnceNext == ASSUME TypeOK, OnceInv, [Next]_vars PROVE OnceInv'
<1>t. /\ loops \in [Node -> [1..MaxStarts -> {"unborn", "waiting", "round", "ended"}]]
      /\ at \in [Node -> 0..9] /\ Up = 7 /\ Down = 0 /\ Stopping = 8 /\ Stopped = 9
      /\ MaxStarts \in Nat
  BY Positions, ProcessBounds DEF TypeOK
<1>p. at' \in [Node -> 0..9]
  BY ProcessTypeNext, Positions DEF TypeOK
<1> DEFINE Still(m) == at'[m] = at[m] /\ Live(m)' \subseteq Live(m)
           Safe(m) == /\ at'[m] < Up => Live(m)' = {}
                      /\ \E i \in 0..MaxStarts : Live(m)' \subseteq {i}
<1>r. ASSUME NEW m \in Node \ Reused, Still(m) PROVE Safe(m)
  BY <1>r DEF OnceInv
<1>d. ASSUME NEW m \in Node \ Reused, Live(m)' \subseteq Live(m), at[m] < Up \/ at'[m] >= Up
      PROVE  Safe(m)
  <2>1. at'[m] < Up => Live(m)' = {}
    <3>1. SUFFICES ASSUME at'[m] < Up PROVE Live(m)' = {}
      OBVIOUS
    <3>2. at[m] < Up
      BY <3>1, <1>d, <1>t, <1>p
    <3> QED
      BY <3>2, <1>d DEF OnceInv
  <2> QED
    BY <2>1, <1>d DEF OnceInv
<1>u. ASSUME UNCHANGED <<at, loops>> PROVE \A m \in Node : Still(m)
  BY <1>u DEF Live
<1>g. ASSUME NEW n \in Node, Gone(n) PROVE OnceInv'
  <2>1. Live(n)' = {} /\ 0 \in 0..MaxStarts
    BY <1>g, <1>t DEF Gone, NoLoops, Live
  <2>2. \A m \in Node \ {n} : Still(m)
    BY <1>g, <1>t DEF Gone, Live
  <2>3. \A m \in Node \ Reused : Safe(m)
    BY <2>1, <2>2, <1>r
  <2> QED
    BY <2>3 DEF OnceInv
<1>m. ASSUME NEW n \in Node, NEW p \in Int, at' = [at EXCEPT ![n] = p], UNCHANGED loops,
             at[n] < Up \/ p >= Up
      PROVE  OnceInv'
  <2>1. \A m \in Node \ {n} : Still(m)
    BY <1>m, <1>t DEF Live
  <2>2. n \notin Reused => Safe(n)
    <3>1. Live(n)' = Live(n) /\ at'[n] = p
      BY <1>m, <1>t DEF Live
    <3> QED
      BY <3>1, <1>m, <1>d
  <2>3. \A m \in Node \ Reused : Safe(m)
    BY <2>1, <2>2, <1>r
  <2> QED
    BY <2>3 DEF OnceInv
<1>1. CASE StartScript \/ WriteFile \/ StopScript \/ WipeCerts
  <2>1. UNCHANGED <<at, loops>>
    BY <1>1 DEF StartScript, WriteFile, StopScript, WipeCerts, workerVars
  <2>2. \A m \in Node \ Reused : Safe(m)
    BY <2>1, <1>u, <1>r
  <2> QED
    BY <2>2 DEF OnceInv
<1>2. ASSUME NEW n \in Node, Boot(n) \/ LoadKey(n) \/ CreateKey(n) \/ LoadDialCert(n)
      PROVE  OnceInv'
  <2>1. /\ at[n] \in 0..6 /\ loops' = loops
        /\ at' = [at EXCEPT ![n] = 1] \/ at' = [at EXCEPT ![n] = at[n] + 1]
    BY <1>2, <1>t, Positions
    DEF Boot, LoadKey, CreateKey, LoadDialCert, Opening, Booting, Continue, workerVars
  <2>2. at[n] < Up /\ at[n] + 1 \in Int
    BY <2>1, <1>t
  <2> QED
    BY <2>1, <2>2, <1>m
<1>3. ASSUME NEW n \in Node, BadKey(n) \/ BadCert(n) \/ Exit(n) \/ Crash(n) PROVE OnceInv'
  BY <1>3, <1>g DEF BadKey, BadCert, Exit, Crash, Refused
<1>4. ASSUME NEW n \in Node, Serve(n) PROVE OnceInv'
  <2>1. PICK i \in 1..MaxStarts : loops' = [loops EXCEPT ![n][i] = "waiting"]
    BY <1>4 DEF Serve, StartWorker, Unborn
  <2>2. at[n] = 6 /\ at' = [at EXCEPT ![n] = at[n] + 1]
    <3>1. at[n] \in 1..6 /\ BootSteps[at[n]] = "serve"
      BY <1>4, Positions DEF Serve, Booting, TypeOK
    <3>2. at[n] = 6
      BY <3>1 DEF BootSteps
    <3> QED
      BY <3>2, <1>4 DEF Serve, Continue
  <2>3. \A m \in Node \ {n} : Still(m)
    BY <2>1, <2>2, <1>t DEF Live
  <2>4. Live(n)' \subseteq Live(n) \cup {i} /\ at'[n] = 7 /\ i \in 0..MaxStarts
    BY <2>1, <2>2, <1>t DEF Live
  <2>5. n \notin Reused => Safe(n)
    BY <2>2, <2>4, <1>t DEF OnceInv
  <2>6. \A m \in Node \ Reused : Safe(m)
    BY <2>3, <2>5, <1>r
  <2> QED
    BY <2>6 DEF OnceInv
<1>5. ASSUME NEW n \in Node, BeginStop(n) \/ Joined(n) \/ JoinTimesOut(n) PROVE OnceInv'
  <2>1. loops' = loops /\ (at' = [at EXCEPT ![n] = 8] \/ at' = [at EXCEPT ![n] = 9])
    BY <1>5, <1>t DEF BeginStop, Joined, JoinTimesOut
  <2>2. 8 \in Int /\ 9 \in Int /\ 8 >= Up /\ 9 >= Up
    BY <1>t
  <2>3. CASE at' = [at EXCEPT ![n] = 8]
    BY <2>1, <2>2, <2>3, <1>m, Zenon
  <2>4. CASE at' = [at EXCEPT ![n] = 9]
    BY <2>1, <2>2, <2>4, <1>m, Zenon
  <2> QED
    BY <2>1, <2>3, <2>4
<1>6. ASSUME NEW n \in Node, ServeAgain(n) PROVE OnceInv'
  <2>1. n \in Reused /\ \A m \in Node \ {n} : at'[m] = at[m] /\ loops'[m] = loops[m]
    BY <1>6, <1>t DEF ServeAgain, StartWorker
  <2>2. \A m \in Node \ Reused : Still(m)
    BY <2>1 DEF Live
  <2>3. \A m \in Node \ Reused : Safe(m)
    BY <2>2, <1>r
  <2> QED
    BY <2>3 DEF OnceInv
<1>7. ASSUME NEW n \in Node, NEW i \in 1..MaxStarts, BeginRound(n, i) \/ EndRound(n, i) \/ EndLoop(n, i)
      PROVE  OnceInv'
  <2>1. loops[n][i] \in {"waiting", "round"} /\ at' = at
    BY <1>7 DEF BeginRound, EndRound, EndLoop
  <2>2. \E p : loops' = [loops EXCEPT ![n][i] = p]
    BY <1>7 DEF BeginRound, EndRound, EndLoop
  <2>3. \A m \in Node : Still(m)
    BY <2>1, <2>2, <1>t DEF Live
  <2>4. \A m \in Node \ Reused : Safe(m)
    BY <2>3, <1>r
  <2> QED
    BY <2>4 DEF OnceInv
<1>8. CASE UNCHANGED vars \/ \E n \in Node : StoreRow(n)
  <2>1. UNCHANGED <<at, loops>>
    BY <1>8 DEF vars, workerVars, StoreRow
  <2>2. \A m \in Node \ Reused : Safe(m)
    BY <2>1, <1>u, <1>r
  <2> QED
    BY <2>2 DEF OnceInv
<1> QED
  BY <1>1, <1>2, <1>3, <1>4, <1>5, <1>6, <1>7, <1>8
  DEF Next, ScriptStep, BootStep, LoopStep, LifeStep

-----------------------------------------------------------------------------
(* A node with rows can boot *)

LEMMA DistinctFiles == \A i, j \in 1..Len(Files) : Files[i] = Files[j] => i = j
<1> DEFINE L == Len(NodeIds)
           Of(i) == NodeIds[(i - 1) \div 2]
           Kind(i) == IF i % 2 = 1 THEN "key" ELSE "crt"
<1>1. L \in Nat /\ Len(Files) = 2 + 2 * L /\ DOMAIN Files = 1 .. 2 + 2 * L
  BY FilesFacts
<1>2. \A k, l \in 1..L : NodeIds[k] = NodeIds[l] => k = l
  <2>1. NodeIds \in [1..L -> Node] /\ \A n \in Node : \E k \in 1..L : NodeIds[k] = n
    BY IdsAreDistinct DEF Node
  <2>2. NodeIds \in Surjection(1..L, Node)
    BY <2>1 DEF Surjection
  <2>3. IsFiniteSet(1..L) /\ Cardinality(1..L) = L
    <3>1. ASSUME NEW l \in Nat PROVE IsFiniteSet(1..l) /\ Cardinality(1..l) = l
      <4>1. 1 \in Int /\ l \in Int /\ (IF 1 > l THEN 0 ELSE l - 1 + 1) = l
        BY <3>1
      <4>2. IsFiniteSet(1..l) /\ Cardinality(1..l) = IF 1 > l THEN 0 ELSE l - 1 + 1
        BY <4>1, FS_Interval
      <4> QED
        BY <4>1, <4>2
    <3> QED
      BY <1>1, <3>1
  <2>4. NodeIds \in Injection(1..L, Node)
    BY <2>2, <2>3, IdsAreDistinct, FS_SurjSameCardinalityImpliesInj
  <2> QED
    BY <2>4, Fun_InjectionProperties
<1>3. ASSUME NEW i \in 1..Len(Files), i # 1, i # 2
      PROVE  /\ Files[i] = <<Of(i), Kind(i)>>
             /\ (i - 1) \div 2 \in 1..L /\ Of(i) \in Node /\ Of(i) # "ca"
  <2>1. Files[i] = <<Of(i), Kind(i)>>
    BY <1>1, <1>3 DEF Files
  <2>2. (i - 1) \div 2 \in 1..L
    BY <1>1, <1>3
  <2>3. Of(i) \in Node
    BY <2>2, IdsAreDistinct
  <2> QED
    BY <2>1, <2>2, <2>3, CaIsNoNode
<1>4. ASSUME NEW i \in 1..Len(Files), i # 1, i # 2 PROVE Files[i][1] # "ca"
  BY <1>3, <1>4
<1>5. Files[1][1] = "ca" /\ Files[2][1] = "ca" /\ Files[1] # Files[2]
  BY FilesFacts DEF CaKey, CaCrt
<1>6. ASSUME NEW i \in 1..Len(Files), NEW j \in 1..Len(Files), i \notin {1, 2}, j \notin {1, 2},
             Files[i] = Files[j]
      PROVE  i = j
  <2>1. Of(i) = Of(j) /\ Kind(i) = Kind(j)
    BY <1>3, <1>6
  <2>2. (i - 1) \div 2 = (j - 1) \div 2
    BY <1>2, <1>3, <1>6, <2>1
  <2>3. i % 2 = 1 <=> j % 2 = 1
    BY <2>1
  <2>4. i \in Int /\ j \in Int
    BY <1>1
  <2> QED
    BY <2>2, <2>3, <2>4
<1> QED
  BY <1>4, <1>5, <1>6

LEMMA PendingNext == ASSUME TypeOK, ScriptInv, PendingInv, [Next]_vars PROVE PendingInv'
<1>t. /\ certs \in [File -> Torn..MaxRuns] /\ runs \in Nat
      /\ script \in [run : 0..MaxRuns, done : 0..Len(Files) - 1]
  BY ProcessBounds DEF TypeOK
<1>u. ASSUME UNCHANGED <<certs, script>> PROVE PendingInv'
  BY <1>u DEF PendingInv
<1>1. CASE StartScript
  <2>1. \A f \in File \ {CaKey} : certs[f] = None
    BY <1>1 DEF StartScript, MayGenerate, ScriptInv
  <2>2. \A i \in 2..Len(Files) : Files[i] \in File \ {CaKey}
    BY FilesFacts, DistinctFiles
  <2>3. certs' = certs
    BY <1>1 DEF StartScript
  <2> QED
    BY <2>1, <2>2, <2>3 DEF PendingInv
<1>2. CASE WriteFile
  <2> DEFINE d == script.done
  <2>1. /\ script # NotRunning /\ certs' = [certs EXCEPT ![Files[d + 1]] = script.run]
        /\ script' = IF d + 1 = Len(Files) THEN NotRunning ELSE [script EXCEPT !.done = d + 1]
    BY <1>2 DEF WriteFile, LastFile
  <2>2. d \in 0 .. Len(Files) - 1 /\ d + 1 \in 1..Len(Files)
    BY <1>t, FilesFacts
  <2>3. ASSUME NEW i \in 2..Len(Files), i > d + 1 PROVE certs'[Files[i]] = None
    <3>1. Files[i] # Files[d + 1] /\ Files[i] \in File
      BY <2>2, <2>3, FilesFacts, DistinctFiles
    <3>2. certs[Files[i]] = None
      BY <2>1, <2>2, <2>3 DEF PendingInv
    <3> QED
      BY <2>1, <3>1, <3>2, <1>t
  <2>4. script' # NotRunning => script'.done = d + 1
    BY <2>1, <1>t
  <2> QED
    BY <2>3, <2>4 DEF PendingInv
<1>3. CASE StopScript \/ WipeCerts
  BY <1>3 DEF StopScript, WipeCerts, PendingInv
<1>4. ASSUME NEW n \in Node, BootStep(n) \/ LoopStep(n) \/ LifeStep(n) PROVE PendingInv'
  <2>1. UNCHANGED certVars
    BY <1>4, NodesLeaveCerts
  <2> QED
    BY <2>1, <1>u DEF certVars
<1>5. CASE UNCHANGED vars
  BY <1>5, <1>u DEF vars, certVars
<1> QED
  BY <1>1, <1>2, <1>3, <1>4, <1>5 DEF Next, ScriptStep

\* While nobody deletes certs/, files that can be used stay so.
LEMMA UsableStays ==
    ASSUME TypeOK, ScriptInv, CertsOfOneRun, PendingInv, [Next]_vars, wipes' = 0,
           NEW n \in Node, Usable(n)
    PROVE  Usable(n)'
<1>t. /\ certs \in [File -> Torn..MaxRuns] /\ wipes \in Nat
      /\ script \in [run : 0..MaxRuns, done : 0..Len(Files) - 1]
  BY ProcessBounds DEF TypeOK
<1> DEFINE Mine == {CaCrt, <<n, "key">>, <<n, "crt">>}
<1>m. /\ Mine \subseteq File \ {CaKey}
      /\ \A f \in Mine : certs[f] # None /\ Whole(certs[f])
  <2>1. <<n, "key">> # CaKey /\ <<n, "crt">> # CaKey /\ CaCrt # CaKey
    BY CaIsNoNode DEF CaKey, CaCrt
  <2> QED
    BY <2>1, NodeFiles, FilesFacts DEF Usable, Whole
<1>u. ASSUME \A f \in Mine : certs'[f] = certs[f] PROVE Usable(n)'
  BY <1>u DEF Usable
<1>1. CASE WriteFile
  <2>1. script # NotRunning /\ certs' = [certs EXCEPT ![Files[script.done + 1]] = script.run]
    BY <1>1 DEF WriteFile
  <2>2. \A f \in Mine : certs[f] = script.run
    BY <2>1, <1>m DEF ScriptInv
  <2>3. \A f \in Mine : certs'[f] = certs[f]
    BY <2>1, <2>2, <1>m, <1>t
  <2> QED
    BY <2>3, <1>u
<1>2. CASE StopScript
  <2> DEFINE k == script.done + 1
  <2>1. script # NotRunning /\ (certs' = certs \/ certs' = [certs EXCEPT ![Files[k]] = Torn])
    BY <1>2 DEF StopScript
  <2>2. Files[k] \notin Mine
    <3>1. k \in 1..Len(Files) /\ k > script.done
      BY <1>t, FilesFacts
    <3>2. CASE k = 1
      BY <3>2, <1>m, FilesFacts
    <3>3. CASE k # 1
      <4>1. certs[Files[k]] = None
        BY <2>1, <3>1, <3>3 DEF PendingInv
      <4> QED
        BY <4>1, <1>m
    <3> QED
      BY <3>2, <3>3
  <2>3. \A f \in Mine : certs'[f] = certs[f]
    BY <2>1, <2>2, <1>m, <1>t
  <2> QED
    BY <2>3, <1>u
<1>3. ~ WipeCerts
  BY <1>t DEF WipeCerts
<1>4. CASE StartScript
  BY <1>4, <1>u DEF StartScript
<1>5. ASSUME NEW m \in Node, BootStep(m) \/ LoopStep(m) \/ LifeStep(m) PROVE Usable(n)'
  BY <1>5, <1>u, NodesLeaveCerts DEF certVars
<1>6. CASE UNCHANGED vars
  BY <1>6, <1>u DEF vars, certVars
<1> QED
  BY <1>1, <1>2, <1>3, <1>4, <1>5, <1>6 DEF Next, ScriptStep

LEMMA ReadyNext ==
    ASSUME TypeOK, ScriptInv, CertsOfOneRun, PendingInv, ReadyInv, [Next]_vars PROVE ReadyInv'
<1> SUFFICES ASSUME wipes' = 0 PROVE ReadyInv'
  BY DEF ReadyInv
<1>t. /\ at \in [Node -> 0..9] /\ sealed \in [Node -> SUBSET (1..MaxKeys)] /\ wipes \in Nat
      /\ Up = 7 /\ Stopping = 8 /\ Stopped = 9 /\ Down = 0 /\ Dialled = 4
  BY Positions, ProcessBounds DEF TypeOK, Dialled
<1>b. \A n \in Node : Opening(n) => at[n] \in {1, 2, 4, 5}
  BY <1>t DEF Booting, Opening, BootSteps
<1>w. wipes = 0
  BY WipesStay
<1>i. \A n \in Node : at[n] >= 4 \/ sealed[n] # {} => Usable(n) /\ Usable(n)'
  BY <1>w, <1>t, UsableStays DEF ReadyInv
\* A step that lets no process pass its first reading, and stores no row.
<1>k. ASSUME \A n \in Node : at'[n] >= 4 \/ sealed'[n] # {} => at[n] >= 4 \/ sealed[n] # {}
      PROVE  ReadyInv'
  BY <1>k, <1>i, <1>t DEF ReadyInv
<1>1. CASE StartScript \/ WriteFile \/ StopScript \/ WipeCerts
  BY <1>1, <1>k DEF StartScript, WriteFile, StopScript, WipeCerts, keyVars
<1>2. ASSUME NEW n \in Node, Boot(n) \/ LoadKey(n) \/ CreateKey(n) PROVE ReadyInv'
  BY <1>2, <1>k, <1>b, <1>t DEF Boot, LoadKey, CreateKey, Continue, keyVars
<1>3. ASSUME NEW n \in Node, BadKey(n) \/ BadCert(n) \/ Exit(n) \/ Crash(n) PROVE ReadyInv'
  BY <1>3, <1>k, <1>t DEF BadKey, BadCert, Exit, Crash, Refused, Gone
<1>4. ASSUME NEW n \in Node, LoadDialCert(n) \/ Serve(n) PROVE ReadyInv'
  <2>1. Usable(n)'
    BY <1>4, UsableStays DEF LoadDialCert, Serve
  <2>2. \A m \in Node \ {n} : at'[m] = at[m] /\ sealed'[m] = sealed[m]
    BY <1>4, <1>t DEF LoadDialCert, Serve, Continue, keyVars
  <2> QED
    BY <2>1, <2>2, <1>i, <1>t DEF ReadyInv
<1>5. ASSUME NEW n \in Node, StoreRow(n) PROVE ReadyInv'
  <2>1. at[n] >= 4 /\ at' = at /\ \A m \in Node \ {n} : sealed'[m] = sealed[m]
    BY <1>5, <1>t DEF StoreRow
  <2> QED
    BY <2>1, <1>k
<1>6. ASSUME NEW n \in Node, BeginStop(n) \/ Joined(n) \/ JoinTimesOut(n) \/ ServeAgain(n)
      PROVE  ReadyInv'
  BY <1>6, <1>k, <1>t DEF BeginStop, Joined, JoinTimesOut, ServeAgain, keyVars
<1>7. ASSUME NEW n \in Node, LoopStep(n) PROVE ReadyInv'
  BY <1>7, <1>k DEF LoopStep, BeginRound, EndRound, EndLoop, keyVars
<1>8. CASE UNCHANGED vars
  BY <1>8, <1>k DEF vars, keyVars
<1> QED
  BY <1>1, <1>2, <1>3, <1>4, <1>5, <1>6, <1>7, <1>8
  DEF Next, ScriptStep, BootStep, LifeStep

LEMMA BootNotRefused ==
    ASSUME TypeOK, DataStaysReadable, ReadyInv, [Next]_vars, NEW n \in Node, sealed[n] # {},
           wipes = 0, at[n] \in DOMAIN BootSteps, at'[n] = Down
    PROVE  crashes' > crashes
<1>t. /\ at \in [Node -> 0..9] /\ sealed \in [Node -> SUBSET (1..MaxKeys)] /\ crashes \in Nat
      /\ Up = 7 /\ Stopping = 8 /\ Stopped = 9 /\ Down = 0 /\ at[n] \in 1..6
  <2>1. DOMAIN BootSteps = 1..6
    BY DEF BootSteps
  <2>2. /\ at \in [Node -> Down..Stopped] /\ sealed \in [Node -> SUBSET (1..MaxKeys)]
        /\ crashes \in 0..MaxCrashes
    BY DEF TypeOK
  <2>3. crashes \in Nat
    BY <2>2, ProcessBounds
  <2> QED
    BY <2>1, <2>2, <2>3, Positions
<1>u. Usable(n)
  BY DEF ReadyInv
<1>k. keyFile[n] # Torn
  BY <1>t DEF DataStaysReadable, Torn
<1>s. at'[n] # at[n]
  BY <1>t
<1>1. CASE ScriptStep \/ UNCHANGED vars
  BY <1>1, <1>s DEF ScriptStep, StartScript, WriteFile, StopScript, WipeCerts, vars
<1>2. ASSUME NEW m \in Node, Boot(m) \/ LoadKey(m) \/ CreateKey(m) \/ LoadDialCert(m) \/ Serve(m)
      PROVE  FALSE
  BY <1>2, <1>s, <1>t DEF Boot, LoadKey, CreateKey, LoadDialCert, Serve, Continue
<1>3. ASSUME NEW m \in Node, BadKey(m) \/ BadCert(m) PROVE FALSE
  <2>1. m # n
    BY <1>3, <1>u, <1>k DEF BadKey, BadCert
  <2> QED
    BY <2>1, <1>3, <1>s, <1>t DEF BadKey, BadCert, Refused, Gone
<1>4. ASSUME NEW m \in Node, Crash(m) PROVE crashes' > crashes
  BY <1>4, <1>t DEF Crash
<1>5. ASSUME NEW m \in Node, Exit(m) PROVE FALSE
  BY <1>5, <1>s, <1>t DEF Exit, Gone
<1>6. ASSUME NEW m \in Node,
             StoreRow(m) \/ BeginStop(m) \/ Joined(m) \/ JoinTimesOut(m) \/ ServeAgain(m)
      PROVE  FALSE
  BY <1>6, <1>s, <1>t DEF StoreRow, BeginStop, Joined, JoinTimesOut, ServeAgain
<1>7. ASSUME NEW m \in Node, LoopStep(m) PROVE FALSE
  BY <1>7, <1>s DEF LoopStep, BeginRound, EndRound, EndLoop
<1> QED
  BY <1>1, <1>2, <1>3, <1>4, <1>5, <1>6, <1>7 DEF Next, BootStep, LifeStep

-----------------------------------------------------------------------------
(* Theorems *)

LEMMA ProcessInvInit == Init => ProcessInv
<1> SUFFICES ASSUME Init PROVE ProcessInv
  OBVIOUS
<1>1. TypeOK
  BY ProcessTypeInit
<1>2. DataStaysReadable
  BY DEF Init, DataStaysReadable
<1>3. ScriptInv /\ CertsOfOneRun
  BY FilesFacts DEF Init, ScriptInv, CertsOfOneRun, Whole
<1>4. LoopInv
  BY DEF Init, LoopInv, Live, NoLoops
<1>5. TrustInv
  BY Positions DEF Init, TrustInv, Dialled
<1>6. OnceInv
  <2>1. \A n \in Node : Live(n) = {}
    BY DEF Init, Live, NoLoops
  <2>2. 0 \in 0..MaxStarts
    BY ProcessBounds
  <2> QED
    BY <2>1, <2>2 DEF OnceInv
<1>7. PendingInv /\ ReadyInv
  BY Positions DEF Init, PendingInv, ReadyInv, Dialled
<1> QED
  BY <1>1, <1>2, <1>3, <1>4, <1>5, <1>6, <1>7 DEF ProcessInv

LEMMA ProcessInvariant == Spec => []ProcessInv
<1>1. ProcessInv /\ [Next]_vars => ProcessInv'
  BY ProcessTypeNext, KeyNext, ScriptNext, LoopNext, OnceNext, TrustNext, PendingNext, ReadyNext
  DEF ProcessInv
<1> QED
  BY ProcessInvInit, <1>1, PTL DEF Spec

\* Every variable keeps its type (the positions of a process, the run that wrote
\* a file, the keys of a node), as gen_certs.py, crypto.py and main.py assign them.
THEOREM ProcessTypeCorrect == Spec => []TypeOK
BY ProcessInvariant, PTL DEF ProcessInv

\* load_or_create_encryption_key never replaces a key that rows are encrypted
\* with, wherever a boot that writes one is cut short.
THEOREM KeysStayWithData == Spec => []DataStaysReadable
BY ProcessInvariant, PTL DEF ProcessInv

\* gen_certs.py, stopped anywhere and run again, never mixes files of two CAs.
THEOREM CertificatesOfOneRun == Spec => []CertsOfOneRun
BY ProcessInvariant, PTL DEF ProcessInv

\* GossipWorker.start and stop keep one thread that runs, but for those stop gave
\* up waiting for, and no more than one at all where the app is served once.
THEOREM OneGossipThread == Spec => []OneLoop
<1>1. ASSUME LoopInv, OnceInv PROVE OneLoop
  <2> SUFFICES ASSUME NEW n \in Node
               PROVE  /\ n \notin Reused => Cardinality(Live(n)) <= 1
                      /\ Cardinality(Live(n) \ overdue[n]) <= 1
    BY DEF OneLoop
  <2>1. ASSUME NEW S, NEW i, S \subseteq {i} PROVE Cardinality(S) <= 1
    <3>1. IsFiniteSet({i}) /\ Cardinality({i}) = 1
      BY FS_Singleton
    <3> QED
      BY <2>1, <3>1, FS_Subset
  <2>2. Live(n) \ overdue[n] \subseteq {thread[n]}
    BY <1>1 DEF LoopInv
  <2>3. n \notin Reused => \E i : Live(n) \subseteq {i}
    BY <1>1 DEF OnceInv
  <2> QED
    BY <2>1, <2>2, <2>3
<1>2. ProcessInv => OneLoop
  BY <1>1 DEF ProcessInv
<1> QED
  BY <1>2, ProcessInvariant, PTL

\* No boot of a node whose disk has rows is refused by its key file or a
\* certificate, wherever processes and gen_certs.py were stopped, while nobody
\* deletes certs/.
THEOREM NodesComeBack == Spec => DataComesBack
<1>1. ASSUME ProcessInv, [Next]_vars
      PROVE  [\A n \in Node :
                 sealed[n] # {} /\ wipes = 0 /\ at[n] \in DOMAIN BootSteps /\ at'[n] = Down
                    => crashes' > crashes]_vars
  BY <1>1, BootNotRefused DEF ProcessInv
<1> QED
  BY <1>1, ProcessInvariant, PTL DEF Spec, DataComesBack

\* Processes that read their certificates at different times, also while
\* gen_certs.py is still writing, accept each other's calls, unless somebody
\* deleted certs/ in between.
THEOREM PeersAccept == Spec => []PeersTrustEachOther
<1>1. ASSUME TypeOK, TrustInv PROVE PeersTrustEachOther
  <2> SUFFICES ASSUME wipes = 0, NEW n \in Node, NEW m \in Node, at[n] >= Up, at[m] >= Up
               PROVE  Accepts(n, m)
    BY DEF PeersTrustEachOther
  <2>1. at[n] >= Dialled /\ at[m] >= Dialled
    <3>1. at[n] \in 0..9 /\ at[m] \in 0..9
      BY <1>1, Positions DEF TypeOK
    <3> QED
      BY <3>1, Positions DEF Dialled
  <2>2. dials[n] = Current /\ serves[n] = Current /\ serves[m] = Current
    BY <1>1, <2>1 DEF TrustInv
  <2>3. Current.own = Current.ca
    BY DEF Current
  <2> QED
    BY <2>2, <2>3 DEF Accepts
<1>2. ProcessInv => PeersTrustEachOther
  BY <1>1 DEF ProcessInv
<1> QED
  BY <1>2, ProcessInvariant, PTL
=============================================================================
