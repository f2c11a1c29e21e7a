---------------------------- MODULE NodeProcess ----------------------------
(***************************************************************************)
(* The life of the processes around the store: gen_certs.py, which writes  *)
(* the certificates once before the cluster starts; run.py and main.py,    *)
(* which build a node twice (the app made when main.py is imported, and    *)
(* the node that serves), each time over its two encrypted databases;      *)
(* crypto.py's key file; and the gossip thread that the lifespan of the    *)
(* internal app starts and stops (gossip_worker.py).                       *)
(*                                                                         *)
(* The script and the processes may be stopped between any two steps and   *)
(* started again.  A file being written when that happens is left torn.    *)
(***************************************************************************)
EXTENDS Integers, Sequences, FiniteSets

CONSTANTS NodeIds,       \* NODE_IDS of gen_certs.py, a sequence
          MaxRuns,       \* bound: runs of gen_certs.py that write
          MaxKeys,       \* bound: encryption keys generated per node
          MaxStarts,     \* bound: starts of gossip threads in one process
          Reused,        \* bound: nodes whose app is served again in one process
          MaxCrashes,    \* bound: stops of a node or of the script
          MaxWipes       \* bound: deletions of certs/

Node == {NodeIds[i] : i \in DOMAIN NodeIds}
ASSUME IdsAreDistinct == NodeIds \in Seq(Node) /\ Cardinality(Node) = Len(NodeIds)
ASSUME CaIsNoNode == "ca" \notin Node
ASSUME ProcessBounds == /\ MaxRuns \in Nat /\ MaxKeys \in Nat /\ MaxStarts \in Nat
                        /\ MaxCrashes \in Nat /\ MaxWipes \in Nat

VARIABLES
    certs,      \* the files of certs/: the run that wrote each, None or Torn
    script,     \* gen_certs.py: which run it is, and how many files it wrote
    runs,       \* runs of gen_certs.py that got past its check
    at,         \* how far the process of each node is
    keyFile,    \* each node's key file: the key, None or Torn
    minted,     \* keys each node has generated
    held,       \* keys the databases of the process were opened with
    sealed,     \* history: keys that rows on the node's disk are encrypted with
    dials,      \* the run of the certificate the process calls its peers with
    serves,     \* ... and of the one its internal port answers with
    thread,     \* GossipWorker._thread of the process, None if it has none
    stopSet,    \* GossipWorker._stop_event
    loops,      \* the gossip threads of the process
    overdue,    \* history: threads that stop() did not see end
    crashes, wipes

certVars == <<certs, script, runs>>
keyVars == <<keyFile, minted, held, sealed>>
tlsVars == <<dials, serves>>
workerVars == <<thread, stopSet, loops, overdue>>
vars == <<certVars, at, keyVars, tlsVars, workerVars, crashes, wipes>>

None == 0
Torn == -1
Whole(f) == f \notin {None, Torn}
NoCert == [own |-> None, ca |-> None]

-----------------------------------------------------------------------------
(* gen_certs.py *)

CaKey == <<"ca", "key">>
CaCrt == <<"ca", "crt">>

\* The files in the order main writes them.
Files == [i \in 1 .. 2 + 2 * Len(NodeIds) |->
             IF i = 1 THEN CaKey ELSE IF i = 2 THEN CaCrt
             ELSE <<NodeIds[(i - 1) \div 2], IF i % 2 = 1 THEN "key" ELSE "crt">>]
File == {Files[i] : i \in DOMAIN Files}

NotRunning == [run |-> None, done |-> 0]

\* Slips: no check, or a check of the last file instead of the CA's.
MayGenerateAlways == TRUE
MayGenerateIfIncomplete == certs[Files[Len(Files)]] = None
MayGenerate == certs[CaCrt] = None

\* Past the check; a new CA.  (A run that finds ca.crt changes nothing.)
StartScript ==
    /\ script = NotRunning /\ MayGenerate /\ runs < MaxRuns
    /\ runs' = runs + 1
    /\ script' = [run |-> runs + 1, done |-> 0]
    /\ UNCHANGED <<certs, at, keyVars, tlsVars, workerVars, crashes, wipes>>

LastFile(n) == n = Len(Files)

WriteFile ==
    /\ script # NotRunning
    /\ LET n == script.done + 1
       IN  /\ certs' = [certs EXCEPT ![Files[n]] = script.run]
           /\ script' = IF LastFile(n) THEN NotRunning ELSE [script EXCEPT !.done = n]
    /\ UNCHANGED <<runs, at, keyVars, tlsVars, workerVars, crashes, wipes>>

\* The script is stopped between two files, or while it writes the next one.
StopScript ==
    /\ script # NotRunning /\ crashes < MaxCrashes
    /\ crashes' = crashes + 1
    /\ script' = NotRunning
    /\ \/ UNCHANGED certs
       \/ certs' = [certs EXCEPT ![Files[script.done + 1]] = Torn]
    /\ UNCHANGED <<runs, at, keyVars, tlsVars, workerVars, wipes>>

\* "delete certs/ to regenerate"
WipeCerts ==
    /\ script = NotRunning /\ wipes < MaxWipes
    /\ wipes' = wipes + 1
    /\ certs' = [f \in File |-> None]
    /\ UNCHANGED <<script, runs, at, keyVars, tlsVars, workerVars, crashes>>

-----------------------------------------------------------------------------
(* A process comes up *)

\* What a process does, one after the other: opens the two databases of the app
\* built at import, loads its certificates to dial with, opens the two
\* databases of the node that serves, loads the certificates to serve with.
BootSteps == <<"store", "hints", "dial", "store", "hints", "serve">>
Down == 0
Up == Len(BootSteps) + 1
Stopping == Up + 1
Stopped == Up + 2
Alive(n) == at[n] # Down
Booting(n, step) == at[n] \in DOMAIN BootSteps /\ BootSteps[at[n]] = step
Opening(n) == Booting(n, "store") \/ Booting(n, "hints")

NoLoops == [i \in 1..MaxStarts |-> "unborn"]

\* Nothing of a process outlives it but its files.
Gone(n) == /\ at' = [at EXCEPT ![n] = Down]
           /\ held' = [held EXCEPT ![n] = {}]
           /\ dials' = [dials EXCEPT ![n] = NoCert]
           /\ serves' = [serves EXCEPT ![n] = NoCert]
           /\ thread' = [thread EXCEPT ![n] = None]
           /\ stopSet' = [stopSet EXCEPT ![n] = FALSE]
           /\ loops' = [loops EXCEPT ![n] = NoLoops]
           /\ overdue' = [overdue EXCEPT ![n] = {}]

Init == /\ certs = [f \in File |-> None] /\ script = NotRunning /\ runs = 0
        /\ at = [n \in Node |-> Down]
        /\ keyFile = [n \in Node |-> None] /\ minted = [n \in Node |-> 0]
        /\ held = [n \in Node |-> {}] /\ sealed = [n \in Node |-> {}]
        /\ dials = [n \in Node |-> NoCert] /\ serves = [n \in Node |-> NoCert]
        /\ thread = [n \in Node |-> None] /\ stopSet = [n \in Node |-> FALSE]
        /\ loops = [n \in Node |-> NoLoops] /\ overdue = [n \in Node |-> {}]
        /\ crashes = 0 /\ wipes = 0

Boot(n) ==
    /\ at[n] = Down
    /\ at' = [at EXCEPT ![n] = 1]
    /\ UNCHANGED <<certVars, keyVars, tlsVars, workerVars, crashes, wipes>>

Continue(n) == at' = [at EXCEPT ![n] = @ + 1]

\* Slip: the key file is written anew at every boot.
HasKeyFileNever(n) == FALSE
HasKeyFile(n) == keyFile[n] # None

\* load_or_create_encryption_key: the key that is there is used ...
LoadKey(n) ==
    /\ Opening(n) /\ HasKeyFile(n) /\ Whole(keyFile[n])
    /\ held' = [held EXCEPT ![n] = @ \cup {keyFile[n]}]
    /\ Continue(n)
    /\ UNCHANGED <<certVars, keyFile, minted, sealed, tlsVars, workerVars, crashes, wipes>>

\* What cannot be read is an exception nobody catches.  Slip: it is tried again.
RefusedWaits(n) == UNCHANGED <<at, held, tlsVars, workerVars>>
Refused(n) == Gone(n)

\* ... AESGCM refuses an empty one, and the process ends ...
BadKey(n) ==
    /\ Opening(n) /\ HasKeyFile(n) /\ keyFile[n] = Torn
    /\ Refused(n)
    /\ UNCHANGED <<certVars, keyFile, minted, sealed, crashes, wipes>>

\* ... and where there is none a new one is written and used.
CreateKey(n) ==
    /\ Opening(n) /\ ~ HasKeyFile(n) /\ minted[n] < MaxKeys
    /\ minted' = [minted EXCEPT ![n] = @ + 1]
    /\ keyFile' = [keyFile EXCEPT ![n] = minted[n] + 1]
    /\ held' = [held EXCEPT ![n] = @ \cup {minted[n] + 1}]
    /\ Continue(n)
    /\ UNCHANGED <<certVars, sealed, tlsVars, workerVars, crashes, wipes>>

\* Its key, its certificate and the CA's can be read, and the two belong together.
Usable(n) == /\ Whole(certs[CaCrt])
             /\ Whole(certs[<<n, "key">>]) /\ certs[<<n, "key">>] = certs[<<n, "crt">>]

\* build_mtls_client_context
LoadDialCert(n) ==
    /\ Booting(n, "dial") /\ Usable(n)
    /\ dials' = [dials EXCEPT ![n] = [own |-> certs[<<n, "crt">>], ca |-> certs[CaCrt]]]
    /\ Continue(n)
    /\ UNCHANGED <<certVars, keyVars, serves, workerVars, crashes, wipes>>

BadCert(n) ==
    /\ Booting(n, "dial") \/ Booting(n, "serve")
    /\ ~ Usable(n)
    /\ Refused(n)
    /\ UNCHANGED <<certVars, keyFile, minted, sealed, crashes, wipes>>

-----------------------------------------------------------------------------
(* The gossip worker; the lifespan calls it *)

Live(n) == {i \in 1..MaxStarts : loops[n][i] \in {"waiting", "round"}}
Unborn(n) == {i \in 1..MaxStarts : loops[n][i] = "unborn"}

\* GossipWorker.start, called on a worker with no thread.
StartWorker(n) ==
    /\ thread[n] = None
    /\ \E i \in Unborn(n) :
          /\ \A j \in Unborn(n) : i <= j
          /\ thread' = [thread EXCEPT ![n] = i]
          /\ loops' = [loops EXCEPT ![n][i] = "waiting"]
    /\ stopSet' = [stopSet EXCEPT ![n] = FALSE]
    /\ UNCHANGED overdue

Serve(n) ==
    /\ Booting(n, "serve") /\ Usable(n)
    /\ serves' = [serves EXCEPT ![n] = [own |-> certs[<<n, "crt">>], ca |-> certs[CaCrt]]]
    /\ StartWorker(n)
    /\ Continue(n)
    /\ UNCHANGED <<certVars, keyVars, dials, crashes, wipes>>

\* A put stores rows with the key its database was opened with.
StoreRow(n) ==
    /\ at[n] = Up
    /\ \E k \in held[n] : sealed' = [sealed EXCEPT ![n] = @ \cup {k}]
    /\ UNCHANGED <<certVars, at, keyFile, minted, held, tlsVars, workerVars, crashes, wipes>>

\* _run: the wait is over without a stop, and gossip_round begins ...
BeginRound(n, i) ==
    /\ loops[n][i] = "waiting" /\ ~ stopSet[n]
    /\ loops' = [loops EXCEPT ![n][i] = "round"]
    /\ UNCHANGED <<certVars, at, keyVars, tlsVars, thread, stopSet, overdue, crashes, wipes>>

\* ... and ends, well or with an exception that _run drops.
EndRound(n, i) ==
    /\ loops[n][i] = "round"
    /\ loops' = [loops EXCEPT ![n][i] = "waiting"]
    /\ UNCHANGED <<certVars, at, keyVars, tlsVars, thread, stopSet, overdue, crashes, wipes>>

EndLoop(n, i) ==
    /\ loops[n][i] = "waiting" /\ stopSet[n]
    /\ loops' = [loops EXCEPT ![n][i] = "ended"]
    /\ UNCHANGED <<certVars, at, keyVars, tlsVars, thread, stopSet, overdue, crashes, wipes>>

\* Slip: stop forgets to set the event.
StopForgotten(n) == stopSet[n]
StopRequested(n) == TRUE

\* GossipWorker.stop: the event, then a join with a timeout.
BeginStop(n) ==
    /\ at[n] = Up
    /\ at' = [at EXCEPT ![n] = Stopping]
    /\ stopSet' = [stopSet EXCEPT ![n] = StopRequested(n)]
    /\ UNCHANGED <<certVars, keyVars, tlsVars, thread, loops, overdue, crashes, wipes>>

\* Slip: stop does not wait for the thread.
JoinReturnsAtOnce(n) == TRUE
JoinReturns(n) == thread[n] \notin Live(n)

Joined(n) ==
    /\ at[n] = Stopping /\ JoinReturns(n)
    /\ at' = [at EXCEPT ![n] = Stopped]
    /\ thread' = [thread EXCEPT ![n] = None]
    /\ UNCHANGED <<certVars, keyVars, tlsVars, stopSet, loops, overdue, crashes, wipes>>

\* A round takes longer than the timeout: the thread is forgotten.
JoinTimesOut(n) ==
    /\ at[n] = Stopping /\ thread[n] \in Live(n) /\ loops[n][thread[n]] = "round"
    /\ at' = [at EXCEPT ![n] = Stopped]
    /\ thread' = [thread EXCEPT ![n] = None]
    /\ overdue' = [overdue EXCEPT ![n] = @ \cup {thread[n]}]
    /\ UNCHANGED <<certVars, keyVars, tlsVars, stopSet, loops, crashes, wipes>>

\* The lifespan is entered again in the same process, as a test client does
\* that is used twice on one app.
ServeAgain(n) ==
    /\ at[n] = Stopped /\ n \in Reused
    /\ StartWorker(n)
    /\ at' = [at EXCEPT ![n] = Up]
    /\ UNCHANGED <<certVars, keyVars, tlsVars, crashes, wipes>>

Exit(n) ==
    /\ at[n] = Stopped
    /\ Gone(n)
    /\ UNCHANGED <<certVars, keyFile, minted, sealed, crashes, wipes>>

\* The process is stopped anywhere, also while it writes its key file: no row is
\* stored before the file is whole, for the process stores none while it boots.
Crash(n) ==
    /\ Alive(n) /\ crashes < MaxCrashes
    /\ crashes' = crashes + 1
    /\ Gone(n)
    /\ \/ UNCHANGED <<keyFile, minted>>
       \/ /\ Opening(n) /\ ~ HasKeyFile(n) /\ minted[n] < MaxKeys
          /\ keyFile' = [keyFile EXCEPT ![n] = Torn]
          /\ minted' = [minted EXCEPT ![n] = @ + 1]
    /\ UNCHANGED <<certVars, sealed, wipes>>

-----------------------------------------------------------------------------
ScriptStep == StartScript \/ WriteFile \/ StopScript \/ WipeCerts

BootStep(n) == \/ Boot(n) \/ LoadKey(n) \/ BadKey(n) \/ CreateKey(n)
               \/ LoadDialCert(n) \/ BadCert(n) \/ Serve(n)

LoopStep(n) == \E i \in 1..MaxStarts : BeginRound(n, i) \/ EndRound(n, i) \/ EndLoop(n, i)

LifeStep(n) == \/ StoreRow(n) \/ BeginStop(n) \/ Joined(n) \/ JoinTimesOut(n)
               \/ ServeAgain(n) \/ Exit(n) \/ Crash(n)

Next == ScriptStep \/ \E n \in Node : BootStep(n) \/ LoopStep(n) \/ LifeStep(n)

\* The script, once started, goes on; a process that boots goes on; rounds end
\* (every call has a timeout), and a thread that waits sees the event.
Fairness == /\ WF_vars(WriteFile)
            /\ \A n \in Node :
                  /\ WF_vars(BootStep(n) /\ at[n] # Down)
                  /\ \A i \in 1..MaxStarts : WF_vars(EndRound(n, i)) /\ WF_vars(EndLoop(n, i))
                  /\ WF_vars(Joined(n))

Spec == Init /\ [][Next]_vars /\ Fairness

-----------------------------------------------------------------------------
(* Properties *)

Issue == [own : 0..MaxRuns, ca : 0..MaxRuns]

TypeOK ==
    /\ certs \in [File -> Torn..MaxRuns]
    /\ script \in [run : 0..MaxRuns, done : 0..Len(Files) - 1]
    /\ runs \in 0..MaxRuns
    /\ at \in [Node -> Down..Stopped]
    /\ keyFile \in [Node -> Torn..MaxKeys] /\ minted \in [Node -> 0..MaxKeys]
    /\ held \in [Node -> SUBSET (1..MaxKeys)] /\ sealed \in [Node -> SUBSET (1..MaxKeys)]
    /\ dials \in [Node -> Issue] /\ serves \in [Node -> Issue]
    /\ thread \in [Node -> 0..MaxStarts] /\ stopSet \in [Node -> BOOLEAN]
    /\ loops \in [Node -> [1..MaxStarts -> {"unborn", "waiting", "round", "ended"}]]
    /\ overdue \in [Node -> SUBSET (1..MaxStarts)]
    /\ crashes \in 0..MaxCrashes /\ wipes \in 0..MaxWipes

\* "A node must be able to decrypt what it wrote before a restart": every row on
\* its disk opens with the key in its key file, and every database a process
\* opened, at import or to serve, uses that key, whenever processes were stopped.
DataStaysReadable ==
    \A n \in Node : sealed[n] \cup held[n] \subseteq {keyFile[n]}

\* gen_certs.py is "safe to re-run": however often it is stopped and run again,
\* files of two runs are never mixed: a certificate that is whole was issued by
\* the CA whose certificate is there, and by the CA key that is there.
CertsOfOneRun ==
    certs[CaCrt] # None =>
        \A f, g \in File : Whole(certs[f]) /\ Whole(certs[g]) => certs[f] = certs[g]

\* While certs/ was not deleted, any two nodes that serve accept each other's
\* calls, though each read its files at other times, and in two readings.
Accepts(n, m) == dials[n].own = serves[m].ca /\ serves[m].own = dials[n].ca
PeersTrustEachOther ==
    wipes = 0 => \A n, m \in Node : at[n] >= Up /\ at[m] >= Up => Accepts(n, m)

\* At most one gossip thread runs in a process that serves once, whatever stop()
\* waited for, and in one that serves again at most one more than stop() gave up
\* waiting for: a node does not beat twice in an interval.
OneLoop ==
    \A n \in Node : /\ n \notin Reused => Cardinality(Live(n)) <= 1
                   /\ Cardinality(Live(n) \ overdue[n]) <= 1

\* stop() is obeyed, also by a thread it did not wait for, unless the process
\* ends or the worker is started again, which clears the event.
StopIsObeyed ==
    \A n \in Node : at[n] = Stopping ~> (Live(n) = {} \/ at[n] = Up)

\* A process that boots either serves or ends: no torn or missing file, and
\* no state of the certificates, leaves it hanging.
BootsEnd == \A n \in Node : at[n] \in DOMAIN BootSteps ~> at[n] \in {Down, Up}

\* A node that has once stored a row can always come back: unless certs/ is
\* deleted, no later boot of it is refused, by its key file or by a certificate,
\* whichever processes were stopped, and the script run again, since.
DataComesBack ==
    [][\A n \in Node :
          sealed[n] # {} /\ wipes = 0 /\ at[n] \in DOMAIN BootSteps /\ at'[n] = Down
             => crashes' > crashes]_vars
=============================================================================
