---------------------------- MODULE RequestPath ----------------------------
(***************************************************************************)
(* What happens around a handler: main.py's create_public_app and          *)
(* create_internal_app, the token decision of auth.py, and the three       *)
(* middlewares that note a request on its way out (audit.py,               *)
(* logging_middleware.py with recent_ops.py, metrics.py).                  *)
(*                                                                         *)
(* Handlers and the auth dependency run in threads, middlewares on the     *)
(* event loop; between any two of them other requests go on.  A handler    *)
(* answers, raises an HTTPException, which is turned into an answer inside *)
(* the innermost middleware, or raises anything else, which passes all     *)
(* three middlewares as an exception and is answered 500 outside of them.  *)
(***************************************************************************)
EXTENDS Integers, Sequences, FiniteSets

CONSTANTS Request, Client, Namespace,
          Grants,        \* the token file: client, namespace and verb
          Nobody,
          MaxOps,        \* _MAX_ENTRIES of recent_ops
          MaxFaults,     \* bound: audit entries that cannot be written
          MaxCrashes     \* bound: stops of the process

Verb == {"write", "read", "delete"}
ASSUME GrantsAssumption == Grants \subseteq Client \X Namespace \X Verb
ASSUME ClientsAreNamed == {"none", "unknown"} \cap Client = {}
ASSUME NobodyIsNoRequest == Nobody \notin Request
ASSUME PathBounds == MaxOps \in Nat \ {0} /\ MaxFaults \in Nat /\ MaxCrashes \in Nat

VARIABLES
    req,        \* what each request asks for and with which token
    stage,      \* where it is; a middleware's name: about to see the response
    status,     \* of its response
    who,        \* request.state.client_id, "anonymous" while nothing stashed it
    effects,    \* requests whose handler changed stored data
    audit,      \* per app, the audit file
    recent,     \* recent_ops: the deque, oldest first
    lock,       \* the request whose handler is copying the deque
    copied,     \* the deque when that copy began
    noted,      \* history: per middleware, the requests it has noted
    faults, crashes

traceVars == <<audit, recent, noted>>
vars == <<req, stage, status, who, effects, traceVars, lock, copied, faults, crashes>>

KeyRoute == {"put", "get", "delete"}
PublicRoute == KeyRoute \cup {"cluster-state"}
Route == PublicRoute \cup {"internal"}
AppOf(q) == IF q.route \in PublicRoute THEN "public" ELSE "internal"
VerbOf(route) == CASE route = "put" -> "write" [] route = "get" -> "read"
                   [] route = "delete" -> "delete"

\* What arrives: a client request on a key, a look at the dashboard's data, or
\* a call of another node: a replica call, a gossip exchange or a hint.
Asked == [route : KeyRoute, space : Namespace, token : Client \cup {"none", "unknown"}]
         \cup [route : {"cluster-state", "internal"}]

Init == /\ req = [r \in Request |-> [route |-> "internal"]]
        /\ stage = [r \in Request |-> "absent"]
        /\ status = [r \in Request |-> 0]
        /\ who = [r \in Request |-> "anonymous"]
        /\ effects = {}
        /\ audit = [app \in {"public", "internal"} |-> <<>>]
        /\ recent = <<>> /\ lock = Nobody /\ copied = <<>>
        /\ noted = [m \in {"audit", "log", "metrics"} |-> {}]
        /\ faults = 0 /\ crashes = 0

-----------------------------------------------------------------------------
(* The middleware stack *)

\* Slip: the request log is added before the audit log.
AddedLogFirst == <<"log", "audit", "metrics">>
\* The order the middlewares are added in; the last one added is outermost.
Added == <<"audit", "log", "metrics">>

\* A response meets the innermost middleware first, and leaves the last one.
After(m) == LET i == CHOOSE i \in DOMAIN Added : Added[i] = m
            IN  IF i = Len(Added) THEN "answered" ELSE Added[i + 1]

Go(r, place) == stage' = [stage EXCEPT ![r] = place]

Respond(r, code) ==
    /\ Go(r, Added[1])
    /\ status' = [status EXCEPT ![r] = code]

\* An exception no middleware catches.
Raise(r) ==
    /\ Go(r, "answered")
    /\ status' = [status EXCEPT ![r] = 500]

-----------------------------------------------------------------------------
(* Arrival, the token, the handler *)

Arrive(r) ==
    /\ stage[r] = "absent"
    /\ \E q \in Asked :
          /\ req' = [req EXCEPT ![r] = q]
          /\ Go(r, IF q.route \in KeyRoute THEN "unchecked" ELSE "admitted")
    /\ UNCHANGED <<status, who, effects, traceVars, lock, copied, faults, crashes>>

\* Slip: a verb granted in one namespace is granted in all.
GrantedAnywhere(q) == \E s \in Namespace : <<q.token, s, VerbOf(q.route)>> \in Grants
Granted(q) == <<q.token, q.space, VerbOf(q.route)>> \in Grants

\* Slip: the client is stashed once it is let in.
StashedIfGranted(q) == IF q.token \in Client /\ Granted(q) THEN q.token ELSE "anonymous"
Stashed(q) == IF q.token = "none" THEN "anonymous"
              ELSE IF q.token = "unknown" THEN "invalid" ELSE q.token

\* get_auth_context
Authorize(r) ==
    /\ stage[r] = "unchecked"
    /\ who' = [who EXCEPT ![r] = Stashed(req[r])]
    /\ IF req[r].token \notin Client THEN Respond(r, 401)
       ELSE IF ~ Granted(req[r]) THEN Respond(r, 403)
       ELSE Go(r, "admitted") /\ UNCHANGED status
    /\ UNCHANGED <<req, effects, traceVars, lock, copied, faults, crashes>>

\* The body of a put is not JSON, found before the token is looked at, or not a
\* PutRequest, found after: FastAPI answers 422.
Unprocessable(r) ==
    /\ req[r].route = "put" /\ stage[r] \in {"unchecked", "admitted"}
    /\ Respond(r, 422)
    /\ UNCHANGED <<req, who, effects, traceVars, lock, copied, faults, crashes>>

\* 404 and 503 are HTTPExceptions like 409, and stand for one another.
Codes(route) == IF route = "get" THEN {200, 409} ELSE {200, 503}

\* A put or delete that does not succeed may have reached some replicas; an
\* internal call may be one that changes nothing.
MayTouch(r) == IF req[r].route \in {"get", "cluster-state"} THEN {effects}
               ELSE {effects, effects \cup {r}}

Handle(r) ==
    /\ stage[r] = "admitted" /\ req[r].route # "cluster-state"
    /\ \E code \in Codes(req[r].route) :
          /\ Respond(r, code)
          /\ effects' \in IF code = 200 /\ req[r].route \in {"put", "delete"}
                          THEN {effects \cup {r}} ELSE MayTouch(r)
    /\ UNCHANGED <<req, who, traceVars, lock, copied, faults, crashes>>

\* The storage of the replica or of the hints, or anything else in a handler,
\* raises: before or after a replica took the change.  cluster_state counts the
\* hints kept before it asks for the operations.
HandlerFails(r) ==
    /\ stage[r] = "admitted"
    /\ Raise(r)
    /\ effects' \in MayTouch(r)
    /\ UNCHANGED <<req, who, traceVars, lock, copied, faults, crashes>>

\* cluster_state calls recent_operations: into the lock, and list() begins ...
StartCopy(r) ==
    /\ stage[r] = "admitted" /\ req[r].route = "cluster-state" /\ lock = Nobody
    /\ lock' = r /\ copied' = recent
    /\ Go(r, "copying")
    /\ UNCHANGED <<req, status, who, effects, traceVars, faults, crashes>>

\* Slip: the lock is acquired and released by hand, and not released.
KeptLock == lock
ReleasedLock == Nobody

\* ... and is done, or raises because the deque changed under it.
FinishCopy(r) ==
    /\ stage[r] = "copying"
    /\ IF copied = recent THEN Respond(r, 200) ELSE Raise(r)
    /\ lock' = ReleasedLock /\ copied' = <<>>
    /\ UNCHANGED <<req, who, effects, traceVars, faults, crashes>>

-----------------------------------------------------------------------------
(* The middlewares *)

Note(r, m) == noted' = [noted EXCEPT ![m] = @ \cup {r}]

Entry(r) == [req |-> r, who |-> who[r], status |-> status[r]]

Audit(r) ==
    /\ stage[r] = "audit"
    /\ audit' = [audit EXCEPT ![AppOf(req[r])] = Append(@, Entry(r))]
    /\ Note(r, "audit") /\ Go(r, After("audit"))
    /\ UNCHANGED <<req, status, who, effects, recent, lock, copied, faults, crashes>>

\* The disk is full: the open or the write raises after the handler is done.
AuditFails(r) ==
    /\ stage[r] = "audit" /\ faults < MaxFaults
    /\ faults' = faults + 1
    /\ Raise(r)
    /\ UNCHANGED <<req, who, effects, traceVars, lock, copied, crashes>>

\* Slip: record_operation takes no lock.
MayRecordUnlocked == TRUE
MayRecord == lock = Nobody

\* A deque of bounded length drops its oldest entry.
Pushed(q, x) == IF Len(q) < MaxOps THEN Append(q, x) ELSE Append(Tail(q), x)

Recorded(q) == q.route \in KeyRoute

\* RequestLogMiddleware: one line on stdout, and client operations into recent_ops.
Log(r) ==
    /\ stage[r] = "log"
    /\ IF Recorded(req[r]) THEN MayRecord /\ recent' = Pushed(recent, Entry(r))
                           ELSE UNCHANGED recent
    /\ Note(r, "log") /\ Go(r, After("log"))
    /\ UNCHANGED <<req, status, who, effects, audit, lock, copied, faults, crashes>>

Count(r) ==
    /\ stage[r] = "metrics"
    /\ Note(r, "metrics") /\ Go(r, After("metrics"))
    /\ UNCHANGED <<req, status, who, effects, audit, recent, lock, copied, faults, crashes>>

-----------------------------------------------------------------------------
\* The process stops and starts again; of the traces only the files are left.
Crash ==
    /\ crashes < MaxCrashes
    /\ crashes' = crashes + 1
    /\ stage' = [r \in Request |-> IF stage[r] \in {"absent", "answered"}
                                   THEN stage[r] ELSE "lost"]
    /\ recent' = <<>> /\ lock' = Nobody /\ copied' = <<>>
    /\ UNCHANGED <<req, status, who, effects, audit, noted, faults>>

Proceed(r) == \/ Authorize(r) \/ Unprocessable(r) \/ Handle(r) \/ HandlerFails(r)
              \/ StartCopy(r) \/ FinishCopy(r)
              \/ Audit(r) \/ AuditFails(r) \/ Log(r) \/ Count(r)

Finished == (\A r \in Request : stage[r] \in {"answered", "lost"}) /\ UNCHANGED vars

Next == (\E r \in Request : Arrive(r) \/ Proceed(r)) \/ Crash \/ Finished

\* Threads and the event loop run what can run.
Spec == Init /\ [][Next]_vars /\ \A r \in Request : WF_vars(Proceed(r))

-----------------------------------------------------------------------------
(* Properties *)

Stage == {"absent", "unchecked", "admitted", "copying", "audit", "log", "metrics",
          "answered", "lost"}
EntrySet == [req : Request, who : Client \cup {"anonymous", "invalid"}, status : Nat]

TypeOK ==
    /\ req \in [Request -> Asked] /\ stage \in [Request -> Stage]
    /\ status \in [Request -> Nat]
    /\ who \in [Request -> Client \cup {"anonymous", "invalid"}]
    /\ effects \subseteq Request
    /\ audit \in [{"public", "internal"} -> Seq(EntrySet)]
    /\ recent \in Seq(EntrySet) /\ Len(recent) <= MaxOps /\ copied \in Seq(EntrySet)
    /\ lock \in Request \cup {Nobody}
    /\ noted \in [{"audit", "log", "metrics"} -> SUBSET Request]
    /\ faults \in 0..MaxFaults /\ crashes \in 0..MaxCrashes

Entries(file) == {file[i] : i \in DOMAIN file}
Answered(r) == stage[r] = "answered"

\* An answered request is in all of audit file, request log and metrics or in
\* none, and none means that the client got a 500: nothing that can fail on the
\* way out leaves a request half noted (the order asked for in the docstring of
\* RequestLogMiddleware).
AllTracesOrNone ==
    \A r \in Request : Answered(r) =>
        LET traces == {m \in DOMAIN noted : r \in noted[m]}
        IN  traces = DOMAIN noted \/ (traces = {} /\ status[r] = 500)

\* The audit file of its own app, and no other, has one entry of each answered
\* request, with the status the client got and the client the token belongs to,
\* refused or not (get_auth_context: "even on the failure paths").
AuditTellsWho ==
    \A r \in Request : Answered(r) /\ status[r] # 500 =>
        \A app \in DOMAIN audit :
            LET mine == {i \in DOMAIN audit[app] : audit[app][i].req = r}
            IN  IF app # AppOf(req[r]) THEN mine = {}
                ELSE /\ Cardinality(mine) = 1
                     /\ \A i \in mine :
                           /\ audit[app][i].status = status[r]
                           /\ req[r].route \in KeyRoute /\ req[r].token \in Client
                              /\ status[r] # 422 => audit[app][i].who = req[r].token

\* Nothing a client sends changes data unless its token grants that verb in
\* that namespace, and the change is in the audit file under the client's name
\* by the time of an answer other than 500 (AuditTellsWho).
NoEffectWithoutGrant ==
    \A r \in effects : req[r].route \in KeyRoute =>
        <<req[r].token, req[r].space, VerbOf(req[r].route)>> \in Grants

\* What the dashboard shows is a client operation with the outcome that is on
\* record: in the audit file already, whatever order requests overtake each
\* other in (logging_middleware.py: "not /internal/keys/*").
RecentIsAudited ==
    \A x \in Entries(recent) : /\ req[x.req].route \in KeyRoute
                              /\ x \in Entries(audit["public"])

\* A dashboard poll never fails because operations are recorded meanwhile: "an
\* unguarded list(deque) here can raise" (recent_operations).  Once its copy has
\* begun it goes on to an answer of 200, unless the process stops.
PollsSucceed ==
    [][\A r \in Request :
          stage[r] = "copying" /\ stage'[r] # "copying" =>
              status'[r] = 200 \/ stage'[r] = "lost"]_vars

\* Every request that arrives is answered, unless the process stops.
RequestsEnd ==
    \A r \in Request : stage[r] # "absent" ~> stage[r] \in {"answered", "lost"}

=============================================================================
