------------------------- MODULE RequestPathProofs -------------------------
(***************************************************************************)
(* What RequestPath's middlewares note is right for any number of requests *)
(* at once, any token file and any number of failing audit writes and      *)
(* stops.                                                                  *)
(*                                                                         *)
(* The invariant says how far a request is known at each of its stages:    *)
(* which middlewares have noted it (TraceInv), that its one audit entry is *)
(* what it then still is (AuditInv, WhoInv), and that it was granted       *)
(* before its handler runs (GrantInv).  LockInv is the discipline of the   *)
(* recent_ops lock: who copies the deque holds it, and nobody records.     *)
(***************************************************************************)
EXTENDS RequestPath, FiniteSetTheorems, TLAPS

Before == {"absent", "unchecked", "admitted", "copying", "audit"}
Traces(r) == {m \in {"audit", "log", "metrics"} : r \in noted[m]}
Mine(app, r) == {i \in DOMAIN audit[app] : audit[app][i].req = r}
App == {"public", "internal"}

GrantInv == \A r \in Request :
    /\ stage[r] = "absent" => r \notin effects
    /\ stage[r] = "unchecked" => req[r].route \in KeyRoute /\ r \notin effects
    /\ stage[r] = "admitted" /\ req[r].route \in KeyRoute => Granted(req[r])

TraceInv == \A r \in Request :
    /\ stage[r] \in Before => Traces(r) = {}
    /\ stage[r] = "log" => Traces(r) = {"audit"}
    /\ stage[r] = "metrics" => Traces(r) = {"audit", "log"}
    /\ stage[r] = "answered" => \/ Traces(r) = {"audit", "log", "metrics"}
                                \/ Traces(r) = {} /\ status[r] = 500

StatusInv == \A r \in Request :
    /\ stage[r] \in Before \ {"audit"} => status[r] = 0
    /\ stage[r] \in {"audit", "log", "metrics"} => status[r] # 500

LockInv == \A r \in Request :
    stage[r] = "copying" => /\ lock = r /\ copied = recent
                            /\ req[r].route = "cluster-state"

WhoInv == \A r \in Request :
    /\ stage[r] \in {"admitted", "audit", "log", "metrics", "answered"}
    /\ req[r].route \in KeyRoute /\ req[r].token \in Client /\ status[r] \notin {422, 500}
    => who[r] = req[r].token

Filed(r) == \A app \in App :
    IF app = AppOf(req[r]) THEN \E k \in Mine(app, r) : Mine(app, r) = {k} /\ audit[app][k] = Entry(r)
                           ELSE Mine(app, r) = {}

AuditInv == \A r \in Request :
    /\ stage[r] \in Before => \A app \in App : Mine(app, r) = {}
    /\ \/ stage[r] \in {"log", "metrics"}
       \/ stage[r] = "answered" /\ status[r] # 500
       => Filed(r)

RecentInv == \A x \in Entries(recent) :
    /\ stage[x.req] # "absent" /\ req[x.req].route \in KeyRoute
    /\ x \in Entries(audit["public"])

PathInv == /\ TypeOK /\ GrantInv /\ NoEffectWithoutGrant /\ TraceInv /\ StatusInv /\ LockInv /\ WhoInv
           /\ AuditInv /\ RecentInv

-----------------------------------------------------------------------------
(* Lemmas about the stack and the deque *)

\* A response meets audit, then log, then metrics.
LEMMA StackOrder == /\ Added[1] = "audit" /\ After("audit") = "log"
                    /\ After("log") = "metrics" /\ After("metrics") = "answered"
<1>1. DOMAIN Added = 1..3 /\ Len(Added) = 3
  BY DEF Added
<1>2. Added[1] = "audit" /\ Added[2] = "log" /\ Added[3] = "metrics"
  BY DEF Added
<1>3. \A i \in 1..3 : i = 1 \/ i = 2 \/ i = 3
  OBVIOUS
<1>4. (CHOOSE i \in DOMAIN Added : Added[i] = "audit") = 1
  BY <1>1, <1>2, <1>3
<1>5. (CHOOSE i \in DOMAIN Added : Added[i] = "log") = 2
  BY <1>1, <1>2, <1>3
<1>6. (CHOOSE i \in DOMAIN Added : Added[i] = "metrics") = 3
  BY <1>1, <1>2, <1>3
<1> QED
  BY <1>1, <1>2, <1>4, <1>5, <1>6 DEF After

\* Recording keeps the deque within its bound and adds nothing but the entry.
LEMMA PushedFacts ==
    ASSUME NEW S, NEW q \in Seq(S), NEW x \in S, Len(q) <= MaxOps
    PROVE  /\ Pushed(q, x) \in Seq(S) /\ Len(Pushed(q, x)) <= MaxOps
           /\ Entries(Pushed(q, x)) \subseteq Entries(q) \cup {x}
<1>1. CASE Len(q) < MaxOps
  BY <1>1, PathBounds DEF Pushed, Entries
<1>2. CASE ~ (Len(q) < MaxOps)
  <2>1. q # <<>> /\ Len(q) = MaxOps /\ Len(q) \in Nat \ {0}
    BY <1>2, PathBounds
  <2>2. Tail(q) \in Seq(S) /\ Len(Tail(q)) = Len(q) - 1
    BY <2>1
  <2>3. \A i \in 1..Len(Tail(q)) : Tail(q)[i] = q[i + 1] /\ i + 1 \in 1..Len(q)
    BY <2>1, <2>2
  <2>4. Pushed(q, x) = Append(Tail(q), x)
    BY <1>2 DEF Pushed
  <2>5. \A i \in 1..Len(q) : Pushed(q, x)[i] = IF i = Len(q) THEN x ELSE Tail(q)[i]
    BY <2>1, <2>2, <2>4
  <2>6. Pushed(q, x) \in Seq(S) /\ Len(Pushed(q, x)) = Len(q)
    BY <2>1, <2>2, <2>4
  <2>7. DOMAIN Pushed(q, x) = 1..Len(q) /\ DOMAIN q = 1..Len(q)
    BY <2>6
  <2>8. ASSUME NEW i \in 1..Len(q) PROVE Pushed(q, x)[i] \in Entries(q) \cup {x}
    <3>1. CASE i = Len(q)
      BY <3>1, <2>5
    <3>2. CASE i # Len(q)
      <4>1. i \in 1..Len(Tail(q))
        BY <3>2, <2>1, <2>2
      <4> QED
        BY <4>1, <3>2, <2>3, <2>5, <2>7 DEF Entries
    <3> QED
      BY <3>1, <3>2
  <2> QED
    BY <2>1, <2>6, <2>7, <2>8 DEF Entries
<1> QED
  BY <1>1, <1>2

-----------------------------------------------------------------------------
(* Types *)

LEMMA PathTypeInit == Init => TypeOK
<1> SUFFICES ASSUME Init PROVE TypeOK
  OBVIOUS
<1>1. [route |-> "internal"] \in Asked
  BY DEF Asked
<1>2. <<>> \in Seq(EntrySet) /\ Len(<<>>) = 0
  OBVIOUS
<1> QED
  BY <1>1, <1>2, PathBounds DEF Init, TypeOK, Stage

LEMMA EntryType == ASSUME TypeOK, NEW r \in Request PROVE Entry(r) \in EntrySet
BY DEF TypeOK, Entry, EntrySet

LEMMA TokenType ==
    ASSUME TypeOK, NEW r \in Request, req[r].route \in KeyRoute
    PROVE  req[r].token \in Client \cup {"none", "unknown"} /\ req[r].space \in Namespace
BY DEF TypeOK, Asked, KeyRoute

LEMMA PlaceTypes ==
    ASSUME TypeOK, NEW r \in Request
    PROVE  /\ \A p \in Stage : Go(r, p) => stage' \in [Request -> Stage]
           /\ \A code \in Nat : Respond(r, code) => /\ stage' \in [Request -> Stage]
                                                    /\ status' \in [Request -> Nat]
           /\ Raise(r) => stage' \in [Request -> Stage] /\ status' \in [Request -> Nat]
<1>1. stage \in [Request -> Stage] /\ status \in [Request -> Nat]
  BY DEF TypeOK
<1>2. ASSUME NEW p \in Stage, Go(r, p) PROVE stage' \in [Request -> Stage]
  BY <1>1, <1>2 DEF Go
<1>3. ASSUME NEW code \in Nat, Respond(r, code)
      PROVE  stage' \in [Request -> Stage] /\ status' \in [Request -> Nat]
  BY <1>1, <1>2, <1>3, StackOrder DEF Respond, Stage
<1>4. ASSUME Raise(r) PROVE stage' \in [Request -> Stage] /\ status' \in [Request -> Nat]
  BY <1>1, <1>2, <1>4 DEF Raise, Stage
<1> QED
  BY <1>2, <1>3, <1>4

LEMMA PathTypeNext ==
    ASSUME TypeOK, [Next]_vars, \A r \in Request : stage[r] = "unchecked" => req[r].route \in KeyRoute
    PROVE  TypeOK'
<1>p. {"unchecked", "admitted", "copying", "log", "metrics", "answered"} \subseteq Stage
  BY DEF Stage
<1>1. ASSUME NEW r \in Request, Arrive(r) PROVE TypeOK'
  <2>1. stage' \in [Request -> Stage] /\ req' \in [Request -> Asked]
    BY <1>1, <1>p, PlaceTypes DEF Arrive, TypeOK
  <2> QED
    BY <1>1, <2>1 DEF Arrive, TypeOK, traceVars
<1>2. ASSUME NEW r \in Request, Authorize(r) PROVE TypeOK'
  <2>1. Stashed(req[r]) \in Client \cup {"anonymous", "invalid"}
    BY <1>2, TokenType DEF Authorize, Stashed
  <2>2. who' \in [Request -> Client \cup {"anonymous", "invalid"}]
    BY <1>2, <2>1 DEF Authorize, TypeOK
  <2>3. stage' \in [Request -> Stage] /\ status' \in [Request -> Nat]
    BY <1>2, <1>p, PlaceTypes DEF Authorize, TypeOK
  <2> QED
    BY <1>2, <2>2, <2>3 DEF Authorize, TypeOK, traceVars
<1>3. ASSUME NEW r \in Request, Unprocessable(r) PROVE TypeOK'
  BY <1>3, <1>p, PlaceTypes, PathBounds DEF Unprocessable, TypeOK, traceVars
<1>4. ASSUME NEW r \in Request, Handle(r) PROVE TypeOK'
  <2>1. stage' \in [Request -> Stage] /\ status' \in [Request -> Nat]
    BY <1>4, PlaceTypes DEF Handle, Codes
  <2>2. effects' \subseteq Request
    BY <1>4 DEF Handle, MayTouch, TypeOK
  <2> QED
    BY <1>4, <2>1, <2>2 DEF Handle, TypeOK, traceVars
<1>5. ASSUME NEW r \in Request, HandlerFails(r) PROVE TypeOK'
  BY <1>5, <1>p, PlaceTypes, PathBounds DEF HandlerFails, MayTouch, TypeOK, traceVars
<1>6. ASSUME NEW r \in Request, StartCopy(r) PROVE TypeOK'
  BY <1>6, <1>p, PlaceTypes, PathBounds DEF StartCopy, TypeOK, traceVars
<1>7. ASSUME NEW r \in Request, FinishCopy(r) PROVE TypeOK'
  <2>1. stage' \in [Request -> Stage] /\ status' \in [Request -> Nat]
    BY <1>7, PlaceTypes DEF FinishCopy
  <2> QED
    BY <1>7, <2>1 DEF FinishCopy, ReleasedLock, TypeOK, traceVars
<1>8. ASSUME NEW r \in Request, Audit(r) PROVE TypeOK'
  <2>1. audit' \in [App -> Seq(EntrySet)]
    BY <1>8, EntryType DEF Audit, TypeOK, AppOf, App
  <2>2. noted' \in [{"audit", "log", "metrics"} -> SUBSET Request]
    BY <1>8 DEF Audit, Note, TypeOK
  <2>3. stage' \in [Request -> Stage]
    BY <1>8, <1>p, PlaceTypes, StackOrder DEF Audit
  <2> QED
    BY <1>8, <2>1, <2>2, <2>3 DEF Audit, TypeOK, App
<1>9. ASSUME NEW r \in Request, AuditFails(r) PROVE TypeOK'
  BY <1>9, <1>p, PlaceTypes, PathBounds DEF AuditFails, TypeOK, traceVars
<1>10. ASSUME NEW r \in Request, Log(r) PROVE TypeOK'
  <2>1. recent' \in Seq(EntrySet) /\ Len(recent') <= MaxOps
    BY <1>10, EntryType, PushedFacts DEF Log, TypeOK
  <2>2. noted' \in [{"audit", "log", "metrics"} -> SUBSET Request]
    BY <1>10 DEF Log, Note, TypeOK
  <2>3. stage' \in [Request -> Stage]
    BY <1>10, <1>p, PlaceTypes, StackOrder DEF Log
  <2> QED
    BY <1>10, <2>1, <2>2, <2>3 DEF Log, TypeOK
<1>11. ASSUME NEW r \in Request, Count(r) PROVE TypeOK'
  <2>1. noted' \in [{"audit", "log", "metrics"} -> SUBSET Request]
    BY <1>11 DEF Count, Note, TypeOK
  <2>2. stage' \in [Request -> Stage]
    BY <1>11, <1>p, PlaceTypes, StackOrder DEF Count
  <2> QED
    BY <1>11, <2>1, <2>2 DEF Count, TypeOK
<1>12. CASE Crash
  <2>1. stage' \in [Request -> Stage]
    BY <1>12 DEF Crash, TypeOK, Stage
  <2> QED
    BY <1>12, <2>1, PathBounds DEF Crash, TypeOK
<1>13. CASE Finished \/ UNCHANGED vars
  BY <1>13 DEF Finished, vars, traceVars, TypeOK
<1> QED
  BY <1>1, <1>2, <1>3, <1>4, <1>5, <1>6, <1>7, <1>8, <1>9, <1>10, <1>11, <1>12, <1>13
  DEF Next, Proceed

-----------------------------------------------------------------------------
(* What is known of a request at each stage *)

LEMMA GrantNext == ASSUME TypeOK, GrantInv, [Next]_vars PROVE GrantInv'
<1>t. /\ stage \in [Request -> Stage] /\ status \in [Request -> Nat] /\ req \in [Request -> Asked]
      /\ who \in [Request -> Client \cup {"anonymous", "invalid"}] /\ effects \subseteq Request
  BY DEF TypeOK
<1>1. ASSUME NEW r \in Request, Arrive(r) PROVE GrantInv'
  BY <1>1, <1>t DEF Arrive, GrantInv, Granted, Go
<1>2. ASSUME NEW r \in Request, Authorize(r) PROVE GrantInv'
  BY <1>2, <1>t, StackOrder DEF Authorize, GrantInv, Granted, Go, Respond
<1>3. ASSUME NEW r \in Request, Unprocessable(r) PROVE GrantInv'
  BY <1>3, <1>t, StackOrder DEF Unprocessable, GrantInv, Granted, Go, Respond
<1>4. ASSUME NEW r \in Request, Handle(r) PROVE GrantInv'
  BY <1>4, <1>t, StackOrder DEF Handle, MayTouch, GrantInv, Granted, Go, Respond
<1>5. ASSUME NEW r \in Request, HandlerFails(r) PROVE GrantInv'
  BY <1>5, <1>t DEF HandlerFails, MayTouch, GrantInv, Granted, Go, Raise
<1>6. ASSUME NEW r \in Request, StartCopy(r) PROVE GrantInv'
  BY <1>6, <1>t DEF StartCopy, GrantInv, Granted, Go
<1>7. ASSUME NEW r \in Request, FinishCopy(r) PROVE GrantInv'
  BY <1>7, <1>t, StackOrder DEF FinishCopy, GrantInv, Granted, Go, Respond, Raise
<1>8. ASSUME NEW r \in Request, Audit(r) PROVE GrantInv'
  BY <1>8, <1>t, StackOrder DEF Audit, GrantInv, Granted, Go
<1>9. ASSUME NEW r \in Request, AuditFails(r) PROVE GrantInv'
  BY <1>9, <1>t DEF AuditFails, GrantInv, Granted, Go, Raise
<1>10. ASSUME NEW r \in Request, Log(r) PROVE GrantInv'
  BY <1>10, <1>t, StackOrder DEF Log, GrantInv, Granted, Go
<1>11. ASSUME NEW r \in Request, Count(r) PROVE GrantInv'
  BY <1>11, <1>t, StackOrder DEF Count, GrantInv, Granted, Go
<1>12. CASE Crash
  BY <1>12, <1>t DEF Crash, GrantInv, Granted
<1>13. CASE Finished \/ UNCHANGED vars
  BY <1>13, <1>t DEF vars, Finished, traceVars, GrantInv, Granted
<1> QED
  BY <1>1, <1>2, <1>3, <1>4, <1>5, <1>6, <1>7, <1>8, <1>9, <1>10, <1>11, <1>12, <1>13
  DEF Next, Proceed

LEMMA EffectNext ==
    ASSUME TypeOK, GrantInv, NoEffectWithoutGrant, [Next]_vars PROVE NoEffectWithoutGrant'
<1>t. /\ stage \in [Request -> Stage] /\ status \in [Request -> Nat] /\ req \in [Request -> Asked]
      /\ who \in [Request -> Client \cup {"anonymous", "invalid"}] /\ effects \subseteq Request
  BY DEF TypeOK
<1>1. ASSUME NEW r \in Request, Arrive(r) PROVE NoEffectWithoutGrant'
  BY <1>1, <1>t DEF Arrive, GrantInv, NoEffectWithoutGrant, Granted
<1>2. ASSUME NEW r \in Request, Authorize(r) PROVE NoEffectWithoutGrant'
  BY <1>2, <1>t DEF Authorize, GrantInv, NoEffectWithoutGrant, Granted
<1>3. ASSUME NEW r \in Request, Unprocessable(r) PROVE NoEffectWithoutGrant'
  BY <1>3, <1>t DEF Unprocessable, GrantInv, NoEffectWithoutGrant, Granted
<1>4. ASSUME NEW r \in Request, Handle(r) PROVE NoEffectWithoutGrant'
  BY <1>4, <1>t DEF Handle, MayTouch, GrantInv, NoEffectWithoutGrant, Granted
<1>5. ASSUME NEW r \in Request, HandlerFails(r) PROVE NoEffectWithoutGrant'
  BY <1>5, <1>t DEF HandlerFails, MayTouch, GrantInv, NoEffectWithoutGrant, Granted
<1>6. ASSUME NEW r \in Request, StartCopy(r) PROVE NoEffectWithoutGrant'
  BY <1>6, <1>t DEF StartCopy, GrantInv, NoEffectWithoutGrant, Granted
<1>7. ASSUME NEW r \in Request, FinishCopy(r) PROVE NoEffectWithoutGrant'
  BY <1>7, <1>t DEF FinishCopy, GrantInv, NoEffectWithoutGrant, Granted
<1>8. ASSUME NEW r \in Request, Audit(r) PROVE NoEffectWithoutGrant'
  BY <1>8, <1>t DEF Audit, GrantInv, NoEffectWithoutGrant, Granted
<1>9. ASSUME NEW r \in Request, AuditFails(r) PROVE NoEffectWithoutGrant'
  BY <1>9, <1>t DEF AuditFails, GrantInv, NoEffectWithoutGrant, Granted
<1>10. ASSUME NEW r \in Request, Log(r) PROVE NoEffectWithoutGrant'
  BY <1>10, <1>t DEF Log, GrantInv, NoEffectWithoutGrant, Granted
<1>11. ASSUME NEW r \in Request, Count(r) PROVE NoEffectWithoutGrant'
  BY <1>11, <1>t DEF Count, GrantInv, NoEffectWithoutGrant, Granted
<1>12. CASE Crash
  BY <1>12, <1>t DEF Crash, GrantInv, NoEffectWithoutGrant, Granted
<1>13. CASE Finished \/ UNCHANGED vars
  BY <1>13, <1>t DEF vars, Finished, traceVars, GrantInv, NoEffectWithoutGrant, Granted
<1> QED
  BY <1>1, <1>2, <1>3, <1>4, <1>5, <1>6, <1>7, <1>8, <1>9, <1>10, <1>11, <1>12, <1>13
  DEF Next, Proceed

LEMMA StatusNext == ASSUME TypeOK, StatusInv, [Next]_vars PROVE StatusInv'
<1>t. /\ stage \in [Request -> Stage] /\ status \in [Request -> Nat] /\ req \in [Request -> Asked]
      /\ who \in [Request -> Client \cup {"anonymous", "invalid"}] /\ effects \subseteq Request
  BY DEF TypeOK
<1>1. ASSUME NEW r \in Request, Arrive(r) PROVE StatusInv'
  BY <1>1, <1>t DEF Arrive, StatusInv, Before, Go
<1>2. ASSUME NEW r \in Request, Authorize(r) PROVE StatusInv'
  BY <1>2, <1>t, StackOrder DEF Authorize, StatusInv, Before, Go, Respond
<1>3. ASSUME NEW r \in Request, Unprocessable(r) PROVE StatusInv'
  BY <1>3, <1>t, StackOrder DEF Unprocessable, StatusInv, Before, Go, Respond
<1>4. ASSUME NEW r \in Request, Handle(r) PROVE StatusInv'
  BY <1>4, <1>t, StackOrder DEF Handle, StatusInv, Before, Codes, Go, Respond
<1>5. ASSUME NEW r \in Request, HandlerFails(r) PROVE StatusInv'
  BY <1>5, <1>t DEF HandlerFails, StatusInv, Before, Go, Raise
<1>6. ASSUME NEW r \in Request, StartCopy(r) PROVE StatusInv'
  BY <1>6, <1>t DEF StartCopy, StatusInv, Before, Go
<1>7. ASSUME NEW r \in Request, FinishCopy(r) PROVE StatusInv'
  BY <1>7, <1>t, StackOrder DEF FinishCopy, StatusInv, Before, Go, Respond, Raise
<1>8. ASSUME NEW r \in Request, Audit(r) PROVE StatusInv'
  BY <1>8, <1>t, StackOrder DEF Audit, StatusInv, Before, Go
<1>9. ASSUME NEW r \in Request, AuditFails(r) PROVE StatusInv'
  BY <1>9, <1>t DEF AuditFails, StatusInv, Before, Go, Raise
<1>10. ASSUME NEW r \in Request, Log(r) PROVE StatusInv'
  BY <1>10, <1>t, StackOrder DEF Log, StatusInv, Before, Go
<1>11. ASSUME NEW r \in Request, Count(r) PROVE StatusInv'
  BY <1>11, <1>t, StackOrder DEF Count, StatusInv, Before, Go
<1>12. CASE Crash
  BY <1>12, <1>t DEF Crash, StatusInv, Before
<1>13. CASE Finished \/ UNCHANGED vars
  BY <1>13, <1>t DEF vars, Finished, traceVars, StatusInv, Before
<1> QED
  BY <1>1, <1>2, <1>3, <1>4, <1>5, <1>6, <1>7, <1>8, <1>9, <1>10, <1>11, <1>12, <1>13
  DEF Next, Proceed

LEMMA LockNext == ASSUME TypeOK, LockInv, [Next]_vars PROVE LockInv'
<1>t. /\ stage \in [Request -> Stage] /\ status \in [Request -> Nat] /\ req \in [Request -> Asked]
      /\ who \in [Request -> Client \cup {"anonymous", "invalid"}] /\ effects \subseteq Request
  BY DEF TypeOK
<1>1. ASSUME NEW r \in Request, Arrive(r) PROVE LockInv'
  BY <1>1, <1>t DEF Arrive, LockInv, Go, traceVars
<1>2. ASSUME NEW r \in Request, Authorize(r) PROVE LockInv'
  BY <1>2, <1>t, StackOrder DEF Authorize, LockInv, Go, Respond, traceVars
<1>3. ASSUME NEW r \in Request, Unprocessable(r) PROVE LockInv'
  BY <1>3, <1>t, StackOrder DEF Unprocessable, LockInv, Go, Respond, traceVars
<1>4. ASSUME NEW r \in Request, Handle(r) PROVE LockInv'
  BY <1>4, <1>t, StackOrder DEF Handle, LockInv, Go, Respond, traceVars
<1>5. ASSUME NEW r \in Request, HandlerFails(r) PROVE LockInv'
  BY <1>5, <1>t DEF HandlerFails, LockInv, Go, Raise, traceVars
<1>6. ASSUME NEW r \in Request, StartCopy(r) PROVE LockInv'
  BY <1>6, <1>t, NobodyIsNoRequest DEF StartCopy, LockInv, Go, traceVars
<1>7. ASSUME NEW r \in Request, FinishCopy(r) PROVE LockInv'
  BY <1>7, <1>t, StackOrder DEF FinishCopy, LockInv, ReleasedLock, Go, Respond, Raise, traceVars
<1>8. ASSUME NEW r \in Request, Audit(r) PROVE LockInv'
  BY <1>8, <1>t, StackOrder DEF Audit, LockInv, Go
<1>9. ASSUME NEW r \in Request, AuditFails(r) PROVE LockInv'
  BY <1>9, <1>t DEF AuditFails, LockInv, Go, Raise, traceVars
<1>10. ASSUME NEW r \in Request, Log(r) PROVE LockInv'
  BY <1>10, <1>t, StackOrder, NobodyIsNoRequest DEF Log, LockInv, MayRecord, Go
<1>11. ASSUME NEW r \in Request, Count(r) PROVE LockInv'
  BY <1>11, <1>t, StackOrder DEF Count, LockInv, Go
<1>12. CASE Crash
  BY <1>12, <1>t DEF Crash, LockInv
<1>13. CASE Finished \/ UNCHANGED vars
  BY <1>13, <1>t DEF vars, Finished, traceVars, LockInv
<1> QED
  BY <1>1, <1>2, <1>3, <1>4, <1>5, <1>6, <1>7, <1>8, <1>9, <1>10, <1>11, <1>12, <1>13
  DEF Next, Proceed

LEMMA WhoNext == ASSUME TypeOK, GrantInv, StatusInv, LockInv, WhoInv, [Next]_vars PROVE WhoInv'
<1>t. /\ stage \in [Request -> Stage] /\ status \in [Request -> Nat] /\ req \in [Request -> Asked]
      /\ who \in [Request -> Client \cup {"anonymous", "invalid"}] /\ effects \subseteq Request
  BY DEF TypeOK
<1>1. ASSUME NEW r \in Request, Arrive(r) PROVE WhoInv'
  BY <1>1, <1>t DEF Arrive, WhoInv, GrantInv, StatusInv, Before, Go
<1>2. ASSUME NEW r \in Request, Authorize(r) PROVE WhoInv'
  <2>1. req[r].route \in KeyRoute /\ req' = req
    BY <1>2 DEF Authorize, GrantInv
  <2>2. req[r].token \in Client => who'[r] = req[r].token
    BY <1>2, <1>t, ClientsAreNamed DEF Authorize, Stashed
  <2>3. \A q \in Request \ {r} : stage'[q] = stage[q] /\ status'[q] = status[q] /\ who'[q] = who[q]
    BY <1>2, <1>t DEF Authorize, Go, Respond
  <2> QED
    BY <2>1, <2>2, <2>3 DEF WhoInv
<1>3. ASSUME NEW r \in Request, Unprocessable(r) PROVE WhoInv'
  BY <1>3, <1>t, StackOrder DEF Unprocessable, WhoInv, GrantInv, StatusInv, Before, Go, Respond
<1>4. ASSUME NEW r \in Request, Handle(r) PROVE WhoInv'
  BY <1>4, <1>t, StackOrder DEF Handle, WhoInv, GrantInv, StatusInv, Before, Codes, Go, Respond
<1>5. ASSUME NEW r \in Request, HandlerFails(r) PROVE WhoInv'
  BY <1>5, <1>t DEF HandlerFails, WhoInv, GrantInv, StatusInv, Before, Go, Raise
<1>6. ASSUME NEW r \in Request, StartCopy(r) PROVE WhoInv'
  BY <1>6, <1>t DEF StartCopy, WhoInv, GrantInv, StatusInv, Before, Go
<1>7. ASSUME NEW r \in Request, FinishCopy(r) PROVE WhoInv'
  <2>1. req[r].route \notin KeyRoute /\ UNCHANGED <<req, who>>
    BY <1>7 DEF FinishCopy, LockInv, KeyRoute
  <2>2. \A q \in Request \ {r} : stage'[q] = stage[q] /\ status'[q] = status[q]
    BY <1>7, <1>t DEF FinishCopy, Go, Respond, Raise
  <2> QED
    BY <2>1, <2>2 DEF WhoInv
<1>8. ASSUME NEW r \in Request, Audit(r) PROVE WhoInv'
  BY <1>8, <1>t, StackOrder DEF Audit, WhoInv, GrantInv, StatusInv, Before, Go
<1>9. ASSUME NEW r \in Request, AuditFails(r) PROVE WhoInv'
  BY <1>9, <1>t DEF AuditFails, WhoInv, GrantInv, StatusInv, Before, Go, Raise
<1>10. ASSUME NEW r \in Request, Log(r) PROVE WhoInv'
  BY <1>10, <1>t, StackOrder DEF Log, WhoInv, GrantInv, StatusInv, Before, Go
<1>11. ASSUME NEW r \in Request, Count(r) PROVE WhoInv'
  BY <1>11, <1>t, StackOrder DEF Count, WhoInv, GrantInv, StatusInv, Before, Go
<1>12. CASE Crash
  BY <1>12, <1>t DEF Crash, WhoInv, GrantInv, StatusInv, Before
<1>13. CASE Finished \/ UNCHANGED vars
  BY <1>13, <1>t DEF vars, Finished, traceVars, WhoInv, GrantInv, StatusInv, Before
<1> QED
  BY <1>1, <1>2, <1>3, <1>4, <1>5, <1>6, <1>7, <1>8, <1>9, <1>10, <1>11, <1>12, <1>13
  DEF Next, Proceed

\* A copy under way ends in an answer or with the process.
LEMMA CopyEnds ==
    ASSUME TypeOK, LockInv, [Next]_vars,
           NEW q \in Request, stage[q] = "copying", stage'[q] # "copying"
    PROVE  status'[q] = 200 \/ stage'[q] = "lost"
<1>t. stage \in [Request -> Stage] /\ status \in [Request -> Nat]
  BY DEF TypeOK
<1>1. ASSUME NEW r \in Request, FinishCopy(r) PROVE r = q /\ status'[q] = 200
  <2>1. r = q
    BY <1>1, <1>t DEF FinishCopy, Go, Respond, Raise
  <2>2. Respond(q, 200)
    BY <1>1, <2>1 DEF FinishCopy, LockInv
  <2> QED
    BY <2>1, <2>2, <1>t DEF Respond
<1>2. ASSUME NEW r \in Request, Arrive(r) PROVE FALSE
  BY <1>2, <1>t DEF Arrive, Go
<1>3. ASSUME NEW r \in Request,
             Authorize(r) \/ Unprocessable(r) \/ Handle(r) \/ HandlerFails(r) \/ StartCopy(r)
      PROVE  FALSE
  BY <1>3, <1>t DEF Authorize, Unprocessable, Handle, HandlerFails, StartCopy, Go, Respond, Raise
<1>4. ASSUME NEW r \in Request, Audit(r) \/ AuditFails(r) \/ Log(r) \/ Count(r) PROVE FALSE
  BY <1>4, <1>t DEF Audit, AuditFails, Log, Count, Go, Raise
<1>5. CASE Crash
  BY <1>5, <1>t DEF Crash
<1>6. CASE Finished \/ UNCHANGED vars
  BY <1>6 DEF Finished, vars
<1> QED
  BY <1>1, <1>2, <1>3, <1>4, <1>5, <1>6 DEF Next, Proceed

-----------------------------------------------------------------------------
(* Traces *)

LEMMA TraceNext == ASSUME TypeOK, TraceInv, [Next]_vars PROVE TraceInv'
<1>t. /\ stage \in [Request -> Stage] /\ status \in [Request -> Nat] /\ req \in [Request -> Asked]
      /\ who \in [Request -> Client \cup {"anonymous", "invalid"}] /\ effects \subseteq Request
  BY DEF TypeOK
<1>n. noted \in [{"audit", "log", "metrics"} -> SUBSET Request]
  BY DEF TypeOK
<1>k. ASSUME UNCHANGED noted PROVE \A r \in Request : Traces(r)' = Traces(r)
  BY <1>k DEF Traces
<1>m. ASSUME NEW r \in Request, NEW m \in {"audit", "log", "metrics"}, Note(r, m)
      PROVE  /\ Traces(r)' = Traces(r) \cup {m}
             /\ \A q \in Request \ {r} : Traces(q)' = Traces(q)
  BY <1>m, <1>n DEF Note, Traces
<1>1. ASSUME NEW r \in Request, Arrive(r) PROVE TraceInv'
  BY <1>1, <1>t, <1>k DEF Arrive, TraceInv, Before, Go, traceVars
<1>2. ASSUME NEW r \in Request, Authorize(r) PROVE TraceInv'
  BY <1>2, <1>t, <1>k, StackOrder DEF Authorize, TraceInv, Before, Go, Respond, traceVars
<1>3. ASSUME NEW r \in Request, Unprocessable(r) PROVE TraceInv'
  BY <1>3, <1>t, <1>k, StackOrder DEF Unprocessable, TraceInv, Before, Go, Respond, traceVars
<1>4. ASSUME NEW r \in Request, Handle(r) PROVE TraceInv'
  BY <1>4, <1>t, <1>k, StackOrder DEF Handle, TraceInv, Before, Go, Respond, traceVars
<1>5. ASSUME NEW r \in Request, HandlerFails(r) PROVE TraceInv'
  BY <1>5, <1>t, <1>k DEF HandlerFails, TraceInv, Before, Go, Raise, traceVars
<1>6. ASSUME NEW r \in Request, StartCopy(r) PROVE TraceInv'
  BY <1>6, <1>t, <1>k DEF StartCopy, TraceInv, Before, Go, traceVars
<1>7. ASSUME NEW r \in Request, FinishCopy(r) PROVE TraceInv'
  BY <1>7, <1>t, <1>k, StackOrder
  DEF FinishCopy, TraceInv, Before, Go, Respond, Raise, traceVars
<1>8. ASSUME NEW r \in Request, Audit(r) PROVE TraceInv'
  <2>1. Traces(r)' = Traces(r) \cup {"audit"} /\ \A q \in Request \ {r} : Traces(q)' = Traces(q)
    BY <1>8, <1>m DEF Audit
  <2>2. status' = status /\ stage'[r] = "log" /\ \A q \in Request \ {r} : stage'[q] = stage[q]
    BY <1>8, <1>t, StackOrder DEF Audit, Go
  <2> QED
    BY <2>1, <2>2, <1>8 DEF Audit, TraceInv, Before
<1>9. ASSUME NEW r \in Request, AuditFails(r) PROVE TraceInv'
  BY <1>9, <1>t, <1>k DEF AuditFails, TraceInv, Before, Go, Raise, traceVars
<1>10. ASSUME NEW r \in Request, Log(r) PROVE TraceInv'
  <2>1. Traces(r)' = Traces(r) \cup {"log"} /\ \A q \in Request \ {r} : Traces(q)' = Traces(q)
    BY <1>10, <1>m DEF Log
  <2>2. status' = status /\ stage'[r] = "metrics" /\ \A q \in Request \ {r} : stage'[q] = stage[q]
    BY <1>10, <1>t, StackOrder DEF Log, Go
  <2> QED
    BY <2>1, <2>2, <1>10 DEF Log, TraceInv, Before
<1>11. ASSUME NEW r \in Request, Count(r) PROVE TraceInv'
  <2>1. Traces(r)' = Traces(r) \cup {"metrics"} /\ \A q \in Request \ {r} : Traces(q)' = Traces(q)
    BY <1>11, <1>m DEF Count
  <2>2. status' = status /\ stage'[r] = "answered" /\ \A q \in Request \ {r} : stage'[q] = stage[q]
    BY <1>11, <1>t, StackOrder DEF Count, Go
  <2> QED
    BY <2>1, <2>2, <1>11 DEF Count, TraceInv, Before
<1>12. CASE Crash
  BY <1>12, <1>t, <1>k DEF Crash, TraceInv, Before
<1>13. CASE Finished \/ UNCHANGED vars
  BY <1>13, <1>t, <1>k DEF vars, Finished, traceVars, TraceInv, Before
<1> QED
  BY <1>1, <1>2, <1>3, <1>4, <1>5, <1>6, <1>7, <1>8, <1>9, <1>10, <1>11, <1>12, <1>13
  DEF Next, Proceed

-----------------------------------------------------------------------------
(* The audit files and the deque *)

\* What an append does to the entries of one request.
LEMMA FiledByAppend ==
    ASSUME TypeOK, NEW r \in Request, Audit(r)
    PROVE  /\ \A q \in Request \ {r}, app \in App : Mine(app, q)' = Mine(app, q)
           /\ \A app \in App \ {AppOf(req[r])} : Mine(app, r)' = Mine(app, r)
           /\ Mine(AppOf(req[r]), r)' = Mine(AppOf(req[r]), r) \cup {Len(audit[AppOf(req[r])]) + 1}
           /\ \A app \in App : /\ DOMAIN audit[app] \subseteq DOMAIN audit'[app]
                               /\ \A i \in DOMAIN audit[app] : audit'[app][i] = audit[app][i]
           /\ audit'[AppOf(req[r])][Len(audit[AppOf(req[r])]) + 1] = Entry(r)
           /\ Len(audit[AppOf(req[r])]) + 1 \in DOMAIN audit'[AppOf(req[r])]
<1> DEFINE own == AppOf(req[r])
           file == audit[own]
<1>1. own \in App /\ audit \in [App -> Seq(EntrySet)] /\ Entry(r) \in EntrySet
  BY EntryType DEF TypeOK, AppOf, App
<1>2. file \in Seq(EntrySet)
  BY <1>1
<1>3. /\ audit'[own] = Append(file, Entry(r))
      /\ \A app \in App \ {own} : audit'[app] = audit[app]
  BY <1>1 DEF Audit
<1>4. Entry(r).req = r /\ own' = own
  BY DEF Entry, Audit
<1> HIDE DEF own, file
<1>5. /\ DOMAIN audit'[own] = 1 .. Len(file) + 1 /\ DOMAIN file = 1 .. Len(file)
      /\ \A i \in 1 .. Len(file) : audit'[own][i] = file[i]
      /\ audit'[own][Len(file) + 1] = Entry(r) /\ Len(file) \in Nat
  BY <1>1, <1>2, <1>3
<1>6. Mine(own, r)' = Mine(own, r) \cup {Len(file) + 1}
  BY <1>4, <1>5 DEF Mine, file
<1>7. \A q \in Request \ {r} : Mine(own, q)' = Mine(own, q)
  BY <1>4, <1>5 DEF Mine, file
<1>8. \A q \in Request, app \in App \ {own} : Mine(app, q)' = Mine(app, q)
  BY <1>3 DEF Mine
<1> QED
  BY <1>3, <1>4, <1>5, <1>6, <1>7, <1>8 DEF own, file

LEMMA AuditNext == ASSUME TypeOK, AuditInv, [Next]_vars PROVE AuditInv'
<1>t. /\ stage \in [Request -> Stage] /\ status \in [Request -> Nat] /\ req \in [Request -> Asked]
      /\ who \in [Request -> Client \cup {"anonymous", "invalid"}] /\ effects \subseteq Request
  BY DEF TypeOK
<1>k. ASSUME UNCHANGED audit PROVE \A q \in Request, app \in App : Mine(app, q)' = Mine(app, q)
  BY <1>k DEF Mine
<1>s. ASSUME NEW q \in Request, Filed(q), UNCHANGED audit,
             req'[q] = req[q], who'[q] = who[q], status'[q] = status[q]
      PROVE  Filed(q)'
  BY <1>s, <1>k DEF Filed, Entry
<1>1. ASSUME NEW r \in Request, Arrive(r) PROVE AuditInv'
  BY <1>1, <1>t, <1>k, <1>s DEF Arrive, AuditInv, Before, Go, traceVars
<1>2. ASSUME NEW r \in Request, Authorize(r) PROVE AuditInv'
  BY <1>2, <1>t, <1>k, <1>s, StackOrder DEF Authorize, AuditInv, Before, Go, Respond, traceVars
<1>3. ASSUME NEW r \in Request, Unprocessable(r) PROVE AuditInv'
  BY <1>3, <1>t, <1>k, <1>s, StackOrder
  DEF Unprocessable, AuditInv, Before, Go, Respond, traceVars
<1>4. ASSUME NEW r \in Request, Handle(r) PROVE AuditInv'
  BY <1>4, <1>t, <1>k, <1>s, StackOrder DEF Handle, AuditInv, Before, Go, Respond, traceVars
<1>5. ASSUME NEW r \in Request, HandlerFails(r) PROVE AuditInv'
  BY <1>5, <1>t, <1>k, <1>s DEF HandlerFails, AuditInv, Before, Go, Raise, traceVars
<1>6. ASSUME NEW r \in Request, StartCopy(r) PROVE AuditInv'
  BY <1>6, <1>t, <1>k, <1>s DEF StartCopy, AuditInv, Before, Go, traceVars
<1>7. ASSUME NEW r \in Request, FinishCopy(r) PROVE AuditInv'
  BY <1>7, <1>t, <1>k, <1>s, StackOrder
  DEF FinishCopy, AuditInv, Before, Go, Respond, Raise, traceVars
<1>8. ASSUME NEW r \in Request, Audit(r) PROVE AuditInv'
  <2>1. /\ stage'[r] = "log" /\ \A q \in Request \ {r} : stage'[q] = stage[q]
        /\ stage[r] = "audit" /\ UNCHANGED <<req, status, who>>
    BY <1>8, <1>t, StackOrder DEF Audit, Go
  <2> DEFINE own == AppOf(req[r])
             last == Len(audit[own]) + 1
  <2>2. Mine(own, r)' = {last} /\ audit'[own][last] = Entry(r)'
        /\ \A app \in App \ {own} : Mine(app, r)' = {}
    <3>1. \A app \in App : Mine(app, r) = {}
      BY <2>1 DEF AuditInv, Before
    <3>2. own \in App /\ Entry(r)' = Entry(r)
      BY <2>1 DEF AppOf, App, Entry
    <3> QED
      BY <3>1, <3>2, <1>8, FiledByAppend
  <2>3. Filed(r)'
    BY <2>1, <2>2 DEF Filed
  <2>4. ASSUME NEW q \in Request \ {r}, Filed(q) PROVE Filed(q)'
    <3>1. \A app \in App : Mine(app, q)' = Mine(app, q)
      BY <1>8, FiledByAppend
    <3>2. \A app \in App : \A k \in Mine(app, q) : audit'[app][k] = audit[app][k]
      BY <1>8, FiledByAppend DEF Mine
    <3> QED
      BY <2>1, <2>4, <3>1, <3>2 DEF Filed, Entry
  <2>5. \A q \in Request \ {r}, app \in App : Mine(app, q)' = Mine(app, q)
    BY <1>8, FiledByAppend
  <2> QED
    BY <2>1, <2>3, <2>4, <2>5 DEF AuditInv, Before
<1>9. ASSUME NEW r \in Request, AuditFails(r) PROVE AuditInv'
  BY <1>9, <1>t, <1>k, <1>s DEF AuditFails, AuditInv, Before, Go, Raise, traceVars
<1>10. ASSUME NEW r \in Request, Log(r) PROVE AuditInv'
  BY <1>10, <1>t, <1>k, <1>s, StackOrder DEF Log, AuditInv, Before, Go
<1>11. ASSUME NEW r \in Request, Count(r) PROVE AuditInv'
  BY <1>11, <1>t, <1>k, <1>s, StackOrder DEF Count, AuditInv, Before, Go
<1>12. CASE Crash
  BY <1>12, <1>t, <1>k, <1>s DEF Crash, AuditInv, Before
<1>13. CASE Finished \/ UNCHANGED vars
  BY <1>13, <1>t, <1>k, <1>s DEF vars, Finished, traceVars, AuditInv, Before
<1> QED
  BY <1>1, <1>2, <1>3, <1>4, <1>5, <1>6, <1>7, <1>8, <1>9, <1>10, <1>11, <1>12, <1>13
  DEF Next, Proceed

LEMMA RecentNext ==
    ASSUME TypeOK, AuditInv, RecentInv, [Next]_vars PROVE RecentInv'
<1>t. /\ stage \in [Request -> Stage] /\ status \in [Request -> Nat] /\ req \in [Request -> Asked]
      /\ who \in [Request -> Client \cup {"anonymous", "invalid"}] /\ effects \subseteq Request
  BY DEF TypeOK
<1>e. \A x \in Entries(recent) : x \in EntrySet /\ x.req \in Request
  <2>1. recent \in Seq(EntrySet)
    BY DEF TypeOK
  <2>2. \A x \in Entries(recent) : x \in EntrySet
    BY <2>1 DEF Entries
  <2> QED
    BY <2>2 DEF EntrySet
<1>k. ASSUME UNCHANGED <<recent, audit>>,
             \A r \in Request : stage[r] # "absent" => stage'[r] # "absent" /\ req'[r] = req[r]
      PROVE  RecentInv'
  BY <1>k, <1>e DEF RecentInv
<1>1. ASSUME NEW r \in Request, Arrive(r) PROVE RecentInv'
  BY <1>1, <1>t, <1>k DEF Arrive, Go, traceVars
<1>2. ASSUME NEW r \in Request, Authorize(r) PROVE RecentInv'
  BY <1>2, <1>t, <1>k, StackOrder DEF Authorize, Go, Respond, traceVars
<1>3. ASSUME NEW r \in Request, Unprocessable(r) PROVE RecentInv'
  BY <1>3, <1>t, <1>k, StackOrder DEF Unprocessable, Go, Respond, traceVars
<1>4. ASSUME NEW r \in Request, Handle(r) PROVE RecentInv'
  BY <1>4, <1>t, <1>k, StackOrder DEF Handle, Codes, Go, Respond, traceVars
<1>5. ASSUME NEW r \in Request, HandlerFails(r) PROVE RecentInv'
  BY <1>5, <1>t, <1>k DEF HandlerFails, Go, Raise, traceVars
<1>6. ASSUME NEW r \in Request, StartCopy(r) PROVE RecentInv'
  BY <1>6, <1>t, <1>k DEF StartCopy, Go, traceVars
<1>7. ASSUME NEW r \in Request, FinishCopy(r) PROVE RecentInv'
  BY <1>7, <1>t, <1>k, StackOrder DEF FinishCopy, Go, Respond, Raise, traceVars
<1>8. ASSUME NEW r \in Request, Audit(r) PROVE RecentInv'
  <2>1. "public" \in App /\ Entries(audit["public"]) \subseteq Entries(audit'["public"])
    BY <1>8, FiledByAppend DEF Entries, App
  <2>2. \A q \in Request : stage[q] # "absent" => stage'[q] # "absent"
    BY <1>8, <1>t, StackOrder DEF Audit, Go
  <2> QED
    BY <2>1, <2>2, <1>8, <1>e DEF Audit, RecentInv
<1>9. ASSUME NEW r \in Request, AuditFails(r) PROVE RecentInv'
  BY <1>9, <1>t, <1>k DEF AuditFails, Go, Raise, traceVars
<1>10. ASSUME NEW r \in Request, Log(r) PROVE RecentInv'
  <2>1. \A q \in Request : stage[q] # "absent" => stage'[q] # "absent"
    BY <1>10, <1>t, StackOrder DEF Log, Go
  <2>2. stage[r] = "log" /\ UNCHANGED <<req, audit>> /\ Entry(r).req = r
    BY <1>10 DEF Log, Entry
  <2>3. ASSUME NEW x \in Entries(recent') PROVE x \in Entries(recent) \/ (x = Entry(r) /\ Recorded(req[r]))
    <3>1. recent \in Seq(EntrySet) /\ Len(recent) <= MaxOps /\ Entry(r) \in EntrySet
      BY EntryType DEF TypeOK
    <3>2. Entries(Pushed(recent, Entry(r))) \subseteq Entries(recent) \cup {Entry(r)}
      BY <3>1, PushedFacts
    <3>3. CASE Recorded(req[r])
      BY <1>10, <2>3, <3>2, <3>3 DEF Log
    <3>4. CASE ~ Recorded(req[r])
      <4>1. recent' = recent
        BY <1>10, <3>4 DEF Log
      <4> QED
        BY <4>1, <2>3
    <3> QED
      BY <3>3, <3>4
  <2>4. ASSUME Recorded(req[r]) PROVE Entry(r) \in Entries(audit["public"])
    <3>1. AppOf(req[r]) = "public" /\ "public" \in App
      BY <2>4 DEF Recorded, AppOf, PublicRoute, App
    <3>2. PICK k \in Mine("public", r) : audit["public"][k] = Entry(r)
      BY <2>2, <3>1 DEF AuditInv, Filed
    <3> QED
      BY <3>2 DEF Mine, Entries
  <2> QED
    BY <2>1, <2>2, <2>3, <2>4, <1>e DEF RecentInv, Recorded
<1>11. ASSUME NEW r \in Request, Count(r) PROVE RecentInv'
  BY <1>11, <1>t, <1>k, StackOrder DEF Count, Go
<1>12. CASE Crash
  BY <1>12 DEF Crash, RecentInv, Entries
<1>13. CASE Finished \/ UNCHANGED vars
  BY <1>13, <1>k DEF Finished, vars, traceVars
<1> QED
  BY <1>1, <1>2, <1>3, <1>4, <1>5, <1>6, <1>7, <1>8, <1>9, <1>10, <1>11, <1>12, <1>13
  DEF Next, Proceed

-----------------------------------------------------------------------------
(* The theorems *)

LEMMA PathInvInit == Init => PathInv
<1> SUFFICES ASSUME Init PROVE PathInv
  OBVIOUS
<1>1. TypeOK
  BY PathTypeInit
<1>2. /\ \A r \in Request : stage[r] = "absent" /\ status[r] = 0 /\ r \notin effects
      /\ \A m \in {"audit", "log", "metrics"} : noted[m] = {}
      /\ \A app \in App : audit[app] = <<>>
      /\ recent = <<>>
  BY DEF Init, App
<1>3. GrantInv /\ NoEffectWithoutGrant /\ StatusInv /\ LockInv /\ WhoInv
  BY <1>1, <1>2 DEF TypeOK, GrantInv, NoEffectWithoutGrant, StatusInv, LockInv, WhoInv
<1>4. TraceInv
  BY <1>2 DEF TraceInv, Traces
<1>5. AuditInv
  BY <1>2 DEF AuditInv, Mine
<1>6. RecentInv
  BY <1>2 DEF RecentInv, Entries
<1> QED
  BY <1>1, <1>3, <1>4, <1>5, <1>6 DEF PathInv

LEMMA PathInvNext == PathInv /\ [Next]_vars => PathInv'
<1> SUFFICES ASSUME PathInv, [Next]_vars PROVE PathInv'
  OBVIOUS
<1>1. TypeOK'
  BY PathTypeNext DEF PathInv, GrantInv
<1> QED
  BY <1>1, GrantNext, EffectNext, TraceNext, StatusNext, LockNext, WhoNext, AuditNext, RecentNext
  DEF PathInv

LEMMA PathInvariant == Spec => []PathInv
BY PathInvInit, PathInvNext, PTL DEF Spec

\* Every variable keeps its type and the deque its bound (RequestPath's TypeOK
\* for any number of requests).
THEOREM PathTypeCorrect == Spec => []TypeOK
<1>1. PathInv => TypeOK
  BY DEF PathInv
<1> QED
  BY <1>1, PathInvariant, PTL

\* However requests overtake each other and whatever fails on the way out, an
\* answered request is noted by all three middlewares or by none, and then it
\* was answered 500 (RequestPath's AllTracesOrNone).
THEOREM NotedByAllOrNone == Spec => []AllTracesOrNone
<1>1. PathInv => AllTracesOrNone
  <2> SUFFICES ASSUME PathInv, NEW r \in Request, Answered(r)
               PROVE  LET traces == {m \in DOMAIN noted : r \in noted[m]}
                      IN  traces = DOMAIN noted \/ (traces = {} /\ status[r] = 500)
    BY DEF AllTracesOrNone
  <2>1. DOMAIN noted = {"audit", "log", "metrics"}
    BY DEF PathInv, TypeOK
  <2> QED
    BY <2>1 DEF PathInv, TraceInv, Traces, Answered
<1> QED
  BY <1>1, PathInvariant, PTL

\* The audit file of a request's own app has exactly one entry of it, with its
\* status and the client of its token (RequestPath's AuditTellsWho).
THEOREM AuditIsTrue == Spec => []AuditTellsWho
<1>1. ASSUME PathInv PROVE AuditTellsWho
  <2>d. DOMAIN audit = App
    BY <1>1 DEF PathInv, TypeOK, App
  <2> SUFFICES ASSUME NEW r \in Request, Answered(r), status[r] # 500,
                      NEW app \in App
               PROVE  IF app # AppOf(req[r]) THEN Mine(app, r) = {}
                      ELSE /\ Cardinality(Mine(app, r)) = 1
                           /\ \A i \in Mine(app, r) :
                                 /\ audit[app][i].status = status[r]
                                 /\ req[r].route \in KeyRoute /\ req[r].token \in Client
                                    /\ status[r] # 422 => audit[app][i].who = req[r].token
    BY <2>d DEF AuditTellsWho, Mine
  <2>1. Filed(r)
    BY <1>1 DEF PathInv, AuditInv, Answered
  <2>2. CASE app # AppOf(req[r])
    BY <2>1, <2>2 DEF Filed
  <2>3. CASE app = AppOf(req[r])
    <3>1. PICK k \in Mine(app, r) : Mine(app, r) = {k} /\ audit[app][k] = Entry(r)
      BY <2>1, <2>3 DEF Filed
    <3>2. Cardinality(Mine(app, r)) = 1
      <4>1. Cardinality({k}) = 1
        BY FS_Singleton
      <4> QED
        BY <3>1, <4>1
    <3>3. Entry(r).status = status[r] /\ Entry(r).who = who[r]
      BY DEF Entry
    <3>4. req[r].route \in KeyRoute /\ req[r].token \in Client /\ status[r] # 422
          => who[r] = req[r].token
      BY <1>1 DEF PathInv, WhoInv, Answered
    <3> QED
      BY <2>3, <3>1, <3>2, <3>3, <3>4
  <2> QED
    BY <2>2, <2>3
<1> QED
  BY <1>1, PathInvariant, PTL

\* What the dashboard shows is on record in the public audit file (RequestPath's
\* RecentIsAudited).
THEOREM ShownIsAudited == Spec => []RecentIsAudited
<1>1. PathInv => RecentIsAudited
  BY DEF PathInv, RecentInv, RecentIsAudited
<1> QED
  BY <1>1, PathInvariant, PTL

\* A dashboard poll whose copy of the operations has begun goes on to an answer
\* of 200 unless the process stops: never does a middleware record an operation
\* under it, for any number of requests (RequestPath's PollsSucceed).
THEOREM CopyIsUndisturbed == Spec => PollsSucceed
<1>1. PathInv /\ [Next]_vars =>
         [\A r \in Request :
            stage[r] = "copying" /\ stage'[r] # "copying" =>
                status'[r] = 200 \/ stage'[r] = "lost"]_vars
  BY CopyEnds DEF PathInv
<1> QED
  BY <1>1, PathInvariant, PTL DEF Spec, PollsSucceed

\* Nothing a client sends changes data unless its token grants that verb in that
\* namespace (RequestPath's NoEffectWithoutGrant, for any token file).
THEOREM OnlyGrantedEffects == Spec => []NoEffectWithoutGrant
<1>1. PathInv => NoEffectWithoutGrant
  BY DEF PathInv
<1> QED
  BY <1>1, PathInvariant, PTL
=============================================================================
