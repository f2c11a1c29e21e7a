--------------------------- MODULE QuorumKVProofs ---------------------------
(***************************************************************************)
(* Theorems of QuorumKV, and of HandoffKV, which extends it, for every     *)
(* roster, preference list, quorum sizes and set of requests.              *)
(***************************************************************************)
EXTENDS HandoffKV, VectorClockProofs

-----------------------------------------------------------------------------
(* What a merged read works on *)

\* At most one fan-out of answers: finitely many, as replicas and puts are.
LEMMA AnswersFinite ==
    ASSUME NEW A \in SUBSET [from : Prefs, versions : SUBSET Put]
    PROVE  IsFiniteSet(A) /\ Cardinality(A) \in Nat
<1> DEFINE pair == [a \in A |-> <<a.from, a.versions>>]
<1>1. IsFiniteSet(Prefs \X SUBSET Put)
  BY RingAssumption, RequestAssumption, FS_SUBSET, FS_Product
<1>2. pair \in Injection(A, Prefs \X SUBSET Put)
  <2>1. \A a \in A : /\ a.from \in Prefs /\ a.versions \in SUBSET Put
                     /\ a = [from |-> a.from, versions |-> a.versions]
    OBVIOUS
  <2>2. pair \in [A -> Prefs \X SUBSET Put]
    BY <2>1
  <2>3. ASSUME NEW a \in A, NEW b \in A, pair[a] = pair[b]
        PROVE  a = b
    <3>1. <<a.from, a.versions>> = <<b.from, b.versions>>
      BY <2>3
    <3>2. a.from = b.from /\ a.versions = b.versions
      BY <3>1
    <3>3. /\ a = [from |-> a.from, versions |-> a.versions]
          /\ b = [from |-> b.from, versions |-> b.versions]
      BY <2>1
    <3> QED BY <3>2, <3>3, Zenon
  <2>4. \A a, b \in A : pair[a] = pair[b] => a = b
    BY <2>3
  <2> HIDE DEF pair
  <2> QED BY <2>2, <2>4 DEF Injection, IsInjective
<1>3. IsFiniteSet(A)
  <2> HIDE DEF pair
  <2> QED BY <1>1, <1>2, FS_Injection
<1> QED BY <1>3, FS_CardinalityType

\* The merged read returns versions, none superseding another if each of the
\* answers had that property.
LEMMA MergedReadAntichain ==
    ASSUME TypeOK, NEW o \in Request, NEW order \in Arrival(o)
    PROVE  /\ MergedRead(order) \in SUBSET Put
           /\ (\A a \in answers[o] : IsAntichain(clk, a.versions))
                 => IsAntichain(clk, MergedRead(order))
           /\ IsFiniteSet(MergedRead(order))
<1> DEFINE k == Cardinality(answers[o])
           lists == [i \in DOMAIN order |-> order[i].versions]
<1>1. answers[o] \in SUBSET [from : Prefs, versions : SUBSET Put]
  BY DEF TypeOK
<1>2. k \in Nat
  BY <1>1, AnswersFinite
<1>3. order \in [1..k -> answers[o]] /\ DOMAIN order = 1..k
  BY DEF Arrival
<1>4. lists \in [1..k -> SUBSET Put]
  BY <1>1, <1>3
<1>5. clk \in [Put -> Clock]
  BY DEF TypeOK
<1>6. MergedRead(order) = MergeInOrder(clk, lists)
  BY DEF MergedRead
<1>7. MergeInOrder(clk, lists) \in SUBSET Put
  <2>1. DOMAIN lists = 1..k
    BY <1>4
  <2> HIDE DEF lists, k
  <2> QED BY <1>4, <2>1 DEF MergeInOrder
<1>8. ASSUME \A a \in answers[o] : IsAntichain(clk, a.versions)
      PROVE  IsAntichain(clk, MergeInOrder(clk, lists))
  <2>1. \A i \in 1..k : IsAntichain(clk, lists[i])
    BY <1>3, <1>8
  <2> HIDE DEF lists, k
  <2> QED BY <1>2, <1>4, <1>5, <2>1, MergeAntichain
<1>9. IsFiniteSet(MergeInOrder(clk, lists))
  BY <1>7, RequestAssumption, FS_Subset
<1> QED BY <1>6, <1>7, <1>8, <1>9

\* A merged read returns nothing that no answer held.
LEMMA MergedReadIsAnswered ==
    ASSUME NEW o \in Request, NEW order \in Arrival(o)
    PROVE  \A v \in MergedRead(order) : \E a \in answers[o] : v \in a.versions
<1> DEFINE lists == [i \in DOMAIN order |-> order[i].versions]
<1>1. \A i \in DOMAIN order : order[i] \in answers[o]
  BY DEF Arrival
<1>2. MergedRead(order) = MergeInOrder(clk, lists)
  BY DEF MergedRead
<1>3. \A v \in MergeInOrder(clk, lists) : \E i \in DOMAIN order : v \in lists[i]
  BY DEF MergeInOrder
<1> QED BY <1>1, <1>2, <1>3

\* The clock a put mints is a clock, is not ZeroClock, and dominates all it read.
LEMMA NewClockDominates ==
    ASSUME clk \in [Put -> Clock], NEW read \in SUBSET Put, NEW c \in Node
    PROVE  /\ NewClock(read, c) \in Clock
           /\ NewClock(read, c) # ZeroClock
           /\ \A v \in read : /\ DominatesOrEqual(NewClock(read, c), clk[v])
                              /\ ~ DominatesOrEqual(clk[v], NewClock(read, c))
<1> DEFINE C == {clk[v] : v \in read}
           m == MergeClocks(C)
           f == [v \in read |-> clk[v]]
<1>1. C \in SUBSET Clock
  OBVIOUS
<1>2. f \in Surjection(read, C)
  BY DEF Surjection
<1>3. IsFiniteSet(read)
  BY RequestAssumption, FS_Subset
<1>4. IsFiniteSet(C)
  <2> HIDE DEF f, C
  <2> QED BY <1>2, <1>3, FS_Surjection
<1>5. m \in Clock /\ \A d \in C : DominatesOrEqual(m, d)
  <2> HIDE DEF C
  <2> QED BY <1>1, <1>4, MergeIsLeastUpperBound
<1>6. NewClock(read, c) = Incremented(m, c)
  BY DEF NewClock
<1> HIDE DEF m
<1>7. Incremented(m, c) \in Clock /\ Incremented(m, c) # ZeroClock
      /\ DominatesOrEqual(Incremented(m, c), m)
      /\ ~ DominatesOrEqual(m, Incremented(m, c))
  BY <1>5, IncrementedDominates
<1>8. ASSUME NEW v \in read
      PROVE  /\ DominatesOrEqual(Incremented(m, c), clk[v])
             /\ ~ DominatesOrEqual(clk[v], Incremented(m, c))
  <2>1. clk[v] \in Clock /\ DominatesOrEqual(m, clk[v])
    BY <1>5
  <2> QED BY <1>5, <1>7, <2>1, DominanceOrder
<1> QED BY <1>6, <1>7, <1>8

-----------------------------------------------------------------------------
(* Type correctness *)

\* A request that has begun has a coordinator.
Coordinated == \A o \in Request : phase[o] # "idle" => coord[o] \in Node

LEMMA TypeInit == Init => TypeOK /\ Coordinated
BY BoundAssumption DEF Init, TypeOK, Coordinated, Phase, Clock, ZeroClock, Request, Write

LEMMA TypeNext == TypeOK /\ Coordinated /\ [Next]_vars => TypeOK' /\ Coordinated'
<1> SUFFICES ASSUME TypeOK, Coordinated, [Next]_vars
             PROVE  TypeOK' /\ Coordinated'
  OBVIOUS
<1> USE DEF TypeOK, Coordinated, Phase, replicaVars, requestVars, writeVars, callVars
<1>r. \A S \in SUBSET Put, p \in Put : Reconcile(clk, S, p) \in SUBSET Put
  BY DEF Reconcile
<1>1. ASSUME NEW o \in Request, NEW c \in Node, StartRead(o, c)
      PROVE  TypeOK' /\ Coordinated'
  BY <1>1 DEF StartRead
<1>2. ASSUME NEW o \in Request, NEW n \in Prefs, ServeRead(o, n)
      PROVE  TypeOK' /\ Coordinated'
  BY <1>2 DEF ServeRead
<1>3. ASSUME NEW o \in Request, NEW n \in Prefs, MissRead(o, n)
      PROVE  TypeOK' /\ Coordinated'
  BY <1>3, BoundAssumption DEF MissRead
<1>4. ASSUME NEW o \in Request, RefuseRead(o)
      PROVE  TypeOK' /\ Coordinated'
  BY <1>4 DEF RefuseRead
<1>5. ASSUME NEW o \in Request, AnswerGet(o)
      PROVE  TypeOK' /\ Coordinated'
  BY <1>5, MergedReadAntichain DEF AnswerGet
<1>6. ASSUME NEW o \in Write, NEW c \in Node, StartDelete(o, c)
      PROVE  TypeOK' /\ Coordinated'
  BY <1>6 DEF StartDelete, Write, Request
<1>7. ASSUME NEW p \in Write, MintVersion(p)
      PROVE  TypeOK' /\ Coordinated'
  <2>1. PICK order \in Arrival(p), down \in PresumedDown(coord[p]) :
           LET read == MergedRead(order)
           IN  /\ merged' = [merged EXCEPT ![p] = read]
               /\ clk' = [clk EXCEPT ![p] = NewClock(read, coord[p])]
               /\ hist' = [hist EXCEPT ![p] = {p} \cup UNION {hist[v] : v \in read}]
               /\ targets' = [targets EXCEPT ![p] = Prefs \ down]
               /\ hinting' = [hinting EXCEPT ![p] = IF Holder = NoNode THEN {} ELSE down]
    BY <1>7 DEF MintVersion
  <2> DEFINE read == MergedRead(order)
  <2>2. p \in Put /\ p \in Request /\ read \in SUBSET Put
    BY <1>7, <2>1, MergedReadAntichain DEF MintVersion, Request
  <2>3. coord[p] \in Node
    BY <1>7, <2>2 DEF MintVersion
  <2>4. NewClock(read, coord[p]) \in Clock
    BY <2>2, <2>3, NewClockDominates
  <2>5. down \in SUBSET Prefs
    BY <2>1, RingAssumption DEF PresumedDown
  <2>6. {p} \cup UNION {hist[v] : v \in read} \in SUBSET Put
    BY <2>2
  <2> HIDE DEF read
  <2> QED BY <1>7, <2>1, <2>2, <2>4, <2>5, <2>6 DEF MintVersion, read
<1>8. ASSUME NEW o \in Write, FanOut(o)
      PROVE  TypeOK' /\ Coordinated'
  BY <1>8 DEF FanOut, Write, Request
<1>9. ASSUME NEW o \in Write, AnswerWrite(o)
      PROVE  TypeOK' /\ Coordinated'
  BY <1>9 DEF AnswerWrite, Write, Request
<1>10. ASSUME NEW o \in Write, RefuseWrite(o)
       PROVE  TypeOK' /\ Coordinated'
  BY <1>10 DEF RefuseWrite, Write, Request
<1>11. ASSUME NEW o \in Write, NEW n \in Prefs, LoadLocal(o, n)
       PROVE  TypeOK' /\ Coordinated'
  BY <1>11 DEF LoadLocal
<1>12. ASSUME NEW o \in Write, NEW n \in Prefs, StoreLocal(o, n)
       PROVE  TypeOK' /\ Coordinated'
  <2>1. PICK h \in loading :
           /\ h.put = o /\ h.at = n
           /\ loading' = loading \ {h}
           /\ store' = [store EXCEPT ![n] = Reconcile(clk, h.base, o)]
           /\ raced' = IF h.base = store[n] THEN raced ELSE raced \cup {n}
    BY <1>12 DEF StoreLocal
  <2>2. o \in Put /\ h.base \in SUBSET Put
    BY <2>1
  <2>3. Reconcile(clk, h.base, o) \in SUBSET Put
    BY <2>2, <1>r
  <2> QED BY <1>12, <2>1, <2>3 DEF StoreLocal, Ack
<1>13. ASSUME NEW o \in Write, NEW n \in Prefs, DeleteLocal(o, n)
       PROVE  TypeOK' /\ Coordinated'
  BY <1>13 DEF DeleteLocal, Ack
<1>14. ASSUME NEW o \in Write, NEW n \in Prefs, FailWrite(o, n)
       PROVE  TypeOK' /\ Coordinated'
  BY <1>14, BoundAssumption DEF FailWrite, Write, Request
<1>15. ASSUME NEW p \in Put, NEW n \in Prefs, DeliverHint(p, n)
       PROVE  TypeOK' /\ Coordinated'
  BY <1>15, <1>r DEF DeliverHint, AddHint, HintDone, Request
<1>16. ASSUME NEW p \in Put, NEW n \in Prefs, LoseHint(p, n)
       PROVE  TypeOK' /\ Coordinated'
  BY <1>16, BoundAssumption DEF LoseHint, HintDone, Request
<1>17. ASSUME NEW p \in Put, NEW n \in Prefs, StrayHint(p, n)
       PROVE  TypeOK' /\ Coordinated'
  BY <1>17, <1>r DEF StrayHint, AddHint
<1>18. ASSUME UNCHANGED vars
       PROVE  TypeOK' /\ Coordinated'
  BY <1>18 DEF vars
<1>19. CASE Next
  BY <1>19, <1>1, <1>2, <1>3, <1>4, <1>5, <1>6, <1>7, <1>8, <1>9, <1>10, <1>11, <1>12,
     <1>13, <1>14, <1>15, <1>16, <1>17, <1>18
     DEF Next, ReadStep, WriteStep, CallStep, HintStep, Quiesced
<1> QED BY <1>18, <1>19

\* Every variable keeps its type: in particular no counter of any clock that
\* put mints leaves the naturals.
THEOREM TypeCorrect == Spec => []TypeOK
<1>1. Init => TypeOK /\ Coordinated
  BY TypeInit
<1>2. TypeOK /\ Coordinated /\ [Next]_vars => TypeOK' /\ Coordinated'
  BY TypeNext
<1> QED BY <1>1, <1>2, PTL DEF Spec

-----------------------------------------------------------------------------
(* Sibling lists *)

\* A version is in play only once it is minted, and it is minted once, which is
\* why its clock is the same wherever the version is found.
MintedInPlay ==
    /\ \A n \in Prefs : \A v \in store[n] \cup hints[n] : Minted(v)
    /\ \A o \in Request : /\ \A v \in merged[o] : Minted(v)
                          /\ \A a \in answers[o] : \A v \in a.versions : Minted(v)
    /\ \A h \in loading : Minted(h.put) /\ \A v \in h.base : Minted(v)
    /\ \A p \in Put :
          /\ phase[p] \in {"idle", "read"} => ~ Minted(p)
          /\ phase[p] \in {"handoff", "write", "done"} => Minted(p)
          /\ \A n \in Prefs : n \in hinting[p] \/ <<p, n>> \in sent \cup stray => Minted(p)

Inv == TypeOK /\ Coordinated /\ MintedInPlay /\ Antichains

\* Nothing in play changes while clocks of minted versions do not.
LEMMA AntichainStable ==
    ASSUME NEW c, NEW d, NEW S, IsAntichain(c, S), \A v \in S : d[v] = c[v]
    PROVE  IsAntichain(d, S)
BY DEF IsAntichain

LEMMA InvInit == Init => Inv
<1> SUFFICES ASSUME Init PROVE Inv
  OBVIOUS
<1>1. TypeOK /\ Coordinated
  BY TypeInit
<1>2. MintedInPlay
  BY DEF Init, MintedInPlay, Minted, Request
<1>3. Antichains
  BY DEF Init, Antichains, IsAntichain
<1> QED BY <1>1, <1>2, <1>3 DEF Inv

LEMMA InvNext == Inv /\ [Next]_vars => Inv'
<1> SUFFICES ASSUME Inv, [Next]_vars
             PROVE  MintedInPlay' /\ Antichains'
  BY TypeNext DEF Inv
<1> USE DEF replicaVars, requestVars, writeVars, callVars
<1>t. TypeOK /\ Coordinated /\ MintedInPlay /\ Antichains
  BY DEF Inv
<1>c. clk \in [Put -> Clock] /\ phase \in [Request -> Phase]
  BY <1>t DEF TypeOK
<1>r. \A S \in SUBSET Put, p \in Put :
         /\ Reconcile(clk, S, p) \subseteq S \cup {p}
         /\ IsAntichain(clk, S) => IsAntichain(clk, Reconcile(clk, S, p))
  <2>1. \A S \in SUBSET Put, p \in Put : Reconcile(clk, S, p) \subseteq S \cup {p}
    BY DEF Reconcile
  <2> QED BY <1>c, <2>1, ReconcileAntichain
<1>1. ASSUME NEW o \in Request, NEW c \in Node, StartRead(o, c)
      PROVE  MintedInPlay' /\ Antichains'
  <2>1. MintedInPlay'
    BY <1>t, <1>c, <1>1 DEF StartRead, MintedInPlay, Minted, MayStart, Request
  <2>2. Antichains'
    BY <1>t, <1>1 DEF StartRead, Antichains
  <2> QED BY <2>1, <2>2
<1>2. ASSUME NEW o \in Request, NEW n \in Prefs, ServeRead(o, n)
      PROVE  MintedInPlay' /\ Antichains'
  <2>1. answers' = [answers EXCEPT ![o] = @ \cup {[from |-> n, versions |-> store[n]]}]
    BY <1>2 DEF ServeRead
  <2>2. \A q \in Request : \A a \in answers'[q] : a \in answers[q] \/ a.versions = store[n]
    BY <1>t, <2>1 DEF TypeOK
  <2>3. MintedInPlay'
    BY <1>t, <1>2, <2>2 DEF ServeRead, MintedInPlay, Minted
  <2>4. Antichains'
    BY <1>t, <1>2, <2>2 DEF ServeRead, Antichains
  <2> QED BY <2>3, <2>4
<1>3. ASSUME NEW o \in Request, NEW n \in Prefs, MissRead(o, n)
      PROVE  MintedInPlay' /\ Antichains'
  <2>1. MintedInPlay'
    BY <1>t, <1>3 DEF MissRead, MintedInPlay, Minted
  <2>2. Antichains'
    BY <1>t, <1>3 DEF MissRead, Antichains
  <2> QED BY <2>1, <2>2
<1>4. ASSUME NEW o \in Request, RefuseRead(o)
      PROVE  MintedInPlay' /\ Antichains'
  <2>1. MintedInPlay'
    BY <1>t, <1>c, <1>4 DEF RefuseRead, MintedInPlay, Minted, Request
  <2>2. Antichains'
    BY <1>t, <1>4 DEF RefuseRead, Antichains
  <2> QED BY <2>1, <2>2
<1>5. ASSUME NEW o \in Request, AnswerGet(o)
      PROVE  MintedInPlay' /\ Antichains'
  <2>1. PICK order \in Arrival(o) : merged' = [merged EXCEPT ![o] = MergedRead(order)]
    BY <1>5 DEF AnswerGet
  <2>2. MergedRead(order) \in SUBSET Put /\ IsAntichain(clk, MergedRead(order))
    BY <1>t, MergedReadAntichain DEF Antichains
  <2>3. \A v \in MergedRead(order) : Minted(v)
    BY <1>t, MergedReadIsAnswered DEF MintedInPlay
  <2>4. o \in Get /\ o \notin Put
    BY <1>5, RequestAssumption DEF AnswerGet
  <2>5. \A q \in Request : merged'[q] = merged[q] \/ merged'[q] = MergedRead(order)
    BY <1>t, <2>1 DEF TypeOK
  <2>6. \A q \in Request : answers'[q] \subseteq answers[q]
    BY <1>t, <1>5 DEF TypeOK, AnswerGet
  <2>7. \A p \in Put : phase'[p] = phase[p]
    BY <1>c, <1>5, <2>4 DEF AnswerGet, Request
  <2>8. UNCHANGED <<store, hints, loading, clk, hinting, sent, stray>>
    BY <1>5 DEF AnswerGet
  <2> HIDE DEF Arrival
  <2>9. MintedInPlay'
    BY <1>t, <2>3, <2>5, <2>6, <2>7, <2>8 DEF MintedInPlay, Minted
  <2>10. Antichains'
    BY <1>t, <2>2, <2>5, <2>6, <2>8 DEF Antichains
  <2> QED BY <2>9, <2>10
<1>6. ASSUME NEW o \in Write, NEW c \in Node, StartDelete(o, c)
      PROVE  MintedInPlay' /\ Antichains'
  <2>1. MintedInPlay'
    BY <1>t, <1>c, <1>6, RequestAssumption
       DEF StartDelete, MintedInPlay, Minted, Request, Write
  <2>2. Antichains'
    BY <1>t, <1>6 DEF StartDelete, Antichains
  <2> QED BY <2>1, <2>2
<1>7. ASSUME NEW p \in Write, MintVersion(p)
      PROVE  MintedInPlay' /\ Antichains'
  <2>1. PICK order \in Arrival(p), down \in PresumedDown(coord[p]) :
           /\ merged' = [merged EXCEPT ![p] = MergedRead(order)]
           /\ clk' = [clk EXCEPT ![p] = NewClock(MergedRead(order), coord[p])]
    BY <1>7 DEF MintVersion
  <2> DEFINE read == MergedRead(order)
  <2>2. p \in Put /\ p \in Request /\ phase[p] = "read"
    BY <1>7 DEF MintVersion, Request
  <2>3. /\ read \in SUBSET Put
        /\ IsAntichain(clk, read)
        /\ \A v \in read : Minted(v)
    BY <1>t, <2>2, MergedReadAntichain, MergedReadIsAnswered DEF Antichains, MintedInPlay
  <2>4. coord[p] \in Node /\ NewClock(read, coord[p]) # ZeroClock
    BY <1>t, <1>c, <2>2, <2>3, NewClockDominates DEF Coordinated
  <2> HIDE DEF read
  <2>5. ~ Minted(p) /\ Minted(p)'
    BY <1>t, <1>c, <2>1, <2>2, <2>4 DEF MintedInPlay, Minted, read
  <2>6. \A v \in Put \ {p} : clk'[v] = clk[v]
    BY <1>c, <2>1
  <2>7. \A S \in SUBSET Put :
           (\A v \in S : Minted(v)) =>
               /\ \A v \in S : Minted(v)'
               /\ IsAntichain(clk, S) => IsAntichain(clk', S)
    <3>1. ASSUME NEW S \in SUBSET Put, \A v \in S : Minted(v)
          PROVE  /\ \A v \in S : clk'[v] = clk[v]
                 /\ \A v \in S : Minted(v)'
      BY <2>5, <2>6, <3>1 DEF Minted
    <3> QED BY <3>1, AntichainStable
  <2>8. \A o \in Request : /\ merged'[o] = merged[o] \/ merged'[o] = read
                           /\ answers'[o] \subseteq answers[o]
    BY <1>t, <1>7, <2>1 DEF TypeOK, MintVersion, read
  <2>9. UNCHANGED <<store, hints, loading, sent, stray>>
    BY <1>7 DEF MintVersion
  <2>10. /\ \A o \in Request : phase'[o] = IF o = p THEN "handoff" ELSE phase[o]
         /\ \A q \in Put \ {p} : hinting'[q] = hinting[q]
    BY <1>t, <1>7 DEF TypeOK, MintVersion
  <2>11. MintedInPlay'
    <3>1. \A n \in Prefs : \A v \in store[n] \cup hints[n] : Minted(v)'
      BY <1>t, <2>7 DEF TypeOK, MintedInPlay
    <3>2. ASSUME NEW o \in Request
          PROVE  /\ \A v \in merged'[o] : Minted(v)'
                 /\ \A a \in answers'[o] : \A v \in a.versions : Minted(v)'
      <4>1. \A v \in merged'[o] : Minted(v)'
        BY <1>t, <2>3, <2>7, <2>8 DEF TypeOK, MintedInPlay
      <4>2. ASSUME NEW a \in answers[o]
            PROVE  \A v \in a.versions : Minted(v)'
        <5>1. a.versions \in SUBSET Put /\ \A v \in a.versions : Minted(v)
          BY <1>t DEF TypeOK, MintedInPlay
        <5> QED BY <2>7, <5>1
      <4> QED BY <2>8, <4>1, <4>2
    <3>3. \A h \in loading : Minted(h.put)' /\ \A v \in h.base : Minted(v)'
      <4>1. \A h \in loading : Minted(h.put)'
        BY <1>t, <2>5, <2>6 DEF TypeOK, MintedInPlay, Minted
      <4>2. ASSUME NEW h \in loading
            PROVE  \A v \in h.base : Minted(v)'
        <5>1. h.base \in SUBSET Put /\ \A v \in h.base : Minted(v)
          BY <1>t DEF TypeOK, MintedInPlay
        <5> QED BY <2>7, <5>1
      <4> QED BY <4>1, <4>2
    <3>4. ASSUME NEW q \in Put
          PROVE  /\ phase'[q] \in {"idle", "read"} => ~ Minted(q)'
                 /\ phase'[q] \in {"handoff", "write", "done"} => Minted(q)'
                 /\ \A n \in Prefs : n \in hinting'[q] \/ <<q, n>> \in sent \cup stray
                                        => Minted(q)'
      <4>1. CASE q = p
        BY <2>2, <2>5, <2>10, <4>1
      <4>2. CASE q # p
        <5>1. clk'[q] = clk[q] /\ phase'[q] = phase[q] /\ hinting'[q] = hinting[q]
          BY <2>6, <2>10, <4>2 DEF Request
        <5> QED BY <1>t, <5>1 DEF MintedInPlay, Minted
      <4> QED BY <4>1, <4>2
    <3> QED BY <2>9, <3>1, <3>2, <3>3, <3>4 DEF MintedInPlay
  <2>12. Antichains'
    <3>1. \A n \in Prefs : IsAntichain(clk', store[n]) /\ IsAntichain(clk', hints[n])
      BY <1>t, <2>7 DEF TypeOK, MintedInPlay, Antichains
    <3>2. \A h \in loading : IsAntichain(clk', h.base)
      BY <1>t, <2>7 DEF TypeOK, MintedInPlay, Antichains
    <3>3. ASSUME NEW o \in Request
          PROVE  /\ IsAntichain(clk', merged'[o])
                 /\ \A a \in answers'[o] : IsAntichain(clk', a.versions)
      <4>1. IsAntichain(clk', merged'[o])
        BY <1>t, <2>3, <2>7, <2>8 DEF TypeOK, MintedInPlay, Antichains
      <4>2. \A a \in answers[o] : IsAntichain(clk', a.versions)
        BY <1>t, <2>7 DEF TypeOK, MintedInPlay, Antichains
      <4> QED BY <2>8, <4>1, <4>2
    <3> QED BY <2>9, <3>1, <3>2, <3>3 DEF Antichains
  <2> QED BY <2>11, <2>12
<1>8. ASSUME NEW o \in Write, FanOut(o)
      PROVE  MintedInPlay' /\ Antichains'
  <2>1. MintedInPlay'
    BY <1>t, <1>c, <1>8 DEF FanOut, MintedInPlay, Minted, Request, Write
  <2>2. Antichains'
    BY <1>t, <1>8 DEF FanOut, Antichains
  <2> QED BY <2>1, <2>2
<1>9. ASSUME NEW o \in Write, AnswerWrite(o)
      PROVE  MintedInPlay' /\ Antichains'
  <2>1. MintedInPlay'
    BY <1>t, <1>c, <1>9 DEF AnswerWrite, MintedInPlay, Minted, Request, Write
  <2>2. Antichains'
    BY <1>t, <1>9 DEF AnswerWrite, Antichains
  <2> QED BY <2>1, <2>2
<1>10. ASSUME NEW o \in Write, RefuseWrite(o)
       PROVE  MintedInPlay' /\ Antichains'
  <2>1. MintedInPlay'
    BY <1>t, <1>c, <1>10 DEF RefuseWrite, MintedInPlay, Minted, Request, Write
  <2>2. Antichains'
    BY <1>t, <1>10 DEF RefuseWrite, Antichains
  <2> QED BY <2>1, <2>2
<1>11. ASSUME NEW o \in Write, NEW n \in Prefs, LoadLocal(o, n)
       PROVE  MintedInPlay' /\ Antichains'
  <2>1. MintedInPlay'
    BY <1>t, <1>11 DEF LoadLocal, MintedInPlay, Minted
  <2>2. Antichains'
    BY <1>t, <1>11 DEF LoadLocal, Antichains
  <2> QED BY <2>1, <2>2
<1>12. ASSUME NEW o \in Write, NEW n \in Prefs, StoreLocal(o, n)
       PROVE  MintedInPlay' /\ Antichains'
  <2>1. PICK h \in loading :
           /\ h.put = o /\ h.at = n
           /\ loading' = loading \ {h}
           /\ store' = [store EXCEPT ![n] = Reconcile(clk, h.base, o)]
    BY <1>12 DEF StoreLocal
  <2>2. o \in Put /\ h.base \in SUBSET Put /\ Minted(o) /\ IsAntichain(clk, h.base)
    BY <1>t, <2>1 DEF TypeOK, MintedInPlay, Antichains
  <2>3. Reconcile(clk, h.base, o) \subseteq h.base \cup {o}
        /\ IsAntichain(clk, Reconcile(clk, h.base, o))
    BY <1>r, <2>2
  <2>4. \A m \in Prefs : store'[m] = store[m] \/ store'[m] = Reconcile(clk, h.base, o)
    BY <1>t, <2>1 DEF TypeOK
  <2>5. UNCHANGED <<hints, clk, hinting, sent, stray, requestVars>>
    BY <1>12 DEF StoreLocal
  <2>6. MintedInPlay'
    BY <1>t, <2>1, <2>2, <2>3, <2>4, <2>5 DEF MintedInPlay, Minted
  <2>7. Antichains'
    BY <1>t, <2>1, <2>3, <2>4, <2>5 DEF Antichains
  <2> QED BY <2>6, <2>7
<1>13. ASSUME NEW o \in Write, NEW n \in Prefs, DeleteLocal(o, n)
       PROVE  MintedInPlay' /\ Antichains'
  <2>1. \A m \in Prefs : store'[m] = store[m] \/ store'[m] = {}
    BY <1>t, <1>13 DEF TypeOK, DeleteLocal
  <2>2. MintedInPlay'
    BY <1>t, <1>13, <2>1 DEF DeleteLocal, MintedInPlay, Minted
  <2>3. Antichains'
    BY <1>t, <1>13, <2>1 DEF DeleteLocal, Antichains, IsAntichain
  <2> QED BY <2>2, <2>3
<1>14. ASSUME NEW o \in Write, NEW n \in Prefs, FailWrite(o, n)
       PROVE  MintedInPlay' /\ Antichains'
  <2>1. MintedInPlay'
    BY <1>t, <1>14 DEF TypeOK, FailWrite, MintedInPlay, Minted
  <2>2. Antichains'
    BY <1>t, <1>14 DEF FailWrite, Antichains
  <2> QED BY <2>1, <2>2
<1>h. ASSUME NEW p \in Put, NEW n \in Prefs, Minted(p), AddHint(n, p)
      PROVE  \A m \in Prefs : /\ IsAntichain(clk, hints'[m])
                              /\ \A v \in hints'[m] : Minted(v)
  <2>1. hints[n] \in SUBSET Put /\ hints' = [hints EXCEPT ![n] = Reconcile(clk, hints[n], p)]
    BY <1>t, <1>h DEF TypeOK, AddHint
  <2>2. \A m \in Prefs : hints'[m] = hints[m] \/ hints'[m] = Reconcile(clk, hints[m], p)
    BY <1>t, <2>1 DEF TypeOK
  <2> QED BY <1>t, <1>h, <1>r, <2>2 DEF TypeOK, MintedInPlay, Antichains
<1>15. ASSUME NEW p \in Put, NEW n \in Prefs, DeliverHint(p, n)
       PROVE  MintedInPlay' /\ Antichains'
  <2>1. \A m \in Prefs : /\ IsAntichain(clk, hints'[m])
                         /\ \A v \in hints'[m] : Minted(v)
    BY <1>t, <1>h, <1>15 DEF DeliverHint, MintedInPlay
  <2>2. MintedInPlay'
    BY <1>t, <1>15, <2>1 DEF TypeOK, DeliverHint, HintDone, MintedInPlay, Minted
  <2>3. Antichains'
    BY <1>t, <1>15, <2>1 DEF DeliverHint, Antichains
  <2> QED BY <2>2, <2>3
<1>16. ASSUME NEW p \in Put, NEW n \in Prefs, LoseHint(p, n)
       PROVE  MintedInPlay' /\ Antichains'
  <2>1. MintedInPlay'
    BY <1>t, <1>16 DEF TypeOK, LoseHint, HintDone, MintedInPlay, Minted
  <2>2. Antichains'
    BY <1>t, <1>16 DEF LoseHint, Antichains
  <2> QED BY <2>1, <2>2
<1>17. ASSUME NEW p \in Put, NEW n \in Prefs, StrayHint(p, n)
       PROVE  MintedInPlay' /\ Antichains'
  <2>1. \A m \in Prefs : /\ IsAntichain(clk, hints'[m])
                         /\ \A v \in hints'[m] : Minted(v)
    BY <1>t, <1>h, <1>17 DEF StrayHint, MintedInPlay
  <2>2. MintedInPlay'
    BY <1>t, <1>17, <2>1 DEF StrayHint, MintedInPlay, Minted
  <2>3. Antichains'
    BY <1>t, <1>17, <2>1 DEF StrayHint, Antichains
  <2> QED BY <2>2, <2>3
<1>18. ASSUME UNCHANGED vars
       PROVE  MintedInPlay' /\ Antichains'
  BY <1>t, <1>18 DEF vars, MintedInPlay, Minted, Antichains
<1>19. CASE Next
  BY <1>19, <1>1, <1>2, <1>3, <1>4, <1>5, <1>6, <1>7, <1>8, <1>9, <1>10, <1>11, <1>12,
     <1>13, <1>14, <1>15, <1>16, <1>17, <1>18
     DEF Next, ReadStep, WriteStep, CallStep, HintStep, Quiesced
<1> QED BY <1>18, <1>19

\* No sibling list anywhere ever holds a superseded version or two versions
\* under one clock, with put_local calls racing and hints merged in any order.
THEOREM SiblingsAreAntichains == Spec => []Antichains
<1>1. Init => Inv
  BY InvInit
<1>2. Inv /\ [Next]_vars => Inv'
  BY InvNext
<1>3. Inv => Antichains
  BY DEF Inv
<1> QED BY <1>1, <1>2, <1>3, PTL DEF Spec

-----------------------------------------------------------------------------
(***************************************************************************)
(* What the quorums promise: an acknowledged put is on a write quorum, a   *)
(* later read sees it, a later put dominates it, clocks count what their   *)
(* nodes wrote and, where a node's own writes know of each other, are the  *)
(* history of a version.                                                   *)
(*                                                                         *)
(* From here on the proofs go by what a step does to the variables (the    *)
(* Effects), not by action, so that they hold as well of the steps of      *)
(* HandoffKV.                                                              *)
(***************************************************************************)

(* Counting replicas *)

LEMMA Thresholds ==
    /\ Cardinality(Prefs) \in Nat
    /\ ReadThreshold \in Nat /\ WriteThreshold \in Nat
    /\ \A S \in SUBSET Prefs : IsFiniteSet(S) /\ Cardinality(S) \in Nat
<1>1. Cardinality(Prefs) \in Nat
  BY RingAssumption, FS_CardinalityType
<1>2. \A S \in SUBSET Prefs : IsFiniteSet(S) /\ Cardinality(S) \in Nat
  BY RingAssumption, FS_Subset, FS_CardinalityType
<1> QED BY <1>1, <1>2, QuorumAssumption DEF ReadThreshold, WriteThreshold, AtMostPrefs

\* A read and a write quorum have a replica in common outside any set of fewer
\* replicas than Overlap.
LEMMA QuorumsMeet ==
    ASSUME NEW A \in SUBSET Prefs, NEW B \in SUBSET Prefs, NEW C \in SUBSET Prefs,
           Cardinality(A) >= ReadThreshold, Cardinality(B) >= WriteThreshold,
           Cardinality(C) < Overlap
    PROVE  \E n \in A \cap B : n \notin C
<1>1. /\ Cardinality(A) \in Nat /\ Cardinality(B) \in Nat /\ Cardinality(C) \in Nat
      /\ Cardinality(A \cap B) \in Nat /\ Cardinality(A \cup B) \in Nat
      /\ IsFiniteSet(A) /\ IsFiniteSet(B) /\ IsFiniteSet(C)
  BY Thresholds
<1>2. Cardinality(A \cup B) = Cardinality(A) + Cardinality(B) - Cardinality(A \cap B)
  BY <1>1, FS_Union
<1>3. Cardinality(A \cup B) <= Cardinality(Prefs)
  BY RingAssumption, FS_Subset
<1>4. Cardinality(A \cap B) > Cardinality(C)
  BY <1>1, <1>2, <1>3, Thresholds DEF Overlap
<1>5. CASE A \cap B \subseteq C
  <2>1. Cardinality(A \cap B) <= Cardinality(C)
    BY <1>1, <1>5, FS_Subset
  <2> QED BY <1>1, <1>4, <2>1
<1> QED BY <1>5

-----------------------------------------------------------------------------
(* Which actions change a variable *)

LEMMA WhoChanges ==
    ASSUME [Next]_vars
    PROVE  /\ \/ UNCHANGED <<store, raced, acked>>
              \/ \E o \in Write, n \in Prefs : StoreLocal(o, n) \/ DeleteLocal(o, n)
           /\ \/ UNCHANGED <<clk, hist>>
              \/ \E p \in Write : MintVersion(p)
           /\ \/ UNCHANGED <<answers, merged>>
              \/ \E o \in Request, n \in Prefs : ServeRead(o, n)
              \/ \E o \in Request : AnswerGet(o)
              \/ \E p \in Write : MintVersion(p)
           /\ \/ UNCHANGED <<before, coord>>
              \/ \E o \in Request, c \in Node : StartRead(o, c)
              \/ \E o \in Write, c \in Node : StartDelete(o, c)
<1> USE DEF replicaVars, requestVars, writeVars, callVars
<1>1. ASSUME NEW o \in Request, ReadStep(o)
      PROVE  /\ UNCHANGED <<store, raced, acked, clk, hist>>
             /\ \/ UNCHANGED <<answers, merged>>
                \/ \E n \in Prefs : ServeRead(o, n)
                \/ AnswerGet(o)
             /\ \/ UNCHANGED <<before, coord>>
                \/ \E c \in Node : StartRead(o, c)
  <2>1. ASSUME NEW c \in Node, StartRead(o, c)
        PROVE  UNCHANGED <<store, raced, acked, clk, hist, answers, merged>>
    BY <2>1 DEF StartRead
  <2>2. ASSUME NEW n \in Prefs, ServeRead(o, n)
        PROVE  UNCHANGED <<store, raced, acked, clk, hist, before, coord>>
    BY <2>2 DEF ServeRead
  <2>3. ASSUME NEW n \in Prefs, MissRead(o, n)
        PROVE  UNCHANGED <<store, raced, acked, clk, hist, before, coord, answers, merged>>
    BY <2>3 DEF MissRead
  <2>4. RefuseRead(o) =>
           UNCHANGED <<store, raced, acked, clk, hist, before, coord, answers, merged>>
    BY DEF RefuseRead
  <2>5. AnswerGet(o) => UNCHANGED <<store, raced, acked, clk, hist, before, coord>>
    BY DEF AnswerGet
  <2> QED BY <1>1, <2>1, <2>2, <2>3, <2>4, <2>5 DEF ReadStep
<1>2. ASSUME NEW o \in Write, WriteStep(o)
      PROVE  /\ UNCHANGED <<store, raced, acked>>
             /\ UNCHANGED <<clk, hist, answers, merged>> \/ MintVersion(o)
             /\ \/ UNCHANGED <<before, coord>>
                \/ \E c \in Node : StartDelete(o, c)
  <2>1. ASSUME NEW c \in Node, StartDelete(o, c)
        PROVE  UNCHANGED <<store, raced, acked, clk, hist, answers, merged>>
    BY <2>1 DEF StartDelete
  <2>2. MintVersion(o) => UNCHANGED <<store, raced, acked, before, coord>>
    BY DEF MintVersion
  <2>3. FanOut(o) \/ AnswerWrite(o) \/ RefuseWrite(o) =>
           UNCHANGED <<store, raced, acked, clk, hist, before, coord, answers, merged>>
    BY DEF FanOut, AnswerWrite, RefuseWrite
  <2> QED BY <1>2, <2>1, <2>2, <2>3 DEF WriteStep
<1>3. ASSUME NEW o \in Write, NEW n \in Prefs, CallStep(o, n)
      PROVE  /\ UNCHANGED <<clk, hist, before, coord, answers, merged>>
             /\ \/ UNCHANGED <<store, raced, acked>>
                \/ StoreLocal(o, n) \/ DeleteLocal(o, n)
  <2>1. LoadLocal(o, n) \/ FailWrite(o, n) =>
           UNCHANGED <<store, raced, acked, clk, hist, before, coord, answers, merged>>
    BY DEF LoadLocal, FailWrite
  <2>2. StoreLocal(o, n) \/ DeleteLocal(o, n) =>
           UNCHANGED <<clk, hist, before, coord, answers, merged>>
    BY DEF StoreLocal, DeleteLocal
  <2> QED BY <1>3, <2>1, <2>2 DEF CallStep
<1>4. ASSUME NEW p \in Put, NEW n \in Prefs, HintStep(p, n)
      PROVE  UNCHANGED <<store, raced, acked, clk, hist, before, coord, answers, merged>>
  BY <1>4 DEF HintStep, DeliverHint, LoseHint, StrayHint
<1>5. UNCHANGED vars =>
         UNCHANGED <<store, raced, acked, clk, hist, before, coord, answers, merged>>
  BY DEF vars
<1> QED BY <1>1, <1>2, <1>3, <1>4, <1>5 DEF Next, Quiesced

\* No request becomes idle again, nor does one that was answered change its
\* answer; a write is answered 200 on a write quorum.
LEMMA PhaseMoves ==
    ASSUME TypeOK, [Next]_vars, NEW o \in Request
    PROVE  /\ phase[o] # "idle" => phase'[o] # "idle"
           /\ phase[o] = "done" => phase'[o] = "done"
           /\ phase'[o] = "done" /\ phase[o] # "done" =>
                  (o \in Get /\ AnswerGet(o)) \/ (o \in Write /\ WriteQuorum(o))
<1> USE DEF replicaVars, requestVars, writeVars, callVars
<1> DEFINE Moves == /\ phase[o] # "idle" => phase'[o] # "idle"
                    /\ phase[o] = "done" => phase'[o] = "done"
                    /\ phase'[o] = "done" /\ phase[o] # "done" =>
                          (o \in Get /\ AnswerGet(o)) \/ (o \in Write /\ WriteQuorum(o))
<1>t. phase \in [Request -> Phase] /\ Write \subseteq Request /\ Put \subseteq Request
  BY DEF TypeOK, Request, Write
<1>1. ASSUME NEW q \in Request, ReadStep(q)
      PROVE  Moves
  <2>1. ASSUME NEW c \in Node, StartRead(q, c)
        PROVE  Moves
    BY <1>t, <2>1 DEF StartRead, MayStart
  <2>2. ASSUME NEW n \in Prefs, ServeRead(q, n) \/ MissRead(q, n)
        PROVE  Moves
    BY <2>2 DEF ServeRead, MissRead
  <2>3. RefuseRead(q) => Moves
    BY <1>t DEF RefuseRead
  <2>4. ASSUME AnswerGet(q)
        PROVE  Moves
    <3>1. q \in Get /\ phase' = [phase EXCEPT ![q] = "done"]
      BY <2>4 DEF AnswerGet
    <3> QED BY <1>t, <2>4, <3>1
  <2> QED BY <1>1, <2>1, <2>2, <2>3, <2>4 DEF ReadStep
<1>2. ASSUME NEW q \in Write, WriteStep(q)
      PROVE  Moves
  <2>1. ASSUME NEW c \in Node, StartDelete(q, c)
        PROVE  Moves
    BY <1>t, <2>1 DEF StartDelete, MayStart
  <2>2. MintVersion(q) => Moves
    BY <1>t DEF MintVersion
  <2>3. FanOut(q) => Moves
    BY <1>t DEF FanOut
  <2>4. AnswerWrite(q) => Moves
    BY <1>t DEF AnswerWrite
  <2>5. RefuseWrite(q) => Moves
    BY <1>t DEF RefuseWrite
  <2> QED BY <1>2, <2>1, <2>2, <2>3, <2>4, <2>5 DEF WriteStep
<1>3. ASSUME NEW q \in Write, NEW n \in Prefs, CallStep(q, n)
      PROVE  Moves
  BY <1>3 DEF CallStep, LoadLocal, StoreLocal, DeleteLocal, FailWrite
<1>4. ASSUME NEW p \in Put, NEW n \in Prefs, HintStep(p, n)
      PROVE  Moves
  BY <1>4 DEF HintStep, DeliverHint, LoseHint, StrayHint
<1>5. UNCHANGED vars => Moves
  BY DEF vars
<1> HIDE DEF Moves
<1>6. Moves
  BY <1>1, <1>2, <1>3, <1>4, <1>5 DEF Next, Quiesced
<1> QED BY <1>6 DEF Moves

-----------------------------------------------------------------------------
(* What a step does, whatever its action *)

\* What is never taken back.
Lasting ==
    /\ raced \subseteq raced'
    /\ NoDelete' => NoDelete
    /\ \A p \in Put : /\ Minted(p) => Minted(p)' /\ clk'[p] = clk[p]
                      /\ phase[p] = "done" => phase'[p] = "done"
                      /\ acked[p] \subseteq acked'[p]

\* A replica forgets only in a race or by a delete, and a new acknowledgement
\* comes with the version, or a newer one, stored.
Storing ==
    /\ \A n \in Prefs :
          \/ n \in raced'
          \/ \E d \in Delete : <<d, n>> \in sent \ sent'
          \/ \A v \in store[n] : Covers(clk', store'[n], clk[v])
    /\ \A p \in Put : \A n \in acked'[p] \ acked[p] :
          Minted(p) /\ Covers(clk', store'[n], clk'[p])

\* A read fan-out begins, with what is acknowledged then; or gets one answer more
\* from a replica that had not answered; or goes on as it was, or ends.
Asking(o) ==
    \/ /\ phase[o] = "idle" /\ before'[o] = {q \in Write : phase[q] = "done"}
       /\ answers'[o] = answers[o]
    \/ \E n \in Prefs :
          /\ n \notin Answered(o) /\ before'[o] = before[o]
          /\ answers'[o] = answers[o] \cup {[from |-> n, versions |-> store[n]]}
    \/ before'[o] = before[o] /\ answers'[o] \subseteq answers[o]

\* A request that has its merged read keeps it; a new one is that of a quorum.
Merging(o) ==
    \/ HasRead(o)' => HasRead(o) /\ merged'[o] = merged[o]
    \/ /\ ReadQuorum(o) /\ phase[o] = "read"
       /\ \E order \in Arrival(o) : merged'[o] = MergedRead(order)

\* At most one version is minted, on top of versions minted before.
Mints(p, read) ==
    /\ ~ Minted(p) /\ Minted(p)' /\ coord[p] \in Node /\ coord' = coord
    /\ \A v \in read : Minted(v)
    /\ merged' = [merged EXCEPT ![p] = read]
    /\ clk' = [clk EXCEPT ![p] = NewClock(read, coord[p])]
    /\ hist' = [hist EXCEPT ![p] = {p} \cup UNION {hist[v] : v \in read}]

Minting ==
    \/ \E p \in Put, read \in SUBSET Put : Mints(p, read)
    \/ /\ UNCHANGED <<clk, hist>>
       /\ \A p \in Put : Minted(p) => coord'[p] = coord[p] /\ merged'[p] = merged[p]

Effects ==
    /\ Lasting /\ Storing /\ Minting
    /\ \A p \in Put : phase'[p] = "done" => phase[p] = "done" \/ WriteQuorum(p)
    /\ \A o \in Request : Asking(o)
    /\ \A o \in Put \cup Get : Merging(o)
    /\ \A o \in Request :
          phase'[o] = "idle" => phase[o] = "idle" /\ answers'[o] = answers[o]

\* A version is minted by one put, on top of what its merged read returned.
LEMMA MintingNext ==
    ASSUME Inv, [Next]_vars
    PROVE  Minting
<1>t. TypeOK /\ MintedInPlay /\ Coordinated /\ clk \in [Put -> Clock]
  BY DEF Inv, TypeOK
<1>1. ASSUME NEW p \in Write, MintVersion(p)
      PROVE  Minting
  <2>1. PICK order \in Arrival(p) :
           /\ merged' = [merged EXCEPT ![p] = MergedRead(order)]
           /\ clk' = [clk EXCEPT ![p] = NewClock(MergedRead(order), coord[p])]
           /\ hist' = [hist EXCEPT ![p] = {p} \cup UNION {hist[v] : v \in MergedRead(order)}]
    BY <1>1 DEF MintVersion
  <2> DEFINE read == MergedRead(order)
  <2>2. p \in Put /\ p \in Request /\ phase[p] = "read" /\ coord' = coord
    BY <1>1 DEF MintVersion, Request
  <2>3. read \in SUBSET Put /\ \A v \in read : Minted(v)
    BY <1>t, <2>2, MergedReadAntichain, MergedReadIsAnswered DEF MintedInPlay
  <2> HIDE DEF read
  <2>4. coord[p] \in Node /\ ~ Minted(p)
    BY <1>t, <2>2 DEF Coordinated, MintedInPlay
  <2>5. clk'[p] = NewClock(read, coord[p])
    BY <1>t, <2>1, <2>2 DEF read
  <2>6. Minted(p)'
    BY <1>t, <2>3, <2>4, <2>5, NewClockDominates DEF Minted
  <2>7. Mints(p, read)
    BY <2>1, <2>2, <2>3, <2>4, <2>6 DEF Mints, read
  <2> QED BY <2>2, <2>3, <2>7 DEF Minting
<1>2. ASSUME UNCHANGED <<clk, hist>>
      PROVE  Minting \/ \E p \in Write : MintVersion(p)
  <2>1. ASSUME NEW p \in Put, Minted(p), ~ \E q \in Write : MintVersion(q)
        PROVE  coord'[p] = coord[p] /\ merged'[p] = merged[p]
    <3>1. phase[p] # "idle" /\ p \in Request /\ p \notin Get
      BY <1>t, <2>1, RequestAssumption DEF MintedInPlay, Request
    <3>2. coord'[p] = coord[p]
      <4>1. ASSUME NEW o \in Request, NEW c \in Node, StartRead(o, c) \/ StartDelete(o, c)
            PROVE  coord'[p] = coord[p]
        <5>1. o # p /\ coord' = [coord EXCEPT ![o] = c]
          BY <3>1, <4>1 DEF StartRead, StartDelete, MayStart
        <5> QED BY <1>t, <3>1, <5>1 DEF TypeOK
      <4>2. Write \subseteq Request
        BY DEF Write, Request
      <4> QED BY <4>1, <4>2, WhoChanges
    <3>3. merged'[p] = merged[p]
      <4>1. ASSUME NEW o \in Request, AnswerGet(o)
            PROVE  merged'[p] = merged[p]
        <5>1. o # p /\ \E x : merged' = [merged EXCEPT ![o] = x]
          BY <3>1, <4>1 DEF AnswerGet
        <5> QED BY <1>t, <3>1, <5>1 DEF TypeOK
      <4>2. ASSUME NEW o \in Request, NEW n \in Prefs, ServeRead(o, n)
            PROVE  merged'[p] = merged[p]
        BY <4>2 DEF ServeRead
      <4> QED BY <2>1, <4>1, <4>2, WhoChanges
    <3> QED BY <3>2, <3>3
  <2> QED BY <1>2, <2>1 DEF Minting
<1> QED BY <1>1, <1>2, WhoChanges

\* The clock of a version never changes.
LEMMA MintedKeepClock ==
    ASSUME Inv, [Next]_vars, NEW p \in Put, Minted(p)
    PROVE  Minted(p)' /\ clk'[p] = clk[p]
<1>1. clk \in [Put -> Clock]
  BY DEF Inv, TypeOK
<1>2. clk'[p] = clk[p]
  BY <1>1, MintingNext DEF Minting, Mints
<1> QED BY <1>2 DEF Minted

\* The step of put_local that writes, and that of a delete.
LEMMA StoringNext ==
    ASSUME Inv, [Next]_vars
    PROVE  Storing /\ raced \subseteq raced' /\ \A p \in Put : acked[p] \subseteq acked'[p]
<1> DEFINE Grows == raced \subseteq raced' /\ \A p \in Put : acked[p] \subseteq acked'[p]
<1>t. TypeOK /\ MintedInPlay /\ clk \in [Put -> Clock] /\ Put \subseteq Write
  BY DEF Inv, TypeOK, Write
<1>s. ASSUME NEW S \in SUBSET Put, NEW v \in S
      PROVE  Covers(clk, S, clk[v])
  <2>1. clk[v] \in Clock
    BY <1>t
  <2> QED BY <2>1, DominanceOrder DEF Covers
<1>1. ASSUME NEW o \in Write, NEW n \in Prefs, StoreLocal(o, n)
      PROVE  Storing /\ Grows
  <2>1. PICK h \in loading :
           /\ h.put = o /\ h.at = n
           /\ store' = [store EXCEPT ![n] = Reconcile(clk, h.base, o)]
           /\ raced' = IF h.base = store[n] THEN raced ELSE raced \cup {n}
    BY <1>1 DEF StoreLocal
  <2>2. o \in Put /\ h.base \in SUBSET Put /\ Minted(o)
    BY <1>t, <2>1 DEF TypeOK, MintedInPlay
  <2>3. clk' = clk
    BY <1>1 DEF StoreLocal, writeVars
  <2>4. /\ Covers(clk, Reconcile(clk, h.base, o), clk[o])
        /\ \A c \in Clock : Covers(clk, h.base, c) => Covers(clk, Reconcile(clk, h.base, o), c)
    BY <1>t, <2>2, ReconcileCovers
  <2>5. store'[n] = Reconcile(clk, h.base, o) /\ \A m \in Prefs \ {n} : store'[m] = store[m]
    BY <1>t, <2>1 DEF TypeOK
  <2>6. ASSUME NEW m \in Prefs, m \notin raced', NEW v \in store[m]
        PROVE  Covers(clk', store'[m], clk[v])
    <3>1. store[m] \in SUBSET Put /\ clk[v] \in Clock
      BY <1>t DEF TypeOK
    <3>2. Covers(clk, store[m], clk[v])
      BY <1>s, <3>1
    <3>3. CASE m = n
      <4>1. h.base = store[n]
        BY <2>1, <2>6, <3>3
      <4> QED BY <2>3, <2>4, <2>5, <3>1, <3>2, <3>3, <4>1
    <3>4. CASE m # n
      BY <2>3, <2>5, <3>2, <3>4
    <3> QED BY <3>3, <3>4
  <2>7. acked' = acked \/ acked' = [acked EXCEPT ![o] = @ \cup {n}]
    BY <1>1 DEF StoreLocal, Ack
  <2>8. \A p \in Put : /\ acked[p] \subseteq acked'[p]
                       /\ \A m \in acked'[p] \ acked[p] : p = o /\ m = n
    BY <1>t, <2>7 DEF TypeOK
  <2>9. raced \subseteq raced'
    BY <2>1
  <2> QED BY <2>2, <2>3, <2>4, <2>5, <2>6, <2>8, <2>9 DEF Storing
<1>2. ASSUME NEW o \in Write, NEW n \in Prefs, DeleteLocal(o, n)
      PROVE  Storing /\ Grows
  <2>1. /\ o \in Delete /\ <<o, n>> \in sent \ sent'
        /\ store' = [store EXCEPT ![n] = {}]
        /\ clk' = clk /\ raced' = raced
    BY <1>2 DEF DeleteLocal, writeVars
  <2>2. \A m \in Prefs \ {n} : store'[m] = store[m]
    BY <1>t, <2>1 DEF TypeOK
  <2>3. acked' = acked \/ acked' = [acked EXCEPT ![o] = @ \cup {n}]
    BY <1>2 DEF DeleteLocal, Ack
  <2>4. o \notin Put
    BY <2>1, RequestAssumption
  <2>5. \A p \in Put : acked'[p] = acked[p]
    BY <1>t, <2>3, <2>4 DEF TypeOK
  <2>6. ASSUME NEW m \in Prefs \ {n}, NEW v \in store[m]
        PROVE  Covers(clk', store'[m], clk[v])
    <3>1. store[m] \in SUBSET Put
      BY <1>t DEF TypeOK
    <3> QED BY <1>s, <2>1, <2>2, <3>1
  <2> QED BY <2>1, <2>5, <2>6 DEF Storing
<1>3. ASSUME UNCHANGED <<store, raced, acked>>
      PROVE  Storing /\ Grows
  <2>1. ASSUME NEW m \in Prefs, NEW v \in store[m]
        PROVE  Covers(clk', store[m], clk[v])
    <3>1. store[m] \in SUBSET Put /\ Minted(v) /\ v \in Put
      BY <1>t DEF TypeOK, MintedInPlay
    <3>2. Covers(clk, {v}, clk[v])
      BY <1>s, <3>1
    <3>3. clk'[v] = clk[v]
      BY <3>1, MintedKeepClock
    <3> QED BY <3>2, <3>3 DEF Covers
  <2> QED BY <1>3, <2>1 DEF Storing
<1> QED BY <1>1, <1>2, <1>3, WhoChanges

\* A read fan-out, from the moment it begins.
LEMMA AskingNext ==
    ASSUME Inv, [Next]_vars, NEW o \in Request
    PROVE  Asking(o)
<1>t. TypeOK /\ Write \subseteq Request
  BY DEF Inv, Request, Write
<1>1. CASE UNCHANGED <<before, answers>>
  BY <1>1 DEF Asking
<1>2. ASSUME NEW q \in Request, NEW c \in Node, StartRead(q, c) \/ StartDelete(q, c)
      PROVE  Asking(o)
  <2>1. /\ phase[q] = "idle" /\ answers' = answers
        /\ before' = [before EXCEPT ![q] = {w \in Write : phase[w] = "done"}]
    BY <1>2 DEF StartRead, StartDelete, MayStart
  <2> QED BY <1>t, <2>1 DEF TypeOK, Asking
<1>3. ASSUME NEW q \in Request, NEW n \in Prefs, ServeRead(q, n)
      PROVE  Asking(o)
  <2>1. /\ n \notin Answered(q) /\ before' = before
        /\ answers' = [answers EXCEPT ![q] = @ \cup {[from |-> n, versions |-> store[n]]}]
    BY <1>3 DEF ServeRead, Reading
  <2>2. CASE o = q
    BY <1>t, <2>1, <2>2 DEF TypeOK, Asking
  <2>3. CASE o # q
    BY <1>t, <2>1, <2>3 DEF TypeOK, Asking
  <2> QED BY <2>2, <2>3
<1>4. ASSUME NEW q \in Request, AnswerGet(q) \/ MintVersion(q)
      PROVE  Asking(o)
  <2>1. before' = before /\ answers' = [answers EXCEPT ![q] = {}]
    BY <1>4 DEF AnswerGet, MintVersion
  <2> QED BY <1>t, <2>1 DEF TypeOK, Asking
<1> QED BY <1>t, <1>1, <1>2, <1>3, <1>4, WhoChanges

\* What a request read is decided once, by a quorum of answers.
LEMMA MergingNext ==
    ASSUME Inv, [Next]_vars, NEW o \in Put \cup Get
    PROVE  Merging(o)
<1>t. TypeOK /\ MintedInPlay /\ o \in Request /\ clk \in [Put -> Clock]
  BY DEF Inv, TypeOK, Request
<1>1. CASE o \in Put
  <2>1. ASSUME HasRead(o)', ~ HasRead(o)
        PROVE  \E read \in SUBSET Put : Mints(o, read)
    <3>1. Minted(o)' /\ ~ Minted(o)
      BY <1>1, <2>1, RequestAssumption DEF HasRead
    <3>2. clk'[o] # clk[o]
      BY <3>1 DEF Minted
    <3>3. PICK p \in Put, read \in SUBSET Put : Mints(p, read)
      BY <3>2, MintingNext DEF Minting
    <3>4. p = o
      BY <1>1, <1>t, <3>2, <3>3 DEF Mints
    <3> QED BY <3>3, <3>4
  <2>2. ASSUME HasRead(o)', HasRead(o)
        PROVE  merged'[o] = merged[o]
    <3>1. Minted(o)
      BY <1>1, <2>2, RequestAssumption DEF HasRead
    <3> QED BY <1>1, <1>t, <3>1, MintingNext DEF TypeOK, Minting, Mints
  <2>3. ASSUME HasRead(o)', ~ HasRead(o)
        PROVE  Merging(o)
    <3>1. clk' # clk
      BY <2>1, <2>3 DEF Mints, Minted
    <3>2. PICK p \in Write : MintVersion(p)
      BY <3>1, WhoChanges
    <3>3. PICK order \in Arrival(p) :
             /\ merged' = [merged EXCEPT ![p] = MergedRead(order)]
             /\ clk' = [clk EXCEPT ![p] = NewClock(MergedRead(order), coord[p])]
      BY <3>2 DEF MintVersion
    <3>4. phase[p] = "read" /\ ReadQuorum(p)
      BY <3>2 DEF MintVersion
    <3>5. p = o
      BY <1>1, <1>t, <2>1, <2>3, <3>3 DEF Mints, Minted
    <3>6. merged'[o] = MergedRead(order)
      BY <1>t, <3>3, <3>5 DEF TypeOK
    <3> QED BY <3>3, <3>4, <3>5, <3>6 DEF Merging
  <2> QED BY <2>2, <2>3 DEF Merging
<1>2. CASE o \in Get
  <2>1. o \notin Write
    BY <1>2, RequestAssumption DEF Write
  <2>2. HasRead(o) <=> phase[o] = "done"
    BY <1>2 DEF HasRead
  <2>3. HasRead(o)' <=> phase'[o] = "done"
    BY <1>2 DEF HasRead
  <2>4. ASSUME phase'[o] = "done", phase[o] # "done"
        PROVE  Merging(o)
    <3>1. AnswerGet(o)
      BY <1>t, <2>1, <2>4, PhaseMoves
    <3>2. PICK order \in Arrival(o) : merged' = [merged EXCEPT ![o] = MergedRead(order)]
      BY <3>1 DEF AnswerGet
    <3>3. merged'[o] = MergedRead(order)
      BY <1>t, <3>2 DEF TypeOK
    <3>4. phase[o] = "read" /\ ReadQuorum(o)
      BY <3>1 DEF AnswerGet
    <3> QED BY <3>2, <3>3, <3>4 DEF Merging
  <2>5. ASSUME phase[o] = "done"
        PROVE  merged'[o] = merged[o]
    <3>1. ASSUME NEW q \in Request, AnswerGet(q) \/ MintVersion(q)
          PROVE  merged'[o] = merged[o]
      <4>1. phase[q] = "read" /\ \E x : merged' = [merged EXCEPT ![q] = x]
        BY <3>1 DEF AnswerGet, MintVersion
      <4> QED BY <1>t, <2>5, <4>1 DEF TypeOK
    <3>2. ASSUME NEW q \in Request, NEW n \in Prefs, ServeRead(q, n)
          PROVE  merged'[o] = merged[o]
      BY <3>2 DEF ServeRead
    <3>3. Write \subseteq Request
      BY DEF Write, Request
    <3> QED BY <3>1, <3>2, <3>3, WhoChanges
  <2> QED BY <2>2, <2>3, <2>4, <2>5 DEF Merging
<1> QED BY <1>1, <1>2

LEMMA EffectsNext ==
    ASSUME Inv, [Next]_vars
    PROVE  Effects
<1>t. TypeOK /\ Put \subseteq Request /\ Put \subseteq Write /\ Delete \subseteq Request
  BY DEF Inv, Request, Write
<1>1. Lasting
  <2>1. \A p \in Put : Minted(p) => Minted(p)' /\ clk'[p] = clk[p]
    BY MintedKeepClock
  <2>2. \A p \in Put : phase[p] = "done" => phase'[p] = "done"
    BY <1>t, PhaseMoves
  <2>3. NoDelete' => NoDelete
    BY <1>t, PhaseMoves DEF NoDelete
  <2> QED BY <2>1, <2>2, <2>3, StoringNext DEF Lasting
<1>2. \A p \in Put : phase'[p] = "done" => phase[p] = "done" \/ WriteQuorum(p)
  BY <1>t, PhaseMoves, RequestAssumption
<1>3. \A o \in Request : Asking(o)
  BY AskingNext
<1>4. \A o \in Put \cup Get : Merging(o)
  BY MergingNext
<1>5. ASSUME NEW o \in Request, phase'[o] = "idle"
      PROVE  phase[o] = "idle" /\ answers'[o] = answers[o]
  <2>1. phase[o] = "idle"
    BY <1>t, <1>5, PhaseMoves
  <2>2. ASSUME NEW q \in Request, AnswerGet(q) \/ MintVersion(q)
        PROVE  answers'[o] = answers[o]
    <3>1. phase[q] = "read" /\ answers' = [answers EXCEPT ![q] = {}]
      BY <2>2 DEF AnswerGet, MintVersion
    <3> QED BY <1>t, <2>1, <3>1 DEF TypeOK
  <2>3. ASSUME NEW q \in Request, NEW n \in Prefs, ServeRead(q, n)
        PROVE  answers'[o] = answers[o]
    <3>1. phase[q] = "read" /\ \E x : answers' = [answers EXCEPT ![q] = x]
      BY <2>3 DEF ServeRead, Reading
    <3> QED BY <1>t, <2>1, <3>1 DEF TypeOK
  <2>4. Write \subseteq Request
    BY DEF Write, Request
  <2> QED BY <2>1, <2>2, <2>3, <2>4, WhoChanges
<1> QED BY <1>1, <1>2, <1>3, <1>4, <1>5, StoringNext, MintingNext DEF Effects

-----------------------------------------------------------------------------
(* Merged reads of a quorum *)

\* Each answer stands in one list of the merge.
LEMMA MergedReadCovers ==
    ASSUME TypeOK, NEW o \in Request, NEW order \in Arrival(o),
           NEW a \in answers[o], NEW c \in Clock, Covers(clk, a.versions, c)
    PROVE  Covers(clk, MergedRead(order), c)
<1> DEFINE k == Cardinality(answers[o])
           lists == [i \in DOMAIN order |-> order[i].versions]
<1>1. answers[o] \in SUBSET [from : Prefs, versions : SUBSET Put] /\ clk \in [Put -> Clock]
  BY DEF TypeOK
<1>2. IsFiniteSet(answers[o]) /\ k \in Nat
  BY <1>1, AnswersFinite
<1>3. /\ order \in [1..k -> answers[o]] /\ DOMAIN order = 1..k
      /\ \A i, j \in 1..k : i # j => order[i] # order[j]
  BY DEF Arrival
<1>4. lists \in [1..k -> SUBSET Put]
  BY <1>1, <1>3
<1>5. PICK i \in 1..k : order[i] = a
  <2>1. order \in Injection(1..k, answers[o])
    BY <1>3 DEF Injection, IsInjective
  <2>2. IsFiniteSet(1..k) /\ Cardinality(1..k) = k
    BY <1>2, FS_Interval
  <2>3. order \in Surjection(1..k, answers[o])
    <3> HIDE DEF k
    <3>1. Cardinality(1..k) = Cardinality(answers[o])
      BY <2>2 DEF k
    <3> QED BY <1>2, <2>1, <3>1, FS_Injection
  <2> QED BY <2>3 DEF Surjection
<1>6. Covers(clk, lists[i], c)
  BY <1>3, <1>5
<1>7. MergedRead(order) = MergeInOrder(clk, lists)
  BY DEF MergedRead
<1> HIDE DEF lists, k
<1> QED BY <1>1, <1>2, <1>4, <1>6, <1>7, RequestAssumption, MergeCovers

-----------------------------------------------------------------------------
(* The invariant *)

DeletesBegun == \A d \in Delete, n \in Prefs : <<d, n>> \in sent => phase[d] # "idle"

AckedMinted == \A p \in Put : acked[p] # {} => Minted(p)

\* An acknowledgement of a put is worth what the replica stores now.
AckedIsStored ==
    NoDelete => \A p \in Put : \A n \in acked[p] \ raced : Covers(clk, store[n], clk[p])

DoneHasQuorum == \A p \in Put : phase[p] = "done" => WriteQuorum(p)

IdleUnanswered == \A o \in Request : phase[o] = "idle" => answers[o] = {}

OneAnswerEach == \A o \in Request : \A a, b \in answers[o] : a.from = b.from => a = b

\* The put p was acknowledged before the request o began, so there is a write
\* quorum that had acknowledged it: an answer from there knows of p.  Replicas
\* that acknowledge p later do not count, they may have answered o before.
SeesQuorum(o, p) ==
    /\ phase[p] = "done"
    /\ \E Q \in SUBSET acked[p] :
          /\ Cardinality(Q) >= WriteThreshold
          /\ NoDelete => \A a \in answers[o] :
                            a.from \in Q \ raced => Covers(clk, a.versions, clk[p])

AnswersSeeQuorum == \A o \in Request : \A p \in before[o] \cap Put : SeesQuorum(o, p)

\* A version supersedes all that its put read.
MintedOnRead ==
    \A q \in Put : Minted(q) =>
        \A v \in merged[q] : /\ DominatesOrEqual(clk[q], clk[v])
                             /\ ~ DominatesOrEqual(clk[v], clk[q])

QuorumInv ==
    /\ Inv
    /\ DeletesBegun /\ AckedMinted /\ AckedIsStored /\ DoneHasQuorum
    /\ IdleUnanswered /\ OneAnswerEach /\ AnswersSeeQuorum
    /\ MintedOnRead /\ ReadSeesAcked

LEMMA QuorumInvInit == Init => QuorumInv
<1> SUFFICES ASSUME Init PROVE QuorumInv
  OBVIOUS
<1> USE DEF Init
<1>1. Inv
  BY InvInit
<1>2. DeletesBegun /\ AckedMinted /\ AckedIsStored
  BY DEF DeletesBegun, AckedMinted, AckedIsStored, Write
<1>3. DoneHasQuorum /\ IdleUnanswered /\ OneAnswerEach
  BY DEF DoneHasQuorum, IdleUnanswered, OneAnswerEach, Request
<1>4. AnswersSeeQuorum
  BY DEF AnswersSeeQuorum
<1>5. MintedOnRead
  BY DEF MintedOnRead, Minted
<1>6. ReadSeesAcked
  BY DEF ReadSeesAcked, Request
<1> QED BY <1>1, <1>2, <1>3, <1>4, <1>5, <1>6 DEF QuorumInv

\* What a list of minted versions covers, it covers after any step.
LEMMA CoversStays ==
    ASSUME Lasting, NEW S \in SUBSET Put, \A v \in S : Minted(v),
           NEW p \in Put, Minted(p), Covers(clk, S, clk[p])
    PROVE  Covers(clk', S, clk'[p])
BY DEF Lasting, Covers

LEMMA DeletesBegunNext ==
    ASSUME TypeOK, DeletesBegun, [Next]_vars
    PROVE  DeletesBegun'
<1> SUFFICES ASSUME NEW d \in Delete, NEW n \in Prefs, <<d, n>> \in sent'
             PROVE  phase'[d] # "idle"
  BY DEF DeletesBegun
<1> USE DEF replicaVars, requestVars, writeVars, callVars
<1>t. d \in Request /\ d \in Write /\ d \notin Put /\ phase \in [Request -> Phase]
  BY RequestAssumption DEF TypeOK, Request, Write
<1>1. CASE <<d, n>> \in sent
  BY <1>t, <1>1, PhaseMoves DEF DeletesBegun
<1>2. CASE <<d, n>> \notin sent
  <2>1. ASSUME NEW o \in Write, NEW c \in Node, StartDelete(o, c)
        PROVE  phase'[d] # "idle"
    <3>1. o = d
      BY <1>2, <2>1 DEF StartDelete
    <3> QED BY <1>t, <2>1, <3>1 DEF StartDelete
  <2>2. ASSUME NEW o \in Write, FanOut(o)
        PROVE  FALSE
    BY <1>t, <1>2, <2>2 DEF FanOut
  <2>3. ASSUME NEW o \in Request, ReadStep(o)
        PROVE  sent' = sent
    BY <2>3 DEF ReadStep, StartRead, ServeRead, MissRead, RefuseRead, AnswerGet
  <2>4. ASSUME NEW o \in Write, MintVersion(o) \/ AnswerWrite(o) \/ RefuseWrite(o)
        PROVE  sent' = sent
    BY <2>4 DEF MintVersion, AnswerWrite, RefuseWrite
  <2>5. ASSUME NEW o \in Write, NEW m \in Prefs, CallStep(o, m)
        PROVE  sent' \subseteq sent
    BY <2>5 DEF CallStep, LoadLocal, StoreLocal, DeleteLocal, FailWrite
  <2>6. ASSUME NEW p \in Put, NEW m \in Prefs, HintStep(p, m)
        PROVE  sent' = sent
    BY <2>6 DEF HintStep, DeliverHint, LoseHint, StrayHint
  <2>7. UNCHANGED vars => sent' = sent
    BY DEF vars
  <2> QED BY <1>2, <2>1, <2>2, <2>3, <2>4, <2>5, <2>6, <2>7 DEF Next, WriteStep, Quiesced
<1> QED BY <1>1, <1>2

\* As long as no delete began, a replica outside a race covers what it covered.
LEMMA StoreKeepsCovering ==
    ASSUME TypeOK, TypeOK', DeletesBegun, Effects, NoDelete',
           NEW n \in Prefs, n \notin raced', NEW c \in Clock, Covers(clk, store[n], c)
    PROVE  Covers(clk', store'[n], c)
<1>1. \A d \in Delete : <<d, n>> \notin sent
  BY DEF Effects, Lasting, NoDelete, DeletesBegun
<1>2. \A v \in store[n] : Covers(clk', store'[n], clk[v])
  BY <1>1 DEF Effects, Storing
<1>3. /\ store[n] \in SUBSET Put /\ store'[n] \in SUBSET Put
      /\ clk \in [Put -> Clock] /\ clk' \in [Put -> Clock]
  BY DEF TypeOK
<1> QED BY <1>2, <1>3, CoversThrough

LEMMA AckedIsStoredNext ==
    ASSUME QuorumInv, TypeOK', Effects
    PROVE  AckedMinted' /\ AckedIsStored'
<1>t. /\ TypeOK /\ DeletesBegun /\ AckedMinted /\ AckedIsStored
      /\ clk \in [Put -> Clock]
      /\ acked' \in [Write -> SUBSET Prefs] /\ Put \subseteq Write
  BY DEF QuorumInv, Inv, TypeOK, Write
<1>l. Lasting /\ Storing
  BY DEF Effects
<1>1. AckedMinted'
  <2> SUFFICES ASSUME NEW p \in Put, NEW n \in acked'[p]
               PROVE  Minted(p)'
    BY DEF AckedMinted
  <2>1. Minted(p)
    BY <1>t, <1>l DEF AckedMinted, Storing
  <2> QED BY <1>l, <2>1 DEF Lasting
<1>2. AckedIsStored'
  <2> SUFFICES ASSUME NoDelete', NEW p \in Put, NEW n \in acked'[p], n \notin raced'
               PROVE  Covers(clk', store'[n], clk'[p])
    BY DEF AckedIsStored
  <2>1. n \in Prefs /\ NoDelete /\ n \notin raced
    BY <1>t, <1>l DEF Lasting
  <2>2. CASE n \in acked[p]
    <3>1. Covers(clk, store[n], clk[p])
      BY <1>t, <2>1, <2>2 DEF AckedIsStored
    <3>2. clk[p] \in Clock /\ clk'[p] = clk[p]
      BY <1>t, <1>l, <2>2 DEF AckedMinted, Lasting
    <3> QED BY <1>t, <2>1, <3>1, <3>2, StoreKeepsCovering
  <2>3. CASE n \notin acked[p]
    BY <1>l, <2>3 DEF Storing
  <2> QED BY <2>2, <2>3
<1> QED BY <1>1, <1>2

LEMMA DoneHasQuorumNext ==
    ASSUME QuorumInv, TypeOK', Effects
    PROVE  DoneHasQuorum'
<1> SUFFICES ASSUME NEW p \in Put, phase'[p] = "done"
             PROVE  WriteQuorum(p)'
  BY DEF DoneHasQuorum
<1>1. WriteQuorum(p)
  BY DEF QuorumInv, DoneHasQuorum, Effects
<1>2. p \in Write /\ acked[p] \subseteq acked'[p]
  BY DEF Effects, Lasting, Write
<1>3. acked[p] \in SUBSET Prefs /\ acked'[p] \in SUBSET Prefs
  BY <1>2 DEF QuorumInv, Inv, TypeOK
<1>4. /\ IsFiniteSet(acked'[p]) /\ Cardinality(acked'[p]) \in Nat
      /\ Cardinality(acked[p]) \in Nat /\ WriteThreshold \in Nat
  BY <1>3, Thresholds
<1>5. Cardinality(acked[p]) <= Cardinality(acked'[p])
  BY <1>2, <1>4, FS_Subset
<1>6. Cardinality(acked'[p]) >= WriteThreshold
  BY <1>1, <1>4, <1>5 DEF WriteQuorum
<1> QED BY <1>6 DEF WriteQuorum, WriteThreshold, AtMostPrefs

LEMMA AnswersNext ==
    ASSUME QuorumInv, TypeOK', Effects
    PROVE  IdleUnanswered' /\ OneAnswerEach'
<1>t. IdleUnanswered /\ OneAnswerEach
  BY DEF QuorumInv
<1>1. IdleUnanswered'
  BY <1>t DEF IdleUnanswered, Effects
<1>2. ASSUME NEW o \in Request
      PROVE  \A a, b \in answers'[o] : a.from = b.from => a = b
  <2>1. CASE answers'[o] \subseteq answers[o]
    BY <1>t, <2>1 DEF OneAnswerEach
  <2>2. ASSUME NEW n \in Prefs, n \notin Answered(o),
               answers'[o] = answers[o] \cup {[from |-> n, versions |-> store[n]]}
        PROVE  \A a, b \in answers'[o] : a.from = b.from => a = b
    BY <1>t, <2>2 DEF OneAnswerEach, Answered
  <2>3. Asking(o)
    BY DEF Effects
  <2> QED BY <2>1, <2>2, <2>3 DEF Asking
<1> QED BY <1>1, <1>2 DEF OneAnswerEach

LEMMA AnswersSeeQuorumNext ==
    ASSUME QuorumInv, TypeOK', Effects
    PROVE  AnswersSeeQuorum'
<1> SUFFICES ASSUME NEW o \in Request, NEW p \in before'[o] \cap Put
             PROVE  SeesQuorum(o, p)'
  BY DEF AnswersSeeQuorum
<1>t. /\ TypeOK /\ MintedInPlay /\ AckedIsStored /\ AnswersSeeQuorum
      /\ IdleUnanswered /\ DoneHasQuorum
      /\ p \in Request /\ p \in Write /\ Lasting /\ Asking(o)
  BY DEF QuorumInv, Inv, Effects, Request, Write
<1>a. /\ acked[p] \in SUBSET Prefs /\ acked[p] \subseteq acked'[p]
      /\ \A a \in answers[o] : a.versions \in SUBSET Put /\ \A v \in a.versions : Minted(v)
      /\ \A n \in Prefs : store[n] \in SUBSET Put /\ \A v \in store[n] : Minted(v)
  BY <1>t DEF TypeOK, Lasting, MintedInPlay
<1>q. \A Q \in SUBSET acked[p] : Cardinality(Q) >= WriteThreshold =>
        Q \in SUBSET acked'[p] /\ Cardinality(Q) >= WriteThreshold'
  BY <1>a DEF WriteThreshold, AtMostPrefs
<1>1. ASSUME phase[p] = "done", NEW a \in answers[o], Covers(clk, a.versions, clk[p])
      PROVE  Covers(clk', a.versions, clk'[p])
  <2>1. Minted(p)
    BY <1>t, <1>1 DEF MintedInPlay
  <2> QED BY <1>t, <1>a, <1>1, <2>1, CoversStays
<1>2. CASE p \in before[o] /\ before'[o] = before[o]
  <2>1. phase[p] = "done" /\ phase'[p] = "done" /\ Minted(p)
    BY <1>t, <1>2 DEF AnswersSeeQuorum, SeesQuorum, Lasting, MintedInPlay
  <2>2. PICK Q \in SUBSET acked[p] :
           /\ Cardinality(Q) >= WriteThreshold
           /\ NoDelete => \A a \in answers[o] :
                             a.from \in Q \ raced => Covers(clk, a.versions, clk[p])
    BY <1>t, <1>2 DEF AnswersSeeQuorum, SeesQuorum
  <2>3. ASSUME NoDelete', NEW a \in answers'[o], a.from \in Q \ raced'
        PROVE  Covers(clk', a.versions, clk'[p])
    <3>1. NoDelete /\ a.from \notin raced
      BY <1>t, <2>3 DEF Lasting
    <3>2. CASE a \in answers[o]
      BY <1>1, <2>1, <2>2, <2>3, <3>1, <3>2
    <3>3. ASSUME NEW n \in Prefs, a = [from |-> n, versions |-> store[n]]
          PROVE  Covers(clk', a.versions, clk'[p])
      <4>1. n \in acked[p] \ raced
        BY <2>2, <2>3, <3>1, <3>3
      <4>2. Covers(clk, store[n], clk[p])
        BY <1>t, <3>1, <4>1 DEF AckedIsStored
      <4>3. Covers(clk', store[n], clk'[p])
        BY <1>t, <1>a, <2>1, <4>2, CoversStays
      <4> QED BY <3>3, <4>3
    <3>4. a \in answers[o] \/ \E n \in Prefs : a = [from |-> n, versions |-> store[n]]
      BY <1>2, <1>t, <2>3 DEF Asking
    <3> QED BY <3>2, <3>3, <3>4
  <2> QED BY <1>q, <2>1, <2>2, <2>3 DEF SeesQuorum
<1>3. CASE phase[o] = "idle" /\ before'[o] = {q \in Write : phase[q] = "done"}
           /\ answers'[o] = answers[o]
  <2>1. phase[p] = "done" /\ phase'[p] = "done" /\ answers'[o] = {}
    BY <1>t, <1>3 DEF Lasting, IdleUnanswered
  <2>2. Cardinality(acked[p]) >= WriteThreshold
    BY <1>t, <2>1 DEF DoneHasQuorum, WriteQuorum
  <2>3. acked[p] \in SUBSET acked'[p] /\ Cardinality(acked[p]) >= WriteThreshold'
    BY <1>q, <2>2
  <2> QED BY <2>1, <2>3 DEF SeesQuorum
<1> QED BY <1>2, <1>3, <1>t DEF Asking

LEMMA MintedOnReadNext ==
    ASSUME QuorumInv, TypeOK', Effects
    PROVE  MintedOnRead'
<1> SUFFICES ASSUME NEW q \in Put, Minted(q)', NEW v \in merged'[q]
             PROVE  /\ DominatesOrEqual(clk'[q], clk'[v])
                    /\ ~ DominatesOrEqual(clk'[v], clk'[q])
  BY DEF MintedOnRead
<1>t. /\ TypeOK /\ MintedInPlay /\ MintedOnRead /\ Lasting /\ Minting
      /\ q \in Request /\ clk \in [Put -> Clock] /\ merged \in [Request -> SUBSET Put]
  BY DEF QuorumInv, Inv, TypeOK, Effects, Request
<1>1. CASE Minted(q)
  <2>1. merged'[q] = merged[q]
    BY <1>t, <1>1 DEF Minting, Mints
  <2>2. Minted(v) /\ v \in Put
    BY <1>t, <2>1 DEF MintedInPlay
  <2>3. clk'[q] = clk[q] /\ clk'[v] = clk[v]
    BY <1>t, <1>1, <2>2 DEF Lasting
  <2> QED BY <1>t, <1>1, <2>1, <2>3 DEF MintedOnRead
<1>2. CASE ~ Minted(q)
  <2>1. clk'[q] # clk[q]
    BY <1>2 DEF Minted
  <2>2. PICK read \in SUBSET Put : Mints(q, read)
    <3>1. PICK p \in Put, read \in SUBSET Put : Mints(p, read)
      BY <1>t, <2>1 DEF Minting
    <3>2. p = q
      BY <1>t, <2>1, <3>1 DEF Mints
    <3> QED BY <3>1, <3>2
  <2>3. merged'[q] = read /\ clk'[q] = NewClock(read, coord[q]) /\ coord[q] \in Node
    BY <1>t, <2>2 DEF Mints
  <2>4. v \in read /\ v # q
    BY <1>2, <2>2, <2>3 DEF Mints
  <2>5. clk'[v] = clk[v]
    BY <1>t, <2>2, <2>4 DEF Mints
  <2>6. /\ DominatesOrEqual(NewClock(read, coord[q]), clk[v])
        /\ ~ DominatesOrEqual(clk[v], NewClock(read, coord[q]))
    BY <1>t, <2>3, <2>4, NewClockDominates
  <2> QED BY <2>3, <2>5, <2>6
<1> QED BY <1>1, <1>2

\* As many replicas answered as there are answers.
LEMMA AnsweredCount ==
    ASSUME QuorumInv, NEW o \in Request
    PROVE  /\ Answered(o) \in SUBSET Prefs
           /\ Cardinality(Answered(o)) = Cardinality(answers[o])
<1> DEFINE from == [a \in answers[o] |-> a.from]
<1>1. answers[o] \in SUBSET [from : Prefs, versions : SUBSET Put]
  BY DEF QuorumInv, Inv, TypeOK
<1>2. IsFiniteSet(answers[o])
  BY <1>1, AnswersFinite
<1>3. Answered(o) \in SUBSET Prefs
  BY <1>1 DEF Answered
<1>4. from \in [answers[o] -> Answered(o)]
  BY DEF Answered
<1>5. \A a, b \in answers[o] : from[a] = from[b] => a = b
  BY DEF QuorumInv, OneAnswerEach
<1>6. \A n \in Answered(o) : \E a \in answers[o] : from[a] = n
  BY DEF Answered
<1> HIDE DEF from
<1>7. from \in Injection(answers[o], Answered(o)) /\ from \in Surjection(answers[o], Answered(o))
  BY <1>4, <1>5, <1>6 DEF Injection, IsInjective, Surjection
<1>8. Cardinality(Answered(o)) = Cardinality(answers[o])
  BY <1>2, <1>7, FS_Surjection
<1> QED BY <1>3, <1>8

\* A quorum of answers knows of every put acknowledged before the read began.
LEMMA QuorumReadCovers ==
    ASSUME QuorumInv, NEW o \in Put \cup Get, ReadQuorum(o), NEW order \in Arrival(o),
           NoDelete, Cardinality(raced) < Overlap, NEW p \in before[o] \cap Put
    PROVE  Covers(clk, MergedRead(order), clk[p])
<1>t. /\ TypeOK /\ AnswersSeeQuorum /\ o \in Request /\ p \in Write
      /\ clk \in [Put -> Clock] /\ raced \in SUBSET Prefs
  BY DEF QuorumInv, Inv, TypeOK, Request, Write
<1>1. PICK Q \in SUBSET acked[p] :
         /\ Cardinality(Q) >= WriteThreshold
         /\ \A a \in answers[o] : a.from \in Q \ raced => Covers(clk, a.versions, clk[p])
  BY <1>t DEF AnswersSeeQuorum, SeesQuorum
<1>2. Q \in SUBSET Prefs
  BY <1>t, <1>1 DEF TypeOK
<1>3. Answered(o) \in SUBSET Prefs /\ Cardinality(Answered(o)) >= ReadThreshold
  BY <1>t, AnsweredCount DEF ReadQuorum
<1>4. PICK n \in Answered(o) \cap Q : n \notin raced
  BY <1>t, <1>1, <1>2, <1>3, QuorumsMeet
<1>5. PICK a \in answers[o] : a.from = n
  BY <1>4 DEF Answered
<1>6. Covers(clk, a.versions, clk[p]) /\ clk[p] \in Clock
  BY <1>t, <1>1, <1>4, <1>5
<1> QED BY <1>t, <1>6, MergedReadCovers

LEMMA ReadSeesAckedNext ==
    ASSUME QuorumInv, TypeOK', Effects
    PROVE  ReadSeesAcked'
<1>o. Overlap' = Overlap
  BY DEF Overlap, ReadThreshold, WriteThreshold, AtMostPrefs
<1> SUFFICES ASSUME NEW o \in Put \cup Get, HasRead(o)', NoDelete',
                    Cardinality(raced') < Overlap, NEW p \in before'[o] \cap Put
             PROVE  Covers(clk', merged'[o], clk'[p])
  BY <1>o DEF ReadSeesAcked
<1>t. /\ TypeOK /\ MintedInPlay /\ AnswersSeeQuorum /\ ReadSeesAcked
      /\ o \in Request /\ p \in Request /\ p \in Write
      /\ clk \in [Put -> Clock] /\ Lasting /\ Asking(o) /\ Merging(o)
  BY DEF QuorumInv, Inv, TypeOK, Effects, Request, Write
<1>1. NoDelete /\ raced \subseteq raced' /\ raced \in SUBSET Prefs /\ raced' \in SUBSET Prefs
  BY <1>t DEF Lasting, TypeOK
<1>2. Cardinality(raced) < Overlap
  <2>1. /\ IsFiniteSet(raced') /\ Cardinality(raced') \in Nat /\ Cardinality(raced) \in Nat
        /\ Overlap \in Int
    BY <1>1, Thresholds DEF Overlap
  <2>2. Cardinality(raced) <= Cardinality(raced')
    BY <1>1, <2>1, FS_Subset
  <2> QED BY <2>1, <2>2
<1>3. ASSUME phase[o] # "idle"
      PROVE  before'[o] = before[o] /\ p \in before[o] /\ phase[p] = "done" /\ Minted(p)
  <2>1. before'[o] = before[o] /\ p \in before[o]
    BY <1>t, <1>3 DEF Asking
  <2>2. phase[p] = "done"
    BY <1>t, <2>1 DEF AnswersSeeQuorum, SeesQuorum
  <2> QED BY <1>t, <2>1, <2>2 DEF MintedInPlay
<1>4. CASE HasRead(o) /\ merged'[o] = merged[o]
  <2>1. phase[o] # "idle"
    BY <1>t, <1>4, RequestAssumption DEF HasRead, MintedInPlay
  <2>2. Covers(clk, merged[o], clk[p])
    BY <1>t, <1>1, <1>2, <1>3, <1>4, <2>1 DEF ReadSeesAcked
  <2>3. merged[o] \in SUBSET Put /\ \A v \in merged[o] : Minted(v)
    BY <1>t DEF TypeOK, MintedInPlay
  <2> QED BY <1>t, <1>3, <1>4, <2>1, <2>2, <2>3, CoversStays
<1>5. CASE /\ ReadQuorum(o) /\ phase[o] = "read"
           /\ \E order \in Arrival(o) : merged'[o] = MergedRead(order)
  <2>1. PICK order \in Arrival(o) : merged'[o] = MergedRead(order)
    BY <1>5
  <2>2. p \in before[o] /\ Minted(p)
    BY <1>3, <1>5
  <2>3. Covers(clk, MergedRead(order), clk[p])
    BY <1>1, <1>2, <1>5, <2>2, QuorumReadCovers
  <2>4. MergedRead(order) \in SUBSET Put /\ \A v \in MergedRead(order) : Minted(v)
    BY <1>t, <2>1, MergedReadAntichain, MergedReadIsAnswered DEF MintedInPlay
  <2> QED BY <1>t, <2>1, <2>2, <2>3, <2>4, CoversStays
<1> QED BY <1>4, <1>5, <1>t DEF Merging

LEMMA QuorumInvNext == QuorumInv /\ [Next]_vars => QuorumInv'
<1> SUFFICES ASSUME QuorumInv, [Next]_vars PROVE QuorumInv'
  OBVIOUS
<1>1. Inv /\ TypeOK /\ DeletesBegun
  BY DEF QuorumInv, Inv
<1>2. Inv' /\ TypeOK'
  BY <1>1, InvNext DEF Inv
<1>3. Effects
  BY <1>1, EffectsNext
<1>4. DeletesBegun'
  BY <1>1, DeletesBegunNext
<1>5. AckedMinted' /\ AckedIsStored'
  BY <1>2, <1>3, AckedIsStoredNext
<1>6. DoneHasQuorum' /\ IdleUnanswered' /\ OneAnswerEach'
  BY <1>2, <1>3, DoneHasQuorumNext, AnswersNext
<1>7. AnswersSeeQuorum'
  BY <1>2, <1>3, AnswersSeeQuorumNext
<1>8. MintedOnRead' /\ ReadSeesAcked'
  BY <1>2, <1>3, MintedOnReadNext, ReadSeesAckedNext
<1> QED BY <1>2, <1>4, <1>5, <1>6, <1>7, <1>8 DEF QuorumInv

-----------------------------------------------------------------------------
(* What the invariant says of quorums *)

LEMMA QuorumInvIsDurable == QuorumInv => DurableQuorum
<1> SUFFICES ASSUME QuorumInv, NEW p \in Put, phase[p] = "done", NoDelete
             PROVE  Cardinality({n \in Prefs : Covers(clk, store[n], clk[p])})
                        >= WriteThreshold - Cardinality(raced)
  BY DEF DurableQuorum
<1> DEFINE have == {n \in Prefs : Covers(clk, store[n], clk[p])}
<1>1. /\ acked[p] \in SUBSET Prefs /\ raced \in SUBSET Prefs /\ have \in SUBSET Prefs
      /\ acked[p] \subseteq have \cup raced
      /\ Cardinality(acked[p]) >= WriteThreshold
  BY DEF QuorumInv, Inv, TypeOK, Write, AckedIsStored, DoneHasQuorum, WriteQuorum
<1> HIDE DEF have
<1>2. /\ IsFiniteSet(have) /\ IsFiniteSet(raced) /\ IsFiniteSet(have \cup raced)
      /\ Cardinality(have) \in Nat /\ Cardinality(raced) \in Nat
      /\ Cardinality(have \cup raced) \in Nat /\ Cardinality(acked[p]) \in Nat
      /\ Cardinality(have \cap raced) \in Nat /\ WriteThreshold \in Nat
  BY <1>1, Thresholds
<1>3. Cardinality(acked[p]) <= Cardinality(have \cup raced)
  BY <1>1, <1>2, FS_Subset
<1>4. Cardinality(have \cup raced)
         = Cardinality(have) + Cardinality(raced) - Cardinality(have \cap raced)
  BY <1>2, FS_Union
<1>5. Cardinality(have) >= WriteThreshold - Cardinality(raced)
  BY <1>1, <1>2, <1>3, <1>4
<1> QED BY <1>5 DEF have

LEMMA QuorumInvOrdersPuts == QuorumInv => SequentialPutsOrdered
<1> SUFFICES ASSUME QuorumInv, NEW p \in Put, NEW q \in Put, Minted(q),
                    p \in before[q], NoDelete, Cardinality(raced) < Overlap
             PROVE  Compare(clk[q], clk[p]) = "dominates"
  BY DEF SequentialPutsOrdered
<1>t. /\ clk \in [Put -> Clock] /\ merged[q] \in SUBSET Put
      /\ MintedOnRead /\ ReadSeesAcked /\ q \notin Get
  BY RequestAssumption DEF QuorumInv, Inv, TypeOK, Request
<1>1. PICK v \in merged[q] : DominatesOrEqual(clk[v], clk[p])
  BY <1>t DEF ReadSeesAcked, HasRead, Covers
<1>2. DominatesOrEqual(clk[q], clk[v]) /\ ~ DominatesOrEqual(clk[v], clk[q])
  BY <1>t DEF MintedOnRead
<1>3. clk[q] \in Clock /\ clk[v] \in Clock /\ clk[p] \in Clock
  BY <1>t
<1>4. DominatesOrEqual(clk[q], clk[p])
  BY <1>1, <1>2, <1>3, DominanceOrder
<1>5. ~ DominatesOrEqual(clk[p], clk[q])
  BY <1>1, <1>2, <1>3, DominanceOrder
<1> QED BY <1>4, <1>5, CompareMeaning

\* A put that was answered 200 is stored, or superseded, on a write quorum, less
\* the replicas where put_local calls raced: no hint and no failed call counts.
THEOREM WritesAreDurable == Spec => []DurableQuorum
<1>1. Init => QuorumInv
  BY QuorumInvInit
<1>2. QuorumInv /\ [Next]_vars => QuorumInv'
  BY QuorumInvNext
<1>3. QuorumInv => DurableQuorum
  BY QuorumInvIsDurable
<1> QED BY <1>1, <1>2, <1>3, PTL DEF Spec

\* A read that begins after a put was answered returns its version or a newer
\* one, whatever fails, for any R and W that overlap by more replicas than raced.
THEOREM ReadsSeeAckedWrites == Spec => []ReadSeesAcked
<1>1. Init => QuorumInv
  BY QuorumInvInit
<1>2. QuorumInv /\ [Next]_vars => QuorumInv'
  BY QuorumInvNext
<1>3. QuorumInv => ReadSeesAcked
  BY DEF QuorumInv
<1> QED BY <1>1, <1>2, <1>3, PTL DEF Spec

\* One client that waits for its answers never makes its own conflict: the later
\* of two such puts dominates the earlier.
THEOREM SequentialPutsAreOrdered == Spec => []SequentialPutsOrdered
<1>1. Init => QuorumInv
  BY QuorumInvInit
<1>2. QuorumInv /\ [Next]_vars => QuorumInv'
  BY QuorumInvNext
<1>3. QuorumInv => SequentialPutsOrdered
  BY QuorumInvOrdersPuts
<1> QED BY <1>1, <1>2, <1>3, PTL DEF Spec

\* A replica gives up a version only for one that supersedes it, for a delete, or
\* when put_local calls raced there: never by a hint, a retry or a late call.
THEOREM ReplicasForgetOnlyForDeletes == Spec => OnlyDeletesForget
<1>1. Init => Inv
  BY InvInit
<1>2. Inv /\ [Next]_vars => Inv'
  BY InvNext
<1>3. Inv /\ [Next]_vars =>
        [\A n \in Prefs :
            \/ n \in raced'
            \/ \E d \in Delete : <<d, n>> \in sent \ sent'
            \/ \A v \in store[n] : Covers(clk', store'[n], clk[v])]_vars
  BY StoringNext DEF Storing
<1> QED BY <1>1, <1>2, <1>3, PTL DEF Spec, OnlyDeletesForget

-----------------------------------------------------------------------------
(***************************************************************************)
(* The quorum operations implement the regular register of module          *)
(* Register: a merged read is a read of the register by ReadSeesAcked's    *)
(* argument, a minted version dominates what was read, and no other step   *)
(* changes what the register consists of, but that a race may end its      *)
(* soundness.                                                              *)
(***************************************************************************)

\* The register's clocks are those of the operations.
LEMMA RegularClocks ==
    /\ \A c, S, d : Regular!Covers(c, S, d) = Covers(c, S, d)
    /\ \A c, S : Regular!IsAntichain(c, S) = IsAntichain(c, S)
    /\ \A c, d : Regular!Compare(c, d) = Compare(c, d)
    /\ Regular!Clock = Clock /\ Regular!ZeroClock = ZeroClock
    /\ Regular!Write = Write /\ Regular!Request = Request
BY DEF Regular!Covers, Regular!IsAntichain, Regular!DominatesOrEqual, Regular!Compare,
       Regular!Clock, Regular!ZeroClock, Regular!Write, Regular!Request,
       Covers, IsAntichain, DominatesOrEqual, Compare, Clock, ZeroClock, Write, Request

\* So what a quorum answers is what the register may return.
LEMMA QuorumMayReturn ==
    ASSUME QuorumInv, NEW o \in Put \cup Get, ReadQuorum(o), NEW order \in Arrival(o)
    PROVE  /\ MergedRead(order) \in SUBSET Put
           /\ \A v \in MergedRead(order) : Minted(v)
           /\ Regular!MayReturn(o, MergedRead(order))
<1>t. /\ TypeOK /\ MintedInPlay /\ Antichains /\ o \in Request
  BY DEF QuorumInv, Inv, Request
<1>1. MergedRead(order) \in SUBSET Put /\ IsAntichain(clk, MergedRead(order))
  BY <1>t, MergedReadAntichain DEF Antichains
<1>2. \A v \in MergedRead(order) : Minted(v)
  BY <1>t, MergedReadIsAnswered DEF MintedInPlay
<1>3. (\A d \in Delete : [q \in Request |-> Stage(q)][d] = "idle") => NoDelete
  <2>1. \A d \in Delete : Stage(d) = "idle" => phase[d] = "idle"
    BY DEF Stage
  <2>2. Delete \subseteq Request
    BY DEF Request
  <2> QED BY <2>1, <2>2 DEF NoDelete
<1>4. NoDelete /\ Cardinality(raced) < Overlap =>
         \A p \in before[o] \cap Put : Covers(clk, MergedRead(order), clk[p])
  BY QuorumReadCovers
<1> DEFINE read == MergedRead(order)
<1> HIDE DEF read
<1>5. Regular!MayReturn(o, read)
  BY <1>1, <1>2, <1>3, <1>4, RegularClocks DEF Regular!MayReturn, Regular!Minted, Minted, read
<1> QED BY <1>1, <1>2, <1>5 DEF read

\* What the variables of the register stand for.
Stages == [o \in Request |-> Stage(o)]
Sound  == Cardinality(raced) < Overlap
RegularVars == <<Stages, before, merged, clk, Sound>>

LEMMA RegularInit == Init => Regular!Init
<1> SUFFICES ASSUME Init PROVE Regular!Init
  OBVIOUS
<1>1. Stages = [o \in Request |-> "idle"]
  BY DEF Init, Stages, Stage, Open
<1>2. (Cardinality(raced) < Overlap) \in BOOLEAN
  OBVIOUS
<1> QED BY <1>1, <1>2, RegularClocks DEF Init, Regular!Init, Stages

\* The stage of a request follows its phase.
LEMMA StageMoves ==
    ASSUME TypeOK, NEW o \in Request, NEW x \in Phase, phase' = [phase EXCEPT ![o] = x]
    PROVE  /\ x \in {"read", "handoff", "write"} => Stages' = [Stages EXCEPT ![o] = "open"]
           /\ x \in {"done", "refused"} => Stages' = [Stages EXCEPT ![o] = x]
           /\ x \in {"handoff", "write"} /\ Open(o) => Stages' = Stages
<1>1. \A q \in Request : phase'[q] = IF q = o THEN x ELSE phase[q]
  BY DEF TypeOK
<1>2. \A q \in Request : Stage(q)' = IF q = o THEN IF x \in {"read", "handoff", "write"}
                                                  THEN "open" ELSE x
                                    ELSE Stage(q)
  BY <1>1 DEF Stage, Open
<1>3. Open(o) => Stage(o) = "open"
  BY DEF Stage
<1>4. Stages' = [q \in Request |-> Stage(q)']
  BY DEF Stages
<1> QED BY <1>2, <1>3, <1>4 DEF Stages

\* A step no request takes part in is no step of the register, or makes it unsound.
LEMMA WeakenOrStutter ==
    ASSUME raced \in SUBSET Prefs, raced' \in SUBSET Prefs, raced \subseteq raced',
           Stages' = Stages, UNCHANGED <<before, merged, clk>>
    PROVE  [Regular!Next]_RegularVars
<1>1. Overlap' = Overlap /\ Overlap \in Int
  BY Thresholds DEF Overlap, ReadThreshold, WriteThreshold, AtMostPrefs
<1>2. /\ Cardinality(raced) \in Nat /\ Cardinality(raced') \in Nat
      /\ Cardinality(raced) <= Cardinality(raced')
  BY Thresholds, FS_Subset
<1>3. Sound' = Sound \/ (Sound /\ Sound' = FALSE)
  BY <1>1, <1>2 DEF Sound
<1>4. CASE Sound' = Sound
  BY <1>4 DEF RegularVars
<1>5. CASE Sound /\ Sound' = FALSE
  BY <1>5 DEF Regular!Next, Regular!Weaken, Stages, Sound
<1> QED BY <1>3, <1>4, <1>5

\* Requests begin, and end, in the register as they do in the operations.
LEMMA RegularBegins ==
    ASSUME TypeOK, NEW o \in Request, NEW c \in Node, StartRead(o, c) \/ StartDelete(o, c)
    PROVE  Regular!Next
<1> USE DEF replicaVars, requestVars, writeVars, callVars
<1>1. /\ phase[o] = "idle"
      /\ \E x \in {"read", "write"} : phase' = [phase EXCEPT ![o] = x]
      /\ before' = [before EXCEPT ![o] = {q \in Write : phase[q] = "done"}]
      /\ UNCHANGED <<merged, clk, raced>>
  BY DEF StartRead, StartDelete, MayStart
<1>2. Stages' = [Stages EXCEPT ![o] = "open"]
  BY <1>1, StageMoves DEF Phase
<1>3. Stages[o] = "idle"
  BY <1>1 DEF Stages, Stage, Open
<1>4. {q \in Write : Stages[q] = "done"} = {q \in Write : phase[q] = "done"}
  BY DEF Stages, Stage, Open, Write, Request
<1>5. Sound' = Sound
  BY <1>1 DEF Sound, Overlap, ReadThreshold, WriteThreshold, AtMostPrefs
<1>6. Regular!Begin(o)
  BY <1>1, <1>2, <1>3, <1>4, <1>5, RegularClocks DEF Regular!Begin, Stages, Sound
<1> QED BY <1>6, RegularClocks DEF Regular!Next

LEMMA RegularEnds ==
    ASSUME TypeOK, MintedInPlay, NEW o \in Request,
           RefuseRead(o) \/ (o \in Write /\ (AnswerWrite(o) \/ RefuseWrite(o)))
    PROVE  Regular!Next
<1> USE DEF replicaVars, requestVars, writeVars, callVars
<1>1. /\ phase[o] \in {"read", "write"}
      /\ UNCHANGED <<before, merged, clk, raced>>
      /\ \/ phase' = [phase EXCEPT ![o] = "refused"]
         \/ o \in Write /\ phase[o] = "write" /\ phase' = [phase EXCEPT ![o] = "done"]
  BY DEF RefuseRead, AnswerWrite, RefuseWrite
<1>2. Stages[o] = "open"
  BY <1>1 DEF Stages, Stage, Open
<1>3. Sound' = Sound
  BY <1>1 DEF Sound, Overlap, ReadThreshold, WriteThreshold, AtMostPrefs
<1>4. CASE phase' = [phase EXCEPT ![o] = "refused"]
  <2>1. Stages' = [Stages EXCEPT ![o] = "refused"]
    BY <1>4, StageMoves DEF Phase
  <2>2. Regular!Refuse(o)
    BY <1>1, <1>2, <1>3, <2>1 DEF Regular!Refuse, Stages, Sound
  <2> QED BY <2>2, RegularClocks DEF Regular!Next
<1>5. CASE o \in Write /\ phase[o] = "write" /\ phase' = [phase EXCEPT ![o] = "done"]
  <2>1. Stages' = [Stages EXCEPT ![o] = "done"]
    BY <1>5, StageMoves DEF Phase
  <2>2. o \in Put => Regular!Minted(o)
    BY <1>5, RegularClocks DEF MintedInPlay, Minted, Regular!Minted
  <2>3. Regular!Return(o)
    BY <1>1, <1>2, <1>3, <2>1, <2>2 DEF Regular!Return, Stages, Sound
  <2> QED BY <1>5, <2>3, RegularClocks DEF Regular!Next
<1> QED BY <1>1, <1>4, <1>5

LEMMA RegularAnswers ==
    ASSUME QuorumInv, NEW g \in Get, AnswerGet(g)
    PROVE  Regular!Next
<1> USE DEF replicaVars, requestVars, writeVars, callVars
<1>1. PICK order \in Arrival(g) : merged' = [merged EXCEPT ![g] = MergedRead(order)]
  BY DEF AnswerGet
<1>2. /\ phase[g] = "read" /\ ReadQuorum(g) /\ g \in Request
      /\ phase' = [phase EXCEPT ![g] = "done"]
      /\ UNCHANGED <<before, clk, raced>>
  BY DEF AnswerGet, Request
<1> DEFINE read == MergedRead(order)
<1>3. read \in SUBSET Put /\ Regular!MayReturn(g, read)
  BY <1>2, QuorumMayReturn
<1>4. Stages[g] = "open"
  BY <1>2 DEF Stages, Stage, Open
<1>5. Stages' = [Stages EXCEPT ![g] = "done"]
  BY <1>2, StageMoves DEF QuorumInv, Inv, Phase
<1>6. Sound' = Sound
  BY <1>2 DEF Sound, Overlap, ReadThreshold, WriteThreshold, AtMostPrefs
<1> HIDE DEF read
<1>7. merged' = [merged EXCEPT ![g] = read]
  BY <1>1 DEF read
<1>8. Regular!Answer(g)
  BY <1>2, <1>3, <1>4, <1>5, <1>6, <1>7 DEF Regular!Answer, Stages, Sound
<1> QED BY <1>8 DEF Regular!Next

LEMMA RegularMints ==
    ASSUME QuorumInv, NEW p \in Write, MintVersion(p)
    PROVE  Regular!Next
<1> USE DEF replicaVars, requestVars, writeVars, callVars
<1>t. /\ TypeOK /\ Coordinated /\ MintedInPlay /\ clk \in [Put -> Clock]
  BY DEF QuorumInv, Inv, TypeOK
<1>1. PICK order \in Arrival(p) :
         /\ merged' = [merged EXCEPT ![p] = MergedRead(order)]
         /\ clk' = [clk EXCEPT ![p] = NewClock(MergedRead(order), coord[p])]
  BY DEF MintVersion
<1>2. /\ p \in Put /\ p \in Request /\ phase[p] = "read" /\ ReadQuorum(p)
      /\ phase' = [phase EXCEPT ![p] = "handoff"]
      /\ UNCHANGED <<before, raced>>
  BY DEF MintVersion, Request
<1> DEFINE read == MergedRead(order)
           new == NewClock(read, coord[p])
<1>3. read \in SUBSET Put /\ Regular!MayReturn(p, read) /\ \A v \in read : Minted(v)
  BY <1>2, QuorumMayReturn
<1>4. coord[p] \in Node /\ ~ Minted(p)
  BY <1>t, <1>2 DEF Coordinated, MintedInPlay
<1> HIDE DEF read
<1>5. /\ new \in Clock /\ new # ZeroClock
      /\ \A v \in read : DominatesOrEqual(new, clk[v]) /\ ~ DominatesOrEqual(clk[v], new)
  BY <1>t, <1>3, <1>4, NewClockDominates
<1> HIDE DEF new
<1>6. \A v \in read : Compare(new, clk[v]) = "dominates"
  BY <1>t, <1>3, <1>5, CompareMeaning
<1>7. /\ merged' = [merged EXCEPT ![p] = read]
      /\ clk' = [clk EXCEPT ![p] = new] /\ clk'[p] = new
  BY <1>t, <1>1, <1>2 DEF read, new
<1>8. Stages[p] = "open" /\ Stages' = Stages
  BY <1>t, <1>2, StageMoves DEF Stages, Stage, Open, Phase
<1>9. Sound' = Sound
  BY <1>2 DEF Sound, Overlap, ReadThreshold, WriteThreshold, AtMostPrefs
<1>10. ~ Regular!Minted(p) /\ clk'[p] \in Regular!Clock \ {Regular!ZeroClock}
  BY <1>4, <1>5, <1>7, RegularClocks DEF Minted, Regular!Minted
<1>11. \A v \in read : Regular!Compare(clk'[p], clk[v]) = "dominates"
  <2>1. \A v \in read : Regular!Compare(new, clk[v]) = Compare(new, clk[v])
    BY RegularClocks
  <2> QED BY <1>6, <1>7, <2>1
<1>12. clk' = [clk EXCEPT ![p] = clk'[p]]
  BY <1>7
<1>13. Regular!Mint(p)
  BY <1>2, <1>3, <1>7, <1>8, <1>9, <1>10, <1>11, <1>12 DEF Regular!Mint, Stages, Sound
<1> QED BY <1>2, <1>13 DEF Regular!Next

\* The calls to replicas, and the hints, show in the register at most as a race.
LEMMA RegularStep == QuorumInv /\ [Next]_vars => [Regular!Next]_RegularVars
<1> SUFFICES ASSUME QuorumInv, [Next]_vars
             PROVE  [Regular!Next]_RegularVars
  OBVIOUS
<1> USE DEF replicaVars, requestVars, writeVars, callVars
<1>t. /\ TypeOK /\ MintedInPlay /\ raced \in SUBSET Prefs
      /\ Put \subseteq Request /\ Write \subseteq Request
  BY DEF QuorumInv, Inv, TypeOK, Request, Write
<1>r. raced' \in SUBSET Prefs
  BY InvNext DEF QuorumInv, Inv, TypeOK
<1>s. phase' = phase => Stages' = Stages
  BY DEF Stages, Stage, Open
<1>1. ASSUME raced \subseteq raced', UNCHANGED <<phase, before, merged, clk>>
      PROVE  [Regular!Next]_RegularVars
  BY <1>t, <1>r, <1>s, <1>1, WeakenOrStutter
<1>2. ASSUME NEW o \in Request, ReadStep(o)
      PROVE  [Regular!Next]_RegularVars
  <2>1. ASSUME NEW c \in Node, StartRead(o, c)
        PROVE  Regular!Next
    BY <1>t, <2>1, RegularBegins
  <2>2. ASSUME NEW n \in Prefs, ServeRead(o, n) \/ MissRead(o, n)
        PROVE  [Regular!Next]_RegularVars
    BY <1>1, <2>2 DEF ServeRead, MissRead
  <2>3. RefuseRead(o) => Regular!Next
    BY <1>t, RegularEnds
  <2>4. AnswerGet(o) => Regular!Next
    <3>1. AnswerGet(o) => o \in Get
      BY DEF AnswerGet
    <3> QED BY <3>1, RegularAnswers
  <2> QED BY <1>2, <2>1, <2>2, <2>3, <2>4 DEF ReadStep
<1>3. ASSUME NEW o \in Write, WriteStep(o)
      PROVE  [Regular!Next]_RegularVars
  <2>1. ASSUME NEW c \in Node, StartDelete(o, c)
        PROVE  Regular!Next
    BY <1>t, <2>1, RegularBegins
  <2>2. MintVersion(o) => Regular!Next
    BY RegularMints
  <2>3. ASSUME FanOut(o)
        PROVE  [Regular!Next]_RegularVars
    <3>1. /\ phase[o] = "handoff" /\ phase' = [phase EXCEPT ![o] = "write"]
          /\ UNCHANGED <<before, merged, clk, raced>>
      BY <2>3 DEF FanOut
    <3>2. Stages' = Stages
      BY <1>t, <3>1, StageMoves DEF Open, Phase
    <3> QED BY <1>t, <3>1, <3>2, WeakenOrStutter
  <2>4. AnswerWrite(o) \/ RefuseWrite(o) => Regular!Next
    BY <1>t, RegularEnds
  <2> QED BY <1>3, <2>1, <2>2, <2>3, <2>4 DEF WriteStep
<1>4. ASSUME NEW o \in Write, NEW n \in Prefs, CallStep(o, n)
      PROVE  [Regular!Next]_RegularVars
  <2>1. UNCHANGED <<phase, before, merged, clk>> /\ raced \subseteq raced'
    BY <1>4 DEF CallStep, LoadLocal, StoreLocal, DeleteLocal, FailWrite
  <2> QED BY <1>1, <2>1
<1>5. ASSUME NEW p \in Put, NEW n \in Prefs, HintStep(p, n)
      PROVE  [Regular!Next]_RegularVars
  BY <1>1, <1>5 DEF HintStep, DeliverHint, LoseHint, StrayHint
<1>6. ASSUME UNCHANGED vars
      PROVE  [Regular!Next]_RegularVars
  BY <1>1, <1>6 DEF vars
<1> QED BY <1>2, <1>3, <1>4, <1>5, <1>6 DEF Next, Quiesced

\* The quorum operations, on replicas whose put_local calls interleave and over
\* calls that fail, come late or outlive their request, are a regular register.
THEOREM QuorumsAreRegister == Spec => IsRegister
<1>1. Init => QuorumInv /\ Regular!Init
  BY QuorumInvInit, RegularInit
<1>2. QuorumInv /\ [Next]_vars => QuorumInv' /\ [Regular!Next]_RegularVars
  BY QuorumInvNext, RegularStep
<1> QED BY <1>1, <1>2, PTL DEF Spec, IsRegister, Regular!Spec, RegularVars, Stages, Sound

-----------------------------------------------------------------------------
(***************************************************************************)
(* What every write waits for: the part of RequestAnswered that no         *)
(* fairness is needed for.                                                 *)
(***************************************************************************)

\* Where each call of a write fan-out is accounted for.
Accounted(o) ==
    /\ acked[o] \subseteq targets[o]
    /\ phase[o] \in {"idle", "read"} => targets[o] = {} /\ Hinting(o) = {}
    /\ phase[o] \in {"idle", "handoff"} => missed[o] = {}
    /\ phase[o] = "write" =>
          /\ missed[o] \cup Hinting(o) \subseteq targets[o]
          /\ \A n \in Prefs : Waiting(o, n) => CallUnderWay(o, n)

AccountedInv == TypeOK /\ Coordinated /\ \A o \in Write : Accounted(o)

LEMMA AccountedInvInit == Init => AccountedInv
<1> SUFFICES ASSUME Init PROVE AccountedInv
  OBVIOUS
<1>1. \A o \in Write : Accounted(o)
  BY DEF Init, Accounted, Hinting, Write, Request
<1> QED BY <1>1, TypeInit DEF AccountedInv

\* A request that a step leaves alone, but for the call to one replica that may
\* begin, stays accounted for.
LEMMA AccountedStays ==
    ASSUME NEW o \in Write, Accounted(o),
           acked'[o] = acked[o], targets'[o] = targets[o], missed'[o] = missed[o],
           Hinting(o)' = Hinting(o),
           phase'[o] = phase[o] \/ (phase[o] = "write" /\ phase'[o] \in {"done", "refused"}),
           \A n \in Prefs : CallUnderWay(o, n) => CallUnderWay(o, n)'
    PROVE  Accounted(o)'
BY DEF Accounted, Waiting

LEMMA AccountedReadStep ==
    ASSUME TypeOK, NEW o \in Write, Accounted(o), NEW q \in Request, ReadStep(q)
    PROVE  Accounted(o)'
<1> USE DEF replicaVars, requestVars, writeVars, callVars
<1>t. /\ phase \in [Request -> Phase] /\ missed \in [Request -> SUBSET Prefs]
      /\ o \in Request
  BY DEF TypeOK, Write, Request
<1> DEFINE Framed == /\ UNCHANGED <<acked, targets, hinting, sent, loading>>
                     /\ phase'[o] = phase[o] \/ phase'[o] \in {"read", "done", "refused"}
                     /\ phase'[o] # phase[o] => phase[o] \in {"idle", "read"}
                     /\ phase'[o] = "read" => phase[o] \in {"idle", "read"}
                     /\ missed'[o] = missed[o] \/ (phase[o] = "read" /\ phase'[o] = "read")
<1>1. Framed
  <2>1. ASSUME NEW c \in Node, StartRead(q, c)
        PROVE  Framed
    BY <1>t, <2>1 DEF StartRead, MayStart
  <2>2. ASSUME NEW n \in Prefs, ServeRead(q, n)
        PROVE  Framed
    BY <2>2 DEF ServeRead
  <2>3. ASSUME NEW n \in Prefs, MissRead(q, n)
        PROVE  Framed
    BY <1>t, <2>3 DEF MissRead, Reading
  <2>4. RefuseRead(q) => Framed
    BY <1>t DEF RefuseRead
  <2>5. AnswerGet(q) => Framed
    BY <1>t DEF AnswerGet
  <2> QED BY <2>1, <2>2, <2>3, <2>4, <2>5 DEF ReadStep
<1>2. Hinting(o)' = Hinting(o) /\ \A n \in Prefs : CallUnderWay(o, n)' = CallUnderWay(o, n)
  BY <1>1 DEF Hinting, CallUnderWay
<1>3. CASE phase'[o] = phase[o] /\ missed'[o] = missed[o]
  BY <1>1, <1>2, <1>3, AccountedStays
<1>4. CASE phase'[o] # phase[o] \/ missed'[o] # missed[o]
  BY <1>1, <1>2, <1>4 DEF Accounted
<1> QED BY <1>3, <1>4

LEMMA AccountedWriteStep ==
    ASSUME TypeOK, NEW o \in Write, Accounted(o), NEW q \in Write, WriteStep(q)
    PROVE  Accounted(o)'
<1> USE DEF replicaVars, requestVars, writeVars, callVars
<1>t. /\ phase \in [Request -> Phase] /\ missed \in [Request -> SUBSET Prefs]
      /\ targets \in [Write -> SUBSET Prefs] /\ acked \in [Write -> SUBSET Prefs]
      /\ hinting \in [Put -> SUBSET Prefs] /\ o \in Request /\ q \in Request
      /\ Put \cap Delete = {}
  BY RequestAssumption DEF TypeOK, Write, Request
<1>1. ASSUME NEW c \in Node, StartDelete(q, c)
      PROVE  Accounted(o)'
  <2>1. /\ phase[q] = "idle" /\ q \notin Put
        /\ phase' = [phase EXCEPT ![q] = "write"]
        /\ targets' = [targets EXCEPT ![q] = Prefs]
        /\ sent' = sent \cup ({q} \X Prefs)
        /\ UNCHANGED <<acked, missed, hinting, loading>>
    BY <1>t, <1>1 DEF StartDelete, MayStart
  <2>2. Hinting(o)' = Hinting(o) /\ \A n \in Prefs : CallUnderWay(o, n) => CallUnderWay(o, n)'
    BY <2>1 DEF Hinting, CallUnderWay
  <2>3. CASE q = o
    <3>1. targets'[o] = Prefs /\ missed'[o] = {} /\ Hinting(o)' = {} /\ phase'[o] = "write"
      BY <1>t, <2>1, <2>3 DEF Accounted, Hinting
    <3>2. \A n \in Prefs : CallUnderWay(o, n)'
      BY <2>1, <2>3 DEF CallUnderWay
    <3>3. acked'[o] \subseteq Prefs
      BY <1>t, <2>1
    <3> QED BY <3>1, <3>2, <3>3 DEF Accounted
  <2>4. CASE q # o
    BY <1>t, <2>1, <2>2, <2>4, AccountedStays
  <2> QED BY <2>3, <2>4
<1>2. ASSUME MintVersion(q)
      PROVE  Accounted(o)'
  <2>1. /\ phase[q] = "read" /\ q \in Put
        /\ phase' = [phase EXCEPT ![q] = "handoff"]
        /\ missed' = [missed EXCEPT ![q] = {}]
        /\ \E h : hinting' = [hinting EXCEPT ![q] = h]
        /\ \E h : targets' = [targets EXCEPT ![q] = h]
        /\ UNCHANGED <<acked, sent, loading>>
    BY <1>2 DEF MintVersion
  <2>2. CASE q = o
    <3>1. phase'[o] = "handoff" /\ missed'[o] = {} /\ acked'[o] = {}
      BY <1>t, <2>1, <2>2 DEF Accounted
    <3> QED BY <3>1 DEF Accounted
  <2>3. CASE q # o
    <3>1. /\ phase'[o] = phase[o] /\ missed'[o] = missed[o] /\ targets'[o] = targets[o]
          /\ acked'[o] = acked[o] /\ Hinting(o)' = Hinting(o)
      BY <1>t, <2>1, <2>3 DEF Hinting
    <3>2. \A n \in Prefs : CallUnderWay(o, n) => CallUnderWay(o, n)'
      BY <2>1, <3>1 DEF CallUnderWay
    <3> QED BY <3>1, <3>2, AccountedStays
  <2> QED BY <2>2, <2>3
<1>3. ASSUME FanOut(q)
      PROVE  Accounted(o)'
  <2>1. /\ phase[q] = "handoff" /\ hinting[q] = {} /\ q \in Put
        /\ phase' = [phase EXCEPT ![q] = "write"]
        /\ sent' = sent \cup ({q} \X targets[q])
        /\ UNCHANGED <<acked, missed, hinting, targets, loading>>
    BY <1>3 DEF FanOut
  <2>2. Hinting(o)' = Hinting(o) /\ \A n \in Prefs : CallUnderWay(o, n) => CallUnderWay(o, n)'
    BY <2>1 DEF Hinting, CallUnderWay
  <2>3. CASE q = o
    <3>1. /\ missed'[o] = {} /\ Hinting(o)' = {} /\ targets'[o] = targets[o]
          /\ acked'[o] \subseteq targets[o] /\ phase'[o] = "write"
      BY <1>t, <2>1, <2>3 DEF Accounted, Hinting
    <3>2. \A n \in targets[o] : CallUnderWay(o, n)'
      BY <2>1, <2>3 DEF CallUnderWay
    <3>3. \A n \in Prefs : Waiting(o, n)' => n \in targets[o]
      BY <3>1 DEF Waiting
    <3> QED BY <3>1, <3>2, <3>3 DEF Accounted
  <2>4. CASE q # o
    BY <1>t, <2>1, <2>2, <2>4, AccountedStays
  <2> QED BY <2>3, <2>4
<1>4. ASSUME AnswerWrite(q) \/ RefuseWrite(q)
      PROVE  Accounted(o)'
  <2>1. /\ phase[q] = "write"
        /\ \E x \in {"done", "refused"} : phase' = [phase EXCEPT ![q] = x]
        /\ UNCHANGED <<acked, missed, hinting, targets, sent, loading>>
    BY <1>4 DEF AnswerWrite, RefuseWrite
  <2>2. Hinting(o)' = Hinting(o) /\ \A n \in Prefs : CallUnderWay(o, n) => CallUnderWay(o, n)'
    BY <2>1 DEF Hinting, CallUnderWay
  <2>3. phase'[o] = phase[o] \/ (phase[o] = "write" /\ phase'[o] \in {"done", "refused"})
    BY <1>t, <2>1
  <2> QED BY <2>1, <2>2, <2>3, AccountedStays
<1> QED BY <1>1, <1>2, <1>3, <1>4 DEF WriteStep

\* The call of q at m ends, as a success if it is still waited for.
LEMMA AccountedAck ==
    ASSUME TypeOK, NEW o \in Write, Accounted(o), NEW q \in Write, NEW m \in Prefs, Ack(q, m),
           UNCHANGED <<phase, targets, missed, hinting>>,
           \A n \in Prefs : CallUnderWay(o, n) => CallUnderWay(o, n)' \/ (q = o /\ n = m)
    PROVE  Accounted(o)'
<1>1. acked \in [Write -> SUBSET Prefs]
  BY DEF TypeOK
<1>2. Hinting(o)' = Hinting(o)
  BY DEF Hinting
<1>3. /\ acked[o] \subseteq acked'[o]
      /\ acked'[o] \subseteq acked[o] \cup targets[o]
      /\ q = o /\ Waiting(o, m) => m \in acked'[o]
  BY <1>1 DEF Ack, Waiting
<1>4. \A n \in Prefs : Waiting(o, n)' => Waiting(o, n) /\ ~ (q = o /\ n = m)
  BY <1>2, <1>3 DEF Waiting
<1> QED BY <1>2, <1>3, <1>4 DEF Accounted

LEMMA AccountedCallStep ==
    ASSUME TypeOK, NEW o \in Write, Accounted(o), NEW q \in Write, NEW m \in Prefs,
           CallStep(q, m)
    PROVE  Accounted(o)'
<1> USE DEF replicaVars, requestVars, writeVars, callVars
<1>t. /\ missed \in [Request -> SUBSET Prefs] /\ hinting \in [Put -> SUBSET Prefs]
      /\ o \in Request /\ q \in Request /\ Put \cap Delete = {}
  BY RequestAssumption DEF TypeOK, Write, Request
<1>1. ASSUME LoadLocal(q, m)
      PROVE  Accounted(o)'
  <2>1. /\ sent' = sent \ {<<q, m>>}
        /\ loading' = loading \cup {[put |-> q, at |-> m, base |-> store[m]]}
        /\ UNCHANGED <<phase, targets, missed, hinting, acked>>
    BY <1>1 DEF LoadLocal
  <2>2. Hinting(o)' = Hinting(o)
    BY <2>1 DEF Hinting
  <2>3. ASSUME NEW n \in Prefs, CallUnderWay(o, n)
        PROVE  CallUnderWay(o, n)'
    <3>1. CASE <<o, n>> \in sent
      <4>1. CASE <<o, n>> = <<q, m>>
        <5>1. [put |-> q, at |-> m, base |-> store[m]] \in loading'
          BY <2>1
        <5> QED BY <4>1, <5>1 DEF CallUnderWay
      <4> QED BY <2>1, <3>1, <4>1 DEF CallUnderWay
    <3> QED BY <2>1, <2>2, <2>3, <3>1 DEF CallUnderWay
  <2> QED BY <2>1, <2>2, <2>3, AccountedStays
<1>2. ASSUME StoreLocal(q, m)
      PROVE  Accounted(o)'
  <2>1. PICK h \in loading : h.put = q /\ h.at = m /\ loading' = loading \ {h}
    BY <1>2 DEF StoreLocal
  <2>2. Ack(q, m) /\ UNCHANGED <<phase, targets, missed, hinting, sent>>
    BY <1>2 DEF StoreLocal
  <2>3. \A n \in Prefs : CallUnderWay(o, n) => CallUnderWay(o, n)' \/ (q = o /\ n = m)
    BY <2>1, <2>2 DEF CallUnderWay, Hinting
  <2> QED BY <2>2, <2>3, AccountedAck
<1>3. ASSUME DeleteLocal(q, m)
      PROVE  Accounted(o)'
  <2>1. /\ sent' = sent \ {<<q, m>>} /\ Ack(q, m)
        /\ UNCHANGED <<phase, targets, missed, hinting, loading>>
    BY <1>3 DEF DeleteLocal
  <2>2. \A n \in Prefs : CallUnderWay(o, n) => CallUnderWay(o, n)' \/ (q = o /\ n = m)
    BY <2>1 DEF CallUnderWay, Hinting
  <2> QED BY <2>1, <2>2, AccountedAck
<1>4. ASSUME FailWrite(q, m)
      PROVE  Accounted(o)'
  <2>1. /\ phase[q] \in {"write", "done"} /\ m \in targets[q]
        /\ \/ /\ q \in Put /\ hinting' = [hinting EXCEPT ![q] = @ \cup {m}]
              /\ missed' = missed
           \/ missed' = [missed EXCEPT ![q] = @ \cup {m}] /\ hinting' = hinting
        /\ UNCHANGED <<phase, targets, acked, sent, loading>>
    BY <1>4 DEF FailWrite, Waiting
  <2>2. /\ Hinting(o) \subseteq Hinting(o)' /\ missed[o] \subseteq missed'[o]
        /\ missed'[o] \cup Hinting(o)' \subseteq missed[o] \cup Hinting(o) \cup {m}
        /\ q # o => missed'[o] = missed[o] /\ Hinting(o)' = Hinting(o)
    BY <1>t, <2>1 DEF Hinting
  <2>3. \A n \in Prefs : CallUnderWay(o, n) => CallUnderWay(o, n)'
    BY <2>1, <2>2 DEF CallUnderWay
  <2>4. CASE q # o
    BY <2>1, <2>2, <2>3, <2>4, AccountedStays
  <2>5. CASE q = o
    <3>1. \A n \in Prefs : Waiting(o, n)' => Waiting(o, n)
      BY <2>1, <2>2 DEF Waiting
    <3> QED BY <2>1, <2>2, <2>3, <2>5, <3>1 DEF Accounted
  <2> QED BY <2>4, <2>5
<1> QED BY <1>1, <1>2, <1>3, <1>4 DEF CallStep

LEMMA AccountedHintStep ==
    ASSUME TypeOK, NEW o \in Write, Accounted(o), NEW p \in Put, NEW m \in Prefs,
           HintStep(p, m)
    PROVE  Accounted(o)'
<1> USE DEF replicaVars, requestVars, writeVars, callVars
<1>t. /\ missed \in [Request -> SUBSET Prefs] /\ hinting \in [Put -> SUBSET Prefs]
      /\ o \in Request /\ p \in Request
  BY DEF TypeOK, Write, Request
<1>1. UNCHANGED <<phase, targets, acked, sent, loading>>
  BY DEF HintStep, DeliverHint, LoseHint, StrayHint
<1>2. CASE UNCHANGED <<hinting, missed>>
  <2>1. Hinting(o)' = Hinting(o) /\ \A n \in Prefs : CallUnderWay(o, n)' = CallUnderWay(o, n)
    BY <1>1, <1>2 DEF Hinting, CallUnderWay
  <2> QED BY <1>1, <1>2, <2>1, AccountedStays
<1>3. CASE m \in hinting[p] /\ HintDone(p, m)
  <2>1. /\ hinting' = [hinting EXCEPT ![p] = @ \ {m}]
        /\ missed' = IF phase[p] = "handoff" THEN missed
                     ELSE [missed EXCEPT ![p] = @ \cup {m}]
    BY <1>3 DEF HintDone
  <2>2. CASE p # o
    <3>1. missed'[o] = missed[o] /\ Hinting(o)' = Hinting(o)
      BY <1>t, <2>1, <2>2 DEF Hinting
    <3>2. \A n \in Prefs : CallUnderWay(o, n)' = CallUnderWay(o, n)
      BY <1>1, <3>1 DEF CallUnderWay
    <3> QED BY <1>1, <3>1, <3>2, AccountedStays
  <2>3. CASE p = o
    <3>1. Hinting(o) = hinting[o] /\ Hinting(o)' = hinting[o] \ {m}
      BY <1>t, <2>1, <2>3 DEF Hinting
    <3>2. \A n \in Prefs : CallUnderWay(o, n) => CallUnderWay(o, n)' \/ n = m
      BY <1>1, <3>1 DEF CallUnderWay
    <3>3. CASE phase[o] = "handoff"
      <4>1. missed'[o] = missed[o]
        BY <2>1, <2>3, <3>3
      <4> QED BY <1>1, <3>3, <4>1 DEF Accounted
    <3>4. CASE phase[o] # "handoff"
      <4>1. missed'[o] = missed[o] \cup {m}
        BY <1>t, <2>1, <2>3, <3>4
      <4>2. \A n \in Prefs : Waiting(o, n)' => Waiting(o, n) /\ n # m
        BY <1>1, <3>1, <4>1 DEF Waiting
      <4>3. phase[o] \notin {"idle", "read"}
        BY <1>3, <2>3, <3>1 DEF Accounted
      <4> QED BY <1>1, <1>3, <2>3, <3>1, <3>2, <3>4, <4>1, <4>2, <4>3 DEF Accounted
    <3> QED BY <3>3, <3>4
  <2> QED BY <2>2, <2>3
<1> QED BY <1>2, <1>3 DEF HintStep, DeliverHint, LoseHint, StrayHint

LEMMA AccountedInvNext == AccountedInv /\ [Next]_vars => AccountedInv'
<1> SUFFICES ASSUME AccountedInv, [Next]_vars PROVE AccountedInv'
  OBVIOUS
<1>t. TypeOK /\ Coordinated /\ \A o \in Write : Accounted(o)
  BY DEF AccountedInv
<1>1. ASSUME NEW o \in Write
      PROVE  Accounted(o)'
  <2>1. UNCHANGED vars => Accounted(o)'
    <3> SUFFICES ASSUME UNCHANGED vars PROVE Accounted(o)'
      OBVIOUS
    <3>1. UNCHANGED <<acked, targets, missed, hinting, phase, sent, loading>>
      BY DEF vars, writeVars, requestVars, callVars
    <3>2. Hinting(o)' = Hinting(o) /\ \A n \in Prefs : CallUnderWay(o, n)' = CallUnderWay(o, n)
      BY <3>1 DEF Hinting, CallUnderWay
    <3> QED BY <1>t, <3>1, <3>2, AccountedStays
  <2>2. CASE Next
    BY <1>t, <2>2, AccountedReadStep, AccountedWriteStep, AccountedCallStep, AccountedHintStep,
       <2>1 DEF Next, Quiesced
  <2> QED BY <2>1, <2>2
<1>2. TypeOK' /\ Coordinated'
  BY <1>t, TypeNext
<1> QED BY <1>1, <1>2 DEF AccountedInv

LEMMA AccountedInvIsEnough == AccountedInv => WritesAwaitCalls
<1> SUFFICES ASSUME AccountedInv, NEW o \in Write, phase[o] = "write",
                    \A n \in Prefs : ~ CallUnderWay(o, n)
             PROVE  acked[o] \cup missed[o] = targets[o]
  BY DEF WritesAwaitCalls
<1>1. targets[o] \in SUBSET Prefs /\ Accounted(o)
  BY DEF AccountedInv, TypeOK
<1>2. \A n \in Prefs : ~ Waiting(o, n) /\ n \notin Hinting(o)
  BY <1>1 DEF Accounted, CallUnderWay
<1> QED BY <1>1, <1>2 DEF Accounted, Waiting

\* A write whose calls and hints have all ended has its answer, 200 or 503: the
\* thread that runs it never waits for a call that nobody makes.
THEOREM WritesWaitForCalls == Spec => []WritesAwaitCalls
BY AccountedInvInit, AccountedInvNext, AccountedInvIsEnough, PTL DEF Spec

-----------------------------------------------------------------------------
(* Clocks and the history of a version *)

\* The counters of a new clock: its own node's is one more than any read, or 1,
\* the others are read.
LEMMA NewClockCounters ==
    ASSUME clk \in [Put -> Clock], NEW read \in SUBSET Put, NEW c \in Node
    PROVE  /\ NewClock(read, c) \in Clock
           /\ \A v \in read : NewClock(read, c)[c] > clk[v][c]
           /\ NewClock(read, c)[c] = 1 \/ \E v \in read : NewClock(read, c)[c] = clk[v][c] + 1
           /\ NewClock(read, c)[c] > 0
           /\ \A d \in Node \ {c} : \/ NewClock(read, c)[d] = 0
                                    \/ \E v \in read : clk[v][d] = NewClock(read, c)[d]
<1> DEFINE C == {clk[v] : v \in read}
           m == MergeClocks(C)
           f == [v \in read |-> clk[v]]
<1>1. C \in SUBSET Clock
  OBVIOUS
<1>2. f \in Surjection(read, C)
  BY DEF Surjection
<1>3. IsFiniteSet(read)
  BY RequestAssumption, FS_Subset
<1>4. IsFiniteSet(C)
  <2> HIDE DEF f, C
  <2> QED BY <1>2, <1>3, FS_Surjection
<1>5. /\ m \in Clock /\ \A d \in C : DominatesOrEqual(m, d)
      /\ \A n \in Node : m[n] = 0 \/ \E d \in C : d[n] = m[n]
  <2> HIDE DEF C
  <2> QED BY <1>1, <1>4, MergeIsLeastUpperBound
<1>6. \A v \in read : \A n \in Node : m[n] >= clk[v][n]
  <2> HIDE DEF m
  <2>1. \A v \in read : DominatesOrEqual(m, clk[v])
    BY <1>5
  <2> HIDE DEF C
  <2> QED BY <2>1, CompareMeaning
<1>7. \A n \in Node : m[n] = 0 \/ \E v \in read : clk[v][n] = m[n]
  <2> HIDE DEF m
  <2> QED BY <1>5
<1>8. NewClock(read, c) = [m EXCEPT ![c] = @ + 1]
  BY DEF NewClock, Incremented
<1> HIDE DEF m
<1>9. /\ NewClock(read, c)[c] = m[c] + 1 /\ m[c] \in Nat
      /\ \A d \in Node \ {c} : NewClock(read, c)[d] = m[d]
      /\ \A v \in read : clk[v][c] \in Nat
  BY <1>5, <1>8 DEF Clock
<1>10. NewClock(read, c) \in Clock
  BY NewClockDominates
<1>11. \A v \in read : NewClock(read, c)[c] > clk[v][c]
  BY <1>6, <1>9
<1>12. NewClock(read, c)[c] > 0
  BY <1>9
<1>13. NewClock(read, c)[c] = 1 \/ \E v \in read : NewClock(read, c)[c] = clk[v][c] + 1
  BY <1>7, <1>9
<1> QED BY <1>7, <1>9, <1>10, <1>11, <1>12, <1>13

\* hist follows the clocks: a version knows itself and what its knowledge knew,
\* dominates all of it, counts one more than it for its own node, and has each
\* of its counters from a version it knows of that node.
HistoryOf(p) ==
    /\ ~ Minted(p) => hist[p] = {}
    /\ Minted(p) => p \in hist[p] /\ coord[p] \in Node /\ clk[p][coord[p]] > 0
    /\ \A q \in hist[p] : /\ Minted(q) /\ hist[q] \subseteq hist[p]
                          /\ DominatesOrEqual(clk[p], clk[q])
                          /\ q # p => clk[p][coord[p]] > clk[q][coord[p]]
    /\ \A c \in Node : clk[p][c] > 0 =>
          \E u \in hist[p] : coord[u] = c /\ clk[u][c] = clk[p][c]

Histories == \A p \in Put : HistoryOf(p)

LEMMA HistoriesNext ==
    ASSUME TypeOK, TypeOK', Histories, Minting
    PROVE  Histories'
<1>t. /\ clk \in [Put -> Clock] /\ hist \in [Put -> SUBSET Put]
      /\ clk' \in [Put -> Clock] /\ hist' \in [Put -> SUBSET Put]
  BY DEF TypeOK
\* A version whose own entries did not change.
<1>s. ASSUME NEW p \in Put, clk'[p] = clk[p], hist'[p] = hist[p],
             \A q \in hist[p] : clk'[q] = clk[q] /\ hist'[q] = hist[q] /\ coord'[q] = coord[q]
      PROVE  HistoryOf(p)'
  <2>1. HistoryOf(p)
    BY DEF Histories
  <2>2. Minted(p)' <=> Minted(p)
    BY <1>s DEF Minted
  <2>3. Minted(p) => coord'[p] = coord[p] /\ p \in hist[p]
    BY <1>s, <2>1 DEF HistoryOf
  <2>4. \A q \in hist[p] : Minted(q)'
    BY <1>s, <2>1 DEF HistoryOf, Minted
  <2>5. \A c \in Node : clk'[p][c] > 0 =>
           \E u \in hist'[p] : coord'[u] = c /\ clk'[u][c] = clk'[p][c]
    BY <1>s, <2>1 DEF HistoryOf
  <2>6. \A q \in hist'[p] : hist'[q] \subseteq hist'[p] /\ DominatesOrEqual(clk'[p], clk'[q])
    BY <1>s, <2>1 DEF HistoryOf
  <2>7. ASSUME NEW q \in hist[p], q # p
        PROVE  clk'[p][coord'[p]] > clk'[q][coord'[p]]
    <3>1. Minted(p)
      BY <2>1, <2>7 DEF HistoryOf
    <3> QED BY <1>s, <2>1, <2>3, <2>7, <3>1 DEF HistoryOf
  <2>8. Minted(p)' => p \in hist'[p] /\ coord'[p] \in Node /\ clk'[p][coord'[p]] > 0
    BY <1>s, <2>1, <2>2, <2>3 DEF HistoryOf
  <2>9. ~ Minted(p)' => hist'[p] = {}
    BY <1>s, <2>1, <2>2 DEF HistoryOf
  <2> QED BY <1>s, <2>4, <2>5, <2>6, <2>7, <2>8, <2>9 DEF HistoryOf
<1>1. ASSUME UNCHANGED <<clk, hist>>, \A p \in Put : Minted(p) => coord'[p] = coord[p]
      PROVE  Histories'
  <2>1. ASSUME NEW p \in Put
        PROVE  HistoryOf(p)'
    <3>1. \A q \in hist[p] : q \in Put /\ Minted(q)
      BY <1>t DEF Histories, HistoryOf
    <3> QED BY <1>1, <1>s, <3>1
  <2> QED BY <2>1 DEF Histories
<1>2. ASSUME NEW p \in Put, NEW read \in SUBSET Put, Mints(p, read)
      PROVE  Histories'
  <2> DEFINE c == coord[p]
             K == NewClock(read, coord[p])
  <2>1. /\ c \in Node /\ coord' = coord /\ ~ Minted(p) /\ Minted(p)'
        /\ clk'[p] = K /\ \A q \in Put \ {p} : clk'[q] = clk[q] /\ hist'[q] = hist[q]
        /\ hist'[p] = {p} \cup UNION {hist[v] : v \in read}
        /\ \A v \in read : Minted(v) /\ v # p
    BY <1>t, <1>2 DEF Mints
  <2>2. \A q \in Put : p \notin hist[q]
    BY <2>1 DEF Histories, HistoryOf
  <2>3. ASSUME NEW q \in Put \ {p}
        PROVE  HistoryOf(q)'
    <3>1. \A u \in hist[q] : u \in Put \ {p}
      BY <1>t, <2>2
    <3> QED BY <1>s, <2>1, <3>1
  <2>4. /\ K \in Clock /\ \A v \in read : K[c] > clk[v][c]
        /\ K[c] > 0
        /\ \A d \in Node \ {c} : K[d] = 0 \/ \E v \in read : clk[v][d] = K[d]
    <3>1. c \in Node
      BY <2>1
    <3> HIDE DEF c
    <3> QED BY ONLY <1>t, <3>1, read \in SUBSET Put, NewClockCounters DEF c
  <2>5. \A v \in read : DominatesOrEqual(K, clk[v])
    BY <1>t, <2>1, NewClockDominates
  <2> HIDE DEF K, c
  <2>6. ASSUME NEW q \in hist'[p], q # p
        PROVE  /\ Minted(q)' /\ hist'[q] \subseteq hist'[p]
               /\ DominatesOrEqual(K, clk'[q])
               /\ K[c] > clk'[q][c]
    <3>1. PICK v \in read : q \in hist[v]
      BY <2>1, <2>6
    <3>2. HistoryOf(v) /\ q \in Put /\ v \in Put
      BY <1>t, <3>1 DEF Histories
    <3>3. clk'[q] = clk[q] /\ hist'[q] = hist[q]
      BY <2>1, <2>6, <3>2
    <3>4. Minted(q) /\ hist[q] \subseteq hist[v] /\ DominatesOrEqual(clk[v], clk[q])
      BY <3>1, <3>2 DEF HistoryOf
    <3>5. clk[v] \in Clock /\ clk[q] \in Clock
      BY <1>t, <3>2
    <3>6. DominatesOrEqual(K, clk[q])
      BY <2>4, <2>5, <3>4, <3>5, DominanceOrder
    <3>7. K[c] > clk[q][c]
      <4>1. clk[v][c] >= clk[q][c] /\ K[c] > clk[v][c]
        BY <2>1, <2>4, <3>4, CompareMeaning
      <4>2. K[c] \in Nat /\ clk[v][c] \in Nat /\ clk[q][c] \in Nat
        BY <2>1, <2>4, <3>5 DEF Clock
      <4> QED BY <4>1, <4>2
    <3>8. hist[q] \subseteq hist'[p]
      BY <2>1, <3>1, <3>4
    <3> QED BY <3>3, <3>4, <3>6, <3>7, <3>8 DEF Minted
  <2>7. ASSUME NEW d \in Node, K[d] > 0
        PROVE  \E u \in hist'[p] : coord'[u] = d /\ clk'[u][d] = K[d]
    <3>1. CASE d = c
      BY <2>1, <3>1 DEF c
    <3>2. CASE d # c
      <4>1. K[d] \in Nat
        BY <2>4 DEF Clock
      <4>2. PICK v \in read : clk[v][d] = K[d]
        BY <2>4, <2>7, <3>2, <4>1
      <4>3. PICK u \in hist[v] : coord[u] = d /\ clk[u][d] = clk[v][d]
        BY <2>7, <4>2 DEF Histories, HistoryOf
      <4>4. u \in Put \ {p} /\ u \in hist'[p]
        BY <1>t, <2>1, <2>2, <4>3
      <4> QED BY <2>1, <4>2, <4>3, <4>4
    <3> QED BY <3>1, <3>2
  <2>8. DominatesOrEqual(K, K)
    BY <2>4, DominanceOrder
  <2>9. HistoryOf(p)'
    <3>1. p \in hist'[p] /\ coord'[p] = c
      BY <2>1 DEF c
    <3>2. \A q \in hist'[p] : /\ Minted(q)' /\ hist'[q] \subseteq hist'[p]
                              /\ DominatesOrEqual(clk'[p], clk'[q])
                              /\ q # p => clk'[p][c] > clk'[q][c]
      BY <2>1, <2>6, <2>8
    <3> QED BY <2>1, <2>4, <2>7, <3>1, <3>2 DEF HistoryOf
  <2> QED BY <2>3, <2>9 DEF Histories
<1> QED BY <1>1, <1>2 DEF Minting

\* The clock is the history if every two versions of a node know of each other:
\* of the node that wrote p, the later version counts its entry higher.
LEMMA HistoriesAreClocks == TypeOK /\ Histories => ClockIsHistory
<1> SUFFICES ASSUME TypeOK, Histories, OneWriteAtATime,
                    NEW p \in Put, NEW q \in Put, Minted(p), Minted(q)
             PROVE  DominatesOrEqual(clk[q], clk[p]) <=> p \in hist[q]
  BY DEF ClockIsHistory
<1>t. clk \in [Put -> Clock] /\ hist \in [Put -> SUBSET Put] /\ HistoryOf(p) /\ HistoryOf(q)
  BY DEF TypeOK, Histories
<1>1. ASSUME p \in hist[q]
      PROVE  DominatesOrEqual(clk[q], clk[p])
  BY <1>t, <1>1 DEF HistoryOf
<1>2. ASSUME DominatesOrEqual(clk[q], clk[p])
      PROVE  p \in hist[q]
  <2> DEFINE d == coord[p]
  <2>1. d \in Node /\ clk[p][d] > 0
    BY <1>t DEF HistoryOf
  <2>2. clk[p][d] \in Nat /\ clk[q][d] \in Nat
    BY <1>t, <2>1 DEF Clock
  <2>3. clk[q][d] >= clk[p][d]
    BY <1>2, <2>1, CompareMeaning
  <2>4. PICK u \in hist[q] : coord[u] = d /\ clk[u][d] = clk[q][d]
    BY <1>t, <2>1, <2>2, <2>3 DEF HistoryOf
  <2>5. u \in Put /\ Minted(u) /\ hist[u] \subseteq hist[q]
    BY <1>t, <2>4 DEF HistoryOf
  <2>6. p \in hist[u] \/ u \in hist[p]
    BY <2>4, <2>5 DEF OneWriteAtATime
  <2>7. ASSUME u \in hist[p], u # p
        PROVE  FALSE
    <3>1. clk[p][d] > clk[u][d]
      BY <1>t, <2>7 DEF HistoryOf
    <3> QED BY <2>2, <2>3, <2>4, <3>1
  <2> QED BY <2>4, <2>5, <2>6, <2>7
<1> QED BY <1>1, <1>2

\* A mint adds one to the count of its node, and one to what it read at most.
LEMMA CountsNext ==
    ASSUME TypeOK, TypeOK', Lasting, Minting, ClockCountsWrites
    PROVE  ClockCountsWrites'
<1> DEFINE Wrote(c) == {q \in Put : Minted(q) /\ coord[q] = c}
           Wrote1(c) == {q \in Put : Minted(q)' /\ coord'[q] = c}
<1>t. clk \in [Put -> Clock] /\ clk' \in [Put -> Clock]
  BY DEF TypeOK
<1>f. \A S \in SUBSET Put : IsFiniteSet(S) /\ Cardinality(S) \in Nat
  BY RequestAssumption, FS_Subset, FS_CardinalityType
<1>n. \A p \in Put, c \in Node : clk[p][c] \in Nat /\ clk'[p][c] \in Nat
  BY <1>t DEF Clock
<1>i. \A p \in Put, c \in Node : clk[p][c] <= Cardinality(Wrote(c))
  BY DEF ClockCountsWrites
<1> SUFFICES \A p \in Put, c \in Node : clk'[p][c] <= Cardinality(Wrote1(c))
  BY DEF ClockCountsWrites
<1>1. ASSUME UNCHANGED <<clk, hist>>, \A p \in Put : Minted(p) => coord'[p] = coord[p]
      PROVE  \A p \in Put, c \in Node : clk'[p][c] <= Cardinality(Wrote1(c))
  <2>1. \A c \in Node : Wrote1(c) = Wrote(c)
    BY <1>1 DEF Minted
  <2> HIDE DEF Wrote, Wrote1
  <2> QED BY <1>1, <1>i, <2>1
<1>2. ASSUME NEW p \in Put, NEW read \in SUBSET Put, Mints(p, read)
      PROVE  \A q \in Put, c \in Node : clk'[q][c] <= Cardinality(Wrote1(c))
  <2> DEFINE e == coord[p]
             K == NewClock(read, coord[p])
  <2>1. /\ e \in Node /\ coord' = coord /\ ~ Minted(p) /\ Minted(p)'
        /\ clk'[p] = K /\ \A q \in Put \ {p} : clk'[q] = clk[q]
    BY <1>t, <1>2 DEF Mints
  <2>2. /\ K[e] = 1 \/ \E v \in read : K[e] = clk[v][e] + 1
        /\ \A d \in Node \ {e} : K[d] = 0 \/ \E v \in read : clk[v][d] = K[d]
    BY <1>t, <2>1, NewClockCounters
  <2>3. Wrote1(e) = Wrote(e) \cup {p} /\ p \notin Wrote(e)
    BY <2>1 DEF Minted
  <2>4. \A d \in Node \ {e} : Wrote1(d) = Wrote(d)
    BY <2>1 DEF Minted
  <2>5. \A c \in Node : Wrote(c) \in SUBSET Put
    OBVIOUS
  <2> HIDE DEF K, e, Wrote, Wrote1
  <2>6. Cardinality(Wrote1(e)) = Cardinality(Wrote(e)) + 1
    BY <1>f, <2>1, <2>3, <2>5, FS_AddElement
  <2>7. \A c \in Node : Cardinality(Wrote(c)) \in Nat /\ Cardinality(Wrote(c)) <= Cardinality(Wrote1(c))
    <3>1. \A c \in Node : Cardinality(Wrote(c)) \in Nat
      BY <1>f, <2>5
    <3> QED BY <2>1, <2>4, <2>6, <3>1
  <2>8. ASSUME NEW q \in Put \ {p}, NEW c \in Node
        PROVE  clk'[q][c] <= Cardinality(Wrote1(c))
    <3>1. clk'[q][c] = clk[q][c] /\ clk[q][c] \in Nat /\ clk[q][c] <= Cardinality(Wrote(c))
      BY <1>i, <1>n, <2>1
    <3>2. Cardinality(Wrote(c)) \in Nat /\ Cardinality(Wrote1(c)) \in Nat
      BY <2>1, <2>4, <2>6, <2>7
    <3> QED BY <2>7, <3>1, <3>2
  <2>9. ASSUME NEW c \in Node
        PROVE  K[c] <= Cardinality(Wrote1(c))
    <3>1. CASE c = e
      <4>1. Cardinality(Wrote(e)) \in Nat
        BY <2>1, <2>7
      <4>2. \A v \in read : clk[v][e] \in Nat /\ clk[v][e] <= Cardinality(Wrote(e))
        BY <1>i, <1>n, <2>1
      <4> QED BY <2>2, <2>6, <3>1, <4>1, <4>2
    <3>2. CASE c # e
      <4>1. Cardinality(Wrote(c)) \in Nat /\ Wrote1(c) = Wrote(c)
        BY <2>4, <2>7, <3>2
      <4>2. \A v \in read : clk[v][c] \in Nat /\ clk[v][c] <= Cardinality(Wrote(c))
        BY <1>i, <1>n
      <4> QED BY <2>2, <3>2, <4>1, <4>2
    <3> QED BY <3>1, <3>2
  <2> QED BY <2>1, <2>8, <2>9
<1> QED BY <1>1, <1>2 DEF Minting

HistoryInv == Inv /\ Histories /\ ClockCountsWrites

LEMMA HistoryInvInit == Init => HistoryInv
<1> SUFFICES ASSUME Init PROVE HistoryInv
  OBVIOUS
<1>1. Inv
  BY InvInit
<1>2. \A p \in Put : clk[p] = ZeroClock /\ hist[p] = {}
  BY DEF Init
<1>3. Histories
  BY <1>2 DEF Histories, HistoryOf, Minted, ZeroClock
<1>4. ASSUME NEW c \in Node
      PROVE  0 <= Cardinality({q \in Put : Minted(q) /\ coord[q] = c})
  <2>1. {q \in Put : Minted(q) /\ coord[q] = c} = {}
    BY <1>2 DEF Minted
  <2> QED BY <2>1, FS_EmptySet
<1>5. ClockCountsWrites
  BY <1>2, <1>4 DEF ClockCountsWrites, ZeroClock
<1> QED BY <1>1, <1>3, <1>5 DEF HistoryInv

LEMMA HistoryInvNext == HistoryInv /\ [Next]_vars => HistoryInv'
<1> SUFFICES ASSUME HistoryInv, [Next]_vars PROVE HistoryInv'
  OBVIOUS
<1>1. Inv /\ TypeOK /\ Inv' /\ TypeOK'
  BY InvNext DEF HistoryInv, Inv
<1>2. Effects
  BY <1>1, EffectsNext
<1>3. Histories' /\ ClockCountsWrites'
  BY <1>1, <1>2, HistoriesNext, CountsNext DEF HistoryInv, Effects
<1> QED BY <1>1, <1>3 DEF HistoryInv

\* No clock claims a write of a node that the node has not made.
THEOREM ClocksCountWrites == Spec => []ClockCountsWrites
<1>1. Init => HistoryInv
  BY HistoryInvInit
<1>2. HistoryInv /\ [Next]_vars => HistoryInv'
  BY HistoryInvNext
<1>3. HistoryInv => ClockCountsWrites
  BY DEF HistoryInv
<1> QED BY <1>1, <1>2, <1>3, PTL DEF Spec

\* Dominance is causality, both ways, as long as the versions of each node know
\* of each other; put does not ensure that for puts that overlap at a node.
THEOREM ClocksAreHistories == Spec => []ClockIsHistory
<1>1. Init => HistoryInv
  BY HistoryInvInit
<1>2. HistoryInv /\ [Next]_vars => HistoryInv'
  BY HistoryInvNext
<1>3. HistoryInv => ClockIsHistory
  BY HistoriesAreClocks DEF HistoryInv, Inv
<1> QED BY <1>1, <1>2, <1>3, PTL DEF Spec

-----------------------------------------------------------------------------
(***************************************************************************)
(* The quorum operations together with the handoff of hints (HandoffKV):   *)
(* handing off breaks none of what the quorums promise, and a version kept *)
(* for a replica is not lost but in the ways that HintsConserved names.    *)
(* A step of the gossip thread is one of the Effects too, so QuorumInv is  *)
(* kept by the same lemmas.                                                *)
(***************************************************************************)

(* What the gossip thread works on *)

HandoffTypeOK ==
    /\ flush \in [to : Prefs \cup {NoNode}, left : SUBSET Put,
                  now : Put \cup {NoVersion}, ok : BOOLEAN]
    /\ handed \subseteq [put : Put, at : Prefs, waited : BOOLEAN]
    /\ unpacking \subseteq [put : Put, at : Prefs, waited : BOOLEAN, base : SUBSET Put]
    /\ dropped \subseteq Put \X Prefs

\* It sends versions that exist to a replica, and the calls it makes read sibling lists.
HandoffInPlay ==
    /\ flush.to \in Prefs \/ (flush.left = {} /\ flush.now = NoVersion)
    /\ \A v \in flush.left : Minted(v)
    /\ flush.now # NoVersion => Minted(flush.now)
    /\ \A c \in handed : Minted(c.put)
    /\ \A h \in unpacking : /\ Minted(h.put) /\ IsAntichain(clk, h.base)
                            /\ \A v \in h.base : Minted(v)

HandoffInv == Inv /\ HandoffTypeOK /\ HandoffInPlay

LEMMA HandoffInvInit == HInit => HandoffInv
<1> SUFFICES ASSUME HInit PROVE HandoffInv
  OBVIOUS
<1>1. Inv
  BY InvInit DEF HInit
<1>2. HandoffTypeOK /\ HandoffInPlay
  BY DEF HInit, Idle, HandoffTypeOK, HandoffInPlay
<1> QED BY <1>1, <1>2 DEF HandoffInv

\* A step of the quorum operations leaves the thread what it has.
LEMMA HandoffInvQuorumStep ==
    ASSUME HandoffInv, [Next]_vars, UNCHANGED handoffVars
    PROVE  HandoffInv'
<1>t. Inv /\ HandoffTypeOK /\ HandoffInPlay
  BY DEF HandoffInv
<1>1. Inv'
  BY <1>t, InvNext
<1>2. HandoffTypeOK'
  BY <1>t DEF HandoffTypeOK, handoffVars
<1>3. \A p \in Put : Minted(p) => Minted(p)' /\ clk'[p] = clk[p]
  BY <1>t, MintedKeepClock
<1>4. UNCHANGED <<flush, handed, unpacking>>
  BY DEF handoffVars
<1>5. /\ \A v \in flush.left : Minted(v)'
      /\ (flush.now # NoVersion => Minted(flush.now))'
  <2>1. flush.left \in SUBSET Put /\ flush.now \in Put \cup {NoVersion}
    BY <1>t DEF HandoffTypeOK
  <2>2. \A v \in flush.left : Minted(v)'
    BY <1>t, <1>3, <2>1 DEF HandoffInPlay
  <2>3. flush.now # NoVersion => clk'[flush.now] # ZeroClock
    BY <1>t, <1>3, <2>1 DEF HandoffInPlay, Minted
  <2> QED BY <1>4, <2>2, <2>3 DEF Minted
<1>6. \A c \in handed : Minted(c.put)'
  BY <1>t, <1>3 DEF HandoffTypeOK, HandoffInPlay
<1>7. ASSUME NEW h \in unpacking
      PROVE  Minted(h.put)' /\ IsAntichain(clk', h.base) /\ \A v \in h.base : Minted(v)'
  <2>1. /\ h.put \in Put /\ h.base \in SUBSET Put
        /\ Minted(h.put) /\ IsAntichain(clk, h.base) /\ \A v \in h.base : Minted(v)
    BY <1>t DEF HandoffTypeOK, HandoffInPlay
  <2> QED BY <1>3, <2>1, AntichainStable
<1>8. HandoffInPlay'
  BY <1>t, <1>4, <1>5, <1>6, <1>7 DEF HandoffInPlay
<1> QED BY <1>1, <1>2, <1>8 DEF HandoffInv

\* What put_local of a handed version writes.
LEMMA StoreHandedWrites ==
    ASSUME HandoffInv, NEW v \in Put, NEW n \in Prefs, StoreHanded(v, n)
    PROVE  \E h \in unpacking :
              /\ h.put = v /\ h.at = n /\ h.base \in SUBSET Put
              /\ unpacking' = unpacking \ {h}
              /\ flush' = IF h.waited THEN [flush EXCEPT !.ok = TRUE] ELSE flush
              /\ raced' = IF h.base = store[n] THEN raced ELSE raced \cup {n}
              /\ store'[n] = Reconcile(clk, h.base, v)
              /\ \A m \in Prefs \ {n} : store'[m] = store[m]
              /\ store' \in [Prefs -> SUBSET Put] /\ raced' \in SUBSET Prefs
              /\ Minted(v) /\ IsAntichain(clk, store'[n])
              /\ \A w \in store'[n] : Minted(w)
              /\ Covers(clk, store'[n], clk[v])
              /\ n \in raced' \/ \A w \in store[n] : Covers(clk, store'[n], clk[w])
<1>t. /\ TypeOK /\ HandoffTypeOK /\ HandoffInPlay
      /\ clk \in [Put -> Clock] /\ store \in [Prefs -> SUBSET Put] /\ raced \subseteq Prefs
  BY DEF HandoffInv, Inv, TypeOK
<1>1. PICK h \in unpacking :
         /\ h.put = v /\ h.at = n
         /\ unpacking' = unpacking \ {h}
         /\ store' = [store EXCEPT ![n] = Reconcile(clk, h.base, v)]
         /\ raced' = IF h.base = store[n] THEN raced ELSE raced \cup {n}
         /\ flush' = IF h.waited THEN [flush EXCEPT !.ok = TRUE] ELSE flush
  BY DEF StoreHanded
<1>2. /\ h.base \in SUBSET Put /\ Minted(v) /\ IsAntichain(clk, h.base)
      /\ \A w \in h.base : Minted(w)
  BY <1>t, <1>1 DEF HandoffTypeOK, HandoffInPlay
<1> DEFINE new == Reconcile(clk, h.base, v)
<1>3. /\ new \in SUBSET Put /\ new \subseteq h.base \cup {v} /\ IsAntichain(clk, new)
  BY <1>t, <1>2, ReconcileAntichain
<1>4. /\ Covers(clk, new, clk[v])
      /\ \A c \in Clock : Covers(clk, h.base, c) => Covers(clk, new, c)
  BY <1>t, <1>2, ReconcileCovers
<1> HIDE DEF new
<1>5. /\ store'[n] = new /\ store' \in [Prefs -> SUBSET Put]
      /\ \A m \in Prefs \ {n} : store'[m] = store[m]
  BY <1>t, <1>1, <1>3 DEF new
<1>6. raced' \in SUBSET Prefs
  BY <1>t, <1>1
<1>7. n \in raced' \/ \A w \in store[n] : Covers(clk, store'[n], clk[w])
  <2>1. ASSUME h.base = store[n], NEW w \in store[n]
        PROVE  Covers(clk, new, clk[w])
    <3>1. clk[w] \in Clock
      BY <1>t
    <3>2. Covers(clk, h.base, clk[w])
      BY <2>1, <3>1, DominanceOrder DEF Covers
    <3> QED BY <1>4, <3>1, <3>2
  <2> QED BY <1>1, <1>5, <2>1
<1>8. \A w \in store'[n] : Minted(w)
  BY <1>2, <1>3, <1>5
<1> QED BY <1>1, <1>2, <1>3, <1>4, <1>5, <1>6, <1>7, <1>8

\* What the steps of the gossip thread do not touch.
LEMMA FlushFrame ==
    ASSUME FlushStep
    PROVE  /\ UNCHANGED <<found, phase, coord, answers, merged, before,
                          targets, acked, missed, hinting, clk, hist, sent, loading, stray>>
           /\ \/ UNCHANGED <<store, raced>>
              \/ \E v \in Put, n \in Prefs : StoreHanded(v, n)
           /\ UNCHANGED hints \/ HintHanded
           /\ UNCHANGED faults \/ HandoffFails
<1> USE DEF vars, replicaVars, requestVars, writeVars, callVars
<1>1. ASSUME NEW n \in Prefs, BeginFlush(n)
      PROVE  UNCHANGED vars
  BY <1>1 DEF BeginFlush
<1>2. ASSUME NEW v \in Put, SendHint(v)
      PROVE  UNCHANGED vars
  BY <1>2 DEF SendHint
<1>3. ASSUME NEW v \in Put, NEW n \in Prefs, LoadHanded(v, n)
      PROVE  UNCHANGED vars
  BY <1>3 DEF LoadHanded
<1>4. ASSUME NEW v \in Put, NEW n \in Prefs, StoreHanded(v, n)
      PROVE  UNCHANGED <<hints, found, requestVars, writeVars, callVars>>
  BY <1>4 DEF StoreHanded
<1>5. HintHanded => UNCHANGED <<store, raced, found, requestVars, writeVars, callVars>>
  BY DEF HintHanded
<1>6. HandoffFails =>
         UNCHANGED <<replicaVars, requestVars, writeVars, sent, loading, stray>>
  BY DEF HandoffFails
<1>7. EndFlush => UNCHANGED vars
  BY DEF EndFlush
<1> QED BY <1>1, <1>2, <1>3, <1>4, <1>5, <1>6, <1>7 DEF FlushStep

\* Handing off keeps the invariant of the quorum operations.
LEMMA InvFlushStep ==
    ASSUME HandoffInv, FlushStep
    PROVE  Inv'
<1>t. /\ TypeOK /\ Coordinated /\ MintedInPlay /\ Antichains /\ HandoffTypeOK
      /\ hints \in [Prefs -> SUBSET Put] /\ faults \in 0..MaxFaults
  BY DEF HandoffInv, Inv, TypeOK
<1>f. UNCHANGED <<found, phase, coord, answers, merged, before,
                  targets, acked, missed, hinting, clk, hist, sent, loading, stray>>
  BY FlushFrame
<1>1. /\ store' \in [Prefs -> SUBSET Put] /\ raced' \in SUBSET Prefs
      /\ \A n \in Prefs : IsAntichain(clk, store'[n]) /\ \A v \in store'[n] : Minted(v)
  <2>1. ASSUME NEW v \in Put, NEW n \in Prefs, StoreHanded(v, n)
        PROVE  /\ store' \in [Prefs -> SUBSET Put] /\ raced' \in SUBSET Prefs
               /\ \A m \in Prefs : IsAntichain(clk, store'[m]) /\ \A w \in store'[m] : Minted(w)
    <3>1. /\ store' \in [Prefs -> SUBSET Put] /\ raced' \in SUBSET Prefs
          /\ \A m \in Prefs \ {n} : store'[m] = store[m]
          /\ IsAntichain(clk, store'[n]) /\ \A w \in store'[n] : Minted(w)
      BY <2>1, StoreHandedWrites
    <3> QED BY <1>t, <3>1 DEF MintedInPlay, Antichains
  <2>2. CASE UNCHANGED <<store, raced>>
    BY <1>t, <2>2 DEF TypeOK, MintedInPlay, Antichains
  <2> QED BY <2>1, <2>2, FlushFrame
<1>2. /\ hints' \in [Prefs -> SUBSET Put]
      /\ \A n \in Prefs : IsAntichain(clk, hints'[n]) /\ \A v \in hints'[n] : Minted(v)
  <2>1. CASE HintHanded
    <3>1. flush.to \in Prefs /\ hints' = [hints EXCEPT ![flush.to] = {}]
      BY <2>1 DEF HintHanded, ClearKey
    <3>2. \A n \in Prefs : hints'[n] = hints[n] \/ hints'[n] = {}
      BY <1>t, <3>1
    <3>3. hints' \in [Prefs -> SUBSET Put]
      BY <1>t, <3>1
    <3> QED BY <1>t, <3>2, <3>3 DEF MintedInPlay, Antichains, IsAntichain
  <2>2. CASE UNCHANGED hints
    BY <1>t, <2>2 DEF MintedInPlay, Antichains
  <2> QED BY <2>1, <2>2, FlushFrame
<1>3. faults' \in 0..MaxFaults
  <2>1. CASE HandoffFails
    BY <1>t, <2>1, BoundAssumption DEF HandoffFails
  <2> QED BY <1>t, <2>1, FlushFrame
<1>4. TypeOK'
  BY <1>t, <1>f, <1>1, <1>2, <1>3 DEF TypeOK
<1>5. Coordinated'
  BY <1>t, <1>f DEF Coordinated
<1>6. MintedInPlay'
  BY <1>t, <1>f, <1>1, <1>2 DEF MintedInPlay, Minted
<1>7. Antichains'
  BY <1>t, <1>f, <1>1, <1>2 DEF Antichains
<1> QED BY <1>4, <1>5, <1>6, <1>7 DEF Inv

\* ... and so of the whole specification's.
LEMMA HandoffInvFlushStep ==
    ASSUME HandoffInv, FlushStep
    PROVE  HandoffInv'
<1>t. /\ HandoffTypeOK /\ HandoffInPlay /\ NoVersion \notin Put /\ NoNode \notin Prefs
      /\ store \in [Prefs -> SUBSET Put] /\ hints \in [Prefs -> SUBSET Put]
  BY NoVersionAssumption, RingAssumption DEF HandoffInv, Inv, TypeOK
<1>p. \A n \in Prefs : /\ \A v \in store[n] : Minted(v)
                       /\ \A v \in hints[n] : Minted(v)
                       /\ IsAntichain(clk, store[n])
  BY DEF HandoffInv, Inv, MintedInPlay, Antichains
<1>f. UNCHANGED clk
  BY FlushFrame
<1>1. ASSUME NEW n \in Prefs, BeginFlush(n)
      PROVE  HandoffTypeOK' /\ HandoffInPlay'
  <2>1. /\ flush' = [to |-> n, left |-> hints[n], now |-> NoVersion, ok |-> FALSE]
        /\ UNCHANGED <<handed, unpacking, dropped>>
    BY <1>1 DEF BeginFlush, Idle
  <2>2. HandoffTypeOK'
    BY <1>t, <2>1 DEF HandoffTypeOK
  <2>3. HandoffInPlay'
    BY <1>t, <1>p, <1>f, <2>1 DEF HandoffInPlay, Minted
  <2> QED BY <2>2, <2>3
<1>2. ASSUME NEW v \in Put, SendHint(v)
      PROVE  HandoffTypeOK' /\ HandoffInPlay'
  <2>1. /\ v \in flush.left /\ flush.now = NoVersion
        /\ flush' = [flush EXCEPT !.left = @ \ {v}, !.now = v]
        /\ handed' = handed \cup {[put |-> v, at |-> flush.to, waited |-> TRUE]}
        /\ UNCHANGED <<unpacking, dropped>>
    BY <1>2 DEF SendHint
  <2>2. flush.to \in Prefs
    BY <1>t, <2>1 DEF HandoffInPlay
  <2>3. HandoffTypeOK'
    <3>1. flush' \in [to : Prefs \cup {NoNode}, left : SUBSET Put,
                      now : Put \cup {NoVersion}, ok : BOOLEAN]
      BY <1>t, <2>1 DEF HandoffTypeOK
    <3>2. handed' \subseteq [put : Put, at : Prefs, waited : BOOLEAN]
      <4>1. handed \subseteq [put : Put, at : Prefs, waited : BOOLEAN]
        BY <1>t DEF HandoffTypeOK
      <4>2. handed' = handed \cup {[put |-> v, at |-> flush.to, waited |-> TRUE]}
        BY <2>1
      <4>3. ASSUME NEW m \in Prefs, NEW b \in BOOLEAN
            PROVE  [put |-> v, at |-> m, waited |-> b]
                      \in [put : Put, at : Prefs, waited : BOOLEAN]
        OBVIOUS
      <4>4. [put |-> v, at |-> flush.to, waited |-> TRUE]
               \in [put : Put, at : Prefs, waited : BOOLEAN]
        BY <2>2, <4>3
      <4> QED BY <4>1, <4>2, <4>4
    <3>3. UNCHANGED <<unpacking, dropped>>
      BY <2>1
    <3> QED BY <1>t, <3>1, <3>2, <3>3 DEF HandoffTypeOK
  <2>4. /\ flush'.to = flush.to /\ flush'.left = flush.left \ {v} /\ flush'.now = v
    BY <1>t, <2>1 DEF HandoffTypeOK
  <2>5. HandoffInPlay'
    BY <1>t, <1>f, <2>1, <2>2, <2>4 DEF HandoffInPlay, Minted
  <2> QED BY <2>3, <2>5
<1>3. ASSUME NEW v \in Put, NEW n \in Prefs, LoadHanded(v, n)
      PROVE  HandoffTypeOK' /\ HandoffInPlay'
  <2>1. PICK c \in handed :
           /\ c.put = v /\ c.at = n /\ handed' = handed \ {c}
           /\ unpacking' = unpacking \cup
                {[put |-> v, at |-> n, waited |-> c.waited, base |-> store[n]]}
    BY <1>3 DEF LoadHanded
  <2>2. UNCHANGED <<flush, dropped>>
    BY <1>3 DEF LoadHanded
  <2>3. HandoffTypeOK'
    BY <1>t, <2>1, <2>2 DEF HandoffTypeOK
  <2>4. HandoffInPlay'
    BY <1>t, <1>p, <1>f, <2>1, <2>2 DEF HandoffInPlay, Minted
  <2> QED BY <2>3, <2>4
<1>4. ASSUME NEW v \in Put, NEW n \in Prefs, StoreHanded(v, n)
      PROVE  HandoffTypeOK' /\ HandoffInPlay'
  <2>1. PICK h \in unpacking :
           /\ unpacking' = unpacking \ {h}
           /\ flush' = IF h.waited THEN [flush EXCEPT !.ok = TRUE] ELSE flush
    BY <1>4 DEF StoreHanded
  <2>2. UNCHANGED <<handed, dropped>>
    BY <1>4 DEF StoreHanded
  <2>3. /\ flush'.to = flush.to /\ flush'.left = flush.left /\ flush'.now = flush.now
        /\ flush' \in [to : Prefs \cup {NoNode}, left : SUBSET Put,
                       now : Put \cup {NoVersion}, ok : BOOLEAN]
    BY <1>t, <2>1 DEF HandoffTypeOK
  <2>4. HandoffTypeOK'
    BY <1>t, <2>1, <2>2, <2>3 DEF HandoffTypeOK
  <2>5. HandoffInPlay'
    BY <1>t, <1>f, <2>1, <2>2, <2>3 DEF HandoffInPlay, Minted
  <2> QED BY <2>4, <2>5
<1>5. ASSUME HintHanded
      PROVE  HandoffTypeOK' /\ HandoffInPlay'
  <2>1. /\ flush.to \in Prefs
        /\ dropped' = dropped \cup ((hints[flush.to] \ {flush.now}) \X {flush.to})
        /\ flush' = [flush EXCEPT !.now = NoVersion, !.ok = FALSE]
        /\ UNCHANGED <<handed, unpacking>>
    BY <1>5 DEF HintHanded
  <2>2. /\ flush'.to = flush.to /\ flush'.left = flush.left /\ flush'.now = NoVersion
    BY <1>t, <2>1 DEF HandoffTypeOK
  <2>3. HandoffTypeOK'
    BY <1>t, <2>1 DEF HandoffTypeOK
  <2>4. HandoffInPlay'
    BY <1>t, <1>f, <2>1, <2>2 DEF HandoffInPlay, Minted
  <2> QED BY <2>3, <2>4
<1>6. ASSUME HandoffFails
      PROVE  HandoffTypeOK' /\ HandoffInPlay'
  <2>1. /\ flush' = [flush EXCEPT !.now = NoVersion]
        /\ handed' = Abandoned(handed) /\ unpacking' = Abandoned(unpacking)
        /\ UNCHANGED dropped
    BY <1>6 DEF HandoffFails
  <2>2. /\ flush'.to = flush.to /\ flush'.left = flush.left /\ flush'.now = NoVersion
    BY <1>t, <2>1 DEF HandoffTypeOK
  <2>3. /\ handed' \subseteq [put : Put, at : Prefs, waited : BOOLEAN]
        /\ \A c \in handed' : Minted(c.put)
    <3>1. ASSUME NEW c \in handed
          PROVE  /\ [c EXCEPT !.waited = FALSE] \in [put : Put, at : Prefs, waited : BOOLEAN]
                 /\ Minted([c EXCEPT !.waited = FALSE].put)
      BY <1>t, <3>1 DEF HandoffTypeOK, HandoffInPlay
    <3> QED BY <2>1, <3>1 DEF Abandoned
  <2>4. /\ unpacking' \subseteq [put : Put, at : Prefs, waited : BOOLEAN, base : SUBSET Put]
        /\ \A h \in unpacking' : /\ Minted(h.put) /\ IsAntichain(clk, h.base)
                                 /\ \A v \in h.base : Minted(v)
    <3>1. ASSUME NEW h \in unpacking
          PROVE  /\ [h EXCEPT !.waited = FALSE]
                      \in [put : Put, at : Prefs, waited : BOOLEAN, base : SUBSET Put]
                 /\ [h EXCEPT !.waited = FALSE].put = h.put
                 /\ [h EXCEPT !.waited = FALSE].base = h.base
                 /\ Minted(h.put) /\ IsAntichain(clk, h.base)
                 /\ \A v \in h.base : Minted(v)
      BY <1>t, <3>1 DEF HandoffTypeOK, HandoffInPlay
    <3> QED BY <2>1, <3>1 DEF Abandoned
  <2>5. HandoffTypeOK'
    BY <1>t, <2>1, <2>3, <2>4 DEF HandoffTypeOK
  <2>6. HandoffInPlay'
    BY <1>t, <1>f, <2>2, <2>3, <2>4 DEF HandoffInPlay, Minted
  <2> QED BY <2>5, <2>6
<1>7. ASSUME EndFlush
      PROVE  HandoffTypeOK' /\ HandoffInPlay'
  <2>1. /\ flush' = [to |-> NoNode, left |-> {}, now |-> NoVersion, ok |-> FALSE]
        /\ UNCHANGED <<handed, unpacking, dropped>>
    BY <1>7 DEF EndFlush, Idle
  <2>2. HandoffTypeOK'
    BY <1>t, <2>1 DEF HandoffTypeOK
  <2>3. HandoffInPlay'
    BY <1>t, <1>f, <2>1 DEF HandoffInPlay, Minted
  <2> QED BY <2>2, <2>3
<1>8. HandoffTypeOK' /\ HandoffInPlay'
  BY <1>1, <1>2, <1>3, <1>4, <1>5, <1>6, <1>7 DEF FlushStep
<1> QED BY <1>8, InvFlushStep DEF HandoffInv

-----------------------------------------------------------------------------
(* Handing off and the quorums *)

\* A step of the gossip thread has the effects of a step of the operations: to
\* the coordinators nothing happens, and a replica forgets only in a race.
LEMMA EffectsFlushStep ==
    ASSUME HandoffInv, FlushStep
    PROVE  Effects
<1>f. UNCHANGED <<phase, coord, answers, merged, before, acked, clk, hist, sent>>
  BY FlushFrame
<1>t. clk \in [Put -> Clock] /\ store \in [Prefs -> SUBSET Put] /\ raced \in SUBSET Prefs
  BY DEF HandoffInv, Inv, TypeOK
<1>1. /\ raced \subseteq raced'
      /\ \A n \in Prefs : n \in raced' \/ \A v \in store[n] : Covers(clk, store'[n], clk[v])
  <2>1. ASSUME NEW S \in SUBSET Put, NEW v \in S
        PROVE  Covers(clk, S, clk[v])
    <3>1. clk[v] \in Clock
      BY <1>t
    <3> QED BY <3>1, DominanceOrder DEF Covers
  <2>2. ASSUME NEW v \in Put, NEW n \in Prefs, StoreHanded(v, n)
        PROVE  /\ raced \subseteq raced'
               /\ \A m \in Prefs : m \in raced' \/ \A w \in store[m] : Covers(clk, store'[m], clk[w])
    <3>1. /\ \A m \in Prefs \ {n} : store'[m] = store[m]
          /\ n \in raced' \/ \A w \in store[n] : Covers(clk, store'[n], clk[w])
      BY <2>2, StoreHandedWrites
    <3>2. raced \subseteq raced'
      BY <2>2 DEF StoreHanded
    <3> QED BY <1>t, <2>1, <3>1, <3>2
  <2>3. CASE UNCHANGED <<store, raced>>
    BY <1>t, <2>1, <2>3
  <2> QED BY <2>2, <2>3, FlushFrame
<1>2. Storing
  BY <1>f, <1>1 DEF Storing
<1>3. Lasting
  BY <1>f, <1>1 DEF Lasting, NoDelete, Minted
<1>4. Minting
  BY <1>f DEF Minting
<1>5. \A o \in Request : Asking(o)
  BY <1>f DEF Asking
<1>6. \A o \in Put \cup Get : Merging(o)
  <2>1. \A o : HasRead(o)' <=> HasRead(o)
    BY <1>f DEF HasRead, Minted
  <2> QED BY <1>f, <2>1 DEF Merging
<1> QED BY <1>f, <1>2, <1>3, <1>4, <1>5, <1>6 DEF Effects

QuorumHandoffInv == QuorumInv /\ HandoffInv /\ HistoryInv

LEMMA QuorumHandoffInvInit == HInit => QuorumHandoffInv
BY HandoffInvInit, QuorumInvInit, HistoryInvInit DEF HInit, QuorumHandoffInv

LEMMA QuorumHandoffInvNext == QuorumHandoffInv /\ [HNext]_allVars => QuorumHandoffInv'
<1> SUFFICES ASSUME QuorumHandoffInv, [HNext]_allVars PROVE QuorumHandoffInv'
  OBVIOUS
<1>i. QuorumInv /\ HandoffInv /\ HistoryInv
  BY DEF QuorumHandoffInv
<1>1. CASE [Next]_vars /\ UNCHANGED handoffVars
  BY <1>i, <1>1, HandoffInvQuorumStep, QuorumInvNext, HistoryInvNext DEF QuorumHandoffInv
<1>2. CASE FlushStep
  <2>1. HandoffInv' /\ Inv' /\ TypeOK' /\ TypeOK
    BY <1>i, <1>2, HandoffInvFlushStep DEF HandoffInv, Inv
  <2>2. Effects
    BY <1>i, <1>2, EffectsFlushStep
  <2>3. DeletesBegun'
    BY <1>i, <1>2, FlushFrame DEF QuorumInv, DeletesBegun
  <2>4. AckedMinted' /\ AckedIsStored'
    BY <1>i, <2>1, <2>2, AckedIsStoredNext
  <2>5. DoneHasQuorum' /\ IdleUnanswered' /\ OneAnswerEach'
    BY <1>i, <2>1, <2>2, DoneHasQuorumNext, AnswersNext
  <2>6. AnswersSeeQuorum'
    BY <1>i, <2>1, <2>2, AnswersSeeQuorumNext
  <2>7. MintedOnRead' /\ ReadSeesAcked'
    BY <1>i, <2>1, <2>2, MintedOnReadNext, ReadSeesAckedNext
  <2>8. QuorumInv'
    BY <2>1, <2>3, <2>4, <2>5, <2>6, <2>7 DEF QuorumInv
  <2>9. Histories' /\ ClockCountsWrites'
    BY <1>i, <2>1, <2>2, HistoriesNext, CountsNext DEF HistoryInv, Effects
  <2> QED BY <2>1, <2>8, <2>9 DEF QuorumHandoffInv, HistoryInv
<1> QED BY <1>1, <1>2 DEF HNext, allVars

\* With a gossip thread that hands off hints whenever it likes, by calls that may
\* fail, race or come late, every promise of the quorums and of the clocks holds.
THEOREM QuorumsHoldWithHandoff ==
    HSpec => [](/\ TypeOK /\ Antichains /\ DurableQuorum /\ ReadSeesAcked
                /\ SequentialPutsOrdered /\ ClockCountsWrites /\ ClockIsHistory)
<1> DEFINE Promised == /\ TypeOK /\ Antichains /\ DurableQuorum /\ ReadSeesAcked
                       /\ SequentialPutsOrdered /\ ClockCountsWrites /\ ClockIsHistory
<1>1. QuorumHandoffInv => Promised
  BY QuorumInvIsDurable, QuorumInvOrdersPuts, HistoriesAreClocks
  DEF QuorumHandoffInv, QuorumInv, Inv, HistoryInv
<1> HIDE DEF Promised
<1>2. HSpec => []Promised
  BY <1>1, QuorumHandoffInvInit, QuorumHandoffInvNext, PTL DEF HSpec
<1> QED BY <1>2 DEF Promised

\* A replica a hint is handed to gives up a version only for one that supersedes
\* it, for a delete or in a race, however old the hint.
THEOREM HandoffKeepsVersions == HSpec => HandoffForgetsNothing
<1>1. QuorumHandoffInv /\ [HNext]_allVars =>
        [\A n \in Prefs :
            \/ n \in raced'
            \/ \E d \in Delete : <<d, n>> \in sent \ sent'
            \/ \A v \in store[n] : Covers(clk', store'[n], clk[v])]_allVars
  BY StoringNext, EffectsFlushStep DEF QuorumHandoffInv, QuorumInv, HNext, Effects, Storing
<1> QED BY <1>1, QuorumHandoffInvInit, QuorumHandoffInvNext, PTL
        DEF HSpec, HandoffForgetsNothing

\* So they are with the gossip thread handing off hints.
THEOREM HandoffIsRegister == HSpec => IsRegister
<1>1. HInit => QuorumHandoffInv /\ Regular!Init
  BY QuorumHandoffInvInit, RegularInit DEF HInit
<1>2. QuorumHandoffInv /\ [HNext]_allVars => QuorumHandoffInv' /\ [Regular!Next]_RegularVars
  <2> SUFFICES ASSUME QuorumHandoffInv, [HNext]_allVars
               PROVE  [Regular!Next]_RegularVars
    BY QuorumHandoffInvNext
  <2>i. QuorumInv /\ HandoffInv
    BY DEF QuorumHandoffInv
  <2>1. CASE [Next]_vars
    BY <2>i, <2>1, RegularStep
  <2>2. CASE FlushStep
    <3>1. UNCHANGED <<phase, before, merged, clk>>
      BY <2>2, FlushFrame
    <3>2. raced \subseteq raced'
      BY <2>i, <2>2, EffectsFlushStep DEF Effects, Lasting
    <3>3. raced \in SUBSET Prefs /\ raced' \in SUBSET Prefs
      BY QuorumHandoffInvNext DEF QuorumHandoffInv, HandoffInv, Inv, TypeOK
    <3>4. Stages' = Stages
      BY <3>1 DEF Stages, Stage, Open
    <3> QED BY <3>1, <3>2, <3>3, <3>4, WeakenOrStutter
  <2> QED BY <2>1, <2>2 DEF HNext, allVars
<1> QED BY <1>1, <1>2, PTL DEF HSpec, IsRegister, Regular!Spec, RegularVars, Stages, Sound
\* With the gossip thread too, which makes no call of a write and ends none.
THEOREM WritesWaitForCallsWithHandoff == HSpec => []WritesAwaitCalls
<1>1. QuorumHandoffInv /\ AccountedInv /\ [HNext]_allVars => AccountedInv'
  <2> SUFFICES ASSUME QuorumHandoffInv, AccountedInv, [HNext]_allVars
               PROVE  AccountedInv'
    OBVIOUS
  <2>1. CASE [Next]_vars
    BY <2>1, AccountedInvNext
  <2>2. CASE FlushStep
    <3>1. UNCHANGED <<phase, targets, acked, missed, hinting, sent, loading>>
      BY <2>2, FlushFrame
    <3>2. ASSUME NEW o \in Write
          PROVE  Accounted(o)'
      <4>1. /\ Hinting(o)' = Hinting(o)
            /\ \A n \in Prefs : CallUnderWay(o, n)' = CallUnderWay(o, n)
        BY <3>1 DEF Hinting, CallUnderWay
      <4> QED BY <3>1, <4>1, AccountedStays DEF AccountedInv
    <3>3. TypeOK' /\ Coordinated'
      BY QuorumHandoffInvNext DEF QuorumHandoffInv, HandoffInv, Inv
    <3> QED BY <3>2, <3>3 DEF AccountedInv
  <2> QED BY <2>1, <2>2 DEF HNext, allVars
<1>2. HInit => QuorumHandoffInv /\ AccountedInv
  BY QuorumHandoffInvInit, AccountedInvInit DEF HInit
<1> QED BY <1>1, <1>2, QuorumHandoffInvNext, AccountedInvIsEnough, PTL DEF HSpec

-----------------------------------------------------------------------------
(* Conservation of hints: the invariant *)

\* A call the flush waits for is the one it made, there is but one, and none
\* once it was answered.
WaitedCall ==
    /\ \A c \in handed \cup unpacking :
          c.waited => c.put = flush.now /\ c.at = flush.to /\ ~ flush.ok
    /\ \A h \in unpacking : h.waited =>
          /\ \A c \in handed : ~ c.waited
          /\ \A g \in unpacking : g.waited => g = h
    /\ flush.ok => flush.now # NoVersion

\* The 200 the flush got is worth what the replica stores now.
Delivered ==
    flush.ok /\ NoDelete /\ flush.to \notin raced =>
        Covers(clk, store[flush.to], clk[flush.now])

\* After the hints for replicas presumed down come only those for replicas the
\* fan-out asked, and such a replica counts as missed after its hint.
HintingOpen ==
    \A p \in Put : Minted(p) /\ phase[p] # "handoff" => hinting[p] \subseteq targets[p] \ missed[p]

\* The hint for n was taken by the holder: n was given up and its hint is neither
\* about to be delivered nor among those that failed.
Owed(p, n) == /\ Minted(p) /\ <<p, n>> \notin stray /\ n \notin hinting[p]
              /\ n \notin targets[p] \/ n \in missed[p]

OwedIsPlaced ==
    NoDelete => \A p \in Put, n \in Prefs :
        Owed(p, n) /\ n \notin raced /\ (\A d \in dropped : d[2] # n) => KeptOrStored(p, n)

ConservedInv == QuorumHandoffInv /\ WaitedCall /\ Delivered /\ HintingOpen /\ OwedIsPlaced

LEMMA ConservedInvInit == HInit => ConservedInv
<1> SUFFICES ASSUME HInit PROVE ConservedInv
  OBVIOUS
<1>1. QuorumHandoffInv
  BY QuorumHandoffInvInit
<1>2. /\ flush.ok = FALSE /\ handed = {} /\ unpacking = {}
      /\ \A p \in Put : ~ Minted(p)
  BY DEF HInit, Init, Idle, Minted
<1>3. WaitedCall /\ Delivered /\ HintingOpen /\ OwedIsPlaced
  BY <1>2 DEF WaitedCall, Delivered, HintingOpen, OwedIsPlaced, Owed
<1> QED BY <1>1, <1>3 DEF ConservedInv

\* A hint becomes owed only when the holder takes it.
LEMMA OwedOrigin ==
    ASSUME HandoffInv, [Next]_vars, NEW p \in Put, NEW n \in Prefs, Owed(p, n)'
    PROVE  Owed(p, n) \/ DeliverHint(p, n) \/ StrayHint(p, n)
<1> USE DEF replicaVars, requestVars, writeVars, callVars
<1>t. /\ clk \in [Put -> Clock] /\ hinting \in [Put -> SUBSET Prefs]
      /\ missed \in [Request -> SUBSET Prefs] /\ targets \in [Write -> SUBSET Prefs]
      /\ p \in Request /\ p \in Write /\ p \notin Delete /\ Holder # NoNode
      /\ phase[p] = "read" => ~ Minted(p)
  BY HolderIsKnown, RequestAssumption DEF HandoffInv, Inv, TypeOK, MintedInPlay, Request, Write
<1>o. /\ Minted(p)' /\ <<p, n>> \notin stray' /\ n \notin hinting'[p]
      /\ n \notin targets'[p] \/ n \in missed'[p]
  BY DEF Owed
<1>u. ASSUME UNCHANGED clk, hinting'[p] = hinting[p], targets'[p] = targets[p],
             missed'[p] = missed[p], stray \subseteq stray'
      PROVE  Owed(p, n)
  BY <1>o, <1>u DEF Owed, Minted
<1>1. ASSUME NEW o \in Request, ReadStep(o)
      PROVE  Owed(p, n)
  <2>1. ASSUME NEW m \in Prefs, MissRead(o, m)
        PROVE  Owed(p, n)
    <3>1. /\ phase[o] = "read" /\ missed' = [missed EXCEPT ![o] = @ \cup {m}]
          /\ UNCHANGED <<clk, hinting, targets, stray>>
      BY <2>1 DEF MissRead, Reading
    <3>2. p # o
      BY <1>t, <1>o, <3>1 DEF Minted
    <3> QED BY <1>t, <1>u, <3>1, <3>2
  <2>2. ASSUME NEW c \in Node, NEW m \in Prefs,
               StartRead(o, c) \/ ServeRead(o, m) \/ RefuseRead(o) \/ AnswerGet(o)
        PROVE  Owed(p, n)
    BY <1>u, <2>2 DEF StartRead, ServeRead, RefuseRead, AnswerGet
  <2> QED BY <1>1, <2>1, <2>2, RingAssumption DEF ReadStep
<1>2. ASSUME NEW o \in Write, WriteStep(o)
      PROVE  Owed(p, n)
  <2>1. ASSUME NEW c \in Node, StartDelete(o, c)
        PROVE  Owed(p, n)
    <3>1. /\ o # p /\ targets' = [targets EXCEPT ![o] = Prefs]
          /\ UNCHANGED <<clk, hinting, missed, stray>>
      BY <1>t, <2>1 DEF StartDelete
    <3> QED BY <1>t, <1>u, <3>1
  <2>2. ASSUME MintVersion(o)
        PROVE  Owed(p, n)
    <3>1. PICK down \in SUBSET Prefs, c \in Clock :
             /\ targets' = [targets EXCEPT ![o] = Prefs \ down]
             /\ hinting' = [hinting EXCEPT ![o] = down]
             /\ clk' = [clk EXCEPT ![o] = c]
      <4>1. PICK order \in Arrival(o), down \in PresumedDown(coord[o]) :
               /\ targets' = [targets EXCEPT ![o] = Prefs \ down]
               /\ hinting' = [hinting EXCEPT ![o] = down]
               /\ clk' = [clk EXCEPT ![o] = NewClock(MergedRead(order), coord[o])]
        BY <1>t, <2>2 DEF MintVersion
      <4>2. down \in SUBSET Prefs
        BY RingAssumption DEF PresumedDown
      <4>3. NewClock(MergedRead(order), coord[o]) \in Clock
        <5>1. o \in Put /\ o \in Request /\ phase[o] = "read"
          BY <2>2 DEF MintVersion, Request
        <5>2. coord[o] \in Node
          BY <5>1 DEF HandoffInv, Inv, Coordinated
        <5>3. MergedRead(order) \in SUBSET Put
          BY <5>1, MergedReadAntichain DEF HandoffInv, Inv
        <5> QED BY <1>t, <5>2, <5>3, NewClockDominates
      <4> QED BY <4>1, <4>2, <4>3
    <3>2. o \in Put /\ missed' = [missed EXCEPT ![o] = {}] /\ UNCHANGED stray
      BY <2>2 DEF MintVersion, callVars
    <3>3. CASE p = o
      <4>1. hinting'[p] = down /\ targets'[p] = Prefs \ down /\ missed'[p] = {}
        BY <1>t, <3>1, <3>2, <3>3
      <4> QED BY <1>o, <4>1
    <3>4. CASE p # o
      <4>1. /\ hinting'[p] = hinting[p] /\ targets'[p] = targets[p]
            /\ missed'[p] = missed[p] /\ clk'[p] = clk[p]
        BY <1>t, <3>1, <3>2, <3>4
      <4> QED BY <1>o, <3>2, <4>1 DEF Owed, Minted
    <3> QED BY <3>3, <3>4
  <2>3. FanOut(o) \/ AnswerWrite(o) \/ RefuseWrite(o) => Owed(p, n)
    BY <1>u DEF FanOut, AnswerWrite, RefuseWrite
  <2> QED BY <1>2, <2>1, <2>2, <2>3 DEF WriteStep
<1>3. ASSUME NEW o \in Write, NEW m \in Prefs, CallStep(o, m)
      PROVE  Owed(p, n)
  <2>1. LoadLocal(o, m) \/ StoreLocal(o, m) \/ DeleteLocal(o, m) => Owed(p, n)
    BY <1>u DEF LoadLocal, StoreLocal, DeleteLocal
  <2>2. ASSUME FailWrite(o, m), o \in Put
        PROVE  Owed(p, n)
    <3>1. /\ hinting' = [hinting EXCEPT ![o] = @ \cup {m}]
          /\ UNCHANGED <<missed, targets, clk, stray>>
      BY <1>t, <2>2 DEF FailWrite
    <3>2. hinting[p] \subseteq hinting'[p]
      BY <1>t, <3>1
    <3> QED BY <1>o, <3>1, <3>2 DEF Owed, Minted
  <2>3. ASSUME FailWrite(o, m), o \notin Put
        PROVE  Owed(p, n)
    <3>1. /\ missed' = [missed EXCEPT ![o] = @ \cup {m}] /\ o # p
          /\ UNCHANGED <<hinting, targets, clk, stray>>
      BY <1>t, <2>3 DEF FailWrite
    <3> QED BY <1>t, <1>u, <3>1
  <2> QED BY <1>3, <2>1, <2>2, <2>3 DEF CallStep
<1>4. ASSUME NEW q \in Put, NEW m \in Prefs, HintStep(q, m)
      PROVE  Owed(p, n) \/ DeliverHint(p, n) \/ StrayHint(p, n)
  <2>1. ASSUME HintDone(q, m), UNCHANGED <<targets, clk>>, stray \subseteq stray',
               ~ (p = q /\ n = m)
        PROVE  Owed(p, n)
    <3>1. /\ hinting' = [hinting EXCEPT ![q] = @ \ {m}]
          /\ missed' = missed \/ missed' = [missed EXCEPT ![q] = @ \cup {m}]
      BY <2>1 DEF HintDone
    <3>2. /\ n \in hinting[p] => n \in hinting'[p]
          /\ n \in missed'[p] => n \in missed[p]
      BY <1>t, <2>1, <3>1
    <3> QED BY <1>o, <2>1, <3>2 DEF Owed, Minted
  <2>2. ASSUME DeliverHint(q, m), ~ (p = q /\ n = m)
        PROVE  Owed(p, n)
    BY <2>1, <2>2 DEF DeliverHint
  <2>3. ASSUME LoseHint(q, m)
        PROVE  Owed(p, n)
    <3>1. ~ (p = q /\ n = m)
      BY <1>o, <2>3 DEF LoseHint
    <3> QED BY <2>1, <2>3, <3>1 DEF LoseHint
  <2>4. ASSUME StrayHint(q, m), ~ (p = q /\ n = m)
        PROVE  Owed(p, n)
    <3>1. /\ UNCHANGED <<clk, hinting, targets, missed>> /\ stray' = stray \ {<<q, m>>}
      BY <2>4 DEF StrayHint
    <3> QED BY <1>o, <2>4, <3>1 DEF Owed, Minted
  <2> QED BY <1>4, <2>2, <2>3, <2>4 DEF HintStep
<1>5. UNCHANGED vars => Owed(p, n)
  BY <1>u DEF vars
<1> QED BY <1>1, <1>2, <1>3, <1>4, <1>5 DEF Next, Quiesced

\* The quorum operations only add to what is kept for a replica.
LEMMA HintsKeep ==
    ASSUME HandoffInv, [Next]_vars, NEW n \in Prefs, NEW c \in Clock, Covers(clk, hints[n], c)
    PROVE  Covers(clk', hints'[n], c)
<1> USE DEF replicaVars, requestVars, writeVars, callVars
<1>t. /\ clk \in [Put -> Clock] /\ hints \in [Prefs -> SUBSET Put]
      /\ \A v \in hints[n] : Minted(v)
  BY DEF HandoffInv, Inv, TypeOK, MintedInPlay
<1>1. ASSUME UNCHANGED hints
      PROVE  Covers(clk', hints'[n], c)
  <2>1. \A v \in hints[n] : clk'[v] = clk[v]
    BY <1>t, MintedKeepClock DEF HandoffInv
  <2> QED BY <1>1, <2>1 DEF Covers
<1>2. ASSUME NEW p \in Put, NEW m \in Prefs, AddHint(m, p), UNCHANGED clk
      PROVE  Covers(clk', hints'[n], c)
  <2>1. hints[n] \in SUBSET Put
    BY <1>t
  <2>2. Covers(clk, Reconcile(clk, hints[n], p), c)
    BY <1>t, <2>1, ReconcileCovers
  <2>3. hints'[n] = hints[n] \/ hints'[n] = Reconcile(clk, hints[n], p)
    BY <1>t, <1>2 DEF AddHint
  <2> QED BY <1>2, <2>2, <2>3
<1>3. ASSUME NEW o \in Request, ReadStep(o)
      PROVE  UNCHANGED hints
  BY <1>3 DEF ReadStep, StartRead, ServeRead, MissRead, RefuseRead, AnswerGet
<1>4. ASSUME NEW o \in Write, WriteStep(o)
      PROVE  UNCHANGED hints
  BY <1>4 DEF WriteStep, StartDelete, MintVersion, FanOut, AnswerWrite, RefuseWrite
<1>5. ASSUME NEW o \in Write, NEW m \in Prefs, CallStep(o, m)
      PROVE  UNCHANGED hints
  BY <1>5 DEF CallStep, LoadLocal, StoreLocal, DeleteLocal, FailWrite
<1>6. ASSUME NEW p \in Put, NEW m \in Prefs, HintStep(p, m)
      PROVE  UNCHANGED hints \/ (AddHint(m, p) /\ UNCHANGED clk)
  <2>1. DeliverHint(p, m) => AddHint(m, p) /\ UNCHANGED clk
    BY DEF DeliverHint
  <2>2. LoseHint(p, m) => UNCHANGED hints
    BY DEF LoseHint
  <2>3. StrayHint(p, m) => AddHint(m, p) /\ UNCHANGED clk
    BY DEF StrayHint
  <2> QED BY <1>6, <2>1, <2>2, <2>3 DEF HintStep
<1>7. UNCHANGED vars => UNCHANGED hints
  BY DEF vars
<1> QED BY <1>1, <1>2, <1>3, <1>4, <1>5, <1>6, <1>7 DEF Next, Quiesced

LEMMA HintingOpenNext ==
    ASSUME HandoffInv, HintingOpen, [Next]_vars
    PROVE  HintingOpen'
<1> SUFFICES ASSUME NEW p \in Put, Minted(p)', phase'[p] # "handoff"
             PROVE  hinting'[p] \subseteq targets'[p] \ missed'[p]
  BY DEF HintingOpen
<1> DEFINE Hinted == hinting'[p] \subseteq targets'[p] \ missed'[p]
<1> USE DEF replicaVars, requestVars, writeVars, callVars
<1>t. /\ clk \in [Put -> Clock] /\ hinting \in [Put -> SUBSET Prefs]
      /\ phase \in [Request -> Phase]
      /\ missed \in [Request -> SUBSET Prefs] /\ targets \in [Write -> SUBSET Prefs]
      /\ p \in Request /\ p \in Write /\ p \notin Delete /\ p \notin Get /\ Holder # NoNode
      /\ phase[p] \in {"idle", "read"} => ~ Minted(p)
  BY HolderIsKnown, RequestAssumption DEF HandoffInv, Inv, TypeOK, MintedInPlay, Request, Write
<1>u. ASSUME clk'[p] = clk[p], hinting'[p] = hinting[p], targets'[p] = targets[p],
             missed'[p] = missed[p], phase[p] # "handoff"
      PROVE  Hinted
  BY <1>u DEF HintingOpen, Minted
<1>1. ASSUME NEW o \in Request, ReadStep(o)
      PROVE  Hinted
  <2>1. ASSUME NEW m \in Prefs, MissRead(o, m)
        PROVE  Hinted
    <3>1. /\ phase[o] = "read" /\ missed' = [missed EXCEPT ![o] = @ \cup {m}]
          /\ UNCHANGED <<phase, clk, hinting, targets>>
      BY <2>1 DEF MissRead, Reading
    <3>2. p # o
      BY <1>t, <3>1 DEF Minted
    <3> QED BY <1>t, <1>u, <3>1, <3>2
  <2>2. ASSUME NEW c \in Node, NEW m \in Prefs,
               StartRead(o, c) \/ ServeRead(o, m) \/ RefuseRead(o) \/ AnswerGet(o)
        PROVE  Hinted
    <3>1. UNCHANGED <<clk, hinting, targets, missed>>
      BY <2>2 DEF StartRead, ServeRead, RefuseRead, AnswerGet
    <3>2. o = p => phase[p] \in {"idle", "read"}
      BY <2>2 DEF StartRead, MayStart, ServeRead, Reading, RefuseRead, AnswerGet
    <3>3. o # p
      BY <1>t, <3>1, <3>2 DEF Minted
    <3>4. phase'[p] = phase[p]
      BY <1>t, <2>2, <3>3 DEF StartRead, ServeRead, RefuseRead, AnswerGet
    <3> QED BY <1>u, <3>1, <3>4
  <2> QED BY <1>1, <2>1, <2>2, RingAssumption DEF ReadStep
<1>2. ASSUME NEW o \in Write, WriteStep(o)
      PROVE  Hinted
  <2>1. ASSUME NEW c \in Node, StartDelete(o, c)
        PROVE  Hinted
    <3>1. /\ o # p /\ targets' = [targets EXCEPT ![o] = Prefs]
          /\ phase' = [phase EXCEPT ![o] = "write"]
          /\ UNCHANGED <<clk, hinting, missed>>
      BY <1>t, <2>1 DEF StartDelete
    <3> QED BY <1>t, <1>u, <3>1
  <2>2. ASSUME MintVersion(o)
        PROVE  Hinted
    <3>1. /\ o \in Put /\ phase' = [phase EXCEPT ![o] = "handoff"]
          /\ missed' = [missed EXCEPT ![o] = {}]
          /\ \E h : hinting' = [hinting EXCEPT ![o] = h]
          /\ \E h : targets' = [targets EXCEPT ![o] = h]
          /\ \E h : clk' = [clk EXCEPT ![o] = h]
      BY <2>2 DEF MintVersion
    <3>2. p # o
      BY <1>t, <3>1
    <3>3. /\ phase'[p] = phase[p] /\ missed'[p] = missed[p] /\ hinting'[p] = hinting[p]
          /\ targets'[p] = targets[p] /\ clk'[p] = clk[p]
      BY <1>t, <3>1, <3>2
    <3> QED BY <1>u, <3>3
  <2>3. ASSUME FanOut(o)
        PROVE  Hinted
    <3>1. /\ hinting[o] = {} /\ phase' = [phase EXCEPT ![o] = "write"]
          /\ UNCHANGED <<clk, hinting, targets, missed>>
      BY <2>3 DEF FanOut
    <3> QED BY <1>t, <1>u, <3>1
  <2>4. ASSUME AnswerWrite(o) \/ RefuseWrite(o)
        PROVE  Hinted
    <3>1. /\ phase[o] = "write" /\ \E x : phase' = [phase EXCEPT ![o] = x]
          /\ UNCHANGED <<clk, hinting, targets, missed>>
      BY <2>4 DEF AnswerWrite, RefuseWrite
    <3> QED BY <1>t, <1>u, <3>1
  <2> QED BY <1>2, <2>1, <2>2, <2>3, <2>4 DEF WriteStep
<1>3. ASSUME NEW o \in Write, NEW m \in Prefs, CallStep(o, m)
      PROVE  Hinted
  <2>1. LoadLocal(o, m) \/ StoreLocal(o, m) \/ DeleteLocal(o, m) => Hinted
    BY <1>u DEF LoadLocal, StoreLocal, DeleteLocal
  <2>2. ASSUME FailWrite(o, m), o \in Put
        PROVE  Hinted
    <3>1. /\ hinting' = [hinting EXCEPT ![o] = @ \cup {m}]
          /\ m \in targets[o] \ missed[o]
          /\ UNCHANGED <<missed, targets, clk, phase>>
      BY <1>t, <2>2 DEF FailWrite, Waiting
    <3>2. hinting[p] \subseteq targets[p] \ missed[p]
      BY <3>1 DEF HintingOpen, Minted
    <3> QED BY <1>t, <3>1, <3>2
  <2>3. ASSUME FailWrite(o, m), o \notin Put
        PROVE  Hinted
    <3>1. /\ missed' = [missed EXCEPT ![o] = @ \cup {m}] /\ o # p
          /\ UNCHANGED <<hinting, targets, clk, phase>>
      BY <1>t, <2>3 DEF FailWrite
    <3> QED BY <1>t, <1>u, <3>1
  <2> QED BY <1>3, <2>1, <2>2, <2>3 DEF CallStep
<1>4. ASSUME NEW q \in Put, NEW m \in Prefs, HintStep(q, m)
      PROVE  Hinted
  <2>1. UNCHANGED <<clk, targets, phase>>
    BY <1>4 DEF HintStep, DeliverHint, LoseHint, StrayHint
  <2>2. hinting[p] \subseteq targets[p] \ missed[p]
    BY <2>1 DEF HintingOpen, Minted
  <2>3. ASSUME HintDone(q, m)
        PROVE  Hinted
    <3>1. hinting' = [hinting EXCEPT ![q] = @ \ {m}] /\ q \in Request
      BY <2>3 DEF HintDone, Request
    <3>2. hinting'[p] \subseteq hinting[p] /\ (p = q => m \notin hinting'[p])
      BY <1>t, <3>1
    <3>3. missed' = missed \/ missed' = [missed EXCEPT ![q] = @ \cup {m}]
      BY <2>3 DEF HintDone
    <3>4. missed'[p] \subseteq missed[p] \cup {m} /\ (p # q => missed'[p] = missed[p])
      BY <1>t, <3>1, <3>3
    <3> QED BY <2>1, <2>2, <3>2, <3>4
  <2>4. StrayHint(q, m) => UNCHANGED <<hinting, missed>>
    BY DEF StrayHint
  <2>5. DeliverHint(q, m) \/ LoseHint(q, m) => HintDone(q, m)
    BY DEF DeliverHint, LoseHint
  <2> QED BY <1>4, <2>1, <2>2, <2>3, <2>4, <2>5 DEF HintStep
<1>5. UNCHANGED vars => Hinted
  BY <1>u DEF vars
<1> HIDE DEF Hinted
<1>6. Hinted
  BY <1>1, <1>2, <1>3, <1>4, <1>5 DEF Next, Quiesced
<1> QED BY <1>6 DEF Hinted

LEMMA WaitedCallFlushStep ==
    ASSUME HandoffInv, WaitedCall, FlushStep
    PROVE  WaitedCall'
<1>t. /\ HandoffTypeOK /\ NoVersion \notin Put
      /\ handed \subseteq [put : Put, at : Prefs, waited : BOOLEAN]
  BY NoVersionAssumption DEF HandoffInv, HandoffTypeOK
\* While nothing is being sent no call is waited for.
<1>n. flush.now = NoVersion \/ flush.ok => \A c \in handed \cup unpacking : ~ c.waited
  BY <1>t DEF HandoffTypeOK, WaitedCall
<1>1. ASSUME NEW n \in Prefs, BeginFlush(n)
      PROVE  WaitedCall'
  <2>1. /\ flush = Idle /\ flush' = [Idle EXCEPT !.to = n, !.left = hints[n]]
        /\ UNCHANGED <<handed, unpacking>>
    BY <1>1 DEF BeginFlush
  <2>2. flush.now = NoVersion /\ flush'.ok = FALSE
    BY <2>1 DEF Idle
  <2> QED BY <1>n, <2>1, <2>2 DEF WaitedCall
<1>2. ASSUME NEW v \in Put, SendHint(v)
      PROVE  WaitedCall'
  <2>1. /\ flush.now = NoVersion /\ UNCHANGED unpacking
        /\ handed' = handed \cup {[put |-> v, at |-> flush.to, waited |-> TRUE]}
    BY <1>2 DEF SendHint
  <2>2. flush'.now = v /\ flush'.to = flush.to /\ flush'.ok = flush.ok
    BY <1>2, <1>t DEF SendHint, HandoffTypeOK
  <2>3. ~ flush.ok
    BY <2>1 DEF WaitedCall
  <2> QED BY <1>n, <2>1, <2>2, <2>3 DEF WaitedCall
<1>3. ASSUME NEW v \in Put, NEW n \in Prefs, LoadHanded(v, n)
      PROVE  WaitedCall'
  <2>1. PICK c \in handed :
           /\ c.put = v /\ c.at = n /\ handed' = handed \ {c}
           /\ unpacking' = unpacking \cup
                {[put |-> v, at |-> n, waited |-> c.waited, base |-> store[n]]}
    BY <1>3 DEF LoadHanded
  <2>2. UNCHANGED flush
    BY <1>3 DEF LoadHanded
  <2> DEFINE h == [put |-> v, at |-> n, waited |-> c.waited, base |-> store[n]]
  <2>3. h.put = c.put /\ h.at = c.at /\ h.waited = c.waited
    BY <2>1
  <2>4. unpacking' = unpacking \cup {h}
    BY <2>1
  <2> HIDE DEF h
  <2>5. \A d \in handed' \cup unpacking' :
           d.waited => d.put = flush.now /\ d.at = flush.to /\ ~ flush.ok
    BY <2>1, <2>3, <2>4 DEF WaitedCall
  <2>6. ASSUME c.waited
        PROVE  (\A d \in handed' : ~ d.waited) /\ (\A g \in unpacking : ~ g.waited)
    <3>1. ASSUME NEW d \in handed', d.waited
          PROVE  FALSE
      <4>1. d \in handed /\ d # c
        BY <2>1, <3>1
      <4>2. d.put = c.put /\ d.at = c.at
        BY <2>6, <3>1, <4>1 DEF WaitedCall
      <4>3. d.waited = TRUE /\ c.waited = TRUE
        BY <1>t, <2>6, <3>1, <4>1
      <4>4. d = c
        BY <1>t, <4>1, <4>2, <4>3
      <4> QED BY <4>1, <4>4
    <3>2. \A g \in unpacking : ~ g.waited
      BY <2>6 DEF WaitedCall
    <3> QED BY <3>1, <3>2
  <2>7. \A g \in unpacking' : g.waited =>
           /\ \A d \in handed' : ~ d.waited
           /\ \A k \in unpacking' : k.waited => k = g
    <3>1. CASE c.waited
      BY <2>3, <2>4, <2>6, <3>1
    <3>2. CASE ~ c.waited
      BY <2>1, <2>3, <2>4, <3>2 DEF WaitedCall
    <3> QED BY <3>1, <3>2
  <2> QED BY <2>2, <2>5, <2>7 DEF WaitedCall
<1>4. ASSUME NEW v \in Put, NEW n \in Prefs, StoreHanded(v, n)
      PROVE  WaitedCall'
  <2>1. PICK h \in unpacking :
           /\ unpacking' = unpacking \ {h}
           /\ flush' = IF h.waited THEN [flush EXCEPT !.ok = TRUE] ELSE flush
    BY <1>4 DEF StoreHanded
  <2>2. UNCHANGED handed
    BY <1>4 DEF StoreHanded
  <2>3. CASE h.waited
    <3>1. \A c \in handed' \cup unpacking' : ~ c.waited
      BY <2>1, <2>2, <2>3 DEF WaitedCall
    <3>2. flush'.now = flush.now /\ flush.now = h.put /\ h.put \in Put
      BY <1>t, <2>1, <2>3 DEF HandoffTypeOK, WaitedCall
    <3> QED BY <1>t, <3>1, <3>2 DEF WaitedCall
  <2>4. CASE ~ h.waited
    BY <2>1, <2>2, <2>4 DEF WaitedCall
  <2> QED BY <2>3, <2>4
<1>5. ASSUME HintHanded
      PROVE  WaitedCall'
  <2>1. /\ flush.ok /\ UNCHANGED <<handed, unpacking>>
        /\ flush' = [flush EXCEPT !.now = NoVersion, !.ok = FALSE]
    BY <1>5 DEF HintHanded, ClearKey
  <2>2. flush'.ok = FALSE
    BY <1>t, <2>1 DEF HandoffTypeOK
  <2> QED BY <1>n, <2>1, <2>2 DEF WaitedCall
<1>6. ASSUME HandoffFails
      PROVE  WaitedCall'
  <2>1. /\ ~ flush.ok /\ flush' = [flush EXCEPT !.now = NoVersion]
        /\ handed' = Abandoned(handed) /\ unpacking' = Abandoned(unpacking)
    BY <1>6 DEF HandoffFails
  <2>2. ~ flush'.ok
    BY <1>t, <2>1 DEF HandoffTypeOK
  <2>3. \A c \in handed' : ~ c.waited
    BY <1>t, <2>1 DEF Abandoned
  <2>4. \A h \in unpacking' : ~ h.waited
    BY <1>t, <2>1 DEF Abandoned, HandoffTypeOK
  <2> QED BY <2>2, <2>3, <2>4 DEF WaitedCall
<1>7. ASSUME EndFlush
      PROVE  WaitedCall'
  <2>1. flush.now = NoVersion /\ flush' = Idle /\ UNCHANGED <<handed, unpacking>>
    BY <1>7 DEF EndFlush
  <2> QED BY <1>n, <2>1 DEF WaitedCall, Idle
<1> QED BY <1>1, <1>2, <1>3, <1>4, <1>5, <1>6, <1>7 DEF FlushStep

\* What was delivered stays, while the flush goes on to clear the hints.
LEMMA DeliveredNext ==
    ASSUME ConservedInv, [HNext]_allVars, TypeOK', Effects
    PROVE  Delivered'
<1> SUFFICES ASSUME flush'.ok, NoDelete', flush'.to \notin raced'
             PROVE  Covers(clk', store'[flush'.to], clk'[flush'.now])
  BY DEF Delivered
<1>t. /\ HandoffTypeOK /\ HandoffInPlay /\ WaitedCall /\ Delivered /\ DeletesBegun
      /\ TypeOK /\ clk \in [Put -> Clock] /\ HandoffInv /\ Lasting
      /\ NoVersion \notin Put
  BY NoVersionAssumption
  DEF ConservedInv, QuorumHandoffInv, QuorumInv, HandoffInv, Inv, TypeOK, Effects
<1>k. ASSUME flush.ok, flush'.to = flush.to, flush'.now = flush.now
      PROVE  Covers(clk', store'[flush'.to], clk'[flush'.now])
  <2>1. NoDelete /\ flush.to \notin raced
    BY <1>t, <1>k DEF Lasting
  <2>2. flush.now \in Put /\ flush.to \in Prefs /\ Minted(flush.now)
    BY <1>t, <1>k DEF HandoffTypeOK, HandoffInPlay, WaitedCall
  <2>3. Covers(clk, store[flush.to], clk[flush.now])
    BY <1>t, <1>k, <2>1 DEF Delivered
  <2>4. clk[flush.now] \in Clock /\ clk'[flush.now] = clk[flush.now]
    BY <1>t, <2>2 DEF Lasting
  <2>5. Covers(clk', store'[flush.to], clk[flush.now])
    BY <1>t, <1>k, <2>2, <2>3, <2>4, StoreKeepsCovering
  <2> QED BY <1>k, <2>4, <2>5
<1>1. CASE UNCHANGED handoffVars
  BY <1>1, <1>k DEF handoffVars
<1>2. ASSUME NEW n \in Prefs, BeginFlush(n)
      PROVE  FALSE
  BY <1>2 DEF BeginFlush, Idle
<1>3. ASSUME NEW v \in Put, SendHint(v)
      PROVE  FALSE
  BY <1>t, <1>3 DEF SendHint, HandoffTypeOK, WaitedCall
<1>4. ASSUME NEW v \in Put, NEW n \in Prefs, LoadHanded(v, n)
      PROVE  UNCHANGED flush
  BY <1>4 DEF LoadHanded
<1>5. ASSUME NEW v \in Put, NEW n \in Prefs, StoreHanded(v, n)
      PROVE  Covers(clk', store'[flush'.to], clk'[flush'.now])
  <2>1. PICK h \in unpacking :
           /\ h.put = v /\ h.at = n
           /\ flush' = IF h.waited THEN [flush EXCEPT !.ok = TRUE] ELSE flush
           /\ Covers(clk, store'[n], clk[v])
    BY <1>t, <1>5, StoreHandedWrites
  <2>2. CASE h.waited
    <3>1. flush'.to = n /\ flush'.now = v
      BY <1>t, <2>1, <2>2 DEF HandoffTypeOK, WaitedCall
    <3>2. clk' = clk
      BY <1>5 DEF StoreHanded, writeVars
    <3> QED BY <2>1, <3>1, <3>2
  <2>3. CASE ~ h.waited
    BY <1>k, <2>1, <2>3
  <2> QED BY <2>2, <2>3
<1>6. HintHanded => FALSE
  BY <1>t DEF HintHanded, HandoffTypeOK
<1>7. HandoffFails => FALSE
  BY <1>t DEF HandoffFails, HandoffTypeOK
<1>8. EndFlush => FALSE
  BY DEF EndFlush, Idle
<1> QED BY <1>1, <1>2, <1>3, <1>4, <1>5, <1>6, <1>7, <1>8, <1>k
        DEF HNext, FlushStep, allVars

\* What is owed is kept until it is delivered, and delivered before it is cleared.
LEMMA OwedIsPlacedNext ==
    ASSUME ConservedInv, [HNext]_allVars, TypeOK', Effects
    PROVE  OwedIsPlaced'
<1> SUFFICES ASSUME NoDelete', NEW p \in Put, NEW n \in Prefs, Owed(p, n)', n \notin raced',
                    \A d \in dropped' : d[2] # n
             PROVE  \/ Covers(clk', hints'[n], clk'[p])
                    \/ Covers(clk', store'[n], clk'[p])
  BY DEF OwedIsPlaced, KeptOrStored
<1>t. /\ HandoffTypeOK /\ WaitedCall /\ Delivered /\ DeletesBegun
      /\ TypeOK /\ clk \in [Put -> Clock] /\ HandoffInv /\ Lasting
      /\ store \in [Prefs -> SUBSET Put] /\ hints \in [Prefs -> SUBSET Put]
  BY DEF ConservedInv, QuorumHandoffInv, QuorumInv, HandoffInv, Inv, TypeOK, Effects
<1>n. NoDelete /\ n \notin raced
  BY <1>t DEF Lasting
<1>s. ASSUME Minted(p), Covers(clk, store[n], clk[p])
      PROVE  Covers(clk', store'[n], clk'[p])
  <2>1. clk[p] \in Clock /\ clk'[p] = clk[p]
    BY <1>t, <1>s DEF Lasting
  <2> QED BY <1>t, <1>s, <2>1, StoreKeepsCovering
<1>1. ASSUME [Next]_vars, UNCHANGED handoffVars
      PROVE  \/ Covers(clk', hints'[n], clk'[p])
             \/ Covers(clk', store'[n], clk'[p])
  <2>1. ASSUME Owed(p, n)
        PROVE  \/ Covers(clk', hints'[n], clk'[p])
               \/ Covers(clk', store'[n], clk'[p])
    <3>1. KeptOrStored(p, n) /\ Minted(p)
      BY <1>1, <1>n, <2>1 DEF ConservedInv, OwedIsPlaced, Owed, handoffVars
    <3>2. clk[p] \in Clock /\ clk'[p] = clk[p]
      BY <1>t, <3>1 DEF Lasting
    <3>3. Covers(clk, hints[n], clk[p]) => Covers(clk', hints'[n], clk[p])
      BY <1>1, <1>t, <3>2, HintsKeep
    <3> QED BY <1>s, <3>1, <3>2, <3>3 DEF KeptOrStored
  <2>2. ASSUME AddHint(n, p), UNCHANGED clk
        PROVE  Covers(clk', hints'[n], clk'[p])
    <3>1. hints'[n] = Reconcile(clk, hints[n], p) /\ hints[n] \in SUBSET Put
      BY <1>t, <2>2 DEF AddHint
    <3> QED BY <1>t, <2>2, <3>1, ReconcileCovers
  <2>3. Owed(p, n) \/ DeliverHint(p, n) \/ StrayHint(p, n)
    BY <1>1, <1>t, OwedOrigin
  <2> QED BY <2>1, <2>2, <2>3 DEF DeliverHint, StrayHint, writeVars
<1>2. ASSUME FlushStep
      PROVE  \/ Covers(clk', hints'[n], clk'[p])
             \/ Covers(clk', store'[n], clk'[p])
  <2>1. UNCHANGED <<clk, targets, missed, hinting, stray>>
    BY <1>2, FlushFrame
  <2>2. Owed(p, n) /\ Minted(p)
    BY <2>1 DEF Owed, Minted
  <2>3. dropped \subseteq dropped'
    BY <1>2 DEF FlushStep, BeginFlush, SendHint, LoadHanded, StoreHanded, HintHanded,
                HandoffFails, EndFlush
  <2>4. KeptOrStored(p, n)
    BY <1>n, <2>2, <2>3 DEF ConservedInv, OwedIsPlaced
  <2>5. CASE Covers(clk, store[n], clk[p])
    BY <1>s, <2>2, <2>5
  <2>6. CASE Covers(clk, hints[n], clk[p]) /\ hints'[n] = hints[n]
    BY <2>1, <2>6
  <2>7. CASE Covers(clk, hints[n], clk[p]) /\ hints'[n] # hints[n]
    <3>1. HintHanded
      BY <1>2, <2>7, FlushFrame
    <3>2. /\ flush.to = n /\ flush.ok /\ UNCHANGED store
          /\ dropped' = dropped \cup ((hints[n] \ {flush.now}) \X {n})
      BY <1>t, <2>7, <3>1 DEF HintHanded, ClearKey
    <3>3. hints[n] \subseteq {flush.now}
      <4>1. ASSUME NEW v \in hints[n] \ {flush.now}
            PROVE  FALSE
        <5>1. <<v, n>> \in dropped'
          BY <3>2
        <5> QED BY <5>1
      <4> QED BY <4>1
    <3>4. /\ flush.now \in Put /\ DominatesOrEqual(clk[flush.now], clk[p])
      BY <1>t, <2>7, <3>3 DEF Covers
    <3>5. PICK w \in store[n] : DominatesOrEqual(clk[w], clk[flush.now])
      BY <1>t, <1>n, <3>2 DEF Delivered, Covers
    <3>6. clk[w] \in Clock /\ clk[flush.now] \in Clock /\ clk[p] \in Clock
      BY <1>t, <3>4, <3>5
    <3>7. DominatesOrEqual(clk[w], clk[p])
      BY <3>4, <3>5, <3>6, DominanceOrder
    <3> QED BY <2>1, <3>2, <3>5, <3>7 DEF Covers
  <2> QED BY <2>4, <2>5, <2>6, <2>7 DEF KeptOrStored
<1> QED BY <1>1, <1>2 DEF HNext, allVars

LEMMA ConservedInvNext == ConservedInv /\ [HNext]_allVars => ConservedInv'
<1> SUFFICES ASSUME ConservedInv, [HNext]_allVars PROVE ConservedInv'
  OBVIOUS
<1>t. QuorumHandoffInv /\ WaitedCall /\ HintingOpen /\ HandoffInv /\ Inv
  BY DEF ConservedInv, QuorumHandoffInv, HandoffInv
<1>1. QuorumHandoffInv' /\ TypeOK'
  BY <1>t, QuorumHandoffInvNext DEF QuorumHandoffInv, HandoffInv, Inv
<1>2. Effects
  BY <1>t, EffectsNext, EffectsFlushStep DEF HNext, allVars
<1>3. Delivered' /\ OwedIsPlaced'
  BY <1>1, <1>2, DeliveredNext, OwedIsPlacedNext
<1>4. WaitedCall'
  <2>1. CASE FlushStep
    BY <1>t, <2>1, WaitedCallFlushStep
  <2>2. CASE UNCHANGED handoffVars
    BY <1>t, <2>2 DEF WaitedCall, handoffVars
  <2> QED BY <2>1, <2>2 DEF HNext, allVars
<1>5. HintingOpen'
  <2>1. CASE FlushStep
    <3>1. UNCHANGED <<clk, phase, hinting, targets, missed>>
      BY <2>1, FlushFrame
    <3> QED BY <1>t, <3>1 DEF HintingOpen, Minted
  <2>2. CASE [Next]_vars
    BY <1>t, <2>2, HintingOpenNext
  <2> QED BY <2>1, <2>2 DEF HNext, allVars
<1> QED BY <1>1, <1>3, <1>4, <1>5 DEF ConservedInv

\* A version the holder took for a replica that was given up is kept for it or
\* stored there, or a newer one is, unless the holder cleared the hints of that
\* replica with one it had not delivered, or put_local calls raced there.
THEOREM HintsAreConserved == HSpec => []HintsConserved
<1>1. ConservedInv => HintsConserved
  BY DEF ConservedInv, HintingOpen, OwedIsPlaced, HintsConserved, GivenUp, Owed
<1> QED BY <1>1, ConservedInvInit, ConservedInvNext, PTL DEF HSpec
=============================================================================
