-------------------------- MODULE HintStoreProofs --------------------------
(***************************************************************************)
(* The hint store implements its mailboxes, for any number of targets,     *)
(* keys, versions, adders and stops: no add is lost to another, a clear    *)
(* takes what it is meant to take, and each list has exactly the maximal   *)
(* clocks of what was added.  All of it rests on the lock: what a thread   *)
(* loaded in add or clear_key is what the row holds when it saves.         *)
(***************************************************************************)
EXTENDS HintStore, VectorClockProofs

-----------------------------------------------------------------------------
(* Lists *)

NoRepeats(s) == \A i, j \in DOMAIN s : s[i] = s[j] => i = j

\* Picked has the elements at the positions, each as often as s.
LEMMA PickedElements ==
    ASSUME NEW V, NEW s \in Seq(V), NEW I \in SUBSET DOMAIN s
    PROVE  /\ Picked(s, I) \in Seq(V)
           /\ \A v : v \in ToSet(Picked(s, I)) <=> \E i \in I : v = s[i]
           /\ NoRepeats(s) => NoRepeats(Picked(s, I))
<1> DEFINE m == Cardinality(I)
           p == Picked(s, I)
<1>1. m \in Nat /\ p \in Seq(V)
  BY PickedPositions
<1>2. PICK pos \in [1..m -> I] :
         /\ p = [r \in 1..m |-> s[pos[r]]]
         /\ \A i \in I : \E r \in 1..m : pos[r] = i
         /\ \A r, q \in 1..m : r < q => pos[r] < pos[q]
  BY PickedPositions
<1> HIDE DEF m, p
<1>3. DOMAIN p = 1..m /\ \A r \in 1..m : p[r] = s[pos[r]] /\ pos[r] \in I
  BY <1>2
<1>4. \A v : v \in ToSet(p) <=> \E i \in I : v = s[i]
  BY <1>2, <1>3 DEF ToSet
<1>5. ASSUME NoRepeats(s)
      PROVE  NoRepeats(p)
  <2> SUFFICES ASSUME NEW r \in 1..m, NEW q \in 1..m, p[r] = p[q], r # q
               PROVE  FALSE
    BY <1>3 DEF NoRepeats
  <2>1. pos[r] = pos[q]
    BY <1>3, <1>5 DEF NoRepeats
  <2>2. pos[r] < pos[q] \/ pos[q] < pos[r]
    BY <1>1, <1>2
  <2>3. pos[r] \in Int
    <3>1. DOMAIN s \subseteq Int
      OBVIOUS
    <3> QED BY <1>3, <3>1
  <2> QED BY <2>1, <2>2, <2>3
<1> QED BY <1>1, <1>4, <1>5 DEF p

LEMMA AppendElements ==
    ASSUME NEW V, NEW s \in Seq(V), NEW v \in V
    PROVE  /\ Append(s, v) \in Seq(V) \ {<<>>}
           /\ ToSet(Append(s, v)) = ToSet(s) \cup {v}
           /\ NoRepeats(s) /\ v \notin ToSet(s) => NoRepeats(Append(s, v))
<1> DEFINE t == Append(s, v)
           n == Len(s)
<1>1. /\ n \in Nat /\ DOMAIN s = 1..n /\ t \in Seq(V) /\ DOMAIN t = 1..(n + 1)
      /\ t[n + 1] = v /\ \A i \in 1..n : t[i] = s[i]
  OBVIOUS
<1>2. t # <<>>
  <2>1. Len(t) = n + 1 /\ Len(<<>>) = 0
    OBVIOUS
  <2> QED BY <1>1, <2>1
<1> HIDE DEF t, n
<1>3. \A i \in 1..(n + 1) : i \in 1..n \/ i = n + 1
  BY <1>1
<1>4. \A i \in 1..n : i \in 1..(n + 1)
  BY <1>1
<1>5. n + 1 \in 1..(n + 1)
  BY <1>1
<1>6. ToSet(t) = ToSet(s) \cup {v}
  BY <1>1, <1>3, <1>4, <1>5 DEF ToSet
<1>7. ASSUME NoRepeats(s), v \notin ToSet(s)
      PROVE  NoRepeats(t)
  BY <1>1, <1>3, <1>7 DEF NoRepeats, ToSet
<1> QED BY <1>1, <1>2, <1>6, <1>7 DEF t

\* reconcile on lists is reconcile on sets, and keeps lists without repeats.
LEMMA ReconcileListElements ==
    ASSUME NEW V, NEW c \in [V -> Clock], NEW s \in Seq(V), NEW v \in V
    PROVE  /\ ReconcileList(c, s, v) \in Seq(V)
           /\ ReconcileList(c, s, v) # <<>>
           /\ ToSet(ReconcileList(c, s, v)) = Reconcile(c, ToSet(s), v)
           /\ NoRepeats(s) => NoRepeats(ReconcileList(c, s, v))
<1> DEFINE I == {i \in DOMAIN s : ~ Superseded(c, v, s[i])}
           kept == Picked(s, I)
<1>0. ToSet(s) \in SUBSET V /\ \A i \in DOMAIN s : s[i] \in V
  BY DEF ToSet
<1>1. Known(c, s, v) <=> Covers(c, ToSet(s), c[v])
  BY DEF Known, Covers, ToSet
<1>2. CASE Known(c, s, v)
  <2>1. ReconcileList(c, s, v) = s /\ Reconcile(c, ToSet(s), v) = ToSet(s)
    BY <1>1, <1>2 DEF ReconcileList, Reconcile
  <2>2. s # <<>>
    BY <1>2 DEF Known
  <2> QED BY <2>1, <2>2
<1>3. CASE ~ Known(c, s, v)
  <2>1. /\ ReconcileList(c, s, v) = Append(kept, v)
        /\ Reconcile(c, ToSet(s), v) =
              {w \in ToSet(s) : Compare(c[v], c[w]) # "dominates"} \cup {v}
    BY <1>1, <1>3 DEF ReconcileList, Reconcile
  <2>2. /\ kept \in Seq(V)
        /\ \A w : w \in ToSet(kept) <=> \E i \in I : w = s[i]
        /\ NoRepeats(s) => NoRepeats(kept)
    BY PickedElements
  <2>3. ToSet(kept) = {w \in ToSet(s) : Compare(c[v], c[w]) # "dominates"}
    BY <2>2 DEF ToSet, Superseded
  <2>4. v \notin ToSet(s)
    <3>1. DominatesOrEqual(c[v], c[v])
      BY DominanceOrder
    <3> QED BY <1>1, <1>3, <3>1 DEF Covers
  <2> HIDE DEF kept
  <2>5. /\ Append(kept, v) \in Seq(V) \ {<<>>}
        /\ ToSet(Append(kept, v)) = ToSet(kept) \cup {v}
        /\ NoRepeats(kept) => NoRepeats(Append(kept, v))
    BY <2>2, <2>3, <2>4, AppendElements
  <2> QED BY <2>1, <2>2, <2>3, <2>5
<1> QED BY <1>2, <1>3

-----------------------------------------------------------------------------
(* Loops: what the code does to one element of a list after the other *)

\* What holds before a loop and after each round, holds after all rounds.  (Of the
\* rounds up to which it holds there is a last one, by FiniteMaximum.)
LEMMA EveryRound ==
    ASSUME NEW n \in Nat, NEW S, 0 \in S, \A i \in 1..n : i - 1 \in S => i \in S
    PROVE  \A i \in 0..n : i \in S
<1> DEFINE T == {m \in 0..n : \A j \in 0..m : j \in S}
<1>1. T \in SUBSET (0..n) /\ 0 \in T
  OBVIOUS
<1>2. T \in SUBSET Nat /\ IsFiniteSet(T) /\ T # {}
  <2>1. IsFiniteSet(0..n)
    BY FS_Interval
  <2> HIDE DEF T
  <2>2. IsFiniteSet(T)
    BY <1>1, <2>1, FS_Subset
  <2> QED BY <1>1, <2>2
<1>3. PICK m \in T : \A y \in T : y <= m
  <2> HIDE DEF T
  <2> QED BY <1>2, FiniteMaximum
<1>4. CASE m < n
  <2>1. m + 1 \in 1..n /\ (m + 1) - 1 = m /\ m \in 0..m
    BY <1>4
  <2>2. m + 1 \in S
    BY <2>1
  <2>3. \A j \in 0..(m + 1) : j \in 0..m \/ j = m + 1
    OBVIOUS
  <2>4. m + 1 \in T
    BY <2>1, <2>2, <2>3
  <2> QED BY <1>3, <2>4
<1>5. CASE m = n
  BY <1>5
<1> QED BY <1>1, <1>4, <1>5

\* What is left after each round of a loop that begins with a.
HasRounds(n, A, a, Round) ==
    \E f \in [0..n -> A] : f[0] = a /\ \A i \in 1..n : f[i] = Round[i][f[i - 1]]

\* A loop has a result after each round: the recursive function is defined.
LEMMA LoopIsDefined ==
    ASSUME NEW n \in Nat, NEW A, NEW a \in A, NEW Round \in [1..n -> [A -> A]]
    PROVE  HasRounds(n, A, a, Round)
<1> DEFINE Up(m, f) == f[0] = a /\ \A i \in 1..m : f[i] = Round[i][f[i - 1]]
           S == {m \in 0..n : \E f \in [0..m -> A] : Up(m, f)}
<1>1. 0 \in S
  <2> DEFINE g == [i \in 0..0 |-> a]
  <2>1. g \in [0..0 -> A] /\ g[0] = a /\ 0 \in 0..n
    OBVIOUS
  <2> HIDE DEF g
  <2>2. \A i \in 1..0 : g[i] = Round[i][g[i - 1]]
    OBVIOUS
  <2> QED BY <2>1, <2>2
<1>2. ASSUME NEW m \in 1..n, m - 1 \in S
      PROVE  m \in S
  <2>1. PICK f \in [0..(m - 1) -> A] : Up(m - 1, f)
    BY <1>2
  <2> DEFINE g == [i \in 0..m |-> IF i = m THEN Round[m][f[m - 1]] ELSE f[i]]
  <2>2. \A i \in 0..m : i = m \/ i \in 0..(m - 1)
    OBVIOUS
  <2>3. g \in [0..m -> A]
    BY <2>2
  <2>4. g[0] = a
    BY <2>1
  <2>5. \A i \in 1..m : g[i] = Round[i][g[i - 1]]
    BY <2>1
  <2>6. m \in 0..n
    OBVIOUS
  <2> HIDE DEF g
  <2> QED BY <2>3, <2>4, <2>5, <2>6
<1>3. n \in S
  <2> HIDE DEF S
  <2>1. \A i \in 1..n : i - 1 \in S => i \in S
    BY <1>2
  <2>2. \A i \in 0..n : i \in S
    BY <1>1, <2>1, EveryRound
  <2> QED BY <2>2
<1> QED BY <1>3 DEF HasRounds

-----------------------------------------------------------------------------
(* The merged read is a merge in order *)

\* S is the merge of the lists, and covers all that is in them.
IsMerge(c, S, lists) ==
    /\ S = MergeInOrder(c, lists)
    /\ IsAntichain(c, S)
    /\ \A i \in DOMAIN lists : \A w \in lists[i] : Covers(c, S, c[w])

\* An empty list adds nothing.
LEMMA MergeNothing ==
    ASSUME NEW V, NEW c \in [V -> Clock], NEW k \in Nat,
           NEW lists \in [1..k -> SUBSET V], NEW more \in [1..(k + 1) -> SUBSET V],
           NEW S, IsMerge(c, S, lists),
           \A i \in 1..k : more[i] = lists[i], more[k + 1] = {}
    PROVE  IsMerge(c, S, more)
<1>1. /\ DOMAIN lists = 1..k /\ DOMAIN more = 1..(k + 1)
      /\ more[k + 1] = {} /\ \A i \in 1..k : i \in 1..(k + 1) /\ more[i] = lists[i]
      /\ \A i \in 1..(k + 1) : i \in 1..k \/ i = k + 1
  OBVIOUS
<1>2. MergeInOrder(c, more) = MergeInOrder(c, lists)
  <2>1. \A v : v \in MergeInOrder(c, more) <=> v \in MergeInOrder(c, lists)
    BY <1>1 DEF MergeInOrder
  <2> QED BY <2>1
<1> QED BY <1>1, <1>2 DEF IsMerge

\* One more version in the last list is one reconcile.
LEMMA MergeOneMore ==
    ASSUME NEW V, NEW c \in [V -> Clock], NEW k \in Nat \ {0},
           NEW lists \in [1..k -> SUBSET V], NEW more \in [1..k -> SUBSET V],
           NEW S \in SUBSET V, NEW v \in V, IsMerge(c, S, lists),
           \A i \in 1..k : i # k => more[i] = lists[i],
           more[k] = lists[k] \cup {v}, IsAntichain(c, more[k])
    PROVE  IsMerge(c, Reconcile(c, S, v), more)
<1> DEFINE First(u, i, ls) ==
              /\ u \in ls[i]
              /\ \A j \in 1..k : \A w \in ls[j] :
                    DominatesOrEqual(c[w], c[u]) => c[w] = c[u] /\ j >= i
           new == Reconcile(c, S, v)
<1>1. /\ \A u : u \in S <=> \E i \in 1..k : First(u, i, lists)
      /\ \A u : u \in MergeInOrder(c, more) <=> \E i \in 1..k : First(u, i, more)
  <2>1. DOMAIN lists = 1..k /\ DOMAIN more = 1..k
    OBVIOUS
  <2>2. S = MergeInOrder(c, lists)
    BY DEF IsMerge
  <2> QED BY <2>1, <2>2 DEF MergeInOrder
<1>2. /\ IsAntichain(c, S) /\ k \in 1..k
      /\ \A i \in 1..k : \A w \in lists[i] : Covers(c, S, c[w])
  BY DEF IsMerge
<1>3. \A i \in 1..k : \A u : u \in more[i] <=> u \in lists[i] \/ (i = k /\ u = v)
  OBVIOUS
<1>4. \A i \in 1..k : \A u \in more[i] : u \in V
  OBVIOUS
<1>r. \A u \in V : DominatesOrEqual(c[u], c[u])
  BY DominanceOrder
<1>5. CASE Covers(c, S, c[v])
  <2>1. new = S
    BY <1>5 DEF Reconcile
  <2>2. PICK m \in S : DominatesOrEqual(c[m], c[v])
    BY <1>5 DEF Covers
  <2>3. ASSUME NEW u \in S
        PROVE  \E i \in 1..k : First(u, i, more)
    <3>1. PICK i \in 1..k : First(u, i, lists)
      BY <1>1
    <3>2. ASSUME DominatesOrEqual(c[v], c[u])
          PROVE  c[v] = c[u] /\ k >= i
      <4>1. DominatesOrEqual(c[m], c[u])
        BY <2>2, <3>2, DominanceOrder
      <4>2. m = u
        BY <1>2, <4>1 DEF IsAntichain
      <4>3. c[v] = c[u]
        BY <2>2, <3>2, <4>2, DominanceOrder
      <4> QED BY <4>3
    <3>3. First(u, i, more)
      BY <1>3, <3>1, <3>2
    <3> QED BY <3>3
  <2>4. ASSUME NEW u, NEW i \in 1..k, First(u, i, more)
        PROVE  u \in S
    <3>1. CASE u \in lists[i]
      <4>1. First(u, i, lists)
        BY <1>3, <2>4, <3>1
      <4> QED BY <1>1, <4>1
    <3>2. CASE u \notin lists[i]
      <4>1. i = k /\ u = v
        BY <1>3, <2>4, <3>2
      <4>2. PICK j \in 1..k : m \in lists[j]
        BY <1>1
      <4>3. c[m] = c[u] /\ j >= k
        BY <1>3, <2>2, <2>4, <4>1, <4>2
      <4>4. m \in more[k] /\ u \in more[k] /\ j = k
        BY <1>3, <4>1, <4>2, <4>3
      <4>5. m = u
        BY <2>2, <4>1, <4>4 DEF IsAntichain
      <4> QED BY <4>5
    <3> QED BY <3>1, <3>2
  <2>5. S = MergeInOrder(c, more)
    BY <1>1, <2>3, <2>4
  <2>6. \A i \in 1..k : \A w \in more[i] : Covers(c, S, c[w])
    BY <1>2, <1>3, <1>5
  <2>7. DOMAIN more = 1..k
    OBVIOUS
  <2> QED BY <1>2, <2>1, <2>5, <2>6, <2>7 DEF IsMerge
<1>6. CASE ~ Covers(c, S, c[v])
  <2>1. new = {u \in S : Compare(c[v], c[u]) # "dominates"} \cup {v}
    BY <1>6 DEF Reconcile
  <2>2. ASSUME NEW i \in 1..k, NEW w \in lists[i], DominatesOrEqual(c[w], c[v])
        PROVE  FALSE
    <3>1. PICK m \in S : DominatesOrEqual(c[m], c[w])
      BY <1>2 DEF Covers
    <3>2. w \in V /\ m \in V
      OBVIOUS
    <3>3. DominatesOrEqual(c[m], c[v])
      BY <2>2, <3>1, <3>2, DominanceOrder
    <3> QED BY <1>6, <3>3 DEF Covers
  <2>3. First(v, k, more)
    <3>1. ASSUME NEW j \in 1..k, NEW w \in more[j], DominatesOrEqual(c[w], c[v])
          PROVE  c[w] = c[v] /\ j >= k
      <4>1. j = k /\ w = v
        BY <1>3, <2>2, <3>1
      <4> QED BY <4>1
    <3> QED BY <1>2, <1>3, <3>1
  <2>4. ASSUME NEW u \in S, Compare(c[v], c[u]) # "dominates"
        PROVE  \E i \in 1..k : First(u, i, more)
    <3>1. PICK i \in 1..k : First(u, i, lists)
      BY <1>1
    <3>2. ~ DominatesOrEqual(c[u], c[v])
      BY <2>2, <3>1
    <3>3. ~ DominatesOrEqual(c[v], c[u])
      BY <2>4, <3>2, CompareMeaning
    <3>4. First(u, i, more)
      BY <1>3, <3>1, <3>3
    <3> QED BY <3>4
  <2>5. ASSUME NEW u, NEW i \in 1..k, First(u, i, more), u # v
        PROVE  u \in S /\ Compare(c[v], c[u]) # "dominates"
    <3>1. First(u, i, lists)
      BY <1>3, <2>5
    <3>2. u \in lists[i] /\ v \in more[k]
      BY <1>3, <3>1
    <3>3. DominatesOrEqual(c[v], c[u]) => c[v] = c[u]
      BY <1>2, <2>5, <3>2
    <3>4. ~ DominatesOrEqual(c[u], c[v])
      BY <2>2, <3>2
    <3>5. Compare(c[v], c[u]) # "dominates"
      BY <1>r, <3>3, <3>4, CompareMeaning
    <3> QED BY <1>1, <3>1, <3>5
  <2>6. \A u : u \in new <=> u \in MergeInOrder(c, more)
    BY <1>1, <1>2, <2>1, <2>3, <2>4, <2>5
  <2>7. IsAntichain(c, new)
    BY <1>2, ReconcileAntichain
  <2>8. /\ Covers(c, new, c[v])
        /\ \A d \in Clock : Covers(c, S, d) => Covers(c, new, d)
    BY ReconcileCovers
  <2>9. \A i \in 1..k : \A w \in more[i] : Covers(c, new, c[w])
    <3>1. ASSUME NEW i \in 1..k, NEW w \in more[i]
          PROVE  Covers(c, new, c[w])
      <4>1. w \in V /\ c[w] \in Clock
        BY <1>4
      <4> QED BY <1>2, <1>3, <2>8, <4>1
    <3> QED BY <3>1
  <2> HIDE DEF new
  <2>10. DOMAIN more = 1..k
    OBVIOUS
  <2>11. IsMerge(c, new, more)
    BY <2>6, <2>7, <2>9, <2>10 DEF IsMerge
  <2> QED BY <2>11 DEF new
<1> QED BY <1>5, <1>6

\* The inner loop, round by round.
AbsorbingRounds(V, c, sibs, list, f) ==
    /\ f \in [0..Len(list) -> Seq(V)]
    /\ f[0] = sibs
    /\ \A i \in 1..Len(list) : f[i] = ReconcileList(c, f[i - 1], list[i])
    /\ Absorbed(c, sibs, list) = f[Len(list)]

LEMMA AbsorbedRounds ==
    ASSUME NEW V, NEW c \in [V -> Clock], NEW sibs \in Seq(V), NEW list \in Seq(V)
    PROVE  \E f : AbsorbingRounds(V, c, sibs, list, f)
<1> DEFINE n == Len(list)
           Round == [i \in 1..n |-> [s \in Seq(V) |-> ReconcileList(c, s, list[i])]]
           after == CHOOSE f : f = [i \in 0..n |-> IF i = 0 THEN sibs
                                        ELSE ReconcileList(c, f[i - 1], list[i])]
           S == {i \in 0..n : after[i] \in Seq(V)}
<1>1. n \in Nat /\ \A i \in 1..n : list[i] \in V
  OBVIOUS
<1>2. after = [i \in 0..n |-> IF i = 0 THEN sibs ELSE ReconcileList(c, after[i - 1], list[i])]
  <2>1. Round \in [1..n -> [Seq(V) -> Seq(V)]]
    BY <1>1, ReconcileListElements
  <2>2. \A i \in 1..n : \A s \in Seq(V) : Round[i][s] = ReconcileList(c, s, list[i])
    OBVIOUS
  <2> HIDE DEF n, Round
  <2>3. HasRounds(n, Seq(V), sibs, Round)
    BY <1>1, <2>1, LoopIsDefined
  <2>4. PICK f \in [0..n -> Seq(V)] :
           f[0] = sibs /\ \A i \in 1..n : f[i] = Round[i][f[i - 1]]
    BY <2>3 DEF HasRounds
  <2>5. \A i \in 0..n : i # 0 => i \in 1..n /\ i - 1 \in 0..n
    BY <1>1
  <2>6. \A i \in 0..n : f[i] = IF i = 0 THEN sibs ELSE ReconcileList(c, f[i - 1], list[i])
    BY <2>2, <2>4, <2>5
  <2>7. f = [i \in 0..n |-> IF i = 0 THEN sibs ELSE ReconcileList(c, f[i - 1], list[i])]
    BY <2>6
  <2> QED BY <2>7
<1>3. Absorbed(c, sibs, list) = after[n]
  BY DEF Absorbed
<1> HIDE DEF after, n
<1>4. after[0] = sibs /\ \A i \in 1..n : after[i] = ReconcileList(c, after[i - 1], list[i])
  BY <1>1, <1>2
<1>5. \A i \in 0..n : i \in S
  <2>1. 0 \in S
    BY <1>1, <1>4
  <2>2. ASSUME NEW i \in 1..n, i - 1 \in S
        PROVE  i \in S
    <3>1. after[i - 1] \in Seq(V) /\ list[i] \in V /\ i \in 0..n
      BY <1>1, <2>2
    <3>2. ReconcileList(c, after[i - 1], list[i]) \in Seq(V)
      BY <3>1, ReconcileListElements
    <3> QED BY <1>4, <3>1, <3>2
  <2> HIDE DEF S
  <2> QED BY <1>1, <2>1, <2>2, EveryRound
<1>6. after \in [0..n -> Seq(V)]
  BY <1>2, <1>5
<1> QED BY <1>3, <1>4, <1>6 DEF n, AbsorbingRounds

\* A list that is an antichain, absorbed, is one more list of the merge.
LEMMA AbsorbedIsMerge ==
    ASSUME NEW V, NEW c \in [V -> Clock], NEW k \in Nat,
           NEW lists \in [1..k -> SUBSET V], NEW more \in [1..(k + 1) -> SUBSET V],
           NEW sibs \in Seq(V), NEW list \in Seq(V), IsAntichain(c, ToSet(list)),
           IsMerge(c, ToSet(sibs), lists),
           \A i \in 1..k : more[i] = lists[i], more[k + 1] = ToSet(list)
    PROVE  IsMerge(c, ToSet(Absorbed(c, sibs, list)), more)
<1> DEFINE n == Len(list)
           Upto(m) == [i \in 1..(k + 1) |-> IF i = k + 1 THEN {list[j] : j \in 1..m}
                                            ELSE lists[i]]
<1>1. n \in Nat /\ DOMAIN list = 1..n /\ \A i \in 1..n : list[i] \in V
  OBVIOUS
<1>r. \A s \in Seq(V), v \in V : ToSet(ReconcileList(c, s, v)) = Reconcile(c, ToSet(s), v)
  BY ReconcileListElements
<1>2. PICK after \in [0..n -> Seq(V)] :
         /\ after[0] = sibs
         /\ \A i \in 1..n : after[i] = ReconcileList(c, after[i - 1], list[i])
         /\ Absorbed(c, sibs, list) = after[n]
  <2>1. PICK f : AbsorbingRounds(V, c, sibs, list, f)
    BY AbsorbedRounds
  <2> QED BY <2>1 DEF AbsorbingRounds
<1> HIDE DEF n
<1> DEFINE S == {m \in 0..n : IsMerge(c, ToSet(after[m]), Upto(m))}
<1>3. \A m \in 0..n :
         /\ Upto(m) \in [1..(k + 1) -> SUBSET V]
         /\ Upto(m)[k + 1] = {list[j] : j \in 1..m}
         /\ \A i \in 1..k : Upto(m)[i] = lists[i]
  BY <1>1
<1> HIDE DEF Upto
<1>4. 0 \in S
  <2>1. {list[j] : j \in 1..0} = {} /\ 0 \in 0..n
    BY <1>1
  <2>2. IsMerge(c, ToSet(sibs), Upto(0))
    BY <1>3, <2>1, MergeNothing
  <2> QED BY <1>2, <2>1, <2>2
<1>5. ASSUME NEW m \in 1..n, m - 1 \in S
      PROVE  m \in S
  <2> DEFINE old == after[m - 1]
             A == Upto(m - 1)
             B == Upto(m)
  <2>0. m \in 0..n /\ m - 1 \in 0..n
    BY <1>1
  <2>1. old \in Seq(V) /\ IsMerge(c, ToSet(old), A) /\ list[m] \in V
    BY <1>1, <1>2, <1>5, <2>0
  <2>2. after[m] = ReconcileList(c, old, list[m])
    BY <1>2
  <2> HIDE DEF old
  <2>3. ToSet(old) \in SUBSET V
    BY <2>1 DEF ToSet
  <2>4. ToSet(after[m]) = Reconcile(c, ToSet(old), list[m])
    <3>1. ToSet(ReconcileList(c, old, list[m])) = Reconcile(c, ToSet(old), list[m])
      BY <1>r, <2>1
    <3> QED BY <2>2, <3>1
  <2>5. {list[j] : j \in 1..m} = {list[j] : j \in 1..(m - 1)} \cup {list[m]}
    <3>1. \A j \in 1..m : j \in 1..(m - 1) \/ j = m
      BY <1>1
    <3>2. \A j \in 1..(m - 1) : j \in 1..m
      BY <1>1
    <3> QED BY <3>1, <3>2
  <2>6. /\ A \in [1..(k + 1) -> SUBSET V] /\ B \in [1..(k + 1) -> SUBSET V]
        /\ k + 1 \in Nat \ {0}
        /\ B[k + 1] = {list[j] : j \in 1..m}
        /\ B[k + 1] = A[k + 1] \cup {list[m]}
        /\ \A i \in 1..(k + 1) : i # k + 1 => B[i] = A[i]
    <3>1. \A i \in 1..(k + 1) : i # k + 1 => i \in 1..k
      OBVIOUS
    <3> QED BY <1>3, <2>0, <2>5, <3>1
  <2>7. IsAntichain(c, B[k + 1])
    <3>1. \A j \in 1..m : j \in 1..n
      BY <1>1
    <3>2. B[k + 1] \subseteq ToSet(list)
      BY <1>1, <2>6, <3>1 DEF ToSet
    <3> QED BY <3>2 DEF IsAntichain
  <2> HIDE DEF A, B
  <2>8. IsMerge(c, Reconcile(c, ToSet(old), list[m]), B)
    BY <2>1, <2>3, <2>6, <2>7, MergeOneMore
  <2> QED BY <2>0, <2>4, <2>8 DEF B
<1>6. n \in S
  <2> HIDE DEF S
  <2>1. \A i \in 1..n : i - 1 \in S => i \in S
    BY <1>5
  <2>2. \A i \in 0..n : i \in S
    BY <1>1, <1>4, <2>1, EveryRound
  <2> QED BY <1>1, <2>2
<1>7. Upto(n) = more
  <2>1. {list[j] : j \in 1..n} = ToSet(list)
    BY <1>1 DEF ToSet
  <2>2. \A i \in 1..(k + 1) : i \in 1..k \/ i = k + 1
    OBVIOUS
  <2>3. n \in 0..n
    BY <1>1
  <2>4. \A i \in 1..(k + 1) : Upto(n)[i] = more[i]
    BY <1>3, <2>1, <2>2, <2>3
  <2> QED BY <1>3, <2>3, <2>4
<1> QED BY <1>2, <1>6, <1>7

\* The outer loop, round by round.
MergingRounds(V, c, k, answers, f) ==
    /\ f \in [0..k -> Seq(V)]
    /\ f[0] = <<>>
    /\ \A i \in 1..k : f[i] = Absorbed(c, f[i - 1], answers[i])
    /\ MergedList(c, answers) = f[k]

LEMMA MergedRounds ==
    ASSUME NEW V, NEW c \in [V -> Clock], NEW k \in Nat, NEW answers \in [1..k -> Seq(V)]
    PROVE  \E f : MergingRounds(V, c, k, answers, f)
<1> DEFINE Round == [i \in 1..k |-> [s \in Seq(V) |-> Absorbed(c, s, answers[i])]]
           after == CHOOSE f : f = [i \in 0..k |-> IF i = 0 THEN <<>>
                                        ELSE Absorbed(c, f[i - 1], answers[i])]
           S == {i \in 0..k : after[i] \in Seq(V)}
<1>1. Len(answers) = k /\ \A i \in 1..k : answers[i] \in Seq(V)
  OBVIOUS
<1>e. <<>> \in Seq(V)
  OBVIOUS
<1>a. \A s, list \in Seq(V) : Absorbed(c, s, list) \in Seq(V)
  <2>1. ASSUME NEW s \in Seq(V), NEW list \in Seq(V)
        PROVE  Absorbed(c, s, list) \in Seq(V)
    <3>1. Len(list) \in 0..Len(list)
      OBVIOUS
    <3>2. PICK f : AbsorbingRounds(V, c, s, list, f)
      BY AbsorbedRounds
    <3> QED BY <3>1, <3>2 DEF AbsorbingRounds
  <2> QED BY <2>1
<1>2. after = [i \in 0..k |-> IF i = 0 THEN <<>> ELSE Absorbed(c, after[i - 1], answers[i])]
  <2>1. Round \in [1..k -> [Seq(V) -> Seq(V)]]
    BY <1>1, <1>a
  <2>2. \A i \in 1..k : \A s \in Seq(V) : Round[i][s] = Absorbed(c, s, answers[i])
    OBVIOUS
  <2> HIDE DEF Round
  <2>3. HasRounds(k, Seq(V), <<>>, Round)
    BY <1>e, <2>1, LoopIsDefined
  <2>4. PICK f \in [0..k -> Seq(V)] :
           f[0] = <<>> /\ \A i \in 1..k : f[i] = Round[i][f[i - 1]]
    BY <2>3 DEF HasRounds
  <2>5. \A i \in 0..k : i # 0 => i \in 1..k /\ i - 1 \in 0..k
    OBVIOUS
  <2>6. \A i \in 0..k : f[i] = IF i = 0 THEN <<>> ELSE Absorbed(c, f[i - 1], answers[i])
    BY <2>2, <2>4, <2>5
  <2>7. f = [i \in 0..k |-> IF i = 0 THEN <<>> ELSE Absorbed(c, f[i - 1], answers[i])]
    BY <2>6
  <2> QED BY <2>7
<1>3. MergedList(c, answers) = after[k]
  BY <1>1 DEF MergedList
<1> HIDE DEF after
<1>4. after[0] = <<>> /\ \A i \in 1..k : after[i] = Absorbed(c, after[i - 1], answers[i])
  BY <1>2
<1>5. \A i \in 0..k : i \in S
  <2>1. 0 \in S
    <3>1. after[0] \in Seq(V) /\ 0 \in 0..k
      BY <1>e, <1>4
    <3> QED BY <3>1
  <2>2. \A i \in 1..k : i - 1 \in S => i \in S
    BY <1>1, <1>4, <1>a
  <2> HIDE DEF S
  <2> QED BY <2>1, <2>2, EveryRound
<1>6. after \in [0..k -> Seq(V)]
  BY <1>2, <1>5
<1> QED BY <1>3, <1>4, <1>6 DEF MergingRounds

\* Sibling lists as replicas answer them, and the sets of their versions.
SiblingLists(V, c, k, answers) ==
    answers \in [1..k -> Seq(V)] /\ \A i \in 1..k : IsAntichain(c, ToSet(answers[i]))
SetsOf(k, answers) == [i \in 1..k |-> ToSet(answers[i])]

\* The code's merged read of lists that are antichains is their merge in order,
\* which is what the other modules use.
LEMMA MergedListIsMerge ==
    ASSUME NEW V, NEW c \in [V -> Clock], NEW k \in Nat, NEW answers,
           SiblingLists(V, c, k, answers)
    PROVE  ToSet(MergedList(c, answers)) = MergeInOrder(c, SetsOf(k, answers))
<1>0. answers \in [1..k -> Seq(V)] /\ \A i \in 1..k : IsAntichain(c, ToSet(answers[i]))
  BY DEF SiblingLists
<1> DEFINE Upto(m) == [i \in 1..m |-> ToSet(answers[i])]
<1>1. PICK after \in [0..k -> Seq(V)] :
         /\ after[0] = <<>>
         /\ \A i \in 1..k : after[i] = Absorbed(c, after[i - 1], answers[i])
         /\ MergedList(c, answers) = after[k]
  <2>1. PICK f : MergingRounds(V, c, k, answers, f)
    BY <1>0, MergedRounds
  <2> QED BY <2>1 DEF MergingRounds
<1> DEFINE S == {m \in 0..k : IsMerge(c, ToSet(after[m]), Upto(m))}
<1>2. 0 \in S
  <2>1. ToSet(<<>>) = {} /\ DOMAIN Upto(0) = {} /\ 0 \in 0..k
    BY DEF ToSet
  <2> HIDE DEF Upto
  <2>2. MergeInOrder(c, Upto(0)) = {}
    BY <2>1 DEF MergeInOrder
  <2>3. IsMerge(c, {}, Upto(0))
    BY <2>1, <2>2 DEF IsMerge, IsAntichain
  <2> QED BY <1>1, <2>1, <2>3
<1>3. ASSUME NEW m \in 1..k, m - 1 \in S
      PROVE  m \in S
  <2> DEFINE j == m - 1
             lists == Upto(j)
             more == Upto(m)
  <2>1. /\ j \in Nat /\ j \in 0..k /\ j + 1 = m /\ m \in 0..k
        /\ lists \in [1..j -> SUBSET V] /\ more \in [1..m -> SUBSET V]
        /\ \A i \in 1..j : more[i] = lists[i]
        /\ more[m] = ToSet(answers[m])
    <3>1. j \in Nat /\ j \in 0..k /\ j + 1 = m /\ m \in 0..k
      OBVIOUS
    <3>2. \A i \in 1..k : ToSet(answers[i]) \in SUBSET V
      BY <1>0 DEF ToSet
    <3>3. \A i \in 1..j : i \in 1..m /\ i \in 1..k
      BY <3>1
    <3>4. \A i \in 1..m : i \in 1..k
      OBVIOUS
    <3> HIDE DEF j
    <3> QED BY <3>1, <3>2, <3>3, <3>4
  <2>2. /\ answers[m] \in Seq(V) /\ IsAntichain(c, ToSet(answers[m]))
        /\ after[j] \in Seq(V) /\ IsMerge(c, ToSet(after[j]), lists)
        /\ after[m] = Absorbed(c, after[j], answers[m])
    BY <1>0, <1>1, <1>3, <2>1
  <2> HIDE DEF j, lists, more
  <2>3. IsMerge(c, ToSet(after[m]), more)
    <3>1. \A sibs, list \in Seq(V) :
            IsAntichain(c, ToSet(list)) /\ IsMerge(c, ToSet(sibs), lists)
                /\ more[j + 1] = ToSet(list)
            => IsMerge(c, ToSet(Absorbed(c, sibs, list)), more)
      BY <2>1, AbsorbedIsMerge
    <3> QED BY <2>1, <2>2, <3>1
  <2> QED BY <2>1, <2>3 DEF more
<1>4. k \in S
  <2> HIDE DEF S
  <2>1. \A i \in 1..k : i - 1 \in S => i \in S
    BY <1>3
  <2>2. \A i \in 0..k : i \in S
    BY <1>2, <2>1, EveryRound
  <2> QED BY <2>2
<1> QED BY <1>1, <1>4 DEF IsMerge, SetsOf

-----------------------------------------------------------------------------
(* The invariant *)

OfKey(k) == {v \in Version : KeyOf[v] = k}

\* What a row holds: for some keys, a list of versions that is not empty.
IsBlob(d) == /\ DOMAIN d \subseteq Key
             /\ \A k \in DOMAIN d : d[k] \in Seq(OfKey(k)) /\ d[k] # <<>>

RowsOK ==
    /\ clk \in [Version -> Clock \ {ZeroClock}]
    /\ DOMAIN rows \subseteq Target
    /\ \A t \in DOMAIN rows : IsBlob(rows[t]) /\ DOMAIN rows[t] # {}
    /\ got \in [Target -> [Key -> Seq(Version)]]

\* What a thread loaded under the lock is what the row holds.
LoadedUnderLock ==
    /\ adding = [a \in Adder |-> adding[a]]
    /\ \A a \in Adder : adding[a] # Resting =>
          /\ lock = a
          /\ adding[a].to \in Target /\ adding[a].put \in Version
          /\ adding[a].blob = Load(adding[a].to)
    /\ flush.step = "save" => lock = Flusher /\ flush.blob = Load(flush.to)

\* Where the gossip thread is in its two loops.
FlushAt ==
    /\ flush = [to |-> flush.to, left |-> flush.left, todo |-> flush.todo,
                step |-> flush.step, blob |-> flush.blob]
    /\ flush.step \in {"rest", "send", "clear", "save"}
    /\ flush.step # "rest" => flush.to \in Target
    /\ flush.step \in {"clear", "save"} => flush.todo # <<>>
    /\ flush.todo \in Seq(Version) /\ IsBlob(flush.left)

\* A list is what is left of the versions added and not cleared since: nothing
\* else, no two of which one is superseded, one for each that was added and, of
\* those with equal clocks, the first.
LeftOf(c, list, those) ==
    /\ NoRepeats(list)
    /\ ToSet(list) \subseteq ToSet(those)
    /\ IsAntichain(c, ToSet(list))
    /\ \A v \in ToSet(those) : Covers(c, ToSet(list), c[v])
    /\ \A v \in ToSet(list) : \A i \in DOMAIN those :
          c[those[i]] = c[v] => \E j \in 1..i : those[j] = v

ListsOfAdded == \A t \in Target, k \in Key : LeftOf(clk, Kept(t, k), got[t][k])

StoreInv == RowsOK /\ LoadedUnderLock /\ FlushAt /\ ListsOfAdded

\* What add and clear_key do to the lists and to the history.
Added(t, v) ==
    /\ \A u \in Target, k \in Key :
          Kept(u, k)' = IF u = t /\ k = KeyOf[v] THEN ReconcileList(clk, Kept(u, k), v)
                        ELSE Kept(u, k)
    /\ got' = [got EXCEPT ![t][KeyOf[v]] = Append(@, v)]
    /\ UNCHANGED clk

Emptied(t, key) ==
    /\ \A u \in Target, k \in Key :
          Kept(u, k)' = IF u = t /\ k = key THEN <<>> ELSE Kept(u, k)
    /\ got' = [got EXCEPT ![t][key] = <<>>]
    /\ UNCHANGED clk

Untouched == UNCHANGED <<clk, rows, got>>

LEMMA LoadedBlob ==
    ASSUME RowsOK, NEW t \in Target
    PROVE  IsBlob(Load(t))
<1>1. DOMAIN NoBlob = {}
  BY DEF NoBlob
<1> QED BY <1>1 DEF RowsOK, Load, IsBlob

LEMMA KeptIsList ==
    ASSUME RowsOK, NEW t \in Target, NEW k \in Key
    PROVE  Kept(t, k) \in Seq(OfKey(k)) /\ Kept(t, k) \in Seq(Version)
<1>1. Kept(t, k) \in Seq(OfKey(k))
  BY LoadedBlob DEF Kept, Siblings, IsBlob
<1>2. OfKey(k) \subseteq Version
  BY DEF OfKey
<1> QED BY <1>1, <1>2

\* Nothing of another thread is between the load and the save of add.
LEMMA FinishAddAdds ==
    ASSUME RowsOK, LoadedUnderLock, NEW a \in Adder, FinishAdd(a)
    PROVE  /\ RowsOK'
           /\ \E t \in Target, v \in Version : Added(t, v)
<1>0. PICK t \in Target, v \in Version :
         t = adding[a].to /\ v = adding[a].put /\ adding[a].blob = Load(t)
  BY DEF LoadedUnderLock, FinishAdd
<1> DEFINE k == KeyOf[v]
           new == ReconcileList(clk, Kept(t, k), v)
<1>t. /\ k \in Key /\ IsBlob(Load(t)) /\ clk \in [Version -> Clock]
      /\ got \in [Target -> [Key -> Seq(Version)]]
  BY HintKeys, LoadedBlob DEF RowsOK
<1>1. /\ rows' = With(rows, t, With(Load(t), k, new))
      /\ got' = [got EXCEPT ![t][k] = Append(@, v)]
      /\ UNCHANGED clk
  BY <1>0 DEF FinishAdd, WithHint, Kept
<1>2. new \in Seq(OfKey(k)) /\ new # <<>>
  <2>1. Kept(t, k) \in Seq(OfKey(k)) /\ v \in OfKey(k)
    BY <1>t, KeptIsList DEF OfKey
  <2>2. Kept(t, k) \in Seq(Version)
    BY <1>t, KeptIsList
  <2>3. clk \in [Version -> Clock] /\ OfKey(k) \subseteq Version
    BY <1>t DEF OfKey
  <2> DEFINE c == [w \in OfKey(k) |-> clk[w]]
  <2>4. c \in [OfKey(k) -> Clock]
    BY <2>3
  <2>5. ReconcileList(c, Kept(t, k), v) = new
    <3>1. \A i \in DOMAIN Kept(t, k) : Kept(t, k)[i] \in OfKey(k)
      BY <2>1
    <3>2. c[v] = clk[v] /\ \A i \in DOMAIN Kept(t, k) : c[Kept(t, k)[i]] = clk[Kept(t, k)[i]]
      BY <2>1, <3>1
    <3> HIDE DEF c
    <3>3. Known(c, Kept(t, k), v) <=> Known(clk, Kept(t, k), v)
      BY <3>2 DEF Known
    <3>4. {i \in DOMAIN Kept(t, k) : ~ Superseded(c, v, Kept(t, k)[i])}
             = {i \in DOMAIN Kept(t, k) : ~ Superseded(clk, v, Kept(t, k)[i])}
      BY <3>2 DEF Superseded
    <3> QED BY <3>3, <3>4 DEF ReconcileList
  <2> HIDE DEF c, new, k
  <2> QED BY <2>1, <2>4, <2>5, ReconcileListElements
<1> HIDE DEF new, k
<1>3. /\ DOMAIN rows' = DOMAIN rows \cup {t}
      /\ rows'[t] = With(Load(t), k, new)
      /\ \A u \in DOMAIN rows \ {t} : rows'[u] = rows[u]
  BY <1>1 DEF With
<1>4. IsBlob(With(Load(t), k, new)) /\ DOMAIN With(Load(t), k, new) # {}
  BY <1>t, <1>2 DEF IsBlob, With
<1>5. got' \in [Target -> [Key -> Seq(Version)]]
  <2>1. got[t][k] \in Seq(Version)
    BY <1>t
  <2>2. Append(got[t][k], v) \in Seq(Version)
    BY <1>t, <2>1
  <2> QED BY <1>t, <1>1, <2>2
<1>6. RowsOK'
  BY <1>t, <1>1, <1>3, <1>4, <1>5 DEF RowsOK
<1>7. ASSUME NEW u \in Target, NEW j \in Key
      PROVE  Kept(u, j)' = IF u = t /\ j = k THEN new ELSE Kept(u, j)
  <2>1. CASE u = t
    <3>1. Load(t)' = With(Load(t), k, new)
      BY <1>3 DEF Load
    <3>2. Kept(u, j)' = Siblings(With(Load(t), k, new), j)
      BY <2>1, <3>1 DEF Kept, Siblings
    <3>3. Siblings(With(Load(t), k, new), j) = IF j = k THEN new ELSE Siblings(Load(t), j)
      BY DEF Siblings, With
    <3> QED BY <2>1, <3>2, <3>3 DEF Kept
  <2>2. CASE u # t
    <3>1. Load(u)' = Load(u)
      BY <1>3, <2>2 DEF Load
    <3> QED BY <2>2, <3>1 DEF Kept, Siblings
  <2> QED BY <2>1, <2>2
<1>8. Added(t, v)
  BY <1>1, <1>7 DEF Added, new, k
<1> QED BY <1>6, <1>8

\* ... nor between the load and the save of clear_key.
LEMMA FinishClearEmpties ==
    ASSUME RowsOK, LoadedUnderLock, FlushAt, FinishClear
    PROVE  /\ RowsOK'
           /\ flush.to \in Target /\ Head(flush.todo) \in Version
           /\ Emptied(flush.to, KeyOf[Head(flush.todo)])
<1>h. /\ flush.to \in Target /\ Head(flush.todo) \in Version
      /\ flush.blob = Load(flush.to)
  <2>1. /\ flush.to \in Target /\ flush.blob = Load(flush.to)
        /\ flush.todo \in Seq(Version) /\ flush.todo # <<>>
    BY DEF FinishClear, LoadedUnderLock, FlushAt
  <2>2. Head(flush.todo) \in Version
    BY <2>1
  <2> QED BY <2>1, <2>2
<1>k. PICK t \in Target, k \in Key : t = flush.to /\ k = KeyOf[Head(flush.todo)]
  BY <1>h, HintKeys
<1>t. /\ flush.blob = Load(t) /\ IsBlob(Load(t)) /\ DOMAIN NoBlob = {}
      /\ got \in [Target -> [Key -> Seq(Version)]]
  BY <1>h, <1>k, LoadedBlob DEF RowsOK, NoBlob
<1>1. /\ rows' = IF k \in DOMAIN Load(t) THEN Cleared(t, Load(t), k) ELSE rows
      /\ got' = [got EXCEPT ![t][k] = <<>>]
      /\ UNCHANGED clk
  BY <1>k, <1>t DEF FinishClear
<1>2. got' \in [Target -> [Key -> Seq(Version)]]
  <2>1. <<>> \in Seq(Version)
    OBVIOUS
  <2> QED BY <1>t, <1>1, <2>1
<1>3. CASE k \notin DOMAIN Load(t)
  <2>1. UNCHANGED rows
    BY <1>1, <1>3
  <2>2. RowsOK'
    BY <1>1, <1>2, <2>1 DEF RowsOK
  <2>3. \A u, j : Kept(u, j)' = Kept(u, j)
    BY <2>1 DEF Kept, Load, Siblings
  <2>4. Kept(t, k) = <<>>
    BY <1>3 DEF Kept, Siblings
  <2>5. Emptied(t, k)
    BY <1>1, <2>3, <2>4 DEF Emptied
  <2> QED BY <1>h, <1>k, <2>2, <2>5
<1>4. CASE k \in DOMAIN Load(t) /\ DOMAIN Load(t) = {k}
  <2>1. rows' = Without(rows, t)
    BY <1>1, <1>4 DEF Cleared
  <2>2. /\ DOMAIN rows' = DOMAIN rows \ {t}
        /\ \A u \in DOMAIN rows \ {t} : rows'[u] = rows[u]
    BY <2>1 DEF Without
  <2>3. RowsOK'
    BY <1>1, <1>2, <2>2 DEF RowsOK
  <2>4. Load(t)' = NoBlob /\ \A u : u # t => Load(u)' = Load(u)
    BY <2>2 DEF Load
  <2>5. ASSUME NEW u \in Target, NEW j \in Key
        PROVE  Kept(u, j)' = IF u = t /\ j = k THEN <<>> ELSE Kept(u, j)
    BY <1>t, <1>4, <2>4 DEF Kept, Siblings
  <2>6. Emptied(t, k)
    BY <1>1, <2>5 DEF Emptied
  <2> QED BY <1>h, <1>k, <2>3, <2>6
<1>5. CASE k \in DOMAIN Load(t) /\ DOMAIN Load(t) # {k}
  <2> DEFINE left == Without(Load(t), k)
  <2>1. rows' = With(rows, t, left)
    BY <1>1, <1>5 DEF Cleared
  <2>2. /\ DOMAIN left = DOMAIN Load(t) \ {k}
        /\ \A j \in DOMAIN left : left[j] = Load(t)[j]
    BY DEF Without
  <2>3. IsBlob(left) /\ DOMAIN left # {}
    BY <1>t, <1>5, <2>2 DEF IsBlob
  <2> HIDE DEF left
  <2>4. /\ DOMAIN rows' = DOMAIN rows \cup {t} /\ rows'[t] = left
        /\ \A u \in DOMAIN rows \ {t} : rows'[u] = rows[u]
    BY <2>1 DEF With
  <2>5. RowsOK'
    BY <1>t, <1>1, <1>2, <2>3, <2>4 DEF RowsOK
  <2>6. Load(t)' = left /\ \A u : u # t => Load(u)' = Load(u)
    BY <2>4 DEF Load
  <2>7. ASSUME NEW u \in Target, NEW j \in Key
        PROVE  Kept(u, j)' = IF u = t /\ j = k THEN <<>> ELSE Kept(u, j)
    BY <2>2, <2>6 DEF Kept, Siblings
  <2>8. Emptied(t, k)
    BY <1>1, <2>7 DEF Emptied
  <2> QED BY <1>h, <1>k, <2>5, <2>8
<1> QED BY <1>3, <1>4, <1>5

\* One more addition.
LEMMA LeftOfOneMore ==
    ASSUME NEW V, NEW c \in [V -> Clock], NEW list \in Seq(V), NEW those \in Seq(V),
           NEW v \in V, LeftOf(c, list, those)
    PROVE  LeftOf(c, ReconcileList(c, list, v), Append(those, v))
<1> DEFINE new == ReconcileList(c, list, v)
           all == Append(those, v)
           n == Len(those)
<1>t. /\ NoRepeats(list) /\ ToSet(list) \subseteq ToSet(those) /\ IsAntichain(c, ToSet(list))
      /\ \A w \in ToSet(those) : Covers(c, ToSet(list), c[w])
      /\ \A w \in ToSet(list) : \A i \in DOMAIN those :
            c[those[i]] = c[w] => \E j \in 1..i : those[j] = w
  BY DEF LeftOf
<1>s. ToSet(list) \in SUBSET V /\ ToSet(those) \in SUBSET V
  BY DEF ToSet
<1>1. /\ NoRepeats(new) /\ ToSet(new) = Reconcile(c, ToSet(list), v)
  BY <1>s, <1>t, ReconcileListElements
<1>2. ToSet(all) = ToSet(those) \cup {v}
  BY AppendElements
<1>3. /\ ToSet(new) \subseteq ToSet(list) \cup {v} /\ IsAntichain(c, ToSet(new))
  BY <1>s, <1>t, <1>1, ReconcileAntichain
<1>4. /\ Covers(c, ToSet(new), c[v])
      /\ \A d \in Clock : Covers(c, ToSet(list), d) => Covers(c, ToSet(new), d)
  BY <1>s, <1>t, <1>1, ReconcileCovers
<1>5. /\ n \in Nat /\ DOMAIN those = 1..n /\ DOMAIN all = 1..(n + 1)
      /\ all[n + 1] = v /\ \A i \in 1..n : all[i] = those[i]
  OBVIOUS
<1>6. \A w \in ToSet(list) : \E j \in 1..n : those[j] = w
  BY <1>s, <1>t, <1>5 DEF ToSet
<1>7. v \in ToSet(list) \/ v \notin ToSet(new) \/ ~ Covers(c, ToSet(list), c[v])
  BY <1>1 DEF Reconcile
<1> HIDE DEF new, all, n
<1>8. ASSUME NEW w \in ToSet(new), NEW i \in 1..(n + 1), c[all[i]] = c[w]
      PROVE  \E j \in 1..i : all[j] = w
  <2>1. CASE w \in ToSet(list) /\ i \in 1..n
    <3>1. PICK j \in 1..i : those[j] = w
      BY <1>s, <1>t, <1>5, <1>8, <2>1
    <3>2. j \in 1..n
      BY <1>5, <2>1
    <3> QED BY <1>5, <3>1, <3>2
  <2>2. CASE w \in ToSet(list) /\ i = n + 1
    <3>1. PICK j \in 1..n : those[j] = w
      BY <1>6, <2>2
    <3>2. j \in 1..i
      BY <1>5, <2>2
    <3> QED BY <1>5, <3>1, <3>2
  <2>3. CASE w \notin ToSet(list) /\ i \in 1..n
    <3>1. w = v /\ ~ Covers(c, ToSet(list), c[v])
      BY <1>3, <1>7, <1>8, <2>3
    <3>2. those[i] \in ToSet(those) /\ c[those[i]] = c[v]
      BY <1>5, <1>8, <2>3, <3>1 DEF ToSet
    <3> QED BY <1>s, <1>t, <3>1, <3>2
  <2>4. CASE w \notin ToSet(list) /\ i = n + 1
    <3>1. w = v /\ i \in 1..i
      BY <1>3, <1>5, <1>8, <2>4
    <3> QED BY <1>5, <2>4, <3>1
  <2>5. i \in 1..n \/ i = n + 1
    BY <1>5
  <2> QED BY <2>1, <2>2, <2>3, <2>4, <2>5
<1>9. \A w \in ToSet(all) : Covers(c, ToSet(new), c[w])
  BY <1>s, <1>t, <1>2, <1>4
<1>10. ToSet(new) \subseteq ToSet(all)
  BY <1>s, <1>t, <1>2, <1>3
<1>11. LeftOf(c, new, all)
  BY <1>1, <1>3, <1>5, <1>8, <1>9, <1>10 DEF LeftOf
<1> QED BY <1>11 DEF new, all

LEMMA LeftOfNone == \A c : LeftOf(c, <<>>, <<>>)
BY DEF LeftOf, ToSet, NoRepeats, IsAntichain

LEMMA ListsAfterAdd ==
    ASSUME RowsOK, ListsOfAdded, NEW t \in Target, NEW v \in Version, Added(t, v)
    PROVE  ListsOfAdded'
<1> SUFFICES ASSUME NEW u \in Target, NEW k \in Key
             PROVE  LeftOf(clk', Kept(u, k)', got'[u][k])
  BY DEF ListsOfAdded
<1>1. /\ clk \in [Version -> Clock] /\ got \in [Target -> [Key -> Seq(Version)]]
      /\ Kept(u, k) \in Seq(Version) /\ LeftOf(clk, Kept(u, k), got[u][k])
      /\ KeyOf[v] \in Key
  BY KeptIsList, HintKeys DEF RowsOK, ListsOfAdded
<1>2. CASE u = t /\ k = KeyOf[v]
  <2>1. /\ clk' = clk /\ Kept(u, k)' = ReconcileList(clk, Kept(u, k), v)
        /\ got'[u][k] = Append(got[u][k], v) /\ got[u][k] \in Seq(Version)
    BY <1>1, <1>2 DEF Added
  <2> QED BY <1>1, <2>1, LeftOfOneMore
<1>3. CASE ~ (u = t /\ k = KeyOf[v])
  <2>1. clk' = clk /\ Kept(u, k)' = Kept(u, k) /\ got'[u][k] = got[u][k]
    BY <1>1, <1>3 DEF Added
  <2> QED BY <1>1, <2>1
<1> QED BY <1>2, <1>3

LEMMA ListsAfterClear ==
    ASSUME RowsOK, ListsOfAdded, NEW t \in Target, NEW key \in Key, Emptied(t, key)
    PROVE  ListsOfAdded'
<1> SUFFICES ASSUME NEW u \in Target, NEW k \in Key
             PROVE  LeftOf(clk', Kept(u, k)', got'[u][k])
  BY DEF ListsOfAdded
<1>1. /\ got \in [Target -> [Key -> Seq(Version)]] /\ LeftOf(clk, Kept(u, k), got[u][k])
  BY DEF RowsOK, ListsOfAdded
<1>2. CASE u = t /\ k = key
  <2>1. Kept(u, k)' = <<>> /\ got'[u][k] = <<>>
    BY <1>1, <1>2 DEF Emptied
  <2> QED BY <2>1, LeftOfNone
<1>3. CASE ~ (u = t /\ k = key)
  <2>1. clk' = clk /\ Kept(u, k)' = Kept(u, k) /\ got'[u][k] = got[u][k]
    BY <1>1, <1>3 DEF Emptied
  <2> QED BY <1>1, <2>1
<1> QED BY <1>2, <1>3

-----------------------------------------------------------------------------
(* The invariant is inductive *)

LEMMA StoreInvInit == Init => StoreInv
<1> SUFFICES ASSUME Init PROVE StoreInv
  OBVIOUS
<1>1. DOMAIN rows = {} /\ DOMAIN NoBlob = {}
  BY DEF Init, NoBlob
<1>2. [Node -> 0..MaxCounter] \subseteq Clock
  BY HintBounds DEF Clock
<1>3. RowsOK
  <2>1. clk \in [Version -> Clock \ {ZeroClock}]
    BY <1>2 DEF Init
  <2>2. <<>> \in Seq(Version)
    OBVIOUS
  <2>3. got \in [Target -> [Key -> Seq(Version)]]
    BY <2>2 DEF Init
  <2> QED BY <1>1, <2>1, <2>3 DEF RowsOK
<1>4. LoadedUnderLock
  <2>1. flush.step = "rest"
    BY DEF Init, Waiting
  <2> QED BY <2>1 DEF Init, LoadedUnderLock
<1>5. FlushAt
  <2>1. /\ flush = [to |-> flush.to, left |-> flush.left, todo |-> flush.todo,
                    step |-> flush.step, blob |-> flush.blob]
        /\ flush.step = "rest" /\ flush.todo = <<>> /\ flush.left = NoBlob
    BY DEF Init, Waiting
  <2>2. IsBlob(NoBlob)
    BY <1>1 DEF IsBlob
  <2> QED BY <2>1, <2>2 DEF FlushAt
<1>6. ListsOfAdded
  <2> SUFFICES ASSUME NEW t \in Target, NEW k \in Key
               PROVE  LeftOf(clk, Kept(t, k), got[t][k])
    BY DEF ListsOfAdded
  <2>1. Kept(t, k) = <<>>
    BY <1>1 DEF Kept, Load, Siblings
  <2>2. got[t][k] = <<>>
    BY DEF Init
  <2> QED BY <2>1, <2>2, LeftOfNone
<1> QED BY <1>3, <1>4, <1>5, <1>6 DEF StoreInv

\* All that a step can do to the lists: nothing, one add or one clear.
LEMMA StepKinds ==
    ASSUME StoreInv, Next
    PROVE  /\ RowsOK'
           /\ \/ Untouched
              \/ \E t \in Target, v \in Version : Added(t, v)
              \/ /\ FinishClear
                 /\ flush.to \in Target /\ Head(flush.todo) \in Version
                 /\ Emptied(flush.to, KeyOf[Head(flush.todo)])
<1>1. CASE \E a \in Adder : FinishAdd(a)
  BY <1>1, FinishAddAdds DEF StoreInv
<1>2. CASE FinishClear
  BY <1>2, FinishClearEmpties DEF StoreInv
<1>3. CASE ~ (\E a \in Adder : FinishAdd(a)) /\ ~ FinishClear
  <2>1. Untouched
    BY <1>3 DEF Next, StartAdd, StartFlush, BeginKey, Delivered, NotDelivered, EndFlush,
                StartClear, Crash, Drained, vars, Untouched
  <2>2. RowsOK'
    BY <2>1 DEF StoreInv, RowsOK, Untouched
  <2> QED BY <2>1, <2>2
<1> QED BY <1>1, <1>2, <1>3

LEMMA ListsOfAddedNext ==
    ASSUME StoreInv, Next
    PROVE  ListsOfAdded'
<1>1. CASE Untouched
  <2>1. clk' = clk /\ got' = got /\ \A t, k : Kept(t, k)' = Kept(t, k)
    BY <1>1 DEF Untouched, Kept, Load, Siblings
  <2> QED BY <2>1 DEF StoreInv, ListsOfAdded
<1>2. CASE \E t \in Target, v \in Version : Added(t, v)
  BY <1>2, ListsAfterAdd DEF StoreInv
<1>3. CASE /\ flush.to \in Target /\ Head(flush.todo) \in Version
           /\ Emptied(flush.to, KeyOf[Head(flush.todo)])
  <2>1. KeyOf[Head(flush.todo)] \in Key
    BY <1>3, HintKeys
  <2> QED BY <1>3, <2>1, ListsAfterClear DEF StoreInv
<1> QED BY <1>1, <1>2, <1>3, StepKinds

\* One step of the gossip thread's two loops.
LEMMA FlushAtNext ==
    ASSUME StoreInv, Next
    PROVE  FlushAt'
<1> USE DEF StoreInv
<1>0. FlushAt /\ DOMAIN NoBlob = {} /\ IsBlob(NoBlob)
  BY DEF NoBlob, IsBlob
<1>1. CASE UNCHANGED flush
  BY <1>0, <1>1 DEF FlushAt
<1>2. CASE flush' = Waiting
  BY <1>0, <1>2 DEF FlushAt, Waiting
<1>3. ASSUME NEW t \in Target, StartFlush(t)
      PROVE  FlushAt'
  <2>1. flush' = [Waiting EXCEPT !.to = t, !.left = Load(t), !.step = "send"]
    BY <1>3 DEF StartFlush
  <2>2. IsBlob(Load(t))
    BY LoadedBlob
  <2>3. <<>> \in Seq(Version)
    OBVIOUS
  <2> QED BY <2>1, <2>2, <2>3 DEF FlushAt, Waiting
<1>4. ASSUME NEW k \in Key, BeginKey(k)
      PROVE  FlushAt'
  <2>1. /\ flush' = [flush EXCEPT !.todo = flush.left[k], !.left = Without(@, k)]
        /\ k \in DOMAIN flush.left /\ flush.step = "send"
    BY <1>4 DEF BeginKey
  <2>2. flush.left[k] \in Seq(OfKey(k)) /\ OfKey(k) \subseteq Version
    BY <1>0, <2>1 DEF FlushAt, IsBlob, OfKey
  <2>3. flush.left[k] \in Seq(Version)
    BY <2>2
  <2>4. IsBlob(Without(flush.left, k))
    BY <1>0 DEF FlushAt, IsBlob, Without
  <2> QED BY <1>0, <2>1, <2>3, <2>4 DEF FlushAt
<1>5. CASE Delivered
  BY <1>0, <1>5 DEF Delivered, Sending, FlushAt
<1>6. CASE NotDelivered
  <2>1. Tail(flush.todo) \in Seq(Version)
    BY <1>0, <1>6 DEF NotDelivered, Sending, FlushAt
  <2> QED BY <1>0, <1>6, <2>1 DEF NotDelivered, Sending, FlushAt
<1>7. CASE StartClear
  BY <1>0, <1>7 DEF StartClear, FlushAt
<1>8. CASE FinishClear
  <2>1. Tail(flush.todo) \in Seq(Version)
    BY <1>0, <1>8 DEF FinishClear, FlushAt
  <2>2. flush' = [flush EXCEPT !.step = "send", !.todo = Tail(@), !.blob = NoBlob]
    BY <1>8 DEF FinishClear
  <2>3. flush.to \in Target
    BY <1>0, <1>8 DEF FinishClear, FlushAt
  <2> QED BY <1>0, <2>1, <2>2, <2>3 DEF FlushAt
<1>9. \/ UNCHANGED flush \/ flush' = Waiting
      \/ \E t \in Target : StartFlush(t)
      \/ \E k \in Key : BeginKey(k)
      \/ Delivered \/ NotDelivered \/ StartClear \/ FinishClear
  BY DEF Next, StartAdd, FinishAdd, EndFlush, Crash, Drained, vars, threadVars
<1> QED BY <1>1, <1>2, <1>3, <1>4, <1>5, <1>6, <1>7, <1>8, <1>9

\* Who is between load and save holds the lock, so nobody else is: the row is
\* what was loaded.
LEMMA LoadedUnderLockNext ==
    ASSUME StoreInv, Next
    PROVE  LoadedUnderLock'
<1>0. /\ adding = [a \in Adder |-> adding[a]]
      /\ \A a \in Adder : adding[a] # Resting =>
            /\ lock = a
            /\ adding[a].to \in Target /\ adding[a].put \in Version
            /\ adding[a].blob = Load(adding[a].to)
      /\ flush.step = "save" => lock = Flusher /\ flush.blob = Load(flush.to)
      /\ flush.step # "rest" => flush.to \in Target
  BY DEF StoreInv, LoadedUnderLock, FlushAt
<1>r. flush = [to |-> flush.to, left |-> flush.left, todo |-> flush.todo,
               step |-> flush.step, blob |-> flush.blob]
  BY DEF StoreInv, FlushAt
<1>1. CASE UNCHANGED <<rows, lock, adding>> /\ (flush'.step = "save" => UNCHANGED flush)
  <2>1. \A t : Load(t)' = Load(t)
    BY <1>1 DEF Load
  <2> QED BY <1>0, <1>1, <2>1 DEF LoadedUnderLock
<1>2. ASSUME NEW a \in Adder, NEW t \in Target, NEW v \in Version, StartAdd(a, t, v)
      PROVE  LoadedUnderLock'
  <2>0. PICK call : call = [to |-> t, put |-> v, blob |-> Load(t)]
    OBVIOUS
  <2>1. /\ lock = Nobody /\ lock' = a /\ UNCHANGED <<rows, flush>>
        /\ adding' = [adding EXCEPT ![a] = call]
    BY <1>2, <2>0 DEF StartAdd, MayEnter
  <2>2. \A u : Load(u)' = Load(u)
    BY <2>1 DEF Load
  <2>3. \A b \in Adder : adding[b] = Resting
    BY <1>0, <2>1, HintThreads
  <2>4. flush'.step # "save"
    BY <1>0, <2>1, HintThreads
  <2>5. /\ call.to = t /\ call.put = v /\ call.blob = Load(t)
    BY <2>0
  <2>6. /\ adding' = [b \in Adder |-> adding'[b]] /\ adding'[a] = call
        /\ \A b \in Adder \ {a} : adding'[b] = Resting
    BY <1>0, <2>1, <2>3
  <2>7. call.blob = Load(t)'
    BY <2>2, <2>5
  <2>8. ASSUME NEW b \in Adder, adding'[b] # Resting
        PROVE  /\ lock' = b
               /\ adding'[b].to \in Target /\ adding'[b].put \in Version
               /\ adding'[b].blob = Load(adding[b].to)'
    <3>1. b = a /\ adding'[b] = call
      BY <2>6, <2>8
    <3>2. adding'[b].to = t
      BY <2>5, <3>1
    <3>3. Load(adding[b].to)' = Load(t)'
      BY <3>2 DEF Load
    <3> QED BY <2>1, <2>5, <2>7, <3>1, <3>2, <3>3
  <2> QED BY <2>4, <2>6, <2>8 DEF LoadedUnderLock
<1>3. ASSUME NEW a \in Adder, FinishAdd(a)
      PROVE  LoadedUnderLock'
  <2>1. /\ adding[a] # Resting /\ adding' = [adding EXCEPT ![a] = Resting] /\ UNCHANGED flush
    BY <1>3 DEF FinishAdd
  <2>2. lock = a
    BY <1>0, <2>1
  <2>3. \A b \in Adder : adding'[b] = Resting
    BY <1>0, <2>1, <2>2
  <2>4. flush'.step # "save"
    BY <1>0, <2>1, <2>2, HintThreads
  <2>5. adding' = [b \in Adder |-> adding'[b]]
    BY <1>0, <2>1
  <2> QED BY <2>3, <2>4, <2>5 DEF LoadedUnderLock
<1>4. CASE StartClear
  <2>1. /\ lock = Nobody /\ lock' = Flusher /\ UNCHANGED <<rows, adding>>
        /\ flush' = [flush EXCEPT !.step = "save", !.blob = Load(flush.to)]
    BY <1>4 DEF StartClear, MayEnter
  <2>2. \A b \in Adder : adding'[b] = Resting
    BY <1>0, <2>1, HintThreads
  <2>3. flush'.to = flush.to /\ flush'.blob = Load(flush.to)
    BY <1>r, <2>1
  <2>4. Load(flush.to)' = Load(flush.to)
    BY <2>1, <2>3 DEF Load
  <2>5. flush'.blob = Load(flush.to)'
    BY <2>3, <2>4
  <2> QED BY <1>0, <2>1, <2>2, <2>5 DEF LoadedUnderLock
<1>5. CASE FinishClear
  <2>1. /\ flush.step = "save" /\ UNCHANGED adding
        /\ flush' = [flush EXCEPT !.step = "send", !.todo = Tail(@), !.blob = NoBlob]
    BY <1>5 DEF FinishClear
  <2>2. lock = Flusher /\ \A b \in Adder : adding'[b] = Resting
    BY <1>0, <2>1, HintThreads
  <2>3. flush'.step = "send"
    BY <1>r, <2>1
  <2> QED BY <1>0, <2>1, <2>2, <2>3 DEF LoadedUnderLock
<1>6. CASE Crash
  <2>1. adding' = [a \in Adder |-> Resting] /\ flush'.step = "rest"
    BY <1>6 DEF Crash, Waiting
  <2> QED BY <2>1 DEF LoadedUnderLock
<1>7. \/ UNCHANGED <<rows, lock, adding>> /\ (flush'.step = "save" => UNCHANGED flush)
      \/ \E a \in Adder, t \in Target, v \in Version : StartAdd(a, t, v)
      \/ \E a \in Adder : FinishAdd(a)
      \/ StartClear \/ FinishClear \/ Crash
  <2>1. ASSUME NEW t \in Target, StartFlush(t)
        PROVE  UNCHANGED <<rows, lock, adding>> /\ flush'.step = "send"
    BY <2>1 DEF StartFlush, Waiting
  <2>2. ASSUME NEW k \in Key, BeginKey(k)
        PROVE  UNCHANGED <<rows, lock, adding>> /\ flush'.step = "send"
    BY <1>r, <2>2 DEF BeginKey
  <2>3. CASE Delivered
    <3>1. UNCHANGED <<rows, lock, adding>> /\ flush'.step = "clear"
      BY <1>r, <2>3 DEF Delivered
    <3> QED BY <3>1
  <2>4. CASE NotDelivered
    <3>1. UNCHANGED <<rows, lock, adding>> /\ flush'.step = "send"
      BY <1>r, <2>4 DEF NotDelivered, Sending
    <3> QED BY <3>1
  <2>5. CASE EndFlush
    <3>1. UNCHANGED <<rows, lock, adding>> /\ flush'.step = "rest"
      BY <2>5 DEF EndFlush, Waiting
    <3> QED BY <3>1
  <2>6. CASE Drained
    BY <2>6 DEF Drained, vars, threadVars
  <2> QED BY <2>1, <2>2, <2>3, <2>4, <2>5, <2>6 DEF Next
<1> QED BY <1>1, <1>2, <1>3, <1>4, <1>5, <1>6, <1>7

LEMMA StoreInvNext == StoreInv /\ [Next]_vars => StoreInv'
<1> SUFFICES ASSUME StoreInv, [Next]_vars PROVE StoreInv'
  OBVIOUS
<1>1. CASE Next
  BY <1>1, StepKinds, LoadedUnderLockNext, FlushAtNext, ListsOfAddedNext DEF StoreInv
<1>2. CASE UNCHANGED vars
  BY <1>2 DEF vars, threadVars, StoreInv, RowsOK, LoadedUnderLock, FlushAt, ListsOfAdded,
              Kept, Load, Siblings
<1> QED BY <1>1, <1>2

LEMMA StoreInvariant == Spec => []StoreInv
BY StoreInvInit, StoreInvNext, PTL DEF Spec

-----------------------------------------------------------------------------
(* The properties *)

LEMMA LengthOfList ==
    ASSUME NEW V, NEW s \in Seq(V), NoRepeats(s)
    PROVE  Len(s) = Cardinality(ToSet(s))
<1> DEFINE n == Len(s)
           S == ToSet(s)
           f == [i \in 1..n |-> s[i]]
<1>1. n \in Nat /\ DOMAIN s = 1..n
  OBVIOUS
<1>2. \A i \in 1..n : s[i] \in S
  BY <1>1 DEF ToSet
<1>3. \A x \in S : \E i \in 1..n : s[i] = x
  BY <1>1 DEF ToSet
<1>4. \A i, j \in 1..n : s[i] = s[j] => i = j
  BY <1>1 DEF NoRepeats
<1> HIDE DEF n, S
<1>5. f \in Surjection(1..n, S) /\ f \in Injection(1..n, S)
  BY <1>2, <1>3, <1>4 DEF Surjection, Injection, IsInjective
<1> HIDE DEF f
<1>6. IsFiniteSet(1..n) /\ Cardinality(1..n) = n
  BY <1>1, FS_Interval
<1>7. Cardinality(S) = n
  BY <1>5, <1>6, FS_Surjection
<1> QED BY <1>7 DEF n, S

\* What is left has the clocks that no other added clock dominates.
LEMMA LeftHasMaximalClocks ==
    ASSUME clk \in [Version -> Clock], NEW list \in Seq(Version), NEW those \in Seq(Version),
           LeftOf(clk, list, those)
    PROVE  {clk[v] : v \in ToSet(list)} = MaximalClocks(ToSet(those))
<1> DEFINE L == ToSet(list)
           S == ToSet(those)
<1>1. /\ L \subseteq S /\ IsAntichain(clk, L) /\ \A v \in S : Covers(clk, L, clk[v])
  BY DEF LeftOf
<1>2. S \subseteq Version
  BY DEF ToSet
<1> HIDE DEF L, S
<1>3. \A v \in S : clk[v] \in Clock
  BY <1>2
<1>4. ASSUME NEW v \in L, NEW w \in S
      PROVE  Compare(clk[w], clk[v]) # "dominates"
  <2> SUFFICES ASSUME Compare(clk[w], clk[v]) = "dominates" PROVE FALSE
    OBVIOUS
  <2>1. DominatesOrEqual(clk[w], clk[v]) /\ ~ DominatesOrEqual(clk[v], clk[w])
    BY CompareMeaning
  <2>2. PICK u \in L : DominatesOrEqual(clk[u], clk[w])
    BY <1>1 DEF Covers
  <2>3. DominatesOrEqual(clk[u], clk[v])
    BY <1>1, <1>3, <2>1, <2>2, DominanceOrder
  <2>4. u = v
    BY <1>1, <2>3 DEF IsAntichain
  <2> QED BY <2>1, <2>2, <2>4
<1>5. ASSUME NEW x \in S, \A w \in S : Compare(clk[w], clk[x]) # "dominates"
      PROVE  \E v \in L : clk[v] = clk[x]
  <2>1. PICK u \in L : DominatesOrEqual(clk[u], clk[x])
    BY <1>1 DEF Covers
  <2>2. Compare(clk[u], clk[x]) # "dominates"
    BY <1>1, <1>5
  <2>3. DominatesOrEqual(clk[x], clk[u])
    BY <2>1, <2>2, CompareMeaning
  <2>4. clk[u] = clk[x]
    BY <1>1, <1>3, <2>1, <2>3, DominanceOrder
  <2> QED BY <2>4
<1>6. \A c : c \in {clk[v] : v \in L} <=> c \in MaximalClocks(S)
  BY <1>1, <1>4, <1>5 DEF MaximalClocks
<1> QED BY <1>6 DEF L, S

\* has_pending and pending_for agree in every state: a target has a row exactly
\* while some version is kept for it, under the key it is a version of.
THEOREM RowsMeanPending == Spec => []RowMeansPending
<1>1. StoreInv => RowMeansPending
  <2> SUFFICES ASSUME StoreInv PROVE RowMeansPending
    OBVIOUS
  <2>1. DOMAIN NoBlob = {}
    BY DEF NoBlob
  <2>2. DOMAIN rows \subseteq Target
    BY DEF StoreInv, RowsOK
  <2> SUFFICES ASSUME NEW t \in DOMAIN rows
               PROVE  /\ rows[t] # NoBlob /\ DOMAIN rows[t] \subseteq Key
                      /\ \A k \in DOMAIN rows[t] :
                            /\ rows[t][k] # <<>>
                            /\ ToSet(rows[t][k]) \subseteq {v \in Version : KeyOf[v] = k}
    BY <2>2 DEF RowMeansPending
  <2>3. IsBlob(rows[t]) /\ DOMAIN rows[t] # {}
    BY DEF StoreInv, RowsOK
  <2>4. ASSUME NEW k \in DOMAIN rows[t]
        PROVE  rows[t][k] # <<>> /\ ToSet(rows[t][k]) \subseteq OfKey(k)
    <3>1. rows[t][k] \in Seq(OfKey(k)) /\ rows[t][k] # <<>>
      BY <2>3 DEF IsBlob
    <3> QED BY <3>1 DEF ToSet
  <2> QED BY <2>1, <2>3, <2>4 DEF IsBlob, OfKey
<1> QED BY <1>1, StoreInvariant, PTL

\* Whatever adders, clears and stops do, and in whatever order, each list has
\* exactly the maximal clocks of what was added and not cleared since, once each.
THEOREM ListsAreOrderIndependent == Spec => []OrderIndependent
<1>1. StoreInv => OrderIndependent
  <2> SUFFICES ASSUME StoreInv, NEW t \in Target, NEW k \in Key
               PROVE  /\ {clk[v] : v \in ToSet(Kept(t, k))} = MaximalClocks(ToSet(got[t][k]))
                      /\ IsAntichain(clk, ToSet(Kept(t, k)))
                      /\ Len(Kept(t, k)) = Cardinality(ToSet(Kept(t, k)))
    BY DEF OrderIndependent
  <2>1. /\ clk \in [Version -> Clock] /\ got[t][k] \in Seq(Version)
        /\ Kept(t, k) \in Seq(Version) /\ LeftOf(clk, Kept(t, k), got[t][k])
    BY KeptIsList DEF StoreInv, RowsOK, ListsOfAdded
  <2>2. NoRepeats(Kept(t, k)) /\ IsAntichain(clk, ToSet(Kept(t, k)))
    BY <2>1 DEF LeftOf
  <2> QED BY <2>1, <2>2, LengthOfList, LeftHasMaximalClocks
<1> QED BY <1>1, StoreInvariant, PTL

\* Of several values minted under one clock the list keeps the first added.
THEOREM FirstValueIsKept == Spec => []FirstOfEqualClocks
<1>1. StoreInv => FirstOfEqualClocks
  BY DEF StoreInv, ListsOfAdded, LeftOf, FirstOfEqualClocks
<1> QED BY <1>1, StoreInvariant, PTL

\* Lists that reconcile built, merged in any order of the replicas by the double
\* loop of _merged_read, leave what the set operator of the other modules says.
THEOREM MergedReadsAreMerges == Spec => []MergeIsFold
<1>1. StoreInv => MergeIsFold
  <2> SUFFICES ASSUME StoreInv, NEW k \in Key, NEW order \in SetToSeqs(Target)
               PROVE  LET answers == [i \in DOMAIN order |-> Kept(order[i], k)]
                          sets    == [i \in DOMAIN order |-> ToSet(answers[i])]
                      IN  ToSet(MergedList(clk, answers)) = MergeInOrder(clk, sets)
    BY DEF MergeIsFold
  <2> DEFINE answers == [i \in DOMAIN order |-> Kept(order[i], k)]
             n == Cardinality(Target)
  <2>1. n \in Nat /\ order \in [1..n -> Target] /\ DOMAIN order = 1..n
    BY HintTargets, FS_CardinalityType DEF SetToSeqs
  <2> HIDE DEF n
  <2>2. \A t \in Target : Kept(t, k) \in Seq(Version) /\ IsAntichain(clk, ToSet(Kept(t, k)))
    BY KeptIsList DEF StoreInv, ListsOfAdded, LeftOf
  <2>3. clk \in [Version -> Clock]
    BY DEF StoreInv, RowsOK
  <2>4. SiblingLists(Version, clk, n, answers)
    BY <2>1, <2>2 DEF SiblingLists
  <2> HIDE DEF answers
  <2>5. ToSet(MergedList(clk, answers)) = MergeInOrder(clk, SetsOf(n, answers))
    BY <2>1, <2>3, <2>4, MergedListIsMerge
  <2> QED BY <2>1, <2>5 DEF answers, SetsOf
<1> QED BY <1>1, StoreInvariant, PTL

-----------------------------------------------------------------------------
(* The hint store implements the mailboxes of module Mailbox *)

LEMMA PromisedReconcile ==
    \A c, S, v : Promise!Reconcile(c, S, v) = Reconcile(c, S, v)
BY DEF Promise!Reconcile, Promise!Covers, Promise!DominatesOrEqual, Promise!Compare,
       Reconcile, Covers, DominatesOrEqual, Compare

LEMMA PromisedInit ==
    ASSUME Init
    PROVE  Promise!Init
<1>1. [Node -> 0..MaxCounter] \subseteq Clock
  BY HintBounds DEF Clock
<1>2. clk \in [Version -> Promise!Clock \ {Promise!ZeroClock}]
  BY <1>1 DEF Init, Promise!Clock, Promise!ZeroClock, Clock, ZeroClock
<1>3. KeptSets = [t \in Target |-> [k \in Key |-> {}]]
  <2>1. \A t \in Target, k \in Key : Kept(t, k) = <<>>
    BY DEF Init, Kept, Load, Siblings, NoBlob
  <2>2. ToSet(<<>>) = {}
    BY DEF ToSet
  <2> QED BY <2>1, <2>2 DEF KeptSets
<1>4. DueBoxes = {}
  BY DEF Init, Waiting, DueBoxes
<1> QED BY <1>2, <1>3, <1>4 DEF Promise!Init

\* An addition is one Take.
LEMMA AddedTakes ==
    ASSUME RowsOK, NEW t \in Target, NEW v \in Version, Added(t, v), UNCHANGED flush
    PROVE  Promise!Take(t, v)
<1> DEFINE key == KeyOf[v]
<1>1. key \in Key /\ clk \in [Version -> Clock] /\ UNCHANGED clk
  BY HintKeys DEF RowsOK, Added
<1>2. UNCHANGED DueBoxes
  BY DEF DueBoxes
<1>3. ASSUME NEW u \in Target, NEW k \in Key
      PROVE  ToSet(Kept(u, k)') = IF u = t /\ k = key THEN Reconcile(clk, ToSet(Kept(u, k)), v)
                                  ELSE ToSet(Kept(u, k))
  <2>1. Kept(u, k) \in Seq(Version)
    BY KeptIsList
  <2>2. ToSet(ReconcileList(clk, Kept(u, k), v)) = Reconcile(clk, ToSet(Kept(u, k)), v)
    BY <1>1, <2>1, ReconcileListElements
  <2> QED BY <2>2 DEF Added
<1> HIDE DEF key
<1>4. KeptSets' = [u \in Target |-> [k \in Key |-> ToSet(Kept(u, k)')]]
  BY DEF KeptSets, ToSet
<1>5. KeptSets' = [KeptSets EXCEPT ![t][key] = Reconcile(clk, @, v)]
  BY <1>1, <1>3, <1>4 DEF KeptSets
<1>6. KeptSets' = [KeptSets EXCEPT ![t][KeyOf[v]] = Promise!Reconcile(clk, @, v)]
  BY <1>5, PromisedReconcile DEF key
<1> QED BY <1>1, <1>2, <1>6 DEF Promise!Take

\* A clear is one Empty, of the mailbox whose version was accepted.
LEMMA EmptiedEmpties ==
    ASSUME RowsOK, FlushAt, FinishClear, NEW t \in Target, NEW key \in Key,
           t = flush.to, key = KeyOf[Head(flush.todo)], Emptied(t, key)
    PROVE  Promise!Empty(t, key)
<1>1. DueBoxes = {<<t, key>>} /\ DueBoxes' = {}
  BY DEF FinishClear, FlushAt, DueBoxes
<1>2. UNCHANGED clk
  BY DEF Emptied
<1>3. KeptSets' = [u \in Target |-> [k \in Key |-> ToSet(Kept(u, k)')]]
  BY DEF KeptSets, ToSet
<1>4. ToSet(<<>>) = {}
  BY DEF ToSet
<1>5. ASSUME NEW u \in Target, NEW k \in Key
      PROVE  ToSet(Kept(u, k)') = IF u = t /\ k = key THEN {} ELSE ToSet(Kept(u, k))
  BY <1>4 DEF Emptied
<1>6. KeptSets' = [KeptSets EXCEPT ![t][key] = {}]
  <2> DEFINE new == [u \in Target |-> [k \in Key |->
                        IF u = t /\ k = key THEN {} ELSE ToSet(Kept(u, k))]]
  <2>1. KeptSets' = new
    BY ONLY <1>3, <1>5
  <2>2. [KeptSets EXCEPT ![t][key] = {}] = new
    BY ONLY t \in Target, key \in Key DEF KeptSets
  <2> QED BY <2>1, <2>2
<1> QED BY <1>1, <1>2, <1>6 DEF Promise!Empty

\* What leaves the lists alone is an Accept, a Forget or no step.
LEMMA UntouchedStep ==
    ASSUME StoreInv, Next, Untouched
    PROVE  [Promise!Next]_<<clk, KeptSets, DueBoxes>>
<1>1. clk' = clk /\ KeptSets' = KeptSets
  <2>1. \A t, k : Kept(t, k)' = Kept(t, k)
    BY DEF Untouched, Kept, Load, Siblings
  <2>2. KeptSets' = [t \in Target |-> [k \in Key |-> ToSet(Kept(t, k)')]]
    BY DEF KeptSets, ToSet
  <2>3. KeptSets' = KeptSets
    BY <2>1, <2>2 DEF KeptSets
  <2> QED BY <2>3 DEF Untouched
<1>2. CASE DueBoxes' = DueBoxes
  BY <1>1, <1>2
<1>3. CASE DueBoxes' = {}
  <2>1. Promise!Forget
    BY <1>1, <1>3 DEF Promise!Forget
  <2> QED BY <2>1 DEF Promise!Next
<1>4. CASE Delivered
  <2>1. /\ flush.to \in Target /\ Head(flush.todo) \in Version
        /\ flush' = [flush EXCEPT !.step = "clear"]
    BY <1>4 DEF StoreInv, FlushAt, Delivered, Sending
  <2>2. PICK t \in Target, k \in Key : t = flush.to /\ k = KeyOf[Head(flush.todo)]
    BY <2>1, HintKeys
  <2>3. flush'.step = "clear" /\ flush'.to = flush.to /\ flush'.todo = flush.todo
    BY <2>1 DEF StoreInv, FlushAt
  <2>4. DueBoxes' = {<<t, k>>}
    BY <2>2, <2>3 DEF DueBoxes
  <2>5. Promise!Accept(t, k)
    BY <1>1, <2>4 DEF Promise!Accept
  <2> QED BY <2>5 DEF Promise!Next
<1>5. DueBoxes' = DueBoxes \/ DueBoxes' = {} \/ Delivered
  <2>f. flush = [to |-> flush.to, left |-> flush.left, todo |-> flush.todo,
                 step |-> flush.step, blob |-> flush.blob]
    BY DEF StoreInv, FlushAt
  <2>1. CASE UNCHANGED flush
    BY <2>1 DEF DueBoxes
  <2>2. CASE flush'.step \in {"rest", "send"}
    BY <2>2 DEF DueBoxes
  <2>3. CASE StartClear
    <3>1. /\ flush' = [flush EXCEPT !.step = "save", !.blob = Load(flush.to)]
          /\ flush.step = "clear"
      BY <2>3 DEF StartClear
    <3>2. flush'.step = "save" /\ flush'.to = flush.to /\ flush'.todo = flush.todo
      BY <2>f, <3>1
    <3> QED BY <3>1, <3>2 DEF DueBoxes
  <2>4. ASSUME NEW t \in Target, StartFlush(t)
        PROVE  flush'.step = "send"
    BY <2>4 DEF StartFlush, Waiting
  <2>5. ASSUME NEW k \in Key, BeginKey(k)
        PROVE  flush'.step = "send"
    BY <2>f, <2>5 DEF BeginKey
  <2>6. ASSUME NotDelivered
        PROVE  flush'.step = "send"
    BY <2>f, <2>6 DEF NotDelivered, Sending
  <2>7. ASSUME EndFlush \/ Crash
        PROVE  flush'.step = "rest"
    BY <2>7 DEF EndFlush, Crash, Waiting
  <2>8. ASSUME FinishClear
        PROVE  flush'.step = "send"
    BY <2>f, <2>8 DEF FinishClear
  <2>9. \/ UNCHANGED flush \/ StartClear \/ Delivered \/ NotDelivered \/ EndFlush \/ Crash
        \/ FinishClear
        \/ \E t \in Target : StartFlush(t)
        \/ \E k \in Key : BeginKey(k)
    BY DEF Next, StartAdd, FinishAdd, Drained, vars, threadVars
  <2> QED BY <2>1, <2>2, <2>3, <2>4, <2>5, <2>6, <2>7, <2>8, <2>9
<1> QED BY <1>2, <1>3, <1>4, <1>5

LEMMA PromisedStep ==
    ASSUME StoreInv, [Next]_vars
    PROVE  [Promise!Next]_<<clk, KeptSets, DueBoxes>>
<1>1. CASE Next /\ Untouched
  BY <1>1, UntouchedStep
<1>2. CASE FinishClear
  <2>1. /\ flush.to \in Target /\ Head(flush.todo) \in Version
        /\ Emptied(flush.to, KeyOf[Head(flush.todo)])
    BY <1>2, FinishClearEmpties DEF StoreInv
  <2>2. PICK t \in Target, k \in Key : t = flush.to /\ k = KeyOf[Head(flush.todo)]
    BY <2>1, HintKeys
  <2>3. Promise!Empty(t, k)
    BY <1>2, <2>1, <2>2, EmptiedEmpties DEF StoreInv
  <2> QED BY <2>3 DEF Promise!Next
<1>3. CASE \E a \in Adder : FinishAdd(a)
  <2>1. UNCHANGED flush
    BY <1>3 DEF FinishAdd
  <2>2. PICK t \in Target, v \in Version : Added(t, v)
    BY <1>3, FinishAddAdds DEF StoreInv
  <2>3. Promise!Take(t, v)
    BY <2>1, <2>2, AddedTakes DEF StoreInv
  <2> QED BY <2>3 DEF Promise!Next
<1>4. CASE Next /\ ~ FinishClear /\ ~ \E a \in Adder : FinishAdd(a)
  <2>1. Untouched
    BY <1>4 DEF Next, StartAdd, StartFlush, BeginKey, Delivered, NotDelivered, EndFlush,
                StartClear, Crash, Drained, vars, Untouched
  <2> QED BY <1>1, <1>4, <2>1
<1>5. CASE UNCHANGED vars
  <2>1. UNCHANGED <<clk, rows, flush>>
    BY <1>5 DEF vars, threadVars
  <2>2. KeptSets' = [t \in Target |-> [k \in Key |-> ToSet(Kept(t, k)')]]
    BY DEF KeptSets, ToSet
  <2>3. \A t, k : Kept(t, k)' = Kept(t, k)
    BY <2>1 DEF Kept, Load, Siblings
  <2>4. KeptSets' = KeptSets
    BY <2>2, <2>3 DEF KeptSets
  <2>5. DueBoxes' = DueBoxes
    BY <2>1 DEF DueBoxes
  <2> QED BY <2>1, <2>4, <2>5
<1> QED BY <1>1, <1>2, <1>3, <1>4, <1>5

\* The hint store is a mailbox per replica and key, for any number of threads
\* that add: no addition is lost to another or to a clear, a clear takes one
\* mailbox whose replica has accepted a version, and a stop loses nothing.
THEOREM HintStoreIsMailbox == Spec => IsMailbox
<1>1. Init => Promise!Init
  BY PromisedInit
<1>2. StoreInv /\ [Next]_vars => [Promise!Next]_<<clk, KeptSets, DueBoxes>>
  BY PromisedStep
<1> QED BY <1>1, <1>2, StoreInvariant, PTL DEF Spec, IsMailbox, Promise!Spec
=============================================================================
