------------------------- MODULE VectorClockProofs -------------------------
(***************************************************************************)
(* Facts about the operators of VectorClock, for any set of nodes and any  *)
(* clocks: dominance is a partial order, a finite set of clocks has a      *)
(* merge, and sibling lists stay antichains.                               *)
(***************************************************************************)
EXTENDS VectorClock, Picking, FiniteSetTheorems, WellFoundedInduction, TLAPS

-----------------------------------------------------------------------------
(* A finite set with a strict order has a maximal element *)

\* Proved by well-founded minimality of the sets of larger elements: the
\* library's induction theorems cannot be instantiated by the provers used.
LEMMA MaximalElement ==
    ASSUME NEW S, IsFiniteSet(S), S # {}, NEW Less,
           \A x \in S : <<x, x>> \notin Less,
           \A x, y, z \in S : <<x, y>> \in Less /\ <<y, z>> \in Less => <<x, z>> \in Less
    PROVE  \E x \in S : \A y \in S : <<x, y>> \notin Less
<1> DEFINE Above(x) == {y \in S : <<x, y>> \in Less}
           T == {Above(x) : x \in S}
<1>1. T \subseteq FiniteSubsetsOf(S) /\ T # {}
  <2>1. \A x \in S : Above(x) \in SUBSET S
    OBVIOUS
  <2>2. \A x \in S : IsFiniteSet(Above(x))
    BY <2>1, FS_Subset
  <2>3. \A x \in S : Above(x) \in FiniteSubsetsOf(S)
    BY <2>1, <2>2 DEF FiniteSubsetsOf
  <2> HIDE DEF Above
  <2> QED BY <2>3
<1>2. PICK A \in T : \A B \in T : ~ (<<B, A>> \in StrictSubsetOrdering(S))
  <2>1. IsWellFoundedOn(StrictSubsetOrdering(S), FiniteSubsetsOf(S))
    BY FS_StrictSubsetOrderingWellFounded
  <2> HIDE DEF T
  <2> QED BY <1>1, <2>1, WFMin
<1>3. PICK x \in S : A = Above(x)
  OBVIOUS
<1>4. ASSUME NEW y \in S, <<x, y>> \in Less
      PROVE  FALSE
  <2>1. Above(y) \subseteq Above(x) /\ y \in Above(x) /\ y \notin Above(y)
    BY <1>4
  <2>2. <<Above(y), Above(x)>> \in StrictSubsetOrdering(S)
    BY <2>1 DEF StrictSubsetOrdering
  <2> QED BY <1>2, <1>3, <2>2
<1> QED BY <1>4

\* max() over the counters of finitely many clocks is one of them.
LEMMA FiniteMaximum ==
    ASSUME NEW S \in SUBSET Nat, IsFiniteSet(S), S # {}
    PROVE  \E m \in S : \A y \in S : y <= m
<1> DEFINE Less == {pr \in S \X S : pr[1] < pr[2]}
<1>1. \A x, y \in S : <<x, y>> \in Less <=> x < y
  OBVIOUS
<1>2. \A x \in S : <<x, x>> \notin Less
  BY <1>1
<1>3. \A x, y, z \in S : <<x, y>> \in Less /\ <<y, z>> \in Less => <<x, z>> \in Less
  BY <1>1
<1> HIDE DEF Less
<1>4. PICK x \in S : \A y \in S : <<x, y>> \notin Less
  BY <1>2, <1>3, MaximalElement
<1>5. ASSUME NEW y \in S
      PROVE  y <= x
  <2>1. ~ (x < y)
    BY <1>1, <1>4
  <2> QED BY <2>1
<1> QED BY <1>5

-----------------------------------------------------------------------------
(* Clocks *)

\* compare, without its four answers.
LEMMA CompareMeaning ==
    ASSUME NEW c, NEW d
    PROVE  /\ DominatesOrEqual(c, d) <=> \A n \in Node : c[n] >= d[n]
           /\ Compare(c, d) = "dominates" <=>
                 /\ \A n \in Node : c[n] >= d[n]
                 /\ ~ \A n \in Node : d[n] >= c[n]
BY DEF DominatesOrEqual, Compare

\* "Dominates or equal" is a partial order on clocks.
LEMMA DominanceOrder ==
    /\ \A c \in Clock : DominatesOrEqual(c, c)
    /\ \A c, d, e \in Clock :
          DominatesOrEqual(c, d) /\ DominatesOrEqual(d, e) => DominatesOrEqual(c, e)
    /\ \A c, d \in Clock :
          DominatesOrEqual(c, d) /\ DominatesOrEqual(d, c) => c = d
<1>1. \A c \in Clock : DominatesOrEqual(c, c)
  BY CompareMeaning DEF Clock
<1>2. ASSUME NEW c \in Clock, NEW d \in Clock, NEW e \in Clock,
             DominatesOrEqual(c, d), DominatesOrEqual(d, e)
      PROVE  DominatesOrEqual(c, e)
  <2>1. \A n \in Node : c[n] \in Nat /\ d[n] \in Nat /\ e[n] \in Nat
    BY DEF Clock
  <2>2. \A n \in Node : c[n] >= d[n] /\ d[n] >= e[n]
    BY <1>2, CompareMeaning
  <2>3. \A n \in Node : c[n] >= e[n]
    BY <2>1, <2>2
  <2> QED BY <2>3, CompareMeaning
<1>3. ASSUME NEW c \in Clock, NEW d \in Clock,
             DominatesOrEqual(c, d), DominatesOrEqual(d, c)
      PROVE  c = d
  <2>1. \A n \in Node : c[n] \in Nat /\ d[n] \in Nat
    BY DEF Clock
  <2>2. \A n \in Node : c[n] >= d[n] /\ d[n] >= c[n]
    BY <1>3, CompareMeaning
  <2>3. \A n \in Node : c[n] = d[n]
    BY <2>1, <2>2
  <2> QED BY <2>3 DEF Clock
<1> QED BY <1>1, <1>2, <1>3

\* A counter incremented is a clock that dominates, and is not, the old one.
LEMMA IncrementedDominates ==
    ASSUME NEW c \in Clock, NEW n \in Node
    PROVE  /\ Incremented(c, n) \in Clock
           /\ DominatesOrEqual(Incremented(c, n), c)
           /\ ~ DominatesOrEqual(c, Incremented(c, n))
           /\ Incremented(c, n) # ZeroClock
<1> DEFINE i == Incremented(c, n)
<1>1. i \in Clock /\ i[n] = c[n] + 1 /\ \A m \in Node \ {n} : i[m] = c[m]
  BY DEF Incremented, Clock
<1>2. c[n] \in Nat /\ \A m \in Node : c[m] \in Nat /\ i[m] \in Nat
  BY <1>1 DEF Clock
<1> HIDE DEF i
<1>3. (\A m \in Node : i[m] >= c[m]) /\ ~ (c[n] >= i[n]) /\ i[n] # 0
  <2>1. ~ (c[n] >= i[n]) /\ i[n] # 0
    BY <1>1, <1>2
  <2>2. ASSUME NEW m \in Node
        PROVE  i[m] >= c[m]
    BY <1>1, <1>2
  <2> QED BY <2>1, <2>2
<1>4. i # ZeroClock
  BY <1>3 DEF ZeroClock
<1>5. DominatesOrEqual(i, c) /\ ~ DominatesOrEqual(c, i)
  BY <1>3, CompareMeaning
<1> QED BY <1>1, <1>4, <1>5 DEF i

\* merge of finitely many clocks is their least upper bound, and each of its
\* counters is that of one of them.
LEMMA MergeIsLeastUpperBound ==
    ASSUME NEW C \in SUBSET Clock, IsFiniteSet(C)
    PROVE  /\ MergeClocks(C) \in Clock
           /\ \A c \in C : DominatesOrEqual(MergeClocks(C), c)
           /\ \A d \in Clock : (\A c \in C : DominatesOrEqual(d, c))
                                  => DominatesOrEqual(d, MergeClocks(C))
           /\ \A n \in Node : \/ MergeClocks(C)[n] = 0
                             \/ \E c \in C : c[n] = MergeClocks(C)[n]
<1> DEFINE At(n) == {0} \cup {c[n] : c \in C}
           M == MergeClocks(C)
<1>1. ASSUME NEW n \in Node
      PROVE  At(n) \in SUBSET Nat /\ IsFiniteSet(At(n)) /\ At(n) # {}
  <2> DEFINE f == [c \in C |-> c[n]]
             I == {c[n] : c \in C}
  <2>1. f \in Surjection(C, I)
    BY DEF Surjection
  <2>2. IsFiniteSet(I)
    <3> HIDE DEF f, I
    <3> QED BY <2>1, FS_Surjection
  <2>3. IsFiniteSet({0} \cup I)
    <3> HIDE DEF I
    <3> QED BY <2>2, FS_Singleton, FS_Union
  <2>4. At(n) \in SUBSET Nat /\ At(n) # {}
    BY DEF Clock
  <2> QED BY <2>3, <2>4
<1>2. ASSUME NEW n \in Node
      PROVE  M[n] \in At(n) /\ \A y \in At(n) : y <= M[n]
  <2>1. \E m \in At(n) : \A y \in At(n) : y <= m
    <3> HIDE DEF At
    <3> QED BY <1>1, FiniteMaximum
  <2>2. M[n] = CHOOSE x \in At(n) : \A y \in At(n) : y <= x
    BY DEF MergeClocks, Largest
  <2> HIDE DEF At, M
  <2> QED BY <2>1, <2>2
<1>3. M \in Clock
  <2>1. M = [n \in Node |-> M[n]]
    BY DEF MergeClocks
  <2>2. \A n \in Node : M[n] \in Nat
    <3> HIDE DEF M
    <3> QED BY <1>1, <1>2
  <2> HIDE DEF M
  <2> QED BY <2>1, <2>2 DEF Clock
<1>4. ASSUME NEW c \in C
      PROVE  DominatesOrEqual(M, c)
  <2> HIDE DEF M
  <2>1. ASSUME NEW n \in Node
        PROVE  M[n] >= c[n]
    <3>1. c[n] \in At(n)
      OBVIOUS
    <3>2. c[n] \in Nat /\ M[n] \in Nat
      BY <1>3 DEF Clock
    <3>3. c[n] <= M[n]
      BY <1>2, <3>1
    <3> QED BY <3>2, <3>3
  <2> QED BY <2>1, CompareMeaning
<1>5. ASSUME NEW d \in Clock, \A c \in C : DominatesOrEqual(d, c)
      PROVE  DominatesOrEqual(d, M)
  <2> HIDE DEF M
  <2>1. ASSUME NEW n \in Node
        PROVE  d[n] >= M[n]
    <3>1. d[n] \in Nat /\ \A c \in C : d[n] >= c[n]
      BY <1>5, CompareMeaning DEF Clock
    <3>2. M[n] = 0 \/ \E c \in C : M[n] = c[n]
      BY <1>2
    <3> QED BY <3>1, <3>2
  <2> QED BY <2>1, CompareMeaning
<1>6. \A n \in Node : M[n] = 0 \/ \E c \in C : c[n] = M[n]
  <2> HIDE DEF M
  <2> QED BY <1>2
<1> QED BY <1>3, <1>4, <1>5, <1>6 DEF M

-----------------------------------------------------------------------------
(* Sibling sets *)

\* reconcile keeps an antichain one, and adds nothing but the incoming version.
LEMMA ReconcileAntichain ==
    ASSUME NEW V, NEW clk \in [V -> Clock], NEW S \in SUBSET V, NEW v \in V,
           IsAntichain(clk, S)
    PROVE  /\ Reconcile(clk, S, v) \in SUBSET V
           /\ Reconcile(clk, S, v) \subseteq S \cup {v}
           /\ IsAntichain(clk, Reconcile(clk, S, v))
<1> DEFINE kept == {w \in S : Compare(clk[v], clk[w]) # "dominates"}
<1>1. CASE Covers(clk, S, clk[v])
  BY <1>1 DEF Reconcile
<1>2. CASE ~ Covers(clk, S, clk[v])
  <2>1. Reconcile(clk, S, v) = kept \cup {v}
    BY <1>2 DEF Reconcile
  <2>2. \A w \in kept : ~ DominatesOrEqual(clk[w], clk[v])
    BY <1>2 DEF Covers
  <2>3. ASSUME NEW w \in kept
        PROVE  ~ DominatesOrEqual(clk[v], clk[w])
    BY <2>2, CompareMeaning
  <2>4. IsAntichain(clk, kept \cup {v})
    BY <2>2, <2>3 DEF IsAntichain
  <2> QED BY <2>1, <2>4
<1> QED BY <1>1, <1>2

\* reconcile forgets nothing: whatever clock was covered still is, and the
\* incoming version is.
LEMMA ReconcileCovers ==
    ASSUME NEW V, NEW clk \in [V -> Clock], NEW S \in SUBSET V, NEW v \in V
    PROVE  /\ Covers(clk, Reconcile(clk, S, v), clk[v])
           /\ \A c \in Clock : Covers(clk, S, c) => Covers(clk, Reconcile(clk, S, v), c)
<1> DEFINE kept == {w \in S : Compare(clk[v], clk[w]) # "dominates"}
<1>1. CASE Covers(clk, S, clk[v])
  BY <1>1 DEF Reconcile
<1>2. CASE ~ Covers(clk, S, clk[v])
  <2>1. Reconcile(clk, S, v) = kept \cup {v}
    BY <1>2 DEF Reconcile
  <2>2. Covers(clk, kept \cup {v}, clk[v])
    BY DominanceOrder DEF Covers
  <2>3. ASSUME NEW c \in Clock, NEW w \in S, DominatesOrEqual(clk[w], c)
        PROVE  Covers(clk, kept \cup {v}, c)
    <3>1. CASE w \in kept
      BY <2>3, <3>1 DEF Covers
    <3>2. CASE w \notin kept
      <4>1. DominatesOrEqual(clk[v], clk[w])
        BY <3>2, CompareMeaning
      <4>2. DominatesOrEqual(clk[v], c)
        BY <2>3, <4>1, DominanceOrder
      <4> QED BY <4>2 DEF Covers
    <3> QED BY <3>1, <3>2
  <2> QED BY <2>1, <2>2, <2>3 DEF Covers
<1> QED BY <1>1, <1>2

\* A merged read of antichains is an antichain of versions that were read.
LEMMA MergeAntichain ==
    ASSUME NEW V, NEW clk \in [V -> Clock], NEW k \in Nat,
           NEW lists \in [1..k -> SUBSET V],
           \A i \in 1..k : IsAntichain(clk, lists[i])
    PROVE  /\ MergeInOrder(clk, lists) \in SUBSET V
           /\ IsAntichain(clk, MergeInOrder(clk, lists))
<1> DEFINE M == MergeInOrder(clk, lists)
           First(v, i) == /\ v \in lists[i]
                          /\ \A j \in 1..k : \A w \in lists[j] :
                                DominatesOrEqual(clk[w], clk[v]) =>
                                    clk[w] = clk[v] /\ j >= i
<1>1. DOMAIN lists = 1..k
  OBVIOUS
<1>2. \A v \in M : v \in V /\ \E i \in 1..k : First(v, i)
  BY <1>1 DEF MergeInOrder
<1> HIDE DEF M
<1>3. ASSUME NEW v \in M, NEW w \in M, v # w, DominatesOrEqual(clk[v], clk[w])
      PROVE  FALSE
  <2>1. PICK i \in 1..k : First(v, i)
    BY <1>2
  <2>2. PICK j \in 1..k : First(w, j)
    BY <1>2
  <2>3. clk[v] = clk[w] /\ i >= j
    BY <1>3, <2>1, <2>2
  <2>4. DominatesOrEqual(clk[w], clk[v])
    BY <1>2, <2>3, DominanceOrder
  <2>5. j >= i
    BY <2>1, <2>2, <2>4
  <2>6. i = j
    BY <2>3, <2>5
  <2>7. v \in lists[i] /\ w \in lists[i]
    BY <2>1, <2>2, <2>6
  <2> QED BY <1>3, <2>7 DEF IsAntichain
<1>4. IsAntichain(clk, M)
  BY <1>3 DEF IsAntichain
<1> QED BY <1>2, <1>4 DEF M

\* A merged read forgets nothing: what any list covers, the merged list does, by
\* a maximal version of all lists and, of its equals, one of the earliest list.
LEMMA MergeCovers ==
    ASSUME NEW V, IsFiniteSet(V), NEW clk \in [V -> Clock], NEW k \in Nat,
           NEW lists \in [1..k -> SUBSET V], NEW n \in 1..k, NEW c \in Clock,
           Covers(clk, lists[n], c)
    PROVE  Covers(clk, MergeInOrder(clk, lists), c)
<1> DEFINE S == {w \in V : /\ \E j \in 1..k : w \in lists[j]
                           /\ DominatesOrEqual(clk[w], c)}
           Less == {pr \in V \X V : /\ DominatesOrEqual(clk[pr[2]], clk[pr[1]])
                                    /\ ~ DominatesOrEqual(clk[pr[1]], clk[pr[2]])}
<1>1. \A x, y \in V : <<x, y>> \in Less <=> /\ DominatesOrEqual(clk[y], clk[x])
                                            /\ ~ DominatesOrEqual(clk[x], clk[y])
  OBVIOUS
<1>2. IsFiniteSet(S) /\ S # {}
  <2>1. IsFiniteSet(S)
    BY FS_Subset
  <2>2. S # {}
    BY DEF Covers
  <2> QED BY <2>1, <2>2
<1>3. \A x, y, z \in S : <<x, y>> \in Less /\ <<y, z>> \in Less => <<x, z>> \in Less
  <2>1. ASSUME NEW x \in V, NEW y \in V, NEW z \in V,
               <<x, y>> \in Less, <<y, z>> \in Less
        PROVE  <<x, z>> \in Less
    <3>1. /\ DominatesOrEqual(clk[y], clk[x]) /\ ~ DominatesOrEqual(clk[x], clk[y])
          /\ DominatesOrEqual(clk[z], clk[y])
      BY <1>1, <2>1
    <3>2. DominatesOrEqual(clk[z], clk[x])
      BY <3>1, DominanceOrder
    <3>3. ~ DominatesOrEqual(clk[x], clk[z])
      BY <3>1, DominanceOrder
    <3> QED BY <1>1, <3>2, <3>3
  <2> QED BY <2>1
<1>4. PICK x \in S : \A y \in S : <<x, y>> \notin Less
  <2>1. \A x \in S : <<x, x>> \notin Less
    BY <1>1
  <2> HIDE DEF S, Less
  <2> QED BY <1>2, <1>3, <2>1, MaximalElement
<1> DEFINE T == {j \in 1..k : \E w \in lists[j] : clk[w] = clk[x]}
           D == {pr \in T \X T : pr[2] < pr[1]}
<1>5. PICK i \in T : \A j \in T : j >= i
  <2>0. T \in SUBSET (1..k) /\ IsFiniteSet(1..k)
    BY FS_Interval
  <2>1. IsFiniteSet(T)
    <3> HIDE DEF T
    <3> QED BY <2>0, FS_Subset
  <2>2. T # {}
    OBVIOUS
  <2>3. \A a, b \in T : <<a, b>> \in D <=> b < a
    OBVIOUS
  <2>4. \A a \in T : a \in Nat
    OBVIOUS
  <2> HIDE DEF T, D
  <2>5. \A a \in T : <<a, a>> \notin D
    BY <2>3, <2>4
  <2>6. \A a, b, d \in T : <<a, b>> \in D /\ <<b, d>> \in D => <<a, d>> \in D
    BY <2>3, <2>4
  <2>7. PICK i \in T : \A j \in T : <<i, j>> \notin D
    BY ONLY <2>1, <2>2, <2>5, <2>6, MaximalElement
  <2>8. \A j \in T : ~ (j < i)
    BY <2>3, <2>7
  <2>9. \A j \in T : j >= i
    BY <2>4, <2>8
  <2> QED BY <2>9
<1>6. PICK v \in lists[i] : clk[v] = clk[x]
  OBVIOUS
<1>7. ASSUME NEW j \in 1..k, NEW w \in lists[j], DominatesOrEqual(clk[w], clk[v])
      PROVE  clk[w] = clk[v] /\ j >= i
  <2>1. w \in V /\ DominatesOrEqual(clk[w], clk[x]) /\ DominatesOrEqual(clk[x], c)
    BY <1>6, <1>7
  <2>2. w \in S
    BY <2>1, DominanceOrder
  <2>3. DominatesOrEqual(clk[x], clk[w])
    BY <1>1, <1>4, <2>1, <2>2
  <2>4. clk[w] = clk[x]
    BY <2>1, <2>3, DominanceOrder
  <2> QED BY <1>5, <1>6, <2>4
<1>8. v \in MergeInOrder(clk, lists)
  <2>1. DOMAIN lists = 1..k /\ i \in 1..k
    OBVIOUS
  <2> QED BY <1>7, <2>1 DEF MergeInOrder
<1> QED BY <1>6, <1>8 DEF Covers

\* Covering is kept along: by a list that covers each version of one that covers.
LEMMA CoversThrough ==
    ASSUME NEW V, NEW a \in [V -> Clock], NEW b \in [V -> Clock],
           NEW S \in SUBSET V, NEW T \in SUBSET V, NEW c \in Clock,
           Covers(a, S, c), \A v \in S : Covers(b, T, a[v])
    PROVE  Covers(b, T, c)
<1>1. PICK v \in S : DominatesOrEqual(a[v], c)
  BY DEF Covers
<1>2. PICK w \in T : DominatesOrEqual(b[w], a[v])
  BY DEF Covers
<1>3. a[v] \in Clock /\ b[w] \in Clock
  OBVIOUS
<1>4. DominatesOrEqual(b[w], c)
  BY <1>1, <1>2, <1>3, DominanceOrder
<1> QED BY <1>4 DEF Covers

-----------------------------------------------------------------------------
(* Ranks of positions (Picking) *)

\* Counting the positions that come before, or at, each position of a finite
\* set numbers the set, whatever the order is.
LEMMA RanksNumber ==
    ASSUME NEW I, IsFiniteSet(I), NEW Upto \in [I -> SUBSET I],
           \A i \in I : i \in Upto[i],
           \A i, j \in I : i # j => \/ Upto[i] \subseteq Upto[j] /\ j \notin Upto[i]
                                    \/ Upto[j] \subseteq Upto[i] /\ i \notin Upto[j]
    PROVE  /\ Cardinality(I) \in Nat
           /\ \A i \in I : Cardinality(Upto[i]) \in 1..Cardinality(I)
           /\ \A i, j \in I : Cardinality(Upto[i]) = Cardinality(Upto[j]) => i = j
           /\ \A r \in 1..Cardinality(I) : \E i \in I : Cardinality(Upto[i]) = r
           /\ \A i, j \in I : i \in Upto[j] <=> Cardinality(Upto[i]) <= Cardinality(Upto[j])
<1> DEFINE m == Cardinality(I)
           rank(i) == Cardinality(Upto[i])
<1>1. IsFiniteSet(I) /\ m \in Nat
  BY FS_CardinalityType
<1>2. ASSUME NEW i \in I
      PROVE  /\ IsFiniteSet(Upto[i]) /\ rank(i) \in Nat /\ rank(i) <= m /\ rank(i) # 0
  <2>1. Upto[i] \in SUBSET I /\ i \in Upto[i]
    OBVIOUS
  <2>2. IsFiniteSet(Upto[i]) /\ Cardinality(Upto[i]) <= m
    BY <1>1, <2>1, FS_Subset
  <2>3. Cardinality(Upto[i]) \in Nat /\ Cardinality(Upto[i]) # 0
    BY <2>1, <2>2, FS_CardinalityType, FS_EmptySet
  <2> QED BY <2>2, <2>3
<1>3. ASSUME NEW i \in I, NEW j \in I, Upto[i] \subseteq Upto[j], j \notin Upto[i]
      PROVE  rank(i) < rank(j)
  <2>1. Upto[i] # Upto[j] /\ Upto[i] \in SUBSET Upto[j] /\ IsFiniteSet(Upto[j])
    BY <1>2, <1>3
  <2>2. Cardinality(Upto[i]) < Cardinality(Upto[j])
    <3>1. Cardinality(Upto[i]) <= Cardinality(Upto[j]) /\ Cardinality(Upto[i]) # Cardinality(Upto[j])
      BY <2>1, FS_Subset
    <3> QED BY <1>2, <3>1
  <2> QED BY <2>2
<1> HIDE DEF rank
<1>4. \A i, j \in I : i # j =>
         \/ Upto[i] \subseteq Upto[j] /\ j \notin Upto[i] /\ rank(i) < rank(j)
         \/ Upto[j] \subseteq Upto[i] /\ i \notin Upto[j] /\ rank(j) < rank(i)
  BY <1>3
<1>5. \A i, j \in I : rank(i) = rank(j) => i = j
  BY <1>2, <1>4
<1>6. \A i, j \in I : i \in Upto[j] <=> rank(i) <= rank(j)
  <2> SUFFICES ASSUME NEW i \in I, NEW j \in I
               PROVE  i \in Upto[j] <=> rank(i) <= rank(j)
    OBVIOUS
  <2>1. CASE i = j
    BY <1>2, <2>1
  <2>2. CASE i # j
    <3>1. rank(i) \in Nat /\ rank(j) \in Nat /\ i \in Upto[i] /\ j \in Upto[j]
      BY <1>2
    <3> QED BY <1>4, <2>2, <3>1
  <2> QED BY <2>1, <2>2
<1>7. \A i \in I : rank(i) \in 1..m
  BY <1>1, <1>2
<1>8. \A r \in 1..m : \E i \in I : rank(i) = r
  <2> DEFINE f == [i \in I |-> rank(i)]
  <2>1. f \in Injection(I, 1..m)
    BY <1>5, <1>7 DEF Injection, IsInjective
  <2>2. IsFiniteSet(1..m) /\ Cardinality(1..m) = m
    BY <1>1, FS_Interval
  <2> HIDE DEF f, m
  <2>3. f \in Surjection(I, 1..m)
    <3>1. Cardinality(I) = Cardinality(1..m)
      BY <2>2 DEF m
    <3> QED BY <1>1, <2>1, <2>2, <3>1, FS_Injection
  <2>4. \A r \in 1..m : \E i \in I : f[i] = r
    BY <2>3 DEF Surjection
  <2> QED BY <2>4 DEF f
<1> QED BY <1>1, <1>5, <1>6, <1>7, <1>8 DEF rank

\* The positions that Picked takes are those of the set, in their order.
LEMMA PickedPositions ==
    ASSUME NEW V, NEW s \in Seq(V), NEW I \in SUBSET DOMAIN s
    PROVE  /\ Cardinality(I) \in Nat /\ Picked(s, I) \in Seq(V)
           /\ \E pos \in [1..Cardinality(I) -> I] :
                 /\ Picked(s, I) = [r \in 1..Cardinality(I) |-> s[pos[r]]]
                 /\ \A i \in I : \E r \in 1..Cardinality(I) : pos[r] = i
                 /\ \A r, q \in 1..Cardinality(I) : r < q => pos[r] < pos[q]
<1> DEFINE m == Cardinality(I)
           Upto == [i \in I |-> {k \in I : k <= i}]
           pos == [r \in 1..m |-> CHOOSE i \in I : Rank(I, i) = r]
<1>1. Len(s) \in Nat /\ DOMAIN s = 1..Len(s) /\ I \subseteq Int /\ IsFiniteSet(I)
  <2>1. IsFiniteSet(1..Len(s))
    BY FS_Interval
  <2>2. DOMAIN s = 1..Len(s)
    OBVIOUS
  <2>3. IsFiniteSet(I)
    BY <2>1, <2>2, FS_Subset
  <2> QED BY <2>2, <2>3
<1>2. /\ Upto \in [I -> SUBSET I]
      /\ \A i \in I : i \in Upto[i]
      /\ \A i, j \in I : i # j => \/ Upto[i] \subseteq Upto[j] /\ j \notin Upto[i]
                                  \/ Upto[j] \subseteq Upto[i] /\ i \notin Upto[j]
  <2>1. \A i \in I : i \in Int
    BY <1>1
  <2> QED BY <2>1
<1>3. \A i \in I : Rank(I, i) = Cardinality(Upto[i])
  BY DEF Rank
<1>4. \A i, j \in I : i \in Upto[j] <=> i <= j
  OBVIOUS
<1> HIDE DEF Upto
<1>5. /\ m \in Nat
      /\ \A i \in I : Rank(I, i) \in 1..m
      /\ \A i, j \in I : Rank(I, i) = Rank(I, j) => i = j
      /\ \A r \in 1..m : \E i \in I : Rank(I, i) = r
      /\ \A i, j \in I : i <= j <=> Rank(I, i) <= Rank(I, j)
  <2>1. /\ Cardinality(I) \in Nat
        /\ \A i \in I : Cardinality(Upto[i]) \in 1..Cardinality(I)
        /\ \A i, j \in I : Cardinality(Upto[i]) = Cardinality(Upto[j]) => i = j
        /\ \A r \in 1..Cardinality(I) : \E i \in I : Cardinality(Upto[i]) = r
        /\ \A i, j \in I : i \in Upto[j] <=> Cardinality(Upto[i]) <= Cardinality(Upto[j])
    BY <1>1, <1>2, RanksNumber
  <2> QED BY <1>3, <1>4, <2>1
<1>6. \A r \in 1..m : pos[r] \in I /\ Rank(I, pos[r]) = r
  BY <1>5
<1>7. Picked(s, I) = [r \in 1..m |-> s[pos[r]]]
  BY DEF Picked
<1>8. pos \in [1..m -> I]
  BY <1>6
<1> HIDE DEF pos, m
<1>9. \A i \in I : \E r \in 1..m : pos[r] = i
  BY <1>5, <1>6
<1>10. \A r, q \in 1..m : r < q => pos[r] < pos[q]
  <2> SUFFICES ASSUME NEW r \in 1..m, NEW q \in 1..m, r < q
               PROVE  pos[r] < pos[q]
    OBVIOUS
  <2>1. pos[r] \in Int /\ pos[q] \in Int
    BY <1>1, <1>6
  <2>2. ~ (pos[q] <= pos[r])
    BY <1>5, <1>6
  <2> QED BY <2>1, <2>2
<1>11. Picked(s, I) \in Seq(V)
  <2>1. \A r \in 1..m : s[pos[r]] \in V
    BY <1>1, <1>6
  <2>2. [r \in 1..m |-> s[pos[r]]] \in Seq(V)
    BY <1>5, <2>1
  <2> QED BY <1>7, <2>2
<1> QED BY <1>5, <1>7, <1>8, <1>9, <1>10, <1>11 DEF m
=============================================================================
