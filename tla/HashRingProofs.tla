--------------------------- MODULE HashRingProofs ---------------------------
(***************************************************************************)
(* Proofs about HashRing, for every number of nodes, of points per node    *)
(* and of positions.  What the ring holds is a function of the roster, and *)
(* a lookup is a walk over the points in the order of their distance.      *)
(* VectorClockProofs is taken for its lemmas on ranks and finite sets.     *)
(***************************************************************************)
EXTENDS HashRing, VectorClockProofs

-----------------------------------------------------------------------------
(* The two list operations *)

\* bisect.insort of elements that are all different keeps exactly them, in
\* increasing order.
LEMMA InsortedIsSorted ==
    ASSUME NEW s \in Seq(Position), NEW new \in Seq(Position),
           \A i, j \in 1..(Len(s) + Len(new)) : i # j => (s \o new)[i] # (s \o new)[j]
    PROVE  /\ Insorted(s, new) \in Seq(Position)
           /\ Range(Insorted(s, new)) = Range(s) \cup Range(new)
           /\ \A i, j \in DOMAIN Insorted(s, new) :
                 i < j => Insorted(s, new)[i] < Insorted(s, new)[j]
<1> DEFINE all == s \o new
           I == 1..(Len(s) + Len(new))
           m == Len(s) + Len(new)
           Upto == [i \in I |-> NoLater(all, i)]
           at(r) == CHOOSE i \in I : Cardinality(NoLater(all, i)) = r
<1>1. /\ Len(s) \in Nat /\ Len(new) \in Nat /\ m \in Nat
      /\ all \in Seq(Position) /\ Len(all) = m /\ DOMAIN all = I
      /\ \A i \in I : all[i] \in Position
  OBVIOUS
<1>2. IsFiniteSet(I) /\ Cardinality(I) = m
  BY <1>1, FS_Interval
<1>3. /\ \A i \in I : all[i] \in Int
      /\ \A i, j \in I : i # j => all[i] # all[j]
  <2>1. \A p \in Position : p \in Int
    BY RingAssumption DEF Position
  <2>2. \A i \in I : all[i] \in Int
    BY <1>1, <2>1
  <2> QED BY <2>2
<1>4. \A x \in Range(s) \cup Range(new) : \E i \in I : all[i] = x
  <2> SUFFICES ASSUME NEW x \in Range(s) \cup Range(new)
               PROVE  \E i \in I : all[i] = x
    OBVIOUS
  <2>1. CASE x \in Range(s)
    <3>1. PICK i \in DOMAIN s : s[i] = x
      BY <2>1 DEF Range
    <3>2. i \in I /\ all[i] = x
      BY <3>1
    <3> QED BY <3>2
  <2>2. CASE x \in Range(new)
    <3>1. PICK i \in DOMAIN new : new[i] = x
      BY <2>2 DEF Range
    <3>2. Len(s) + i \in I /\ all[Len(s) + i] = x
      BY <3>1
    <3> QED BY <3>2
  <2> QED BY <2>1, <2>2
<1>5. \A i \in I : all[i] \in Range(s) \cup Range(new)
  <2> SUFFICES ASSUME NEW i \in I
               PROVE  all[i] \in Range(s) \cup Range(new)
    OBVIOUS
  <2>1. CASE i <= Len(s)
    <3>1. i \in DOMAIN s /\ all[i] = s[i]
      BY <2>1
    <3> QED BY <3>1 DEF Range
  <2>2. CASE ~ (i <= Len(s))
    <3>1. i - Len(s) \in DOMAIN new /\ all[i] = new[i - Len(s)]
      BY <2>2
    <3> QED BY <3>1 DEF Range
  <2> QED BY <2>1, <2>2
<1> HIDE DEF all, I, m
<1>6. \A i, j \in I : j \in NoLater(all, i) <=> j = i \/ all[j] < all[i]
  <2>1. \A i \in I : i \in Int
    BY DEF I
  <2> QED BY <1>1, <1>3, <2>1 DEF NoLater
<1>7. \A i \in I : NoLater(all, i) \in SUBSET I
  BY <1>1 DEF NoLater
<1>8. \A i, j \in I : i # j => \/ Upto[i] \subseteq Upto[j] /\ j \notin Upto[i]
                               \/ Upto[j] \subseteq Upto[i] /\ i \notin Upto[j]
  <2> SUFFICES ASSUME NEW i \in I, NEW j \in I, i # j
               PROVE  \/ NoLater(all, i) \subseteq NoLater(all, j) /\ j \notin NoLater(all, i)
                      \/ NoLater(all, j) \subseteq NoLater(all, i) /\ i \notin NoLater(all, j)
    OBVIOUS
  <2>1. all[i] < all[j] \/ all[j] < all[i]
    BY <1>3
  <2>2. CASE all[i] < all[j]
    <3>1. \A k \in I : k \in NoLater(all, i) => k \in NoLater(all, j)
      BY <1>3, <1>6, <2>2
    <3>2. j \notin NoLater(all, i)
      BY <1>3, <1>6, <2>2
    <3> QED BY <1>7, <3>1, <3>2
  <2>3. CASE all[j] < all[i]
    <3>1. \A k \in I : k \in NoLater(all, j) => k \in NoLater(all, i)
      BY <1>3, <1>6, <2>3
    <3>2. i \notin NoLater(all, j)
      BY <1>3, <1>6, <2>3
    <3> QED BY <1>7, <3>1, <3>2
  <2> QED BY <2>1, <2>2, <2>3
<1>9. /\ Upto \in [I -> SUBSET I] /\ \A i \in I : i \in Upto[i]
      /\ \A i \in I : Upto[i] = NoLater(all, i)
  BY <1>6, <1>7
<1> HIDE DEF Upto
<1>10. /\ \A r \in 1..m : \E i \in I : Cardinality(Upto[i]) = r
       /\ \A i \in I : Cardinality(Upto[i]) \in 1..m
       /\ \A i, j \in I : Cardinality(Upto[i]) = Cardinality(Upto[j]) => i = j
       /\ \A i, j \in I : i \in Upto[j] <=> Cardinality(Upto[i]) <= Cardinality(Upto[j])
  BY <1>2, <1>8, <1>9, RanksNumber
<1>11. \A r \in 1..m : at(r) \in I /\ Cardinality(Upto[at(r)]) = r
  <2> SUFFICES ASSUME NEW r \in 1..m
               PROVE  at(r) \in I /\ Cardinality(Upto[at(r)]) = r
    OBVIOUS
  <2>1. \E i \in I : Cardinality(NoLater(all, i)) = r
    BY <1>9, <1>10
  <2>2. at(r) \in I /\ Cardinality(NoLater(all, at(r))) = r
    BY <2>1
  <2> QED BY <1>9, <2>2
<1>12. Insorted(s, new) = [r \in I |-> all[at(r)]]
  BY <1>1 DEF Insorted, all
<1>13. I = 1..m
  BY DEF I, m
<1> HIDE DEF at
<1>14. Insorted(s, new) \in Seq(Position) /\ DOMAIN Insorted(s, new) = 1..m
  <2>1. \A r \in 1..m : all[at(r)] \in Position
    BY <1>1, <1>11
  <2>2. [r \in 1..m |-> all[at(r)]] \in Seq(Position)
    BY <1>1, <2>1
  <2> QED BY <1>12, <1>13, <2>2
<1>15. ASSUME NEW i \in 1..m, NEW j \in 1..m, i < j
       PROVE  all[at(i)] < all[at(j)]
  <2>1. at(i) \in I /\ at(j) \in I /\ at(i) \in Upto[at(j)] /\ at(i) # at(j)
    <3>1. Cardinality(Upto[at(i)]) = i /\ Cardinality(Upto[at(j)]) = j
      BY <1>11
    <3>2. i <= j /\ i # j
      BY <1>15
    <3> QED BY <1>10, <1>11, <3>1, <3>2
  <2> QED BY <1>6, <1>9, <2>1
<1>16. Range(Insorted(s, new)) = {all[at(r)] : r \in 1..m}
  BY <1>12, <1>13 DEF Range
<1>17. \A i \in I : \E r \in 1..m : at(r) = i
  <2> SUFFICES ASSUME NEW i \in I
               PROVE  \E r \in 1..m : at(r) = i
    OBVIOUS
  <2>1. Cardinality(Upto[i]) \in 1..m
    BY <1>10
  <2>2. at(Cardinality(Upto[i])) = i
    BY <1>10, <1>11, <2>1
  <2> QED BY <2>1, <2>2
<1>18. {all[at(r)] : r \in 1..m} = Range(s) \cup Range(new)
  <2>1. \A r \in 1..m : all[at(r)] \in Range(s) \cup Range(new)
    BY <1>5, <1>11
  <2>2. \A x \in Range(s) \cup Range(new) : \E r \in 1..m : all[at(r)] = x
    BY <1>4, <1>17
  <2> QED BY <2>1, <2>2
<1>19. \A i, j \in DOMAIN Insorted(s, new) :
          i < j => Insorted(s, new)[i] < Insorted(s, new)[j]
  BY <1>12, <1>13, <1>14, <1>15
<1> QED BY <1>14, <1>16, <1>18, <1>19

\* Elements picked from a sorted list are sorted.
LEMMA PickedIsSorted ==
    ASSUME NEW V, V \subseteq Int, NEW s \in Seq(V), NEW I \in SUBSET DOMAIN s,
           \A i, j \in DOMAIN s : i < j => s[i] < s[j]
    PROVE  /\ Picked(s, I) \in Seq(V)
           /\ DOMAIN Picked(s, I) = 1..Cardinality(I)
           /\ Range(Picked(s, I)) = {s[i] : i \in I}
           /\ \A i, j \in DOMAIN Picked(s, I) : i < j => Picked(s, I)[i] < Picked(s, I)[j]
<1> DEFINE m == Cardinality(I)
           kept == Picked(s, I)
<1>1. m \in Nat /\ kept \in Seq(V)
  BY PickedPositions
<1>2. PICK pos \in [1..m -> I] :
         /\ kept = [r \in 1..m |-> s[pos[r]]]
         /\ \A i \in I : \E r \in 1..m : pos[r] = i
         /\ \A r, q \in 1..m : r < q => pos[r] < pos[q]
  BY ONLY s \in Seq(V), I \in SUBSET DOMAIN s, PickedPositions
<1> HIDE DEF m, kept
<1>3. DOMAIN kept = 1..m /\ \A r \in 1..m : kept[r] = s[pos[r]] /\ pos[r] \in I
  BY <1>2
<1>4. \A i, j \in DOMAIN kept : i < j => kept[i] < kept[j]
  BY <1>2, <1>3
<1>5. \A x : x \in Range(kept) <=> \E r \in 1..m : x = s[pos[r]]
  BY <1>3 DEF Range
<1>6. Range(kept) = {s[i] : i \in I}
  BY <1>2, <1>3, <1>5
<1> QED BY <1>1, <1>3, <1>4, <1>6 DEF kept, m

-----------------------------------------------------------------------------
(* The ring is its roster *)

RingInv ==
    /\ hash \in [Virtual -> Position]
    /\ \A v, w \in Virtual : hash[v] = hash[w] => v = w
    /\ nodes \in SUBSET NodeId
    /\ sorted \in Seq(Position)
    /\ RingIsRoster

\* No point belongs to two nodes.
LEMMA PointsDiffer ==
    ASSUME RingInv
    PROVE  /\ \A n \in NodeId : Points(n) \subseteq Position
           /\ \A n, o \in NodeId : \A p \in Points(n) : p \in Points(o) => n = o
           /\ \A n \in NodeId : PointList(n) \in Seq(Position)
           /\ \A n \in NodeId : Range(PointList(n)) = Points(n)
           /\ \A n \in NodeId : /\ Len(PointList(n)) = VirtualNodes
                              /\ \A i, j \in 1..VirtualNodes :
                                    i # j => PointList(n)[i] # PointList(n)[j]
<1>1. /\ VirtualNodes \in Nat
      /\ \A n \in NodeId : \A i \in 0..(VirtualNodes - 1) : <<n, i>> \in Virtual
  BY RingAssumption DEF Virtual
<1>2. \A n \in NodeId : \A i \in 0..(VirtualNodes - 1) : hash[<<n, i>>] \in Position
  BY <1>1 DEF RingInv
<1>3. \A n \in NodeId : Points(n) \subseteq Position
  BY <1>2 DEF Points
<1>4. \A n, o \in NodeId : \A i, j \in 0..(VirtualNodes - 1) :
         hash[<<n, i>>] = hash[<<o, j>>] => n = o /\ i = j
  BY <1>1 DEF RingInv
<1>5. \A n, o \in NodeId : \A p \in Points(n) : p \in Points(o) => n = o
  BY <1>4 DEF Points
<1>6. ASSUME NEW n \in NodeId
      PROVE  /\ PointList(n) \in Seq(Position)
             /\ Range(PointList(n)) = Points(n)
             /\ Len(PointList(n)) = VirtualNodes
             /\ \A i, j \in 1..VirtualNodes : i # j => PointList(n)[i] # PointList(n)[j]
  <2>1. \A i \in 1..VirtualNodes : i - 1 \in 0..(VirtualNodes - 1)
    BY <1>1
  <2>2. \A i \in 0..(VirtualNodes - 1) : i + 1 \in 1..VirtualNodes /\ (i + 1) - 1 = i
    BY <1>1
  <2>3. PointList(n) \in Seq(Position) /\ Len(PointList(n)) = VirtualNodes
    BY <1>1, <1>2, <2>1 DEF PointList
  <2>4. /\ DOMAIN PointList(n) = 1..VirtualNodes
        /\ \A i \in 1..VirtualNodes : PointList(n)[i] = hash[<<n, i - 1>>]
    BY DEF PointList
  <2>5. Range(PointList(n)) = Points(n)
    <3>1. \A x : x \in Range(PointList(n)) <=> \E i \in 1..VirtualNodes : x = hash[<<n, i - 1>>]
      BY <2>4 DEF Range
    <3>2. \A x : x \in Points(n) <=> \E i \in 0..(VirtualNodes - 1) : x = hash[<<n, i>>]
      BY DEF Points
    <3>3. \A x \in Points(n) : \E i \in 1..VirtualNodes : x = hash[<<n, i - 1>>]
      <4> SUFFICES ASSUME NEW x \in Points(n)
                   PROVE  \E i \in 1..VirtualNodes : x = hash[<<n, i - 1>>]
        OBVIOUS
      <4>1. PICK i \in 0..(VirtualNodes - 1) : x = hash[<<n, i>>]
        BY <3>2
      <4>2. i + 1 \in 1..VirtualNodes /\ x = hash[<<n, (i + 1) - 1>>]
        BY <2>2, <4>1
      <4> QED BY <4>2
    <3>4. \A x \in Range(PointList(n)) : x \in Points(n)
      BY <2>1, <3>1, <3>2
    <3> QED BY <3>1, <3>3, <3>4
  <2>6. \A i, j \in 1..VirtualNodes : i # j => PointList(n)[i] # PointList(n)[j]
    <3> SUFFICES ASSUME NEW i \in 1..VirtualNodes, NEW j \in 1..VirtualNodes,
                        PointList(n)[i] = PointList(n)[j]
                 PROVE  i = j
      OBVIOUS
    <3>1. hash[<<n, i - 1>>] = hash[<<n, j - 1>>]
      BY <2>4
    <3>2. i - 1 = j - 1
      BY <1>4, <2>1, <3>1
    <3> QED BY <1>1, <3>2
  <2> QED BY <2>3, <2>5, <2>6
<1> QED BY <1>3, <1>5, <1>6

LEMMA InitRing == Init => RingInv
<1> SUFFICES ASSUME Init
             PROVE  RingInv
  OBVIOUS
<1>1. RosterPoints(nodes) = {}
  BY DEF Init, RosterPoints
<1>2. /\ DOMAIN owner = {} /\ DOMAIN sorted = {} /\ sorted \in Seq(Position)
      /\ nodes = {} /\ Range(sorted) = {}
  BY DEF Init, Range
<1>3. RingIsRoster
  BY <1>1, <1>2 DEF RingIsRoster
<1> QED BY <1>2, <1>3 DEF Init, RingInv

\* A node's points go to their places among the others': the lists have no
\* point in common, so that none is met twice.
LEMMA AddKeepsRing ==
    ASSUME RingInv, NEW n \in NodeId, AddNode(n)
    PROVE  RingInv'
<1> DEFINE new == PointList(n)
<1>1. /\ n \notin nodes /\ nodes \in SUBSET NodeId /\ nodes' = nodes \cup {n} /\ hash' = hash
      /\ owner' = [p \in DOMAIN owner \cup Points(n) |->
                      IF p \in Points(n) THEN n ELSE owner[p]]
      /\ sorted' = Insorted(sorted, new)
  BY DEF RingInv, AddNode
<1>2. /\ new \in Seq(Position) /\ Range(new) = Points(n) /\ Len(new) = VirtualNodes
      /\ \A i, j \in 1..VirtualNodes : i # j => new[i] # new[j]
  BY PointsDiffer
<1>3. sorted \in Seq(Position) /\ Range(sorted) = RosterPoints(nodes) /\ DOMAIN owner = RosterPoints(nodes)
  BY DEF RingInv, RingIsRoster
<1>4. \A p \in RosterPoints(nodes) : p \notin Points(n)
  BY <1>1, PointsDiffer DEF RosterPoints
<1>5. RosterPoints(nodes') = RosterPoints(nodes) \cup Points(n) /\ \A o : Points(o)' = Points(o)
  BY <1>1 DEF RosterPoints, Points
<1>6. \A i, j \in 1..(Len(sorted) + Len(new)) :
         i # j => (sorted \o new)[i] # (sorted \o new)[j]
  <2> SUFFICES ASSUME NEW i \in 1..(Len(sorted) + Len(new)),
                      NEW j \in 1..(Len(sorted) + Len(new)), i < j
               PROVE  (sorted \o new)[i] # (sorted \o new)[j]
    BY <1>2, <1>3
  <2> HIDE DEF new
  <2>1. CASE j <= Len(sorted)
    <3>1. i \in DOMAIN sorted /\ j \in DOMAIN sorted /\ sorted[i] < sorted[j]
      BY <1>3, <2>1 DEF RingInv, RingIsRoster
    <3>2. sorted[i] # sorted[j]
      BY <1>3, <3>1, RingAssumption DEF Position
    <3> QED BY <1>2, <1>3, <3>1, <3>2
  <2>2. CASE i > Len(sorted)
    <3>1. i - Len(sorted) \in 1..VirtualNodes /\ j - Len(sorted) \in 1..VirtualNodes
      BY <1>2, <1>3, <2>2
    <3>2. new[i - Len(sorted)] # new[j - Len(sorted)]
      BY <1>2, <1>3, <3>1
    <3>3. (sorted \o new)[i] = new[i - Len(sorted)] /\ (sorted \o new)[j] = new[j - Len(sorted)]
      BY <1>2, <1>3, <2>2
    <3> QED BY <3>2, <3>3
  <2>3. CASE i <= Len(sorted) /\ j > Len(sorted)
    <3>1. i \in DOMAIN sorted /\ j - Len(sorted) \in DOMAIN new
      BY <1>2, <1>3, <2>3
    <3>2. sorted[i] \in RosterPoints(nodes) /\ new[j - Len(sorted)] \in Points(n)
      BY <1>2, <1>3, <3>1 DEF Range
    <3>3. (sorted \o new)[i] = sorted[i] /\ (sorted \o new)[j] = new[j - Len(sorted)]
      BY <1>2, <1>3, <2>3
    <3> QED BY <1>4, <3>2, <3>3
  <2> QED BY <1>2, <1>3, <2>1, <2>2, <2>3
<1> HIDE DEF new
<1>7. /\ sorted' \in Seq(Position)
      /\ Range(sorted') = RosterPoints(nodes')
      /\ \A i, j \in DOMAIN sorted' : i < j => sorted'[i] < sorted'[j]
  BY <1>1, <1>2, <1>3, <1>5, <1>6, InsortedIsSorted
<1>8. DOMAIN owner' = RosterPoints(nodes')
  BY <1>1, <1>3, <1>5
<1>9. \A o \in nodes' : \A p \in Points(o) : owner'[p] = o
  <2> SUFFICES ASSUME NEW o \in nodes', NEW p \in Points(o)
               PROVE  owner'[p] = o
    OBVIOUS
  <2>1. p \in DOMAIN owner'
    BY <1>8 DEF RosterPoints, Points
  <2>2. CASE o = n
    BY <1>1, <1>3, <2>2
  <2>3. CASE o # n
    <3>1. o \in nodes
      BY <1>1, <2>3
    <3>2. p \in RosterPoints(nodes) /\ owner[p] = o
      BY <3>1 DEF RosterPoints, RingInv, RingIsRoster
    <3> QED BY <1>1, <1>3, <1>4, <3>2
  <2> QED BY <2>2, <2>3
<1>10. RingIsRoster'
  BY <1>5, <1>7, <1>8, <1>9 DEF RingIsRoster, RosterPoints, Range
<1> QED BY <1>1, <1>7, <1>10 DEF RingInv

\* The points of a node that leaves are all its own: no other node loses one.
LEMMA RemoveKeepsRing ==
    ASSUME RingInv, NEW n \in NodeId, RemoveNode(n)
    PROVE  RingInv'
<1> DEFINE I == {i \in DOMAIN sorted : sorted[i] \notin Points(n)}
<1>1. /\ n \in nodes /\ nodes \in SUBSET NodeId /\ nodes' = nodes \ {n} /\ hash' = hash
      /\ owner' = [p \in DOMAIN owner \ Points(n) |-> owner[p]]
      /\ sorted' = Picked(sorted, I)
  BY DEF RingInv, RemoveNode
<1>2. /\ sorted \in Seq(Position)
      /\ Range(sorted) = RosterPoints(nodes) /\ DOMAIN owner = RosterPoints(nodes)
      /\ \A i, j \in DOMAIN sorted : i < j => sorted[i] < sorted[j]
  BY DEF RingInv, RingIsRoster
<1>3. \A o \in nodes : o # n => \A p \in Points(o) : p \notin Points(n)
  BY <1>1, PointsDiffer
<1>4. RosterPoints(nodes') = RosterPoints(nodes) \ Points(n) /\ \A o : Points(o)' = Points(o)
  <2>1. \A o : Points(o)' = Points(o)
    BY <1>1 DEF Points
  <2>2. \A x : x \in RosterPoints(nodes) <=> \E o \in nodes : x \in Points(o)
    BY DEF RosterPoints
  <2>3. \A x : x \in RosterPoints(nodes') <=> \E o \in nodes \ {n} : x \in Points(o)
    BY <1>1, <2>1 DEF RosterPoints
  <2> QED BY <1>1, <1>3, <2>1, <2>2, <2>3
<1>5. I \in SUBSET DOMAIN sorted /\ {sorted[i] : i \in I} = Range(sorted) \ Points(n)
  BY DEF Range
<1> HIDE DEF I
<1>6. Position \subseteq Int
  BY RingAssumption DEF Position
<1>7. /\ sorted' \in Seq(Position)
      /\ Range(sorted') = {sorted[i] : i \in I}
      /\ \A i, j \in DOMAIN sorted' : i < j => sorted'[i] < sorted'[j]
  BY <1>1, <1>2, <1>5, <1>6, PickedIsSorted
<1>8. DOMAIN owner' = RosterPoints(nodes')
  BY <1>1, <1>2, <1>4
<1>9. \A o \in nodes' : \A p \in Points(o) : owner'[p] = o
  <2> SUFFICES ASSUME NEW o \in nodes', NEW p \in Points(o)
               PROVE  owner'[p] = o
    OBVIOUS
  <2>1. o \in nodes /\ p \notin Points(n)
    BY <1>1, <1>3
  <2>2. p \in RosterPoints(nodes) /\ owner[p] = o
    BY <2>1 DEF RosterPoints, RingInv, RingIsRoster
  <2> QED BY <1>1, <1>2, <2>1, <2>2
<1>10. Range(sorted') = RosterPoints(nodes')
  BY <1>2, <1>4, <1>5, <1>7
<1>11. RingIsRoster'
  BY <1>4, <1>7, <1>8, <1>9, <1>10 DEF RingIsRoster, RosterPoints, Range
<1> QED BY <1>1, <1>7, <1>11 DEF RingInv

LEMMA RingInvStep == RingInv /\ [Next]_vars => RingInv'
<1> SUFFICES ASSUME RingInv, [Next]_vars
             PROVE  RingInv'
  OBVIOUS
<1>1. ASSUME NEW n \in NodeId, AddNode(n)
      PROVE  RingInv'
  BY <1>1, AddKeepsRing
<1>2. ASSUME NEW n \in NodeId, RemoveNode(n)
      PROVE  RingInv'
  BY <1>2, RemoveKeepsRing
<1>3. CASE UNCHANGED vars
  <2>1. hash' = hash /\ nodes' = nodes /\ owner' = owner /\ sorted' = sorted
    BY <1>3 DEF vars
  <2>2. \A n : Points(n)' = Points(n)
    BY <2>1 DEF Points
  <2>3. RosterPoints(nodes)' = RosterPoints(nodes)
    BY <2>1, <2>2 DEF RosterPoints
  <2>4. RingIsRoster'
    BY <2>1, <2>2, <2>3 DEF RingInv, RingIsRoster, Range
  <2> QED BY <2>1, <2>4 DEF RingInv
<1> QED BY <1>1, <1>2, <1>3 DEF Next

LEMMA RingAlways == Spec => []RingInv
BY InitRing, RingInvStep, PTL DEF Spec

\* Whatever the order in which nodes came and went, the list is the sorted list
\* of the points of the nodes that are there, each owned by its node: processes
\* with the same roster have the same ring (HashRing.add_node, remove_node).
THEOREM RingsAgree == Spec => []RingIsRoster
<1>1. RingInv => RingIsRoster
  BY DEF RingInv
<1> QED BY <1>1, RingAlways, PTL

-----------------------------------------------------------------------------
(* Counting *)

\* The positions of the elements before some point of a sorted list are the
\* first ones, as many as there are (bisect.bisect_left).
LEMMA FirstOnes ==
    ASSUME NEW m \in Nat, NEW J \in SUBSET (1..m),
           \A i \in J : \A k \in 1..m : k < i => k \in J
    PROVE  Cardinality(J) \in 0..m /\ J = 1..Cardinality(J)
<1>1. IsFiniteSet(1..m) /\ IsFiniteSet(J) /\ J \in SUBSET Nat
  <2>1. IsFiniteSet(1..m)
    BY FS_Interval
  <2>2. IsFiniteSet(J)
    BY <2>1, FS_Subset
  <2> QED BY <2>1, <2>2
<1>2. CASE J = {}
  BY <1>2, FS_EmptySet
<1>3. CASE J # {}
  <2>1. PICK k \in J : \A i \in J : i <= k
    BY <1>1, <1>3, FiniteMaximum
  <2>2. k \in 1..m /\ \A i \in 1..k : i \in 1..m
    BY <2>1
  <2>3. \A i \in 1..k : i \in J
    BY <2>1, <2>2
  <2>4. J = 1..k
    <3>1. \A i \in J : i \in 1..k
      BY <2>1
    <3> QED BY <2>3, <3>1
  <2>5. Cardinality(1..k) = k
    BY <2>2, FS_Interval
  <2> QED BY <2>2, <2>4, <2>5
<1> QED BY <1>2, <1>3

\* A list without repeats of all members of V counts them.
LEMMA CountedByList ==
    ASSUME NEW V, NEW k \in Nat, NEW f \in [1..k -> V],
           \A i, j \in 1..k : f[i] = f[j] => i = j,
           \A x \in V : \E i \in 1..k : f[i] = x
    PROVE  IsFiniteSet(V) /\ Cardinality(V) = k
<1>1. f \in Bijection(1..k, V)
  BY DEF Bijection, Injection, Surjection, IsInjective
<1>2. ExistsBijection(1..k, V)
  BY <1>1 DEF ExistsBijection
<1>3. IsFiniteSet(1..k) /\ Cardinality(1..k) = k
  BY FS_Interval
<1> QED BY <1>2, <1>3, FS_Bijection

-----------------------------------------------------------------------------
(* Walking around the ring *)

\* Steps picked from all the steps.
LEMMA PickedSteps ==
    ASSUME NEW V, NEW s \in Seq(V), \A i \in DOMAIN s : s[i] = i, NEW I \in SUBSET DOMAIN s
    PROVE  /\ Cardinality(I) \in Nat
           /\ Picked(s, I) \in [1..Cardinality(I) -> I]
           /\ \A i \in I : \E r \in 1..Cardinality(I) : Picked(s, I)[r] = i
           /\ \A r, q \in 1..Cardinality(I) : r < q => Picked(s, I)[r] < Picked(s, I)[q]
<1> DEFINE m == Cardinality(I)
           met == Picked(s, I)
<1>1. m \in Nat
  BY PickedPositions
<1>2. PICK pos \in [1..m -> I] :
         /\ met = [r \in 1..m |-> s[pos[r]]]
         /\ \A i \in I : \E r \in 1..m : pos[r] = i
         /\ \A r, q \in 1..m : r < q => pos[r] < pos[q]
  BY ONLY s \in Seq(V), I \in SUBSET DOMAIN s, PickedPositions
<1> HIDE DEF m, met
<1>3. met \in [1..m -> I] /\ \A r \in 1..m : met[r] = pos[r]
  <2>1. \A r \in 1..m : pos[r] \in I /\ s[pos[r]] = pos[r]
    BY <1>2
  <2> QED BY <1>2, <2>1
<1> QED BY <1>1, <1>2, <1>3 DEF m, met

\* The first visits of a walk that meets every node: one for each node, in
\* order, and every step before one is to a node met already.
LEMMA MetOnce ==
    ASSUME NEW V, IsFiniteSet(V), NEW w \in Seq(V),
           \A x \in V : \E i \in DOMAIN w : w[i] = x
    PROVE  LET met == Unseen(w)
           IN  /\ met \in [1..Cardinality(V) -> DOMAIN w]
               /\ Len(met) = Cardinality(V)
               /\ \A i, j \in 1..Cardinality(V) : i < j => met[i] < met[j]
               /\ \A i, j \in 1..Cardinality(V) : w[met[i]] = w[met[j]] => i = j
               /\ \A i \in DOMAIN w : \E k \in 1..Cardinality(V) : w[met[k]] = w[i] /\ met[k] <= i
<1> DEFINE D == DOMAIN w
           I == {i \in D : \A j \in 1..(i - 1) : w[j] # w[i]}
           id == [i \in D |-> i]
           met == Picked(id, I)
           m == Cardinality(I)
<1>1. /\ Len(w) \in Nat /\ D = 1..Len(w) /\ D \subseteq Nat /\ I \in SUBSET D
      /\ IsFiniteSet(D) /\ IsFiniteSet(I)
  <2>1. Len(w) \in Nat /\ D = 1..Len(w) /\ I \in SUBSET D
    OBVIOUS
  <2>2. IsFiniteSet(D)
    BY <2>1, FS_Interval
  <2> QED BY <2>1, <2>2, FS_Subset
<1>2. id \in Seq(D) /\ \A i \in D : id[i] = i
  BY <1>1
<1>d. I \in SUBSET DOMAIN id
  BY <1>1
<1>3. /\ \A i, j \in I : w[i] = w[j] => i = j
      /\ \A i \in I : \A j \in D : j < i => w[j] # w[i]
  <2>1. \A i \in I : \A j \in 1..(i - 1) : w[j] # w[i]
    OBVIOUS
  <2>2. \A i \in I : \A j \in D : j < i => w[j] # w[i]
    BY <1>1, <2>1
  <2> QED BY <1>1, <2>2
<1>4. ASSUME NEW i \in D
      PROVE  \E k \in I : w[k] = w[i] /\ k <= i
  <2> DEFINE S == {j \in D : w[j] = w[i]}
             Less == {pr \in S \X S : pr[2] < pr[1]}
  <2>1. /\ S \in SUBSET D /\ IsFiniteSet(S) /\ S # {}
        /\ \A j \in S : w[j] = w[i]
        /\ \A j \in D : w[j] = w[i] => j \in S
    BY <1>1, FS_Subset
  <2>2. \A x, y \in S : <<x, y>> \in Less <=> y < x
    BY <1>1
  <2> HIDE DEF S, Less
  <2>3. /\ \A x \in S : <<x, x>> \notin Less
        /\ \A x, y, z \in S : <<x, y>> \in Less /\ <<y, z>> \in Less => <<x, z>> \in Less
    BY <1>1, <2>1, <2>2
  <2>4. PICK k \in S : \A y \in S : <<k, y>> \notin Less
    BY <2>1, <2>3, MaximalElement
  <2>5. k \in D /\ w[k] = w[i] /\ \A y \in S : ~ (y < k)
    BY <2>1, <2>2, <2>4
  <2> HIDE DEF D
  <2>7. \A j \in D : w[j] = w[i] => k <= j
    BY <1>1, <2>1, <2>5
  <2>6. \A j \in 1..(k - 1) : w[j] # w[k]
    BY <1>1, <2>5, <2>7
  <2> QED BY <2>5, <2>6, <2>7
<1>5. \A i \in I : w[i] \in V
  BY <1>1
<1> HIDE DEF I, id, D
<1>6. /\ m \in Nat /\ met \in [1..m -> I]
      /\ \A i \in I : \E r \in 1..m : met[r] = i
      /\ \A i, j \in 1..m : i < j => met[i] < met[j]
  <2>1. id \in Seq(D) /\ \A i \in DOMAIN id : id[i] = i
    BY <1>1, <1>2 DEF D, id
  <2> QED BY <1>d, <2>1, PickedSteps
<1> HIDE DEF m, met
<1>10. \A i, j \in 1..m : met[i] = met[j] => i = j
  <2>1. \A i \in 1..m : met[i] \in Nat
    BY <1>1, <1>6
  <2> QED BY <1>6, <2>1
<1>11. \A i, j \in 1..m : w[met[i]] = w[met[j]] => i = j
  BY <1>3, <1>6, <1>10
<1>12. \A i \in D : \E k \in 1..m : w[met[k]] = w[i] /\ met[k] <= i
  <2> SUFFICES ASSUME NEW i \in D
               PROVE  \E k \in 1..m : w[met[k]] = w[i] /\ met[k] <= i
    OBVIOUS
  <2>1. PICK q \in I : w[q] = w[i] /\ q <= i
    BY <1>4
  <2>2. PICK k \in 1..m : met[k] = q
    BY <1>6
  <2> QED BY <2>1, <2>2
<1>13. IsFiniteSet(V) /\ Cardinality(V) = m
  <2> DEFINE f == [k \in 1..m |-> w[met[k]]]
  <2>1. f \in [1..m -> V] /\ \A k \in 1..m : f[k] = w[met[k]]
    BY <1>5, <1>6
  <2>2. \A i, j \in 1..m : f[i] = f[j] => i = j
    BY <1>11, <2>1
  <2>3. \A x \in V : \E k \in 1..m : f[k] = x
    <3> SUFFICES ASSUME NEW x \in V
                 PROVE  \E k \in 1..m : f[k] = x
      OBVIOUS
    <3>1. PICK i \in D : w[i] = x
      BY DEF D
    <3>2. PICK k \in 1..m : w[met[k]] = w[i]
      BY <1>12
    <3> QED BY <2>1, <3>1, <3>2
  <2>4. m \in Nat /\ f \in [1..m -> V]
    BY <1>6, <2>1
  <2> HIDE DEF f
  <2> QED BY ONLY <2>4, <2>2, <2>3, CountedByList
<1>14. Unseen(w) = met
  BY DEF Unseen, met, id, I, D
<1>15. met \in [1..m -> DOMAIN w] /\ Len(met) = m
  BY <1>1, <1>6 DEF D
<1> QED BY <1>6, <1>11, <1>12, <1>13, <1>14, <1>15 DEF D

\* Clockwise from h, how far p is.
RightOf(h, p) == (p - h + Positions) % Positions

LEMMA RightOfMeaning ==
    ASSUME NEW h \in Position, NEW p \in Position
    PROVE  /\ RightOf(h, p) = IF p >= h THEN p - h ELSE p - h + Positions
           /\ RightOf(h, p) \in Position
<1>1. Positions \in Nat /\ Positions > 0 /\ h \in 0..(Positions - 1) /\ p \in 0..(Positions - 1)
  BY RingAssumption DEF Position
<1>2. CASE p >= h
  <2>1. p - h + Positions \in Positions..(2 * Positions - 1)
    BY <1>1, <1>2
  <2>2. (p - h + Positions) % Positions = p - h
    BY <1>1, <2>1
  <2> QED BY <1>1, <1>2, <2>2 DEF RightOf, Position
<1>3. CASE ~ (p >= h)
  <2>1. p - h + Positions \in 0..(Positions - 1)
    BY <1>1, <1>3
  <2>2. (p - h + Positions) % Positions = p - h + Positions
    BY <1>1, <2>1
  <2> QED BY <1>1, <1>3, <2>1, <2>2 DEF RightOf, Position
<1> QED BY <1>2, <1>3

\* Once around at most.
LEMMA AroundOnce ==
    ASSUME NEW m \in Nat, m > 0, NEW a \in 0..(2 * m - 1)
    PROVE  a % m = IF a < m THEN a ELSE a - m
<1>1. CASE a < m
  <2>1. a \in 0..(m - 1)
    BY <1>1
  <2>2. a % m = a
    BY <2>1
  <2> QED BY <1>1, <2>2
<1>2. CASE ~ (a < m)
  <2>1. a \in m..(2 * m - 1)
    BY <1>2
  <2>2. a % m = a - m
    BY <2>1
  <2> QED BY <1>2, <2>2
<1> QED BY <1>1, <1>2

\* Who owns the points of the list.
LEMMA RingOwners ==
    ASSUME RingInv, nodes # {}
    PROVE  /\ Len(sorted) \in Nat /\ Len(sorted) > 0 /\ DOMAIN sorted = 1..Len(sorted)
           /\ \A i \in 1..Len(sorted) :
                 /\ sorted[i] \in Position /\ owner[sorted[i]] \in nodes
                 /\ sorted[i] \in Points(owner[sorted[i]])
           /\ \A x \in nodes : \A p \in Points(x) :
                 \E i \in 1..Len(sorted) : sorted[i] = p /\ owner[p] = x
           /\ \A x \in nodes : \E p \in Points(x) : p \in Position
           /\ IsFiniteSet(nodes) /\ Cardinality(nodes) \in Nat \ {0}
<1>1. /\ sorted \in Seq(Position) /\ nodes \in SUBSET NodeId
      /\ Range(sorted) = RosterPoints(nodes)
      /\ \A n \in nodes : \A p \in Points(n) : owner[p] = n
  BY DEF RingInv, RingIsRoster
<1>2. /\ Len(sorted) \in Nat /\ DOMAIN sorted = 1..Len(sorted)
      /\ \A i \in 1..Len(sorted) : sorted[i] \in Position
  BY <1>1
<1>3. \A i \in 1..Len(sorted) : \E x \in nodes : sorted[i] \in Points(x)
  <2>1. \A i \in 1..Len(sorted) : sorted[i] \in Range(sorted)
    BY <1>2 DEF Range
  <2>2. \A p \in RosterPoints(nodes) : \E x \in nodes : p \in Points(x)
    BY DEF RosterPoints
  <2> QED BY <1>1, <2>1, <2>2
<1>4. \A i \in 1..Len(sorted) : owner[sorted[i]] \in nodes /\ sorted[i] \in Points(owner[sorted[i]])
  BY <1>1, <1>3
<1>5. \A x \in nodes : \A p \in Points(x) :
         \E i \in 1..Len(sorted) : sorted[i] = p /\ owner[p] = x
  <2> SUFFICES ASSUME NEW x \in nodes, NEW p \in Points(x)
               PROVE  \E i \in 1..Len(sorted) : sorted[i] = p /\ owner[p] = x
    OBVIOUS
  <2>1. p \in Range(sorted)
    BY <1>1 DEF RosterPoints
  <2> QED BY <1>1, <1>2, <2>1 DEF Range
<1>6. \A x \in nodes : \E p \in Points(x) : p \in Position
  <2> SUFFICES ASSUME NEW x \in nodes
               PROVE  \E p \in Points(x) : p \in Position
    OBVIOUS
  <2>1. 0 \in 0..(VirtualNodes - 1)
    BY RingAssumption
  <2>2. hash[<<x, 0>>] \in Points(x)
    BY <2>1 DEF Points
  <2>3. Points(x) \subseteq Position
    BY <1>1, PointsDiffer
  <2> QED BY <2>2, <2>3
<1>7. Len(sorted) > 0
  BY <1>2, <1>5, <1>6
<1>8. IsFiniteSet(nodes) /\ Cardinality(nodes) \in Nat \ {0}
  <2>1. IsFiniteSet(nodes)
    BY <1>1, RingAssumption, FS_Subset
  <2> QED BY <2>1, FS_CardinalityType, FS_EmptySet
<1> QED BY <1>2, <1>4, <1>5, <1>6, <1>7, <1>8

\* The walk of get_preference_list goes once through the list, and clockwise.
LEMMA WalkIsClockwise ==
    ASSUME RingInv, nodes # {}, NEW h \in Position
    PROVE  \E at \in [1..Len(sorted) -> 1..Len(sorted)] :
              /\ Walk(h) = [i \in 1..Len(sorted) |-> owner[sorted[at[i]]]]
              /\ at[1] = Start(h) + 1
              /\ \A q \in 1..Len(sorted) : \E i \in 1..Len(sorted) : at[i] = q
              /\ \A i, j \in 1..Len(sorted) :
                    i < j => RightOf(h, sorted[at[i]]) < RightOf(h, sorted[at[j]])
<1> DEFINE m == Len(sorted)
           J == {i \in DOMAIN sorted : sorted[i] < h}
           b == Bisect(sorted, h)
           start == Start(h)
           at == [i \in 1..m |-> ((start + i - 1) % m) + 1]
<1>1. /\ m \in Nat /\ m > 0 /\ DOMAIN sorted = 1..m
      /\ \A i \in 1..m : sorted[i] \in Position /\ sorted[i] \in Int
      /\ h \in Int /\ Positions \in Nat
  BY RingOwners, RingAssumption DEF Position
<1>2. \A i, j \in 1..m : i < j => sorted[i] < sorted[j]
  BY <1>1 DEF RingInv, RingIsRoster
<1> HIDE DEF m
<1>3. b \in 0..m /\ \A i \in 1..m : sorted[i] < h <=> i <= b
  <2>1. J \in SUBSET (1..m) /\ \A i \in J : \A k \in 1..m : k < i => k \in J
    BY <1>1, <1>2
  <2>2. \A i \in 1..m : i \in J <=> sorted[i] < h
    BY <1>1
  <2>3. b = Cardinality(J)
    BY DEF Bisect
  <2> HIDE DEF J, b
  <2>4. b \in 0..m /\ J = 1..b
    BY <1>1, <2>1, <2>3, FirstOnes
  <2> QED BY <2>2, <2>4
<1>4. start = IF b = m THEN 0 ELSE b
  BY DEF Start, m
<1> HIDE DEF b, start
<1>5. start \in 0..(m - 1)
  BY <1>1, <1>3, <1>4
<1>6. \A i \in 1..m : at[i] = IF start + i <= m THEN start + i ELSE start + i - m
  <2> SUFFICES ASSUME NEW i \in 1..m
               PROVE  ((start + i - 1) % m) + 1 = IF start + i <= m THEN start + i ELSE start + i - m
    OBVIOUS
  <2>1. start + i - 1 \in 0..(2 * m - 1) /\ m > 0 /\ m \in Nat
    BY <1>1, <1>5
  <2> DEFINE a == start + i - 1
             rest == a % m
  <2>2. rest = IF a < m THEN a ELSE a - m
    BY <2>1, AroundOnce
  <2> HIDE DEF rest
  <2>3. rest + 1 = IF start + i <= m THEN start + i ELSE start + i - m
    BY <1>1, <1>5, <2>2
  <2> QED BY <2>3 DEF rest
<1>7. DOMAIN at = 1..m
  OBVIOUS
<1>8. Walk(h) = [i \in 1..m |-> owner[sorted[at[i]]]]
  BY <1>7 DEF Walk, m, start
<1>9. at \in [1..m -> 1..m]
  <2>1. \A i \in 1..m : at[i] \in 1..m
    BY <1>1, <1>5, <1>6
  <2> QED BY <2>1
<1> HIDE DEF at
<1>10. at[1] = start + 1
  BY <1>1, <1>5, <1>6
<1>11. \A q \in 1..m : \E i \in 1..m : at[i] = q
  <2> SUFFICES ASSUME NEW q \in 1..m
               PROVE  \E i \in 1..m : at[i] = q
    OBVIOUS
  <2>1. CASE q > start
    <3>1. q - start \in 1..m /\ at[q - start] = q
      BY <1>1, <1>5, <1>6, <2>1
    <3> QED BY <3>1
  <2>2. CASE ~ (q > start)
    <3>1. q - start + m \in 1..m /\ at[q - start + m] = q
      BY <1>1, <1>5, <1>6, <2>2
    <3> QED BY <3>1
  <2> QED BY <2>1, <2>2
<1>12. ASSUME NEW i \in 1..m, NEW j \in 1..m, i < j
       PROVE  RightOf(h, sorted[at[i]]) < RightOf(h, sorted[at[j]])
  <2> DEFINE p == sorted[at[i]]
             q == sorted[at[j]]
  <2>1. /\ at[i] \in 1..m /\ at[j] \in 1..m /\ p \in Position /\ q \in Position
        /\ p \in 0..(Positions - 1) /\ q \in 0..(Positions - 1) /\ h \in 0..(Positions - 1)
    BY <1>1, <1>9 DEF Position
  <2>2. /\ RightOf(h, p) = IF p >= h THEN p - h ELSE p - h + Positions
        /\ RightOf(h, q) = IF q >= h THEN q - h ELSE q - h + Positions
    BY <2>1, RightOfMeaning
  <2>3. (p < h <=> at[i] <= b) /\ (q < h <=> at[j] <= b)
    BY <1>3, <2>1
  <2>4. at[i] < at[j] => p < q
    BY <1>2, <2>1
  <2>5. \/ at[i] < at[j] /\ (at[i] <= b <=> at[j] <= b)
        \/ at[i] > b /\ at[j] <= b
    <3>1. i \in Nat /\ j \in Nat /\ 1 <= i /\ i < j /\ j <= m
      BY <1>1, <1>12
    <3>2. /\ at[i] = IF start + i <= m THEN start + i ELSE start + i - m
          /\ at[j] = IF start + j <= m THEN start + j ELSE start + j - m
      BY <1>6
    <3>3. CASE b = m
      <4>1. start = 0 /\ at[i] = i /\ at[j] = j
        BY <1>1, <1>4, <3>1, <3>2, <3>3
      <4> QED BY <3>1, <3>3, <4>1
    <3>4. CASE b # m
      <4>1. start = b /\ b \in 0..(m - 1)
        BY <1>4, <1>5, <3>4
      <4> QED BY <1>1, <3>1, <3>2, <4>1
    <3> QED BY <3>3, <3>4
  <2> HIDE DEF p, q
  <2>6. RightOf(h, p) < RightOf(h, q)
    <3>1. p \in Nat /\ q \in Nat /\ p < Positions /\ q < Positions /\ h \in Nat /\ h < Positions
      BY <1>1, <2>1
    <3>2. CASE at[i] < at[j] /\ (at[i] <= b <=> at[j] <= b)
      <4>1. p < q /\ (p < h <=> q < h)
        BY <2>3, <2>4, <3>2
      <4> QED BY <1>1, <2>2, <3>1, <4>1
    <3>3. CASE at[i] > b /\ at[j] <= b
      <4>1. at[i] \in Int /\ b \in Int
        BY <1>3, <2>1
      <4>2. ~ (p < h) /\ q < h
        BY <2>3, <3>3, <4>1
      <4> QED BY <1>1, <2>2, <3>1, <4>2
    <3> QED BY <2>5, <3>2, <3>3
  <2> QED BY <2>6 DEF p, q
<1> QED BY <1>8, <1>9, <1>10, <1>11, <1>12 DEF m, start

LEMMA DistanceMeaning ==
    ASSUME RingInv, NEW h \in Position, NEW x \in NodeId, NEW p \in Points(x),
           \A q \in Points(x) : RightOf(h, p) <= RightOf(h, q)
    PROVE  Distance(h, x) = RightOf(h, p) /\ Distance(h, x) \in Position
<1> DEFINE Nearest(d) == /\ \E q \in Points(x) : d = RightOf(h, q)
                         /\ \A q \in Points(x) : d <= RightOf(h, q)
<1>1. /\ RightOf(h, p) \in Position /\ \A q \in Points(x) : RightOf(h, q) \in Position
      /\ \A d \in Position : d \in Int
  <2>1. Points(x) \subseteq Position
    BY PointsDiffer
  <2>2. \A q \in Points(x) : RightOf(h, q) \in Position
    BY <2>1, RightOfMeaning
  <2> QED BY <2>2, RingAssumption DEF Position
<1>2. Nearest(RightOf(h, p))
  OBVIOUS
<1>3. \A d \in Position : Nearest(d) => d = RightOf(h, p)
  BY <1>1
<1>4. Distance(h, x) = CHOOSE d \in Position : Nearest(d)
  BY DEF Distance, RightOf
<1> HIDE DEF Nearest
<1> QED BY <1>1, <1>2, <1>3, <1>4

\* get_preference_list takes the nodes in the order of their distance, from the
\* node of get_node on.
LEMMA ListsByDistance ==
    ASSUME RingInv, nodes # {}, NEW h \in Position
    PROVE  \E full \in [1..Cardinality(nodes) -> nodes] :
              /\ \A x \in nodes : \E k \in 1..Cardinality(nodes) : full[k] = x
              /\ \A k \in 1..Cardinality(nodes) : Distance(h, full[k]) \in Position
              /\ \A i, j \in 1..Cardinality(nodes) :
                    i < j => Distance(h, full[i]) < Distance(h, full[j])
              /\ full[1] = GetNode(h)
              /\ \A n \in Nat \ {0} :
                    PreferenceList(h, n) = [k \in 1..AtMostNodes(n) |-> full[k]]
<1> DEFINE m == Len(sorted)
           C == Cardinality(nodes)
           w == Walk(h)
           met == Unseen(w)
           full == [k \in 1..C |-> w[met[k]]]
<1>1. PICK at \in [1..m -> 1..m] :
         /\ w = [i \in 1..m |-> owner[sorted[at[i]]]]
         /\ at[1] = Start(h) + 1
         /\ \A q \in 1..m : \E i \in 1..m : at[i] = q
         /\ \A i, j \in 1..m : i < j => RightOf(h, sorted[at[i]]) < RightOf(h, sorted[at[j]])
  BY WalkIsClockwise
<1>2. /\ m \in Nat /\ m > 0 /\ C \in Nat \ {0} /\ IsFiniteSet(nodes)
      /\ \A i \in 1..m : /\ sorted[i] \in Position /\ owner[sorted[i]] \in nodes
                         /\ sorted[i] \in Points(owner[sorted[i]])
      /\ \A x \in nodes : \A p \in Points(x) :
            \E i \in 1..m : sorted[i] = p /\ owner[p] = x
      /\ \A x \in nodes : \E p \in Points(x) : p \in Position
  BY RingOwners
<1> HIDE DEF m, C, w
<1>3. /\ w \in Seq(nodes) /\ DOMAIN w = 1..m
      /\ \A i \in 1..m : w[i] = owner[sorted[at[i]]] /\ w[i] \in nodes
  <2>1. \A i \in 1..m : owner[sorted[at[i]]] \in nodes
    BY <1>1, <1>2
  <2> QED BY <1>1, <1>2, <2>1
<1>4. \A x \in nodes : \A p \in Points(x) :
         \E i \in 1..m : sorted[at[i]] = p /\ w[i] = x
  <2> SUFFICES ASSUME NEW x \in nodes, NEW p \in Points(x)
               PROVE  \E i \in 1..m : sorted[at[i]] = p /\ w[i] = x
    OBVIOUS
  <2>1. PICK q \in 1..m : sorted[q] = p /\ owner[p] = x
    BY <1>2
  <2>2. PICK i \in 1..m : at[i] = q
    BY <1>1
  <2> QED BY <1>3, <2>1, <2>2
<1>5. \A x \in nodes : \E i \in DOMAIN w : w[i] = x
  BY <1>2, <1>3, <1>4
<1>6. /\ met \in [1..C -> 1..m] /\ Len(met) = C
      /\ \A i, j \in 1..C : i < j => met[i] < met[j]
      /\ \A i \in 1..m : \E k \in 1..C : w[met[k]] = w[i] /\ met[k] <= i
      /\ \A i, j \in 1..C : w[met[i]] = w[met[j]] => i = j
  <2>1. w \in Seq(nodes) /\ IsFiniteSet(nodes)
    BY <1>2, <1>3
  <2>2. /\ met \in [1..Cardinality(nodes) -> DOMAIN w] /\ Len(met) = Cardinality(nodes)
        /\ \A i, j \in 1..Cardinality(nodes) : i < j => met[i] < met[j]
        /\ \A i, j \in 1..Cardinality(nodes) : w[met[i]] = w[met[j]] => i = j
        /\ \A i \in DOMAIN w :
              \E k \in 1..Cardinality(nodes) : w[met[k]] = w[i] /\ met[k] <= i
    BY ONLY <2>1, <1>5, MetOnce
  <2> QED BY <1>3, <2>2 DEF C
<1> HIDE DEF met
<1>7. full \in [1..C -> nodes] /\ \A k \in 1..C : full[k] = w[met[k]]
  <2>1. \A k \in 1..C : w[met[k]] \in nodes
    BY <1>3, <1>6
  <2> QED BY <2>1
<1> HIDE DEF full
<1>8. \A x \in nodes : \E k \in 1..C : full[k] = x
  <2> SUFFICES ASSUME NEW x \in nodes
               PROVE  \E k \in 1..C : full[k] = x
    OBVIOUS
  <2>1. PICK i \in DOMAIN w : w[i] = x
    BY <1>5
  <2>2. i \in 1..m
    BY <1>3
  <2>3. PICK k \in 1..C : w[met[k]] = w[i]
    BY <1>6, <2>2
  <2> QED BY <1>7, <2>1, <2>3
<1>9. ASSUME NEW k \in 1..C
      PROVE  /\ Distance(h, full[k]) = RightOf(h, sorted[at[met[k]]])
             /\ Distance(h, full[k]) \in Position
  <2> DEFINE p == sorted[at[met[k]]]
             x == full[k]
  <2>1. met[k] \in 1..m /\ at[met[k]] \in 1..m /\ x = w[met[k]] /\ x = owner[p] /\ x \in nodes
    BY <1>1, <1>3, <1>6, <1>7
  <2>2. p \in Points(x) /\ p \in Position /\ x \in NodeId
    BY <1>2, <2>1 DEF RingInv
  <2>3. ASSUME NEW q \in Points(x)
        PROVE  RightOf(h, p) <= RightOf(h, q)
    <3>1. PICK i \in 1..m : sorted[at[i]] = q /\ w[i] = x
      BY <1>4, <2>1
    <3>2. PICK o \in 1..C : w[met[o]] = w[i] /\ met[o] <= i
      BY <1>6
    <3>3. o = k
      BY <1>6, <2>1, <3>1, <3>2
    <3>4. met[k] <= i /\ met[k] \in Int /\ i \in Int
      BY <2>1, <3>2, <3>3
    <3>8. \A d \in Position : d \in Int
      BY RingAssumption DEF Position
    <3>9. RightOf(h, p) \in Position
      BY <2>2, RightOfMeaning
    <3>5. RightOf(h, p) \in Int
      BY <3>8, <3>9
    <3>6. CASE met[k] = i
      BY <3>1, <3>5, <3>6
    <3>7. CASE met[k] < i
      <4>1. RightOf(h, p) < RightOf(h, q)
        BY <1>1, <2>1, <3>1, <3>7
      <4>2. q \in Position
        BY <2>2, PointsDiffer
      <4>3. RightOf(h, q) \in Int
        BY <4>2, RightOfMeaning, RingAssumption DEF Position
      <4> QED BY <3>5, <4>1, <4>3
    <3> QED BY <3>4, <3>6, <3>7
  <2> HIDE DEF p, x
  <2>4. Distance(h, x) = RightOf(h, p) /\ Distance(h, x) \in Position
    BY <2>2, <2>3, DistanceMeaning
  <2> QED BY <2>4 DEF p, x
<1>10. \A i, j \in 1..C : i < j => Distance(h, full[i]) < Distance(h, full[j])
  <2> SUFFICES ASSUME NEW i \in 1..C, NEW j \in 1..C, i < j
               PROVE  Distance(h, full[i]) < Distance(h, full[j])
    OBVIOUS
  <2>1. met[i] \in 1..m /\ met[j] \in 1..m /\ met[i] < met[j]
    BY <1>6
  <2>2. RightOf(h, sorted[at[met[i]]]) < RightOf(h, sorted[at[met[j]]])
    BY <1>1, <2>1
  <2> QED BY <1>9, <2>2
<1>11. full[1] = GetNode(h)
  <2>1. 1 \in 1..m /\ 1 \in 1..C
    BY <1>2
  <2>2. PICK k \in 1..C : met[k] <= 1
    BY <1>6, <2>1
  <2>3. k = 1 \/ 1 < k
    BY <1>2
  <2>4. met[1] \in 1..m /\ met[k] \in 1..m
    BY <1>6, <2>1
  <2>5. 1 < k => met[1] < met[k]
    BY <1>6, <2>1
  <2>8. met[1] \in Int /\ met[k] \in Int /\ 1 <= met[1]
    BY <2>4
  <2>9. met[1] <= 1
    BY <2>2, <2>3, <2>5, <2>8
  <2>6. met[1] = 1
    BY <2>8, <2>9
  <2>7. w[1] = owner[sorted[Start(h) + 1]]
    BY <1>1, <1>3, <2>1
  <2> QED BY <1>7, <2>1, <2>6, <2>7 DEF GetNode
<1>12. ASSUME NEW n \in Nat \ {0}
       PROVE  PreferenceList(h, n) = [k \in 1..AtMostNodes(n) |-> full[k]]
  <2>1. AtMostNodes(n) \in 1..C
    BY <1>2 DEF AtMostNodes, C
  <2>2. AtMostNodes(n) # 0 /\ \A k \in 1..AtMostNodes(n) : k \in 1..C
    BY <1>2, <2>1
  <2>3. PreferenceList(h, n) = [k \in 1..AtMostNodes(n) |-> w[met[k]]]
    BY <2>2 DEF PreferenceList, w, met
  <2> QED BY <1>7, <2>2, <2>3
<1> QED BY <1>7, <1>8, <1>9, <1>10, <1>11, <1>12 DEF C

-----------------------------------------------------------------------------
(* What a key's coordinator gets *)

LEMMA NearestInRing == RingInv => NearestFirst
<1> SUFFICES ASSUME RingInv, nodes # {}, NEW h \in Position, NEW n \in Sizes
             PROVE  LET list == PreferenceList(h, n)
                    IN  /\ Len(list) = AtMostNodes(n)
                        /\ list[1] = GetNode(h)
                        /\ Range(list) \subseteq nodes
                        /\ \A i, j \in DOMAIN list :
                              i < j => Distance(h, list[i]) < Distance(h, list[j])
                        /\ \A x \in nodes \ Range(list) : \A i \in DOMAIN list :
                              Distance(h, list[i]) < Distance(h, x)
  BY DEF NearestFirst
<1> DEFINE C == Cardinality(nodes)
           list == PreferenceList(h, n)
           k == AtMostNodes(n)
<1>1. PICK full \in [1..C -> nodes] :
         /\ \A x \in nodes : \E i \in 1..C : full[i] = x
         /\ \A i \in 1..C : Distance(h, full[i]) \in Position
         /\ \A i, j \in 1..C : i < j => Distance(h, full[i]) < Distance(h, full[j])
         /\ full[1] = GetNode(h)
         /\ \A o \in Nat \ {0} : PreferenceList(h, o) = [i \in 1..AtMostNodes(o) |-> full[i]]
  BY ListsByDistance
<1>2. n \in Nat \ {0} /\ C \in Nat \ {0}
  BY RingOwners DEF Sizes
<1>3. k \in 1..C /\ \A i \in 1..k : i \in 1..C
  BY <1>2 DEF AtMostNodes
<1> HIDE DEF C, k
<1>4. list = [i \in 1..k |-> full[i]]
  BY <1>1, <1>2 DEF k
<1> HIDE DEF list
<1>5. DOMAIN list = 1..k /\ Len(list) = k /\ \A i \in 1..k : list[i] = full[i]
  BY <1>2, <1>3, <1>4
<1>6. list[1] = GetNode(h)
  BY <1>1, <1>2, <1>3, <1>5
<1>7. Range(list) \subseteq nodes /\ \A i \in 1..k : full[i] \in Range(list)
  BY <1>1, <1>3, <1>5 DEF Range
<1>8. \A i, j \in DOMAIN list : i < j => Distance(h, list[i]) < Distance(h, list[j])
  BY <1>1, <1>3, <1>5
<1>9. ASSUME NEW x \in nodes \ Range(list), NEW i \in DOMAIN list
      PROVE  Distance(h, list[i]) < Distance(h, x)
  <2>1. PICK j \in 1..C : full[j] = x
    BY <1>1
  <2>2. j \notin 1..k
    BY <1>7, <2>1
  <2>3. i \in 1..C /\ i < j /\ list[i] = full[i]
    BY <1>2, <1>3, <1>5, <2>2
  <2> QED BY <1>1, <2>1, <2>3
<1> QED BY <1>5, <1>6, <1>7, <1>8, <1>9 DEF list, k

\* A key's replicas are the nodes nearest clockwise, nearest first, as many as
\* asked for or as there are, and the first is the node of get_node
\* (HashRing.get_preference_list).
THEOREM ReplicasAreNearest == Spec => []NearestFirst
BY NearestInRing, RingAlways, PTL

LEMMA HolderInRing == RingInv => HolderIsNextNode
<1> SUFFICES ASSUME RingInv, nodes # {}, NEW h \in Position, NEW n \in Sizes
             PROVE  LET prefs == PreferenceList(h, n)
                    IN  /\ HintHolder(h, n) \cap Range(prefs) = {}
                        /\ HintHolder(h, n) = {} <=> Range(prefs) = nodes
                        /\ \A x \in HintHolder(h, n) :
                              prefs \o <<x>> = PreferenceList(h, Len(prefs) + 1)
  BY DEF HolderIsNextNode
<1> DEFINE C == Cardinality(nodes)
           k == AtMostNodes(n)
           prefs == PreferenceList(h, n)
           candidates == PreferenceList(h, Len(prefs) + 1)
           others == {i \in DOMAIN candidates : candidates[i] \notin Range(prefs)}
<1>1. PICK full \in [1..C -> nodes] :
         /\ \A x \in nodes : \E i \in 1..C : full[i] = x
         /\ \A i \in 1..C : Distance(h, full[i]) \in Position
         /\ \A i, j \in 1..C : i < j => Distance(h, full[i]) < Distance(h, full[j])
         /\ \A o \in Nat \ {0} : PreferenceList(h, o) = [i \in 1..AtMostNodes(o) |-> full[i]]
  BY ListsByDistance
<1>2. n \in Nat \ {0} /\ C \in Nat \ {0}
  BY RingOwners DEF Sizes
<1>3. k \in 1..C /\ \A i \in 1..k : i \in 1..C
  BY <1>2 DEF AtMostNodes
<1>4. AtMostNodes(k + 1) = IF k = C THEN C ELSE k + 1
  BY <1>2, <1>3 DEF AtMostNodes
<1>5. \A i, j \in 1..C : full[i] = full[j] => i = j
  <2> SUFFICES ASSUME NEW i \in 1..C, NEW j \in 1..C, i < j
               PROVE  full[i] # full[j]
    BY <1>2
  <2>1. Distance(h, full[i]) < Distance(h, full[j])
    BY <1>1
  <2>2. Distance(h, full[i]) \in Int
    BY <1>1, RingAssumption DEF Position
  <2> QED BY <2>1, <2>2
<1> HIDE DEF C, k
<1>6. prefs = [i \in 1..k |-> full[i]]
  BY <1>1, <1>2 DEF k
<1>7. DOMAIN prefs = 1..k /\ Len(prefs) = k /\ \A i \in 1..k : prefs[i] = full[i]
  BY <1>2, <1>3, <1>6
<1>8. candidates = [i \in 1..(IF k = C THEN C ELSE k + 1) |-> full[i]]
  <2>1. k + 1 \in Nat \ {0}
    BY <1>3
  <2>2. PreferenceList(h, k + 1) = [i \in 1..AtMostNodes(k + 1) |-> full[i]]
    BY <1>1, <2>1
  <2> QED BY <1>4, <1>7, <2>2
<1> HIDE DEF prefs, candidates
<1>9. \A x : x \in Range(prefs) <=> \E i \in 1..k : x = full[i]
  BY <1>7 DEF Range
<1>10. HintHolder(h, n) = {candidates[i] : i \in {i \in others : \A j \in others : i <= j}}
  BY DEF HintHolder, prefs, candidates
<1>11. CASE k = C
  <2>1. DOMAIN candidates = 1..C /\ \A i \in 1..C : candidates[i] = full[i]
    BY <1>8, <1>11
  <2>2. others = {}
    BY <1>9, <1>11, <2>1
  <2>3. Range(prefs) = nodes
    <3>1. \A x \in nodes : x \in Range(prefs)
      BY <1>1, <1>9, <1>11
    <3>2. \A x \in Range(prefs) : x \in nodes
      BY <1>1, <1>9, <1>11
    <3> QED BY <3>1, <3>2
  <2>4. HintHolder(h, n) = {}
    BY <1>10, <2>2
  <2> QED BY <2>3, <2>4 DEF prefs
<1>12. CASE k # C
  <2>1. k + 1 \in 1..C /\ k \in Nat
    BY <1>2, <1>3, <1>12
  <2>2. DOMAIN candidates = 1..(k + 1) /\ \A i \in 1..(k + 1) : candidates[i] = full[i]
    BY <1>8, <1>12
  <2>3. others = {k + 1}
    <3>1. k + 1 \in others
      <4>1. \A i \in 1..k : full[k + 1] # full[i]
        BY <1>3, <1>5, <2>1
      <4> QED BY <1>9, <2>1, <2>2, <4>1
    <3>2. \A i \in others : i = k + 1
      <4> SUFFICES ASSUME NEW i \in 1..(k + 1), i # k + 1
                   PROVE  candidates[i] \in Range(prefs)
        BY <2>2
      <4>1. i \in 1..k
        BY <2>1
      <4> QED BY <1>9, <2>2, <4>1
    <3> HIDE DEF others
    <3> QED BY <3>1, <3>2
  <2> HIDE DEF others
  <2>4. HintHolder(h, n) = {full[k + 1]}
    <3>1. {i \in others : \A j \in others : i <= j} = {k + 1}
      BY <2>1, <2>3
    <3>2. candidates[k + 1] = full[k + 1]
      BY <2>1, <2>2
    <3> QED BY <1>10, <3>1, <3>2
  <2>5. full[k + 1] \notin Range(prefs) /\ full[k + 1] \in nodes
    BY <1>1, <1>3, <1>5, <1>9, <2>1
  <2>6. prefs \o <<full[k + 1]>> = candidates
    <3>1. /\ candidates = [i \in 1..(k + 1) |-> full[i]]
          /\ prefs \in Seq(nodes)
      <4>1. \A i \in 1..k : full[i] \in nodes
        BY <1>1, <1>3
      <4> QED BY <1>6, <1>8, <1>12, <2>1, <4>1
    <3>2. prefs \o <<full[k + 1]>> = [i \in 1..(k + 1) |-> full[i]]
      BY <1>7, <2>1, <3>1
    <3> QED BY <3>1, <3>2
  <2>7. Range(prefs) # nodes
    BY <2>5
  <2> QED BY <2>4, <2>5, <2>6, <2>7 DEF prefs, candidates
<1> QED BY <1>11, <1>12

\* put's hint holder is the one node nearest after the replicas: the same for
\* every coordinator, never a replica, and none only if all nodes are replicas
\* (Node.put: hint_candidates).
THEOREM HoldersAreNext == Spec => []HolderIsNextNode
BY HolderInRing, RingAlways, PTL

-----------------------------------------------------------------------------
(* What a node that comes or goes moves *)

\* s lists the members of C nearest by d, nearest first.
NearestOf(s, C, d) ==
    /\ s \in Seq(C)
    /\ \A i, j \in DOMAIN s : i < j => d[s[i]] < d[s[j]]
    /\ \A x \in C \ Range(s) : \A i \in DOMAIN s : d[s[i]] < d[x]

UpTo(C, d, x) == {y \in C : d[y] <= d[x]}

\* The i-th of such a list has i members of C up to it, wherever the list ends.
LEMMA RankInList ==
    ASSUME NEW C, NEW d, \A x \in C : d[x] \in Int, NEW s, NearestOf(s, C, d),
           NEW i \in DOMAIN s
    PROVE  /\ s[i] \in C /\ IsFiniteSet(UpTo(C, d, s[i]))
           /\ Cardinality(UpTo(C, d, s[i])) = i
<1> DEFINE S == UpTo(C, d, s[i])
           f == [j \in 1..i |-> s[j]]
<1>1. /\ Len(s) \in Nat /\ DOMAIN s = 1..Len(s) /\ i \in Nat
      /\ \A j \in DOMAIN s : s[j] \in C /\ d[s[j]] \in Int
      /\ \A j \in 1..i : j \in DOMAIN s
  BY DEF NearestOf
<1>2. \A j, k \in DOMAIN s : j < k => d[s[j]] < d[s[k]]
  BY DEF NearestOf
<1>3. \A j \in 1..i : s[j] \in S
  <2> SUFFICES ASSUME NEW j \in 1..i
               PROVE  d[s[j]] <= d[s[i]]
    BY <1>1 DEF UpTo
  <2>1. j = i \/ j < i
    BY <1>1
  <2> QED BY <1>1, <1>2, <2>1
<1>4. ASSUME NEW x \in S
      PROVE  \E j \in 1..i : s[j] = x
  <2>1. x \in C /\ d[x] <= d[s[i]] /\ d[x] \in Int
    BY DEF UpTo
  <2>2. x \in Range(s)
    <3>1. x \notin Range(s) => d[s[i]] < d[x]
      BY <2>1 DEF NearestOf
    <3> QED BY <1>1, <2>1, <3>1
  <2>3. PICK j \in DOMAIN s : s[j] = x
    BY <2>2 DEF Range
  <2>4. ~ (i < j)
    BY <1>1, <1>2, <2>1, <2>3
  <2>5. j \in 1..i
    BY <1>1, <2>4
  <2> QED BY <2>3, <2>5
<1>5. \A j, k \in 1..i : s[j] = s[k] => j = k
  <2> SUFFICES ASSUME NEW j \in 1..i, NEW k \in 1..i, j < k
               PROVE  s[j] # s[k]
    BY <1>1
  <2>1. d[s[j]] < d[s[k]] /\ d[s[j]] \in Int
    BY <1>1, <1>2
  <2> QED BY <2>1
<1> HIDE DEF S
<1>6. /\ f \in [1..i -> S] /\ \A j \in 1..i : f[j] = s[j]
      /\ \A j, k \in 1..i : f[j] = f[k] => j = k
      /\ \A x \in S : \E j \in 1..i : f[j] = x
  BY <1>3, <1>4, <1>5
<1> HIDE DEF f
<1>7. IsFiniteSet(S) /\ Cardinality(S) = i
  <2>1. i \in Nat
    BY <1>1
  <2>2. f \in [1..i -> S] /\ \A j, k \in 1..i : f[j] = f[k] => j = k
    BY <1>6
  <2>3. \A x \in S : \E j \in 1..i : f[j] = x
    BY <1>6
  <2> QED BY ONLY <2>1, <2>2, <2>3, CountedByList
<1> QED BY <1>1, <1>7 DEF S

\* Two such lists of the same set agree as far as both go.
LEMMA NearestAgree ==
    ASSUME NEW C, NEW d, \A x \in C : d[x] \in Int, \A x, y \in C : d[x] = d[y] => x = y,
           NEW s, NEW t, NearestOf(s, C, d), NearestOf(t, C, d), Len(s) <= Len(t)
    PROVE  IsPrefix(s, t)
<1>1. /\ s \in Seq(C) /\ t \in Seq(C) /\ Len(s) \in Nat /\ Len(t) \in Nat
      /\ DOMAIN s = 1..Len(s) /\ DOMAIN t = 1..Len(t)
      /\ \A i \in 1..Len(s) : i \in DOMAIN s /\ i \in DOMAIN t
  BY DEF NearestOf
<1>2. ASSUME NEW i \in 1..Len(s)
      PROVE  s[i] = t[i]
  <2> DEFINE S == UpTo(C, d, s[i])
             T == UpTo(C, d, t[i])
  <2>1. /\ s[i] \in C /\ t[i] \in C /\ IsFiniteSet(S) /\ IsFiniteSet(T)
        /\ Cardinality(S) = i /\ Cardinality(T) = i
    BY <1>1, RankInList
  <2>2. /\ s[i] \in S /\ t[i] \in T /\ d[s[i]] \in Int /\ d[t[i]] \in Int
    BY <2>1 DEF UpTo
  <2>3. S \subseteq T \/ T \subseteq S
    <3>1. d[s[i]] <= d[t[i]] \/ d[t[i]] <= d[s[i]]
      BY <2>2
    <3>2. ASSUME NEW x \in C, NEW y \in C, d[x] <= d[y]
          PROVE  UpTo(C, d, x) \subseteq UpTo(C, d, y)
      BY <3>2 DEF UpTo
    <3> QED BY <2>1, <3>1, <3>2
  <2>4. S = T
    <3> HIDE DEF S, T
    <3>1. S \subseteq T => S = T
      BY <2>1, FS_Subset
    <3>2. T \subseteq S => S = T
      BY <2>1, FS_Subset
    <3> QED BY <2>3, <3>1, <3>2
  <2>5. s[i] \in T /\ t[i] \in S
    BY <2>2, <2>4
  <2>6. d[s[i]] = d[t[i]]
    BY <2>2, <2>5 DEF UpTo
  <2> QED BY <2>1, <2>6
<1>3. SubSeq(s, 1, Len(s)) = SubSeq(t, 1, Len(s))
  BY <1>1, <1>2
<1> QED BY <1>3 DEF IsPrefix

\* What is kept of such a list is one of the members that are kept.
LEMMA KeptIsNearest ==
    ASSUME NEW N, NEW C \in SUBSET N, NEW d, NEW list, NearestOf(list, N, d),
           NEW I \in SUBSET DOMAIN list, \A i \in DOMAIN list : i \in I <=> list[i] \in C
    PROVE  NearestOf(Picked(list, I), C, d)
<1> DEFINE n == Cardinality(I)
           kept == Picked(list, I)
<1>1. list \in Seq(N) /\ \A i, j \in DOMAIN list : i < j => d[list[i]] < d[list[j]]
  BY DEF NearestOf
<1>2. n \in Nat
  BY ONLY <1>1, I \in SUBSET DOMAIN list, PickedPositions
<1>3. PICK pos \in [1..n -> I] :
         /\ kept = [r \in 1..n |-> list[pos[r]]]
         /\ \A i \in I : \E r \in 1..n : pos[r] = i
         /\ \A r, q \in 1..n : r < q => pos[r] < pos[q]
  <2>1. list \in Seq(N)
    BY <1>1
  <2> QED BY ONLY <2>1, I \in SUBSET DOMAIN list, PickedPositions
<1> HIDE DEF n, kept
<1>4. DOMAIN kept = 1..n /\ \A r \in 1..n : /\ pos[r] \in I /\ pos[r] \in DOMAIN list
                                            /\ kept[r] = list[pos[r]] /\ kept[r] \in C
  <2>1. \A r \in 1..n : pos[r] \in I /\ pos[r] \in DOMAIN list /\ kept[r] = list[pos[r]]
    BY <1>3
  <2> QED BY <1>3, <2>1
<1>5. kept \in Seq(C)
  <2>1. kept = [r \in 1..n |-> list[pos[r]]] /\ \A r \in 1..n : list[pos[r]] \in C
    BY <1>3, <1>4
  <2> QED BY <1>2, <2>1
<1>6. \A r, q \in DOMAIN kept : r < q => d[kept[r]] < d[kept[q]]
  BY <1>1, <1>3, <1>4
<1>7. ASSUME NEW x \in C \ Range(kept), NEW r \in DOMAIN kept
      PROVE  d[kept[r]] < d[x]
  <2>1. x \notin Range(list)
    <3> SUFFICES ASSUME NEW j \in DOMAIN list, list[j] = x
                 PROVE  x \in Range(kept)
      BY DEF Range
    <3>1. PICK q \in 1..n : pos[q] = j
      BY <1>3
    <3>2. kept[q] = x /\ q \in DOMAIN kept
      BY <1>4, <3>1
    <3> QED BY <3>2 DEF Range
  <2>2. x \in N \ Range(list)
    BY <2>1
  <2> QED BY <1>4, <2>2 DEF NearestOf
<1>8. NearestOf(kept, C, d)
  BY <1>5, <1>6, <1>7 DEF NearestOf
<1> QED BY <1>8 DEF kept

Distances(h) == [x \in NodeId |-> Distance(h, x)]

\* A preference list is the list of the nodes by distance, as far as it goes.
ListsAreNearest ==
    nodes # {} =>
        \A h \in Position :
           /\ \A x \in nodes : Distances(h)[x] \in Int
           /\ \A x, y \in nodes : Distances(h)[x] = Distances(h)[y] => x = y
           /\ \A k \in Sizes : NearestOf(PreferenceList(h, k), nodes, Distances(h))

LEMMA ListsInRing == RingInv => ListsAreNearest
<1> SUFFICES ASSUME RingInv, nodes # {}, NEW h \in Position
             PROVE  /\ \A x \in nodes : Distances(h)[x] \in Int
                    /\ \A x, y \in nodes : Distances(h)[x] = Distances(h)[y] => x = y
                    /\ \A k \in Sizes : NearestOf(PreferenceList(h, k), nodes, Distances(h))
  BY DEF ListsAreNearest
<1> DEFINE C == Cardinality(nodes)
<1>1. PICK full \in [1..C -> nodes] :
         /\ \A x \in nodes : \E i \in 1..C : full[i] = x
         /\ \A i \in 1..C : Distance(h, full[i]) \in Position
         /\ \A i, j \in 1..C : i < j => Distance(h, full[i]) < Distance(h, full[j])
         /\ \A o \in Nat \ {0} : PreferenceList(h, o) = [i \in 1..AtMostNodes(o) |-> full[i]]
  BY ListsByDistance
<1>2. nodes \in SUBSET NodeId /\ C \in Nat \ {0} /\ \A p \in Position : p \in Int
  BY RingOwners, RingAssumption DEF RingInv, Position
<1>3. \A x \in nodes : Distances(h)[x] = Distance(h, x)
  BY <1>2 DEF Distances
<1> HIDE DEF C
<1>4. \A x \in nodes : Distance(h, x) \in Int
  BY <1>1, <1>2
<1>5. ASSUME NEW x \in nodes, NEW y \in nodes, Distance(h, x) = Distance(h, y)
      PROVE  x = y
  <2>1. PICK i \in 1..C : full[i] = x
    BY <1>1
  <2>2. PICK j \in 1..C : full[j] = y
    BY <1>1
  <2>3. i < j => Distance(h, x) < Distance(h, y)
    BY <1>1, <2>1, <2>2
  <2>4. j < i => Distance(h, y) < Distance(h, x)
    BY <1>1, <2>1, <2>2
  <2>5. Distance(h, x) \in Int
    BY <1>4
  <2>6. i = j
    BY <1>2, <1>5, <2>3, <2>4, <2>5
  <2> QED BY <2>1, <2>2, <2>6
<1>6. ASSUME NEW k \in Sizes
      PROVE  NearestOf(PreferenceList(h, k), nodes, Distances(h))
  <2> DEFINE list == PreferenceList(h, k)
             t == AtMostNodes(k)
  <2>1. k \in Nat \ {0} /\ t \in 1..C /\ \A i \in 1..t : i \in 1..C
    BY <1>2 DEF Sizes, AtMostNodes, C
  <2> HIDE DEF t
  <2>2. list = [i \in 1..t |-> full[i]]
    BY <1>1, <2>1 DEF t
  <2>3. /\ Range(list) \subseteq nodes
        /\ \A i, j \in DOMAIN list : i < j => Distance(h, list[i]) < Distance(h, list[j])
        /\ \A x \in nodes \ Range(list) : \A i \in DOMAIN list :
              Distance(h, list[i]) < Distance(h, x)
    BY NearestInRing DEF NearestFirst
  <2> HIDE DEF list
  <2>4. list \in Seq(nodes) /\ \A i \in DOMAIN list : list[i] \in nodes
    <3>1. \A i \in 1..t : full[i] \in nodes
      BY <2>1
    <3> QED BY <2>1, <2>2, <3>1
  <2>5. NearestOf(list, nodes, Distances(h))
    <3>1. \A i \in DOMAIN list : Distances(h)[list[i]] = Distance(h, list[i])
      BY <1>3, <2>4
    <3>2. \A i, j \in DOMAIN list : i < j => Distances(h)[list[i]] < Distances(h)[list[j]]
      BY <2>3, <3>1
    <3>3. \A x \in nodes \ Range(list) : \A i \in DOMAIN list :
             Distances(h)[list[i]] < Distances(h)[x]
      BY <1>3, <2>3, <3>1
    <3> QED BY <2>4, <3>2, <3>3 DEF NearestOf
  <2> QED BY <2>5 DEF list
<1> QED BY <1>3, <1>4, <1>5, <1>6

LEMMA MovesAreLocal ==
    ASSUME ListsAreNearest, ListsAreNearest', [Next]_vars,
           nodes # {}, nodes' # {}, NEW h \in Position, NEW k \in Sizes
    PROVE  LET changed == (nodes \ nodes') \cup (nodes' \ nodes)
               kept(list) == Picked(list, {i \in DOMAIN list : list[i] \notin changed})
               was == PreferenceList(h, k)
               now == PreferenceList(h, k)'
           IN  IsPrefix(kept(was), kept(now)) \/ IsPrefix(kept(now), kept(was))
<1> DEFINE changed == (nodes \ nodes') \cup (nodes' \ nodes)
           Left(list) == {i \in DOMAIN list : list[i] \notin changed}
           was == PreferenceList(h, k)
           now == PreferenceList(h, k)'
           C == nodes \cap nodes'
           d == Distances(h)
<1>1. hash' = hash
  BY DEF Next, AddNode, RemoveNode, vars
<1>2. \A x : Points(x)' = Points(x)
  BY <1>1 DEF Points
<1>3. \A x : Distance(h, x)' = Distance(h, x)
  BY <1>2 DEF Distance, Position
<1>4. d' = d
  BY <1>3 DEF Distances
<1>5. /\ \A x \in nodes : d[x] \in Int
      /\ \A x, y \in nodes : d[x] = d[y] => x = y
      /\ NearestOf(was, nodes, d)
  BY DEF ListsAreNearest
<1>6. NearestOf(now, nodes', d)
  BY <1>4 DEF ListsAreNearest, Position, Sizes
<1> HIDE DEF was, now, d
<1>7. /\ C \in SUBSET nodes /\ C \in SUBSET nodes'
      /\ \A x \in nodes : x \notin changed <=> x \in C
      /\ \A x \in nodes' : x \notin changed <=> x \in C
  OBVIOUS
<1> HIDE DEF C, changed
<1>8. /\ \A i \in DOMAIN was : was[i] \in nodes
      /\ \A i \in DOMAIN now : now[i] \in nodes'
  BY <1>5, <1>6 DEF NearestOf
<1>9. /\ Left(was) \in SUBSET DOMAIN was /\ Left(now) \in SUBSET DOMAIN now
      /\ \A i \in DOMAIN was : i \in Left(was) <=> was[i] \in C
      /\ \A i \in DOMAIN now : i \in Left(now) <=> now[i] \in C
  BY <1>7, <1>8
<1> HIDE DEF Left
<1>10. NearestOf(Picked(was, Left(was)), C, d)
  BY ONLY <1>5, <1>7, <1>9, KeptIsNearest
<1>11. NearestOf(Picked(now, Left(now)), C, d)
  BY ONLY <1>6, <1>7, <1>9, KeptIsNearest
<1>12. /\ \A x \in C : d[x] \in Int
       /\ \A x, y \in C : d[x] = d[y] => x = y
  BY <1>5, <1>7
<1> DEFINE a == Picked(was, Left(was))
           b == Picked(now, Left(now))
<1> HIDE DEF a, b
<1>13. NearestOf(a, C, d) /\ NearestOf(b, C, d) /\ Len(a) \in Nat /\ Len(b) \in Nat
  BY <1>10, <1>11 DEF NearestOf, a, b
<1>14. IsPrefix(a, b) \/ IsPrefix(b, a)
  <2>1. Len(a) <= Len(b) => IsPrefix(a, b)
    BY ONLY <1>12, <1>13, NearestAgree
  <2>2. Len(b) <= Len(a) => IsPrefix(b, a)
    BY ONLY <1>12, <1>13, NearestAgree
  <2> QED BY <1>13, <2>1, <2>2
<1> QED BY <1>14 DEF a, b, Left, was, now, changed

\* Adding or removing a node moves nothing but that node and whoever it pushes
\* out: the replicas of every key that stay keep their order, and one of the
\* two lists without the changed node is the beginning of the other (HashRing).
THEOREM MovesOnlyNeighbours == Spec => OnlyNeighboursMove
<1>1. RingInv => ListsAreNearest
  BY ListsInRing
<1>2. ListsAreNearest /\ ListsAreNearest' /\ [Next]_vars =>
         [nodes # {} /\ nodes' # {} =>
             LET changed == (nodes \ nodes') \cup (nodes' \ nodes)
                 kept(list) == Picked(list, {i \in DOMAIN list : list[i] \notin changed})
             IN  \A h \in Position, k \in Sizes :
                    \A was \in {PreferenceList(h, k)}, now \in {PreferenceList(h, k)'} :
                       IsPrefix(kept(was), kept(now)) \/ IsPrefix(kept(now), kept(was))]_vars
  BY MovesAreLocal
<1> QED BY <1>1, <1>2, RingAlways, PTL DEF Spec, OnlyNeighboursMove
=============================================================================
