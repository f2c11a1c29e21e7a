------------------------------ MODULE HashRing ------------------------------
(***************************************************************************)
(* The consistent hash ring of dynamokv/ring.py and the two ways node.py   *)
(* asks it: for the replicas of a key, and for the neighbour that keeps    *)
(* their hints.                                                            *)
(*                                                                         *)
(* The 64-bit hash is a function "hash" from virtual nodes to positions,   *)
(* chosen freely at the start and never changed; a key is its position.    *)
(* Two virtual nodes never share a position: the code takes that for       *)
(* granted (a shared one would have one owner and two list entries).       *)
(***************************************************************************)
EXTENDS Picking, SequencesExt

CONSTANTS NodeId,
          VirtualNodes,    \* points per node
          Positions        \* bound: the hash space is 0..Positions - 1

ASSUME RingAssumption == /\ IsFiniteSet(NodeId)
                         /\ VirtualNodes \in Nat \ {0} /\ Positions \in Nat \ {0}

VARIABLES hash,      \* where each virtual node lies
          nodes,     \* _nodes
          owner,     \* _ring: the node of each point
          sorted     \* _sorted_hashes

vars == <<hash, nodes, owner, sorted>>

Position == 0..(Positions - 1)
Virtual == NodeId \X (0..(VirtualNodes - 1))

Points(n) == {hash[<<n, i>>] : i \in 0..(VirtualNodes - 1)}
RosterPoints(S) == UNION {Points(n) : n \in S}

Init == /\ hash \in [Virtual -> Position]
        /\ \A v, w \in Virtual : hash[v] = hash[w] => v = w
        /\ nodes = {} /\ owner = <<>> /\ sorted = <<>>

\* The points of n in the order of the loops.
PointList(n) == [i \in 1..VirtualNodes |-> hash[<<n, i - 1>>]]

\* Slip: the points go to the end of the list.
Appended(s, new) == s \o new
\* bisect.insort of each point of new into s: of equal ones the earlier first.
NoLater(s, i) == {j \in DOMAIN s : s[j] < s[i] \/ (s[j] = s[i] /\ j <= i)}
Insorted(s, new) ==
    LET all == s \o new
    IN  [r \in DOMAIN all |->
            all[CHOOSE i \in DOMAIN all : Cardinality(NoLater(all, i)) = r]]

AddNode(n) ==
    /\ n \in NodeId \ nodes
    /\ nodes' = nodes \cup {n}
    /\ owner' = [p \in DOMAIN owner \cup Points(n) |->
                    IF p \in Points(n) THEN n ELSE owner[p]]
    /\ sorted' = Insorted(sorted, PointList(n))
    /\ UNCHANGED hash

\* Slip: the loop over the virtual nodes stops one short.
RemoveNodeButOnePoint(n) ==
    /\ n \in nodes
    /\ nodes' = nodes \ {n}
    /\ LET gone == Points(n) \ {hash[<<n, 0>>]}
       IN  /\ owner' = [p \in DOMAIN owner \ gone |-> owner[p]]
           /\ sorted' = Picked(sorted, {i \in DOMAIN sorted : sorted[i] \notin gone})
    /\ UNCHANGED hash
RemoveNode(n) ==
    /\ n \in nodes
    /\ nodes' = nodes \ {n}
    /\ owner' = [p \in DOMAIN owner \ Points(n) |-> owner[p]]
    /\ sorted' = Picked(sorted, {i \in DOMAIN sorted : sorted[i] \notin Points(n)})
    /\ UNCHANGED hash

Next == \E n \in NodeId : AddNode(n) \/ RemoveNode(n)

Spec == Init /\ [][Next]_vars

-----------------------------------------------------------------------------
(* The lookups *)

\* Slip: bisect_right, "rather than the next one".
BisectRight(s, h) == Cardinality({i \in DOMAIN s : s[i] <= h})
Bisect(s, h) == Cardinality({i \in DOMAIN s : s[i] < h})

\* The list index, from 0, of the first point at or after h, around the end.
Start(h) == LET idx == Bisect(sorted, h) IN IF idx = Len(sorted) THEN 0 ELSE idx

GetNode(h) == owner[sorted[Start(h) + 1]]

\* The owners met walking once around the ring.
Walk(h) == LET start == Start(h)
           IN  [i \in 1..Len(sorted) |-> owner[sorted[((start + i - 1) % Len(sorted)) + 1]]]

AtMostNodes(n) == IF n <= Cardinality(nodes) THEN n ELSE Cardinality(nodes)

\* The steps of a walk that meet a node not seen before.
Unseen(w) ==
    Picked([i \in DOMAIN w |-> i], {i \in DOMAIN w : \A j \in 1..(i - 1) : w[j] # w[i]})

\* The loop appends until the target is met, which it tests after it appended:
\* asked for no node at all it returns every node.
PreferenceList(h, n) ==
    LET w == Walk(h)
        met == Unseen(w)
        target == AtMostNodes(n)
    IN  [k \in 1..(IF target = 0 THEN Len(met) ELSE target) |-> w[met[k]]]

\* Slip: the neighbour is the one after the N replicas, taken by its index.
HintHolderByIndex(h, n) ==
    LET prefs == PreferenceList(h, n)
    IN  {PreferenceList(h, n + 1)[i] : i \in {Len(prefs)}}
\* put: next((nid for nid in hint_candidates if nid not in prefs), None); the
\* set is empty for None.
HintHolder(h, n) ==
    LET prefs == PreferenceList(h, n)
        candidates == PreferenceList(h, Len(prefs) + 1)
        others == {i \in DOMAIN candidates : candidates[i] \notin Range(prefs)}
    IN  {candidates[i] : i \in {i \in others : \A j \in others : i <= j}}

-----------------------------------------------------------------------------
(* Properties.  N ranges over what a deployment may ask for.               *)

Sizes == 1..(Cardinality(NodeId) + 1)

\* The ring depends on the roster alone, not on the order nodes were added,
\* removed and added again in: "two separate node processes must agree on where
\* a key lands" (HashRing), and each builds its ring in its own process.
RingIsRoster ==
    /\ DOMAIN owner = RosterPoints(nodes) /\ Range(sorted) = DOMAIN owner
    /\ \A i, j \in DOMAIN sorted : i < j => sorted[i] < sorted[j]
    /\ \A n \in nodes : \A p \in Points(n) : owner[p] = n

\* Clockwise from h, how far the nearest point of n is.
Distance(h, n) ==
    CHOOSE d \in Position :
        /\ \E p \in Points(n) : d = (p - h + Positions) % Positions
        /\ \A p \in Points(n) : d <= (p - h + Positions) % Positions

\* get_preference_list returns the nodes nearest clockwise, nearest first, and
\* as many as asked for or as there are; get_node is its first.
NearestFirst ==
    nodes # {} => \A h \in Position, n \in Sizes :
        LET list == PreferenceList(h, n)
        IN  /\ Len(list) = AtMostNodes(n)
            /\ list[1] = GetNode(h)
            /\ Range(list) \subseteq nodes
            /\ \A i, j \in DOMAIN list : i < j => Distance(h, list[i]) < Distance(h, list[j])
            /\ \A x \in nodes \ Range(list) : \A i \in DOMAIN list :
                  Distance(h, list[i]) < Distance(h, x)

\* The neighbour of put is never one of the replicas, it is the same for every
\* coordinator of the key, and there is none only if every node is a replica.
HolderIsNextNode ==
    nodes # {} => \A h \in Position, n \in Sizes :
        LET prefs == PreferenceList(h, n)
        IN  /\ HintHolder(h, n) \cap Range(prefs) = {}
            /\ HintHolder(h, n) = {} <=> Range(prefs) = nodes
            /\ \A x \in HintHolder(h, n) : prefs \o <<x>> = PreferenceList(h, Len(prefs) + 1)

\* "Adding or removing a node only reassigns the keys between that node's own
\* virtual points and its neighbors" (HashRing): with or without node n, a key
\* has the same replicas in the same order, but for n itself and the one that
\* n's coming pushes out.
OnlyNeighboursMove ==
    [][nodes # {} /\ nodes' # {} =>
          LET changed == (nodes \ nodes') \cup (nodes' \ nodes)
              kept(list) == Picked(list, {i \in DOMAIN list : list[i] \notin changed})
          IN  \A h \in Position, k \in Sizes :
                 \A was \in {PreferenceList(h, k)}, now \in {PreferenceList(h, k)'} :
                    IsPrefix(kept(was), kept(now)) \/ IsPrefix(kept(now), kept(was))]_vars
=============================================================================
