---------------------------- MODULE RoxyMapProofs ----------------------------
(***************************************************************************)
(* First what the loops of the map do to its table, for tables of any      *)
(* capacity: an insertion, a removal and the rebuilding of a full table    *)
(* end, keep the Robin Hood order, and add or take exactly one entry; a    *)
(* search finds a key if and only if it is there.  Then the map as a state *)
(* machine: the invariant it keeps for any keys, values and hashes,        *)
(* whatever the order of the calls, and its implementation of the contract.*)
(***************************************************************************)
EXTENDS RoxyMap, LoopLemmas, SequenceTheorems

-----------------------------------------------------------------------------
(* The ring of the buckets.                                                *)

\* The remainders that are needed are those of numbers below twice the capacity.
LEMMA Wrap ==
    ASSUME NEW C \in Nat \ {0}, NEW x \in Nat, x < 2 * C
    PROVE  x % C = IF x < C THEN x ELSE x - C
<1> DEFINE q == x \div C
           r == x % C
<1>1. x = C * q + r /\ r \in 0 .. C - 1 /\ q \in Nat
    OBVIOUS
<1> HIDE DEF q, r
<1>2. q < 2
    <2> SUFFICES ASSUME q >= 2
                 PROVE  FALSE
        BY <1>1
    <2>1. C * q >= C * 2
        BY <1>1
    <2> QED
        BY <1>1, <2>1
<1>3. q = 0 \/ q = 1
    BY <1>1, <1>2
<1>4. CASE q = 0
    <2>1. x = r
        BY <1>1, <1>4
    <2> QED
        BY <1>1, <2>1 DEF r
<1>5. CASE q = 1
    <2>1. x = C + r
        BY <1>1, <1>5
    <2> QED
        BY <1>1, <2>1 DEF r
<1> QED
    BY <1>3, <1>4, <1>5

Ring(C) == 0 .. C - 1
Succ(C, i) == (i + 1) % C
Prev(C, i) == (i + C - 1) % C
Spot(C, h, d) == (h + d - 1) % C

\* The bucket after, the bucket before, and the one at a distance from home.
LEMMA Neighbours ==
    ASSUME NEW C \in Nat \ {0}
    PROVE  /\ \A i \in Ring(C) : /\ Succ(C, i) = IF i = C - 1 THEN 0 ELSE i + 1
                                 /\ Prev(C, i) = IF i = 0 THEN C - 1 ELSE i - 1
           /\ \A h \in Ring(C), d \in 1 .. C + 1 :
                 Spot(C, h, d) = IF h + d - 1 < C THEN h + d - 1 ELSE h + d - 1 - C
           /\ \A i \in Ring(C), m \in 0 .. C :
                 (i + m) % C = IF i + m < C THEN i + m ELSE i + m - C
<1>1. \A x \in Nat : x < 2 * C => x % C = IF x < C THEN x ELSE x - C
    BY Wrap
<1>2. ASSUME NEW i \in Ring(C)
      PROVE  /\ Succ(C, i) = IF i = C - 1 THEN 0 ELSE i + 1
             /\ Prev(C, i) = IF i = 0 THEN C - 1 ELSE i - 1
    <2> DEFINE x == i + 1
               y == i + C - 1
    <2>1. x \in Nat /\ x < 2 * C /\ y \in Nat /\ y < 2 * C
        BY DEF Ring
    <2>2. Succ(C, i) = x % C /\ Prev(C, i) = y % C
        BY DEF Succ, Prev
    <2> HIDE DEF x, y
    <2>3. /\ x % C = IF x < C THEN x ELSE x - C
          /\ y % C = IF y < C THEN y ELSE y - C
        BY <1>1, <2>1
    <2> QED
        BY <2>2, <2>3 DEF Ring, x, y
<1>3. ASSUME NEW h \in Ring(C), NEW d \in 1 .. C + 1
      PROVE  Spot(C, h, d) = IF h + d - 1 < C THEN h + d - 1 ELSE h + d - 1 - C
    <2> DEFINE x == h + d - 1
    <2>1. x \in Nat /\ x < 2 * C /\ h + d - 1 = x /\ h + d - 1 - C = x - C
        BY DEF Ring
    <2>2. Spot(C, h, d) = x % C
        BY DEF Spot
    <2> HIDE DEF x
    <2>3. x % C = IF x < C THEN x ELSE x - C
        BY <1>1, <2>1
    <2> QED
        BY <2>1, <2>2, <2>3
<1>4. ASSUME NEW i \in Ring(C), NEW m \in 0 .. C
      PROVE  (i + m) % C = IF i + m < C THEN i + m ELSE i + m - C
    <2> DEFINE x == i + m
    <2>1. x \in Nat /\ x < 2 * C /\ i + m = x /\ i + m - C = x - C
        BY DEF Ring
    <2> HIDE DEF x
    <2>2. x % C = IF x < C THEN x ELSE x - C
        BY <1>1, <2>1
    <2> QED
        BY <2>1, <2>2
<1> QED
    BY <1>2, <1>3, <1>4

\* A tour from any bucket comes by all of them.
LEMMA Tour ==
    ASSUME NEW C \in Nat \ {0}, NEW i \in Ring(C), NEW v \in Ring(C)
    PROVE  \E p \in 0 .. C - 1 : (i + p) % C = v
<1> DEFINE p == IF v >= i THEN v - i ELSE v - i + C
<1>1. p \in 0 .. C - 1
    BY DEF Ring
<1>2. (i + p) % C = v
    <2>1. (i + p) % C = IF i + p < C THEN i + p ELSE i + p - C
        <3> HIDE DEF p
        <3>1. p \in 0 .. C
            BY <1>1
        <3> QED
            BY <3>1, Neighbours
    <2> QED
        BY <2>1 DEF Ring
<1> QED
    BY <1>1, <1>2

-----------------------------------------------------------------------------
(* Tables in Robin Hood order.                                             *)

Tables(C) == [Ring(C) -> Bucket]
HomeIn(C, k) == Hash[Content[k]] % C

\* The entry of a bucket is as far from its home as its distance says.
AtHome(C, i, b) ==
    /\ b.key \in Key /\ b.val \in Val
    /\ i = Spot(C, HomeIn(C, b.key), b.dist)

\* A bucket that is not where its search starts follows one that is not much nearer.
Follows(b, a) == b.dist > 1 => a.dist >= b.dist - 1

InOrder(C, t) ==
    /\ t \in Tables(C)
    /\ \A i \in Ring(C) : t[i].dist # 0 => AtHome(C, i, t[i])
    /\ \A i \in Ring(C) : Follows(t[i], t[Prev(C, i)])

\* The capacity of a table is the number of its buckets.
LEMMA TableShape ==
    ASSUME NEW C \in Nat, NEW t, DOMAIN t = Ring(C)
    PROVE  /\ Capacity(t) = C
           /\ IsFiniteSet(Ring(C)) /\ Cardinality(Ring(C)) = C
<1>1. 0 \in Int /\ C - 1 \in Int
    OBVIOUS
<1>2. IsFiniteSet(0 .. C - 1) /\ Cardinality(0 .. C - 1) = IF 0 > C - 1 THEN 0 ELSE C - 1 - 0 + 1
    BY <1>1, FS_Interval
<1> QED
    BY <1>2 DEF Capacity, Ring

\* The home of a key is a bucket.
LEMMA HomeInRing ==
    ASSUME NEW C \in Nat \ {0}, NEW k \in Key
    PROVE  HomeIn(C, k) \in Ring(C)
<1>1. Hash[Content[k]] \in Nat
    BY ContentAssumption, HashAssumption
<1> QED
    BY <1>1 DEF HomeIn, Ring

\* The buckets at the other side of one are where one expects them.
LEMMA Around ==
    ASSUME NEW C \in Nat \ {0}, NEW i \in Ring(C)
    PROVE  /\ Succ(C, i) \in Ring(C) /\ Prev(C, i) \in Ring(C)
           /\ Prev(C, Succ(C, i)) = i /\ Succ(C, Prev(C, i)) = i
           /\ \A j \in Ring(C) : Prev(C, j) = i => j = Succ(C, i)
           /\ C > 1 => Succ(C, i) # i /\ Prev(C, i) # i
<1>1. /\ \A j \in Ring(C) : /\ Succ(C, j) = IF j = C - 1 THEN 0 ELSE j + 1
                            /\ Prev(C, j) = IF j = 0 THEN C - 1 ELSE j - 1
    BY Neighbours
<1>2. Succ(C, i) \in Ring(C) /\ Prev(C, i) \in Ring(C)
    BY <1>1 DEF Ring
<1>3. /\ Prev(C, Succ(C, i)) = IF Succ(C, i) = 0 THEN C - 1 ELSE Succ(C, i) - 1
      /\ Succ(C, Prev(C, i)) = IF Prev(C, i) = C - 1 THEN 0 ELSE Prev(C, i) + 1
    BY <1>1, <1>2
<1>4. /\ Succ(C, i) = IF i = C - 1 THEN 0 ELSE i + 1
      /\ Prev(C, i) = IF i = 0 THEN C - 1 ELSE i - 1
    BY <1>1
<1>5. ASSUME NEW j \in Ring(C), Prev(C, j) = i
      PROVE  j = Succ(C, i)
    <2>1. Prev(C, j) = IF j = 0 THEN C - 1 ELSE j - 1
        BY <1>1
    <2> QED
        BY <1>4, <1>5, <2>1 DEF Ring
<1>6. Prev(C, Succ(C, i)) = i /\ Succ(C, Prev(C, i)) = i
    BY <1>3, <1>4 DEF Ring
<1>7. C > 1 => Succ(C, i) # i /\ Prev(C, i) # i
    BY <1>4 DEF Ring
<1> QED
    BY <1>2, <1>5, <1>6, <1>7

\* One step on, the distance is one more; one step back, one less.
LEMMA OneStep ==
    ASSUME NEW C \in Nat \ {0}, NEW h \in Ring(C), NEW d \in 1 .. C
    PROVE  /\ Spot(C, h, d) \in Ring(C) /\ Spot(C, h, 1) = h
           /\ Spot(C, h, d + 1) = Succ(C, Spot(C, h, d))
           /\ Prev(C, Spot(C, h, d + 1)) = Spot(C, h, d)
<1> DEFINE i == Spot(C, h, d)
<1>1. /\ i = IF h + d - 1 < C THEN h + d - 1 ELSE h + d - 1 - C
      /\ Spot(C, h, d + 1) = IF h + d < C THEN h + d ELSE h + d - C
      /\ Spot(C, h, 1) = h
    <2>1. \A e \in 1 .. C + 1 : Spot(C, h, e) = IF h + e - 1 < C THEN h + e - 1 ELSE h + e - 1 - C
        BY Neighbours
    <2>2. d \in 1 .. C + 1 /\ d + 1 \in 1 .. C + 1 /\ 1 \in 1 .. C + 1
        OBVIOUS
    <2>3. /\ i = IF h + d - 1 < C THEN h + d - 1 ELSE h + d - 1 - C
          /\ Spot(C, h, d + 1) = IF h + (d + 1) - 1 < C THEN h + (d + 1) - 1 ELSE h + (d + 1) - 1 - C
          /\ Spot(C, h, 1) = IF h + 1 - 1 < C THEN h + 1 - 1 ELSE h + 1 - 1 - C
        BY <2>1, <2>2
    <2> HIDE DEF i
    <2> QED
        BY <2>3 DEF Ring
<1> HIDE DEF i
<1>2. i \in Ring(C)
    BY <1>1 DEF Ring
<1>3. Succ(C, i) = IF i = C - 1 THEN 0 ELSE i + 1
    BY <1>2, Neighbours
<1>4. Spot(C, h, d + 1) = Succ(C, i)
    BY <1>1, <1>3 DEF Ring
<1> QED
    BY <1>1, <1>2, <1>4, Around DEF i

\* With an empty bucket somewhere, no bucket is farther from home than from it.
LEMMA NoneFarther ==
    ASSUME NEW C \in Nat \ {0}, NEW t, InOrder(C, t), NEW v \in Ring(C), t[v].dist = 0,
           NEW i \in Ring(C)
    PROVE  t[i].dist <= C - 1
<1> DEFINE at(p) == (v + p) % C
           S == {p \in Nat : p <= C - 1 => at(p) \in Ring(C) /\ t[at(p)].dist <= p}
<1>1. \A p \in 0 .. C : at(p) = IF v + p < C THEN v + p ELSE v + p - C
    BY Neighbours
<1>2. at(0) = v
    BY <1>1 DEF Ring
<1>3. 0 \in S
    BY <1>2
<1>4. ASSUME NEW p \in Nat, p \in S
      PROVE  p + 1 \in S
    <2> SUFFICES ASSUME p + 1 <= C - 1
                 PROVE  at(p + 1) \in Ring(C) /\ t[at(p + 1)].dist <= p + 1
        OBVIOUS
    <2>1. at(p) \in Ring(C) /\ t[at(p)].dist <= p
        BY <1>4
    <2>2. /\ at(p) = IF v + p < C THEN v + p ELSE v + p - C
          /\ at(p + 1) = IF v + (p + 1) < C THEN v + (p + 1) ELSE v + (p + 1) - C
        BY <1>1
    <2> HIDE DEF at
    <2>3. at(p + 1) \in Ring(C)
        BY <2>2 DEF Ring
    <2>4. Prev(C, at(p + 1)) = at(p)
        <3>1. Prev(C, at(p + 1)) = IF at(p + 1) = 0 THEN C - 1 ELSE at(p + 1) - 1
            BY <2>3, Neighbours
        <3> QED
            BY <2>2, <3>1 DEF Ring
    <2>5. t[at(p)].dist \in Nat /\ t[at(p + 1)].dist \in Nat
        BY <2>1, <2>3 DEF InOrder, Tables, Bucket
    <2>6. Follows(t[at(p + 1)], t[at(p)])
        BY <2>3, <2>4 DEF InOrder
    <2> QED
        BY <2>1, <2>3, <2>5, <2>6 DEF Follows
<1>5. Nat \subseteq S
    <2> HIDE DEF S
    <2> QED
        BY <1>3, <1>4, Induction
<1>6. PICK p \in 0 .. C - 1 : at(p) = i
    BY Tour
<1>7. t[i].dist <= p
    BY <1>5, <1>6
<1>8. t[i].dist \in Nat
    BY DEF InOrder, Tables, Bucket
<1> QED
    BY <1>7, <1>8

-----------------------------------------------------------------------------
(* How many entries have a key and a value of a given set of pairs.        *)

Pair(b) == <<b.key, b.val>>
Own(b, P) == IF b.dist # 0 /\ Pair(b) \in P THEN 1 ELSE 0
Having(t, P) == {i \in Occupied(t) : Pair(t[i]) \in P}
Count(t, P) == Cardinality(Having(t, P))

\* What is counted in a table is finite.
LEMMA HavingIsFinite ==
    ASSUME NEW C \in Nat, NEW t \in Tables(C), NEW P
    PROVE  /\ IsFiniteSet(Occupied(t)) /\ Cardinality(Occupied(t)) \in Nat
           /\ IsFiniteSet(Having(t, P)) /\ Count(t, P) \in Nat
<1>1. DOMAIN t = Ring(C) /\ IsFiniteSet(Ring(C))
    BY TableShape DEF Tables
<1>2. Occupied(t) \in SUBSET Ring(C) /\ Having(t, P) \in SUBSET Ring(C)
    BY <1>1 DEF Occupied, Having
<1>3. IsFiniteSet(Occupied(t)) /\ IsFiniteSet(Having(t, P))
    BY <1>1, <1>2, FS_Subset
<1> QED
    BY <1>3, FS_CardinalityType DEF Count

\* The bucket that is stored takes away what was there.
LEMMA CountStored ==
    ASSUME NEW C \in Nat, NEW t \in Tables(C), NEW u \in Tables(C), NEW i \in Ring(C),
           \A j \in Ring(C) : j # i => u[j] = t[j], NEW P
    PROVE  /\ Count(u, P) = Count(t, P) - Own(t[i], P) + Own(u[i], P)
           /\ Occupied(u) = IF u[i].dist # 0 THEN Occupied(t) \cup {i} ELSE Occupied(t) \ {i}
<1> DEFINE b == u[i]
           rest == Having(t, P) \ {i}
<1>1. u \in Tables(C) /\ u[i] = b /\ \A j \in Ring(C) : j # i => u[j] = t[j]
    OBVIOUS
<1>2. DOMAIN t = Ring(C) /\ DOMAIN u = Ring(C)
    BY DEF Tables
<1> HIDE DEF b
<1>3. Occupied(u) = IF b.dist # 0 THEN Occupied(t) \cup {i} ELSE Occupied(t) \ {i}
    BY <1>1, <1>2 DEF Occupied
<1>4. Having(u, P) = IF Own(b, P) = 1 THEN rest \cup {i} ELSE rest
    BY <1>1, <1>2 DEF Having, Occupied, Own
<1>5. i \in Having(t, P) <=> Own(t[i], P) = 1
    BY <1>2 DEF Having, Occupied, Own
<1>6. IsFiniteSet(Having(t, P))
    BY HavingIsFinite
<1>7. IsFiniteSet(rest) /\ Cardinality(rest) = Count(t, P) - Own(t[i], P)
    <2>1. /\ IsFiniteSet(rest)
          /\ Cardinality(rest) = IF i \in Having(t, P) THEN Count(t, P) - 1 ELSE Count(t, P)
        BY <1>6, FS_RemoveElement DEF Count
    <2>2. Count(t, P) \in Nat
        BY HavingIsFinite
    <2> QED
        BY <1>5, <2>1, <2>2 DEF Own
<1>8. Cardinality(rest \cup {i}) = Cardinality(rest) + 1
    BY <1>7, FS_AddElement
<1>9. Count(u, P) = Cardinality(rest) + Own(b, P)
    <2>1. Cardinality(rest) \in Nat
        BY <1>7, FS_CardinalityType
    <2> HIDE DEF rest
    <2>2. CASE Own(b, P) = 1
        BY <1>4, <1>8, <2>2 DEF Count
    <2>3. CASE Own(b, P) # 1
        <3>1. Own(b, P) = 0
            BY <2>3 DEF Own
        <3> QED
            BY <1>4, <2>1, <2>3, <3>1 DEF Count
    <2> QED
        BY <2>2, <2>3
<1> QED
    BY <1>1, <1>3, <1>7, <1>9

\* Nothing counted means nothing there.
LEMMA CountZero ==
    ASSUME NEW C \in Nat, NEW t \in Tables(C), NEW P
    PROVE  /\ Count(t, P) = 0 <=> \A i \in Occupied(t) : Pair(t[i]) \notin P
           /\ Count(t, P) <= 1 <=> \A i, j \in Having(t, P) : i = j
<1>1. IsFiniteSet(Having(t, P)) /\ Count(t, P) \in Nat
    BY HavingIsFinite
<1>2. Count(t, P) = 0 <=> Having(t, P) = {}
    BY <1>1, FS_EmptySet DEF Count
<1>3. Count(t, P) = 1 <=> \E i : Having(t, P) = {i}
    BY <1>1, FS_Singleton DEF Count
<1>4. Count(t, P) <= 1 <=> Count(t, P) = 0 \/ Count(t, P) = 1
    BY <1>1
<1>5. (\A i, j \in Having(t, P) : i = j) <=> Having(t, P) = {} \/ \E i : Having(t, P) = {i}
    OBVIOUS
<1>6. Having(t, P) = {} <=> \A i \in Occupied(t) : Pair(t[i]) \notin P
    BY DEF Having
<1> QED
    BY <1>2, <1>3, <1>4, <1>5, <1>6

-----------------------------------------------------------------------------
(* One bucket is changed.                                                  *)

\* A bucket of a table has a distance that a byte can hold.
LEMMA BucketTypes ==
    ASSUME NEW C \in Nat, NEW t \in Tables(C), NEW i \in Ring(C)
    PROVE  t[i] \in Bucket /\ t[i].dist \in 0 .. DistanceValues - 1
BY DEF Tables, Bucket

\* A table stays in order when what is stored fits the buckets at its two sides.
LEMMA StoredInOrder ==
    ASSUME NEW C \in Nat \ {0, 1}, NEW t, InOrder(C, t), NEW i \in Ring(C), NEW b \in Bucket,
           b.dist # 0 => AtHome(C, i, b),
           Follows(b, t[Prev(C, i)]), Follows(t[Succ(C, i)], b)
    PROVE  InOrder(C, [t EXCEPT ![i] = b])
<1> DEFINE u == [t EXCEPT ![i] = b]
<1>1. u \in Tables(C) /\ u[i] = b /\ \A j \in Ring(C) : j # i => u[j] = t[j]
    BY DEF Tables, InOrder
<1> HIDE DEF u
<1>2. \A j \in Ring(C) : u[j].dist # 0 => AtHome(C, j, u[j])
    BY <1>1 DEF InOrder
<1>3. ASSUME NEW j \in Ring(C)
      PROVE  Follows(u[j], u[Prev(C, j)])
    <2>1. Prev(C, j) \in Ring(C) /\ Prev(C, i) # i /\ Succ(C, i) # i
          /\ (Prev(C, j) = i => j = Succ(C, i))
        BY Around
    <2>2. CASE j = i
        BY <1>1, <2>1, <2>2
    <2>3. CASE Prev(C, j) = i
        BY <1>1, <2>1, <2>3
    <2>4. CASE j # i /\ Prev(C, j) # i
        BY <1>1, <2>1, <2>4 DEF InOrder
    <2> QED
        BY <2>2, <2>3, <2>4
<1> QED
    BY <1>1, <1>2, <1>3 DEF InOrder, u

-----------------------------------------------------------------------------
(* The loop of map_insert_internal.                                        *)

Placings(C) == [table : Tables(C), at : Ring(C), entry : Bucket, placed : BOOLEAN]

\* One step from its home, an entry has the same key and value, and one more distance if a
\* byte can hold it.
LEMMA FartherBucket ==
    ASSUME NEW e \in Bucket
    PROVE  /\ Farther(e) \in Bucket
           /\ Farther(e).key = e.key /\ Farther(e).val = e.val
           /\ e.dist + 1 < DistanceValues => Farther(e).dist = e.dist + 1
<1> DEFINE d == (e.dist + 1) % DistanceValues
<1>1. e.dist \in 0 .. DistanceValues - 1
    BY DEF Bucket
<1>2. d \in 0 .. DistanceValues - 1
    BY <1>1, DistanceAssumption
<1>3. e.dist + 1 < DistanceValues => d = e.dist + 1
    <2> DEFINE x == e.dist + 1
    <2>1. x \in Nat
        BY <1>1
    <2> HIDE DEF x
    <2>2. x < DistanceValues => x % DistanceValues = x
        <3> SUFFICES ASSUME x < DistanceValues
                     PROVE  x % DistanceValues = x
            OBVIOUS
        <3>1. x < 2 * DistanceValues
            BY <2>1, DistanceAssumption
        <3> QED
            BY <2>1, <3>1, DistanceAssumption, Wrap
    <2> QED
        BY <2>2 DEF x
<1>4. Farther(e) = [e EXCEPT !.dist = d]
    BY DEF Farther
<1> HIDE DEF d
<1> QED
    BY <1>2, <1>3, <1>4 DEF Bucket

\* A round of the insertion loop leaves a table, a bucket and an entry.
LEMMA PlaceRoundType ==
    ASSUME NEW C \in Nat \ {0}, NEW s \in Placings(C)
    PROVE  PlaceRound(s) \in Placings(C)
<1> DEFINE here == s.table[s.at]
<1>1. /\ s.table \in Tables(C) /\ s.at \in Ring(C) /\ s.entry \in Bucket /\ s.placed \in BOOLEAN
      /\ here \in Bucket
    BY DEF Placings, Tables
<1>2. After(s.table, s.at) = Succ(C, s.at)
    BY <1>1, TableShape DEF After, Succ, Tables
<1>3. Succ(C, s.at) \in Ring(C)
    BY <1>1, Around
<1>4. Farther(here) \in Bucket /\ Farther(s.entry) \in Bucket
    BY <1>1, FartherBucket
<1>5. [s.table EXCEPT ![s.at] = s.entry] \in Tables(C)
    BY <1>1 DEF Tables
<1> HIDE DEF here
<1>6. CASE s.placed
    BY <1>6 DEF PlaceRound
<1>7. CASE ~s.placed /\ here.dist = 0
    <2>1. PlaceRound(s) = [s EXCEPT !.table = [s.table EXCEPT ![s.at] = s.entry], !.placed = TRUE]
        BY <1>7 DEF PlaceRound, here
    <2> QED
        BY <1>1, <1>5, <2>1 DEF Placings
<1>8. CASE ~s.placed /\ here.dist # 0
    <2> DEFINE poorer == here.dist < s.entry.dist
               t == IF poorer THEN [s.table EXCEPT ![s.at] = s.entry] ELSE s.table
               e == Farther(IF poorer THEN here ELSE s.entry)
    <2>1. PlaceRound(s) = [table |-> t, at |-> After(s.table, s.at), entry |-> e, placed |-> FALSE]
        BY <1>8 DEF PlaceRound, here
    <2>2. t \in Tables(C) /\ e \in Bucket
        BY <1>1, <1>4, <1>5
    <2> HIDE DEF t, e
    <2> QED
        BY <1>2, <1>3, <2>1, <2>2 DEF Placings
<1> QED
    BY <1>6, <1>7, <1>8

\* The insertion loop is its first state and a round at a time.
LEMMA PlacingRounds ==
    ASSUME NEW C \in Nat \ {0}, NEW t \in Tables(C), NEW i \in Ring(C), NEW e \in Bucket
    PROVE  LET after == Placing(t, i, e)
           IN  /\ after[0] = [table |-> t, at |-> i, entry |-> e, placed |-> FALSE]
               /\ \A n \in Nat : after[n] \in Placings(C) /\ after[n + 1] = PlaceRound(after[n])
<1> DEFINE S == Placings(C)
           x == [table |-> t, at |-> i, entry |-> e, placed |-> FALSE]
           h == [s \in S |-> PlaceRound(s)]
           Is(f) == f = [n \in Nat |-> IF n = 0 THEN x ELSE PlaceRound(f[n - 1])]
           after == Placing(t, i, e)
<1>1. h \in [S -> S] /\ x \in S
    <2>1. \A s \in S : PlaceRound(s) \in S
        BY PlaceRoundType
    <2> QED
        BY <2>1 DEF Placings
<1>2. after = CHOOSE f : Is(f)
    BY DEF Placing
<1> HIDE DEF x, S
<1>3. PICK g \in [Nat -> S] : g[0] = x /\ \A n \in Nat : g[n + 1] = h[g[n]]
    <2> HIDE DEF h
    <2>1. \E g \in [Nat -> S] : Repeats(g, h, x)
        BY <1>1, Recursion
    <2> QED
        BY <2>1 DEF Repeats
<1>4. Is(g)
    <2>1. ASSUME NEW n \in Nat
          PROVE  g[n] = IF n = 0 THEN x ELSE PlaceRound(g[n - 1])
        <3>1. n # 0 => n - 1 \in Nat /\ (n - 1) + 1 = n
            OBVIOUS
        <3> QED
            BY <1>3, <3>1
    <2> QED
        BY <1>3, <2>1
<1>5. Is(after)
    <2> HIDE DEF Is, after
    <2> QED
        BY <1>2, <1>4
<1> HIDE DEF after
<1>6. \A n \in Nat : after[n] = IF n = 0 THEN x ELSE PlaceRound(after[n - 1])
    BY <1>5
<1>7. ASSUME NEW n \in Nat
      PROVE  after[n + 1] = PlaceRound(after[n])
    <2>1. n + 1 \in Nat /\ n + 1 # 0 /\ (n + 1) - 1 = n
        OBVIOUS
    <2> QED
        BY <1>6, <2>1
<1>8. \A n \in Nat : after[n] \in S
    <2> DEFINE R == {n \in Nat : after[n] \in S}
    <2>1. 0 \in R /\ \A n \in Nat : n \in R => n + 1 \in R
        BY <1>1, <1>6, <1>7
    <2>2. Nat \subseteq R
        <3> HIDE DEF R
        <3> QED
            BY <2>1, Induction
    <2> QED
        BY <2>2
<1> QED
    BY <1>6, <1>7, <1>8 DEF after, x, S

\* What is carried belongs `at` the bucket the loop has come to.
Carrying(C, s) ==
    /\ s.entry.dist \in 1 .. C
    /\ AtHome(C, s.at, s.entry)
    /\ Follows(s.entry, s.table[Prev(C, s.at)])

Carried(s, P) == IF s.placed THEN 0 ELSE Own(s.entry, P)

\* assert(dist < 255), in every round of the loop of map_insert_internal.
AssertionHolds(t, i, e) ==
    \A n \in 1 .. Capacity(t) :
        LET s == Placing(t, i, e)[n]
        IN  ~s.placed => s.entry.dist < DistanceValues - 1

\* No distance wraps: there are more of them than buckets, or the assertion sees to it.
DistancesFit(t, i, e) == Capacity(t) < DistanceValues \/ AssertionHolds(t, i, e)

\* One round: the table stays in order, and nothing is lost of it or of what is carried.
LEMMA PlaceRoundKeeps ==
    ASSUME NEW C \in Nat \ {0, 1}, NEW s \in Placings(C), ~s.placed,
           InOrder(C, s.table), Carrying(C, s),
           C < DistanceValues \/ s.entry.dist < DistanceValues - 1,
           NEW v \in Ring(C), s.table[v].dist = 0, NEW P
    PROVE  LET r == PlaceRound(s)
           IN  /\ InOrder(C, r.table)
               /\ Count(r.table, P) + Carried(r, P) = Count(s.table, P) + Own(s.entry, P)
               /\ r.placed <=> s.table[s.at].dist = 0
               /\ r.placed => Occupied(r.table) = Occupied(s.table) \cup {s.at}
               /\ ~r.placed => /\ Occupied(r.table) = Occupied(s.table)
                               /\ r.at = Succ(C, s.at)
                               /\ Carrying(C, r)
<1> DEFINE t == s.table
           i == s.at
           e == s.entry
           here == t[i]
           next == Succ(C, i)
           stored == [t EXCEPT ![i] = e]
           r == PlaceRound(s)
<1>1. /\ t \in Tables(C) /\ i \in Ring(C) /\ e \in Bucket /\ here \in Bucket
      /\ InOrder(C, t) /\ e.dist \in 1 .. C /\ AtHome(C, i, e) /\ Follows(e, t[Prev(C, i)])
    BY DEF Placings, Tables, Carrying
<1>2. After(t, i) = next /\ next \in Ring(C) /\ Prev(C, next) = i /\ next # i
    <2>1. After(t, i) = next
        BY <1>1, TableShape DEF After, Succ, Tables
    <2>2. C \in Nat \ {0} /\ C > 1
        OBVIOUS
    <2> HIDE DEF next
    <2>3. next = Succ(C, i)
        BY DEF next
    <2> QED
        BY ONLY <1>1, <2>1, <2>2, <2>3, Around
<1>3. /\ here.dist \in 0 .. DistanceValues - 1 /\ here.dist <= C - 1
      /\ t[next].dist \in 0 .. DistanceValues - 1
      /\ Follows(t[next], here)
    <2>1. here.dist <= C - 1
        BY <1>1, NoneFarther
    <2>2. Follows(t[next], t[Prev(C, next)])
        BY <1>1, <1>2 DEF InOrder
    <2> QED
        BY <1>1, <1>2, <2>1, <2>2, BucketTypes
<1>4. /\ Count(t, P) \in Nat /\ Own(e, P) \in {0, 1} /\ Own(here, P) \in {0, 1}
      /\ stored \in Tables(C)
      /\ Count(stored, P) = Count(t, P) - Own(here, P) + Own(e, P)
      /\ Occupied(stored) = Occupied(t) \cup {i}
    <2>1. Count(t, P) \in Nat
        BY <1>1, HavingIsFinite
    <2>2. Own(e, P) \in {0, 1} /\ Own(here, P) \in {0, 1}
        BY DEF Own
    <2>3. e.dist # 0
        BY <1>1
    <2>4. stored \in Tables(C) /\ stored[i] = e /\ \A j \in Ring(C) : j # i => stored[j] = t[j]
        BY <1>1 DEF Tables
    <2> HIDE DEF e, i, t, stored
    <2>5. /\ Count(stored, P) = Count(t, P) - Own(here, P) + Own(e, P)
          /\ Occupied(stored) = IF e.dist # 0 THEN Occupied(t) \cup {i} ELSE Occupied(t) \ {i}
        BY <1>1, <2>4, CountStored
    <2> QED
        BY <2>1, <2>2, <2>3, <2>4, <2>5
<1>5. ASSUME NEW b \in Bucket, b.dist # 0, b.dist + 1 < DistanceValues,
             AtHome(C, i, b), b.dist \in 1 .. C - 1
      PROVE  /\ Farther(b).dist \in 1 .. C /\ Farther(b).dist = b.dist + 1
             /\ AtHome(C, next, Farther(b)) /\ Own(Farther(b), P) = Own(b, P)
    <2>1. /\ Farther(b).key = b.key /\ Farther(b).val = b.val
          /\ Farther(b).dist = b.dist + 1
        BY <1>5, FartherBucket
    <2>2. b.key \in Key /\ b.val \in Val /\ i = Spot(C, HomeIn(C, b.key), b.dist)
        BY <1>5 DEF AtHome
    <2>3. Spot(C, HomeIn(C, b.key), b.dist + 1) = next
        <3>1. HomeIn(C, b.key) \in Ring(C)
            BY <2>2, HomeInRing
        <3> QED
            BY <1>5, <2>2, <3>1, OneStep
    <2>4. AtHome(C, next, Farther(b))
        BY <2>1, <2>2, <2>3 DEF AtHome
    <2>5. Own(Farther(b), P) = Own(b, P)
        BY <1>5, <2>1 DEF Own, Pair
    <2> QED
        BY <1>5, <2>1, <2>4, <2>5
<1>6. CASE here.dist = 0
    <2>1. r = [s EXCEPT !.table = stored, !.placed = TRUE]
        BY <1>6 DEF PlaceRound
    <2>2. r.table = stored /\ r.placed
        BY <2>1 DEF Placings
    <2>3. InOrder(C, stored)
        <3>1. Follows(t[next], e)
            BY <1>3, <1>6 DEF Follows
        <3> HIDE DEF t, i, e, here
        <3> QED
            BY <1>1, <3>1, StoredInOrder DEF here
    <2>4. Own(here, P) = 0
        BY <1>6 DEF Own
    <2> HIDE DEF r, stored
    <2>5. Count(r.table, P) + Carried(r, P) = Count(t, P) + Own(e, P)
        BY <1>4, <2>2, <2>4 DEF Carried
    <2> QED
        BY <1>4, <1>6, <2>2, <2>3, <2>5 DEF r
<1>7. CASE here.dist # 0 /\ here.dist < e.dist
    <2>1. r = [table |-> stored, at |-> next, entry |-> Farther(here), placed |-> FALSE]
        BY <1>2, <1>7 DEF PlaceRound
    <2>2. r.table = stored /\ ~r.placed /\ r.at = next /\ r.entry = Farther(here)
        BY <2>1
    <2>3. i \in Occupied(t)
        BY <1>1, <1>7 DEF Occupied, Tables
    <2>4. AtHome(C, i, here)
        BY <1>1, <1>7 DEF InOrder
    <2>5. /\ Farther(here).dist \in 1 .. C /\ Farther(here).dist = here.dist + 1
          /\ AtHome(C, next, Farther(here)) /\ Own(Farther(here), P) = Own(here, P)
        <3>1. here.dist \in 1 .. C - 1 /\ here.dist + 1 < DistanceValues
            BY <1>1, <1>3, <1>7, DistanceAssumption
        <3> HIDE DEF here
        <3> QED
            BY <1>1, <1>5, <1>7, <2>4, <3>1
    <2>6. InOrder(C, stored)
        <3>1. Follows(t[next], e)
            BY <1>1, <1>3, <1>7 DEF Follows
        <3> HIDE DEF t, i, e, here
        <3> QED
            BY <1>1, <3>1, StoredInOrder DEF here
    <2>7. stored[i] = e
        BY <1>1 DEF Tables
    <2>8. Follows(Farther(here), stored[i])
        BY <1>1, <1>3, <1>7, <2>5, <2>7 DEF Follows
    <2> HIDE DEF r, stored, next
    <2>9. Carrying(C, r)
        BY <1>2, <2>2, <2>5, <2>8 DEF Carrying
    <2>10. Count(r.table, P) + Carried(r, P) = Count(t, P) + Own(e, P)
        BY <1>4, <2>2, <2>5 DEF Carried
    <2>11. Occupied(r.table) = Occupied(t)
        BY <1>4, <2>2, <2>3
    <2> QED
        BY <1>7, <2>2, <2>6, <2>9, <2>10, <2>11 DEF r, next
<1>8. CASE here.dist # 0 /\ ~(here.dist < e.dist)
    <2>1. r = [table |-> t, at |-> next, entry |-> Farther(e), placed |-> FALSE]
        BY <1>2, <1>8 DEF PlaceRound
    <2>2. r.table = t /\ ~r.placed /\ r.at = next /\ r.entry = Farther(e)
        BY <2>1
    <2>3. e.dist <= here.dist
        BY <1>1, <1>3, <1>8
    <2>4. /\ Farther(e).dist \in 1 .. C /\ Farther(e).dist = e.dist + 1
          /\ AtHome(C, next, Farther(e)) /\ Own(Farther(e), P) = Own(e, P)
        <3>1. e.dist \in 1 .. C - 1 /\ e.dist + 1 < DistanceValues /\ e.dist # 0
            BY <1>1, <1>3, <2>3, DistanceAssumption
        <3> HIDE DEF e
        <3> QED
            BY <1>1, <1>5, <3>1
    <2>5. Follows(Farther(e), here)
        BY <1>1, <1>3, <2>3, <2>4 DEF Follows
    <2> HIDE DEF r, next
    <2>6. Carrying(C, r)
        BY <1>2, <2>2, <2>4, <2>5 DEF Carrying
    <2>7. Count(r.table, P) + Carried(r, P) = Count(t, P) + Own(e, P)
        BY <1>4, <2>2, <2>4 DEF Carried
    <2> QED
        BY <1>1, <1>8, <2>2, <2>6, <2>7 DEF r, next
<1> QED
    BY <1>6, <1>7, <1>8

\* The buckets a loop comes by, one after the other.
LEMMA Onward ==
    ASSUME NEW C \in Nat \ {0}, NEW i \in Ring(C), NEW m \in 0 .. C - 1
    PROVE  /\ (i + 0) % C = i
           /\ (i + m) % C \in Ring(C) /\ (i + (m + 1)) % C = Succ(C, (i + m) % C)
<1> DEFINE at(n) == (i + n) % C
<1>1. \A n \in 0 .. C : at(n) = IF i + n < C THEN i + n ELSE i + n - C
    BY Neighbours
<1> HIDE DEF at
<1>2. /\ at(0) = IF i < C THEN i ELSE i - C
      /\ at(m) = IF i + m < C THEN i + m ELSE i + m - C
      /\ at(m + 1) = IF i + (m + 1) < C THEN i + (m + 1) ELSE i + (m + 1) - C
    BY <1>1 DEF Ring
<1>3. at(m) \in Ring(C) /\ at(0) = i
    BY <1>2 DEF Ring
<1>4. Succ(C, at(m)) = IF at(m) = C - 1 THEN 0 ELSE at(m) + 1
    BY <1>3, Neighbours
<1>5. at(m + 1) = Succ(C, at(m))
    BY <1>2, <1>4 DEF Ring
<1> QED
    BY <1>3, <1>5 DEF at

\* Every key and value is counted with the whole of them.
LEMMA CountAll ==
    ASSUME NEW C \in Nat, NEW t, InOrder(C, t)
    PROVE  /\ Count(t, Key \X Val) = Cardinality(Occupied(t))
           /\ \A b : b.key \in Key /\ b.val \in Val /\ b.dist # 0 => Own(b, Key \X Val) = 1
<1>1. Having(t, Key \X Val) = Occupied(t)
    BY DEF Having, Occupied, InOrder, Tables, AtHome, Pair
<1> QED
    BY <1>1 DEF Count, Own, Pair

\* The loop ends, at an empty bucket, with one entry more and all in order.
LEMMA PlaceKeeps ==
    ASSUME NEW C \in Nat \ {0, 1}, NEW t, InOrder(C, t),
           NEW v \in Ring(C), t[v].dist = 0,
           NEW i \in Ring(C), NEW e \in Bucket, e.dist = 1, AtHome(C, i, e),
           DistancesFit(t, i, e), NEW P
    PROVE  /\ InOrder(C, Place(t, i, e))
           /\ Count(Place(t, i, e), P) = Count(t, P) + Own(e, P)
<1> DEFINE after == Placing(t, i, e)
           Kept(m, s) ==
                /\ InOrder(C, s.table)
                /\ Count(s.table, P) + Carried(s, P) = Count(t, P) + Own(e, P)
                /\ ~s.placed => /\ Occupied(s.table) = Occupied(t)
                                /\ s.at = (i + m) % C
                                /\ Carrying(C, s)
                                /\ \A p \in 0 .. m - 1 : (i + p) % C \in Occupied(t)
           R == {m \in Nat : m <= C => Kept(m, after[m])}
<1>1. t \in Tables(C) /\ C \in Nat \ {0} /\ Capacity(t) = C
    BY TableShape DEF InOrder, Tables
<1>2. /\ after[0] = [table |-> t, at |-> i, entry |-> e, placed |-> FALSE]
      /\ \A n \in Nat : after[n] \in Placings(C) /\ after[n + 1] = PlaceRound(after[n])
    <2> HIDE DEF after
    <2>1. t \in Tables(C) /\ C \in Nat \ {0}
        BY <1>1
    <2>2. /\ Placing(t, i, e)[0] = [table |-> t, at |-> i, entry |-> e, placed |-> FALSE]
          /\ \A n \in Nat : /\ Placing(t, i, e)[n] \in Placings(C)
                            /\ Placing(t, i, e)[n + 1] = PlaceRound(Placing(t, i, e)[n])
        BY ONLY <2>1, i \in Ring(C), e \in Bucket, PlacingRounds, Zenon
    <2> QED
        BY ONLY <2>2 DEF after
<1> HIDE DEF after
<1>3. 0 \in R
    <2>1. Carrying(C, after[0])
        <3>1. 1 \in 1 .. C
            OBVIOUS
        <3> QED
            BY <1>2, <3>1 DEF Carrying, Follows
    <2>2. (i + 0) % C = i
        <3>1. 0 \in 0 .. C - 1
            OBVIOUS
        <3> QED
            BY <1>1, <3>1, Onward
    <2>3. Count(after[0].table, P) + Carried(after[0], P) = Count(t, P) + Own(e, P)
        BY <1>2 DEF Carried
    <2>4. Kept(0, after[0])
        BY <1>2, <2>1, <2>2, <2>3
    <2> QED
        BY <2>4
<1>4. ASSUME NEW m \in Nat, m \in R
      PROVE  m + 1 \in R
    <2> SUFFICES ASSUME m + 1 <= C
                 PROVE  Kept(m + 1, after[m + 1])
        OBVIOUS
    <2> DEFINE s == after[m]
               r == after[m + 1]
    <2>1. s \in Placings(C) /\ r = PlaceRound(s) /\ Kept(m, s)
        BY <1>2, <1>4
    <2> HIDE DEF s, r, R
    <2>2. CASE s.placed
        <3>1. r = s
            BY <2>1, <2>2 DEF PlaceRound
        <3> QED
            BY <2>1, <2>2, <3>1 DEF s, r
    <2>3. CASE ~s.placed
        <3>1. s.table \in Tables(C) /\ s.at \in Ring(C)
            BY <2>1 DEF Placings
        <3>2. s.table[v].dist = 0
            BY <1>1, <2>1, <2>3, <3>1 DEF Occupied, Tables
        <3> HIDE DEF Kept
        <3>3. /\ InOrder(C, s.table) /\ Carrying(C, s)
              /\ Occupied(s.table) = Occupied(t) /\ s.at = (i + m) % C
              /\ \A p \in 0 .. m - 1 : (i + p) % C \in Occupied(t)
              /\ Count(s.table, P) + Carried(s, P) = Count(t, P) + Own(e, P)
            BY <2>1, <2>3 DEF Kept
        <3>9. C < DistanceValues \/ s.entry.dist < DistanceValues - 1
            <4>1. CASE m = 0
                BY <1>2, <4>1, DistanceAssumption DEF s
            <4>2. CASE m # 0
                <5>1. m \in 1 .. Capacity(t)
                    BY <1>1, <4>2
                <5> QED
                    BY <1>1, <2>3, <5>1 DEF DistancesFit, AssertionHolds, s, after
            <4> QED
                BY <4>1, <4>2
        <3>4. /\ InOrder(C, r.table)
              /\ Count(r.table, P) + Carried(r, P) = Count(s.table, P) + Own(s.entry, P)
              /\ r.placed <=> s.table[s.at].dist = 0
              /\ ~r.placed => /\ Occupied(r.table) = Occupied(s.table)
                              /\ r.at = Succ(C, s.at)
                              /\ Carrying(C, r)
            BY <2>1, <2>3, <3>2, <3>3, <3>9, PlaceRoundKeeps
        <3>5. Count(r.table, P) + Carried(r, P) = Count(t, P) + Own(e, P)
            BY <2>3, <3>3, <3>4 DEF Carried
        <3>6. ~r.placed => s.at \in Occupied(t)
            BY <3>1, <3>3, <3>4 DEF Occupied, Tables
        <3>7. ~r.placed => \A p \in 0 .. (m + 1) - 1 : (i + p) % C \in Occupied(t)
            <4> SUFFICES ASSUME ~r.placed, NEW p \in 0 .. m
                         PROVE  (i + p) % C \in Occupied(t)
                OBVIOUS
            <4>1. p = m \/ p \in 0 .. m - 1
                OBVIOUS
            <4> QED
                BY <3>3, <3>6, <4>1
        <3>8. (i + (m + 1)) % C = Succ(C, (i + m) % C)
            <4>1. m \in 0 .. C - 1
                OBVIOUS
            <4> QED
                BY <1>1, <4>1, Onward
        <3> QED
            BY <3>3, <3>4, <3>5, <3>7, <3>8 DEF Kept, r
    <2> QED
        BY <2>2, <2>3
<1>5. C \in R
    <2> HIDE DEF R
    <2>1. Nat \subseteq R
        BY <1>3, <1>4, Induction
    <2> QED
        BY <2>1
<1> DEFINE s == after[C]
<1>6. Kept(C, s)
    BY <1>5
<1>7. s.placed
    <2>1. PICK p \in 0 .. C - 1 : (i + p) % C = v
        BY <1>1, Tour
    <2>2. v \notin Occupied(t)
        BY DEF Occupied
    <2> HIDE DEF s
    <2> QED
        BY <1>6, <2>1, <2>2
<1>8. Place(t, i, e) = s.table
    <2>1. Capacity(t) = C
        BY <1>1, TableShape DEF Tables
    <2> QED
        BY <2>1 DEF Place, after
<1>9. s.table \in Tables(C)
    BY <1>2 DEF Placings
<1>10. Count(s.table, P) \in Nat
    BY <1>9, HavingIsFinite
<1>11. Count(s.table, P) = Count(t, P) + Own(e, P)
    <2> HIDE DEF s
    <2> QED
        BY <1>6, <1>7, <1>10 DEF Carried
<1> HIDE DEF s
<1> QED
    BY <1>6, <1>8, <1>11

-----------------------------------------------------------------------------
(* The loop of roxy_map_remove.                                            *)

Shiftings(C) == [table : Tables(C), at : Ring(C), closed : BOOLEAN]

\* An empty bucket is a bucket at distance zero.
LEMMA VacantBucket == Vacant \in Bucket /\ Vacant.dist = 0
BY DistanceAssumption DEF Vacant, Bucket

\* A round of the loop that closes the gap leaves a table and a bucket.
LEMMA ShiftRoundType ==
    ASSUME NEW C \in Nat \ {0}, NEW s \in Shiftings(C)
    PROVE  ShiftRound(s) \in Shiftings(C)
<1> DEFINE next == s.table[Succ(C, s.at)]
           nearer == [next EXCEPT !.dist = @ - 1]
           shifted == [s.table EXCEPT ![s.at] = nearer]
           closed == [s.table EXCEPT ![s.at] = Vacant]
<1>1. s.table \in Tables(C) /\ s.at \in Ring(C) /\ s.closed \in BOOLEAN
    BY DEF Shiftings
<1>2. After(s.table, s.at) = Succ(C, s.at)
    BY <1>1, TableShape DEF After, Succ, Tables
<1>3. Succ(C, s.at) \in Ring(C)
    BY <1>1, Around
<1>4. next \in Bucket
    BY <1>1, <1>3 DEF Tables
<1>5. closed \in Tables(C)
    BY <1>1, VacantBucket DEF Tables
<1>6. CASE s.closed
    BY <1>6 DEF ShiftRound
<1>7. CASE ~s.closed /\ next.dist <= 1
    <2>1. ShiftRound(s) = [s EXCEPT !.table = closed, !.closed = TRUE]
        BY <1>2, <1>7 DEF ShiftRound
    <2> HIDE DEF closed
    <2> QED
        BY <1>1, <1>5, <2>1 DEF Shiftings
<1>8. CASE ~s.closed /\ ~(next.dist <= 1)
    <2>1. ShiftRound(s) = [table |-> shifted, at |-> Succ(C, s.at), closed |-> FALSE]
        BY <1>2, <1>8 DEF ShiftRound
    <2>2. nearer \in Bucket
        <3> HIDE DEF next
        <3> QED
            BY <1>4, <1>8, DistanceAssumption DEF Bucket
    <2> HIDE DEF nearer
    <2>3. shifted \in Tables(C)
        BY <1>1, <2>2 DEF Tables
    <2> HIDE DEF shifted
    <2> QED
        BY <1>3, <2>1, <2>3 DEF Shiftings
<1> QED
    BY <1>6, <1>7, <1>8

\* The loop that closes the gap is its first state and a round at a time.
LEMMA ShiftingRounds ==
    ASSUME NEW C \in Nat \ {0}, NEW t \in Tables(C), NEW i \in Ring(C)
    PROVE  LET after == Shifting(t, i)
           IN  /\ after[0] = [table |-> t, at |-> i, closed |-> FALSE]
               /\ \A n \in Nat : after[n] \in Shiftings(C) /\ after[n + 1] = ShiftRound(after[n])
<1> DEFINE S == Shiftings(C)
           x == [table |-> t, at |-> i, closed |-> FALSE]
           h == [s \in S |-> ShiftRound(s)]
           Is(f) == f = [n \in Nat |-> IF n = 0 THEN x ELSE ShiftRound(f[n - 1])]
           after == Shifting(t, i)
<1>1. h \in [S -> S] /\ x \in S
    <2>1. \A s \in S : ShiftRound(s) \in S
        BY ShiftRoundType
    <2> QED
        BY <2>1 DEF Shiftings
<1>2. after = CHOOSE f : Is(f)
    BY DEF Shifting
<1> HIDE DEF x, S
<1>3. PICK g \in [Nat -> S] : g[0] = x /\ \A n \in Nat : g[n + 1] = h[g[n]]
    <2> HIDE DEF h
    <2>1. \E g \in [Nat -> S] : Repeats(g, h, x)
        BY <1>1, Recursion
    <2> QED
        BY <2>1 DEF Repeats
<1>4. Is(g)
    <2>1. ASSUME NEW n \in Nat
          PROVE  g[n] = IF n = 0 THEN x ELSE ShiftRound(g[n - 1])
        <3>1. n # 0 => n - 1 \in Nat /\ (n - 1) + 1 = n
            OBVIOUS
        <3> QED
            BY <1>3, <3>1
    <2> QED
        BY <1>3, <2>1
<1>5. Is(after)
    <2> HIDE DEF Is, after
    <2> QED
        BY <1>2, <1>4
<1> HIDE DEF after
<1>6. \A n \in Nat : after[n] = IF n = 0 THEN x ELSE ShiftRound(after[n - 1])
    BY <1>5
<1>7. ASSUME NEW n \in Nat
      PROVE  after[n + 1] = ShiftRound(after[n])
    <2>1. n + 1 \in Nat /\ n + 1 # 0 /\ (n + 1) - 1 = n
        OBVIOUS
    <2> QED
        BY <1>6, <2>1
<1>8. \A n \in Nat : after[n] \in S
    <2> DEFINE R == {n \in Nat : after[n] \in S}
    <2>1. 0 \in R /\ \A n \in Nat : n \in R => n + 1 \in R
        BY <1>1, <1>6, <1>7
    <2>2. Nat \subseteq R
        <3> HIDE DEF R
        <3> QED
            BY <2>1, Induction
    <2> QED
        BY <2>2
<1> QED
    BY <1>6, <1>7, <1>8 DEF after, x, S

\* One round: the gap moves on, or is closed.  Until it is, what is in it is counted twice.
LEMMA ShiftRoundKeeps ==
    ASSUME NEW C \in Nat \ {0, 1}, NEW s \in Shiftings(C), ~s.closed,
           InOrder(C, s.table), s.table[s.at].dist # 0,
           NEW v \in Ring(C), s.table[v].dist = 0, NEW P
    PROVE  LET r == ShiftRound(s)
           IN  /\ InOrder(C, r.table)
               /\ Count(r.table, P) - (IF r.closed THEN 0 ELSE Own(r.table[r.at], P))
                    = Count(s.table, P) - Own(s.table[s.at], P)
               /\ r.closed => Occupied(r.table) = Occupied(s.table) \ {s.at}
               /\ ~r.closed => /\ Occupied(r.table) = Occupied(s.table)
                               /\ r.at = Succ(C, s.at)
                               /\ r.table[r.at].dist # 0
<1> DEFINE t == s.table
           i == s.at
           j == Succ(C, i)
           next == t[j]
           nearer == [next EXCEPT !.dist = @ - 1]
           shifted == [t EXCEPT ![i] = nearer]
           closed == [t EXCEPT ![i] = Vacant]
           r == ShiftRound(s)
<1>1. t \in Tables(C) /\ i \in Ring(C) /\ InOrder(C, t) /\ t[i].dist # 0
    BY DEF Shiftings
<1>2. After(t, i) = j /\ j \in Ring(C) /\ Prev(C, j) = i /\ j # i /\ Prev(C, i) \in Ring(C)
    <2>1. After(t, i) = j
        BY <1>1, TableShape DEF After, Succ, Tables
    <2> QED
        BY <1>1, <2>1, Around
<1>3. /\ next \in Bucket /\ next.dist \in 0 .. DistanceValues - 1 /\ next.dist <= C - 1
      /\ t[i].dist \in 0 .. DistanceValues - 1 /\ t[Prev(C, i)].dist \in 0 .. DistanceValues - 1
      /\ Follows(next, t[i]) /\ Follows(t[i], t[Prev(C, i)])
    <2>1. next.dist <= C - 1
        BY <1>1, <1>2, NoneFarther
    <2>2. Follows(next, t[Prev(C, j)]) /\ Follows(t[i], t[Prev(C, i)])
        BY <1>1, <1>2 DEF InOrder
    <2> QED
        BY <1>1, <1>2, <2>1, <2>2, BucketTypes
<1>4. Count(t, P) \in Nat /\ Own(t[i], P) \in {0, 1} /\ Own(next, P) \in {0, 1}
    BY <1>1, HavingIsFinite DEF Own
<1>5. CASE next.dist <= 1
    <2>1. r = [s EXCEPT !.table = closed, !.closed = TRUE]
        BY <1>2, <1>5 DEF ShiftRound
    <2>2. r.table = closed /\ r.closed
        BY <2>1 DEF Shiftings
    <2>3. /\ closed \in Tables(C) /\ closed[i] = Vacant
          /\ \A l \in Ring(C) : l # i => closed[l] = t[l]
        BY <1>1, VacantBucket DEF Tables
    <2>4. InOrder(C, closed)
        <3>1. Follows(next, Vacant) /\ Follows(Vacant, t[Prev(C, i)])
            BY <1>3, <1>5, VacantBucket DEF Follows
        <3> HIDE DEF t, i
        <3> QED
            BY <1>1, <3>1, StoredInOrder, VacantBucket
    <2> HIDE DEF closed, r
    <2>5. /\ Count(closed, P) = Count(t, P) - Own(t[i], P) + Own(Vacant, P)
          /\ Occupied(closed) = Occupied(t) \ {i}
        <3> HIDE DEF t, i
        <3> QED
            BY <1>1, <2>3, CountStored, VacantBucket
    <2>6. Own(Vacant, P) = 0
        BY VacantBucket DEF Own
    <2> QED
        BY <1>4, <2>2, <2>4, <2>5, <2>6 DEF r
<1>6. CASE ~(next.dist <= 1)
    <2>1. r = [table |-> shifted, at |-> j, closed |-> FALSE]
        BY <1>2, <1>6 DEF ShiftRound
    <2>2. r.table = shifted /\ ~r.closed /\ r.at = j
        BY <2>1
    <2>3. nearer \in Bucket /\ nearer.dist = next.dist - 1 /\ Pair(nearer) = Pair(next)
        <3> HIDE DEF next
        <3> QED
            BY <1>3, <1>6, DistanceAssumption DEF Bucket, Pair
    <2>4. AtHome(C, i, nearer)
        <3> DEFINE d == next.dist - 1
                   g == HomeIn(C, next.key)
        <3>1. AtHome(C, j, next)
            BY <1>1, <1>2, <1>6 DEF InOrder
        <3>2. next.key \in Key /\ next.val \in Val /\ g \in Ring(C) /\ j = Spot(C, g, next.dist)
            BY <3>1, HomeInRing DEF AtHome
        <3>3. d \in 1 .. C /\ next.dist = d + 1 /\ nearer.dist = d
            BY <1>3, <1>6, <2>3
        <3>4. nearer.key = next.key /\ nearer.val = next.val
            BY <1>3 DEF Bucket
        <3> HIDE DEF d, next, nearer, g
        <3>5. Prev(C, Spot(C, g, d + 1)) = Spot(C, g, d)
            BY <3>2, <3>3, OneStep
        <3>6. i = Spot(C, g, d)
            BY <1>2, <3>2, <3>3, <3>5
        <3> QED
            BY <3>2, <3>3, <3>4, <3>6 DEF AtHome, g
    <2> HIDE DEF nearer
    <2>5. /\ shifted \in Tables(C) /\ shifted[i] = nearer
          /\ \A l \in Ring(C) : l # i => shifted[l] = t[l]
        BY <1>1, <2>3 DEF Tables
    <2>6. InOrder(C, shifted)
        <3>1. Follows(next, nearer) /\ Follows(nearer, t[Prev(C, i)])
            BY <1>3, <1>6, <2>3 DEF Follows
        <3> HIDE DEF t, i
        <3> QED
            BY <1>1, <2>3, <2>4, <3>1, StoredInOrder
    <2> HIDE DEF shifted, r
    <2>7. nearer.dist # 0
        BY <1>3, <1>6, <2>3
    <2>8. /\ Count(shifted, P) = Count(t, P) - Own(t[i], P) + Own(nearer, P)
          /\ Occupied(shifted) = Occupied(t) \cup {i}
        <3> HIDE DEF t, i
        <3> QED
            BY <1>1, <2>5, <2>7, CountStored
    <2>9. Own(nearer, P) = Own(next, P)
        BY <1>3, <1>6, <2>3, <2>7 DEF Own
    <2>10. Occupied(shifted) = Occupied(t)
        BY <1>1, <2>8 DEF Occupied, Tables
    <2>11. r.table[r.at] = next /\ next.dist # 0
        BY <1>2, <1>6, <2>2, <2>5
    <2> QED
        BY <1>4, <2>2, <2>6, <2>8, <2>9, <2>10, <2>11 DEF r
<1> QED
    BY <1>5, <1>6

\* The loop ends, with one entry less and all in order.
LEMMA ShiftBackKeeps ==
    ASSUME NEW C \in Nat \ {0, 1}, NEW t, InOrder(C, t),
           NEW v \in Ring(C), t[v].dist = 0,
           NEW i \in Ring(C), t[i].dist # 0, NEW P
    PROVE  /\ InOrder(C, ShiftBack(t, i))
           /\ Count(ShiftBack(t, i), P) = Count(t, P) - Own(t[i], P)
<1> DEFINE after == Shifting(t, i)
           Stale(s) == IF s.closed THEN 0 ELSE Own(s.table[s.at], P)
           Kept(m, s) ==
                /\ InOrder(C, s.table)
                /\ Count(s.table, P) - Stale(s) = Count(t, P) - Own(t[i], P)
                /\ ~s.closed => /\ Occupied(s.table) = Occupied(t)
                                /\ s.at = (i + m) % C
                                /\ s.table[s.at].dist # 0
                                /\ \A p \in 0 .. m - 1 : (i + p) % C \in Occupied(t)
           R == {m \in Nat : m <= C => Kept(m, after[m])}
<1>1. t \in Tables(C) /\ C \in Nat \ {0}
    BY DEF InOrder
<1>2. /\ after[0] = [table |-> t, at |-> i, closed |-> FALSE]
      /\ \A n \in Nat : after[n] \in Shiftings(C) /\ after[n + 1] = ShiftRound(after[n])
    <2> HIDE DEF after
    <2> QED
        BY <1>1, ShiftingRounds DEF after
<1> HIDE DEF after
<1>3. 0 \in R
    <2>1. (i + 0) % C = i
        <3>1. 0 \in 0 .. C - 1
            OBVIOUS
        <3> QED
            BY <1>1, <3>1, Onward
    <2>2. Kept(0, after[0])
        BY <1>2, <2>1
    <2> QED
        BY <2>2
<1>4. ASSUME NEW m \in Nat, m \in R
      PROVE  m + 1 \in R
    <2> SUFFICES ASSUME m + 1 <= C
                 PROVE  Kept(m + 1, after[m + 1])
        OBVIOUS
    <2> DEFINE s == after[m]
               r == after[m + 1]
    <2>1. s \in Shiftings(C) /\ r = ShiftRound(s) /\ Kept(m, s)
        BY <1>2, <1>4
    <2> HIDE DEF s, r, R
    <2>2. CASE s.closed
        <3>1. r = s
            BY <2>1, <2>2 DEF ShiftRound
        <3> QED
            BY <2>1, <2>2, <3>1 DEF s, r
    <2>3. CASE ~s.closed
        <3>1. s.table \in Tables(C) /\ s.at \in Ring(C)
            BY <2>1 DEF Shiftings
        <3>2. s.table[v].dist = 0
            BY <1>1, <2>1, <2>3, <3>1 DEF Occupied, Tables
        <3>3. /\ InOrder(C, s.table) /\ s.table[s.at].dist # 0
              /\ Occupied(s.table) = Occupied(t) /\ s.at = (i + m) % C
              /\ \A p \in 0 .. m - 1 : (i + p) % C \in Occupied(t)
              /\ Count(s.table, P) - Own(s.table[s.at], P) = Count(t, P) - Own(t[i], P)
            BY <2>1, <2>3
        <3> HIDE DEF Kept
        <3>4. /\ InOrder(C, r.table)
              /\ Count(r.table, P) - (IF r.closed THEN 0 ELSE Own(r.table[r.at], P))
                   = Count(s.table, P) - Own(s.table[s.at], P)
              /\ ~r.closed => /\ Occupied(r.table) = Occupied(s.table)
                              /\ r.at = Succ(C, s.at)
                              /\ r.table[r.at].dist # 0
            BY <2>1, <2>3, <3>2, <3>3, ShiftRoundKeeps
        <3>5. s.at \in Occupied(t)
            BY <3>1, <3>3 DEF Occupied, Tables
        <3>6. \A p \in 0 .. (m + 1) - 1 : (i + p) % C \in Occupied(t)
            <4> SUFFICES ASSUME NEW p \in 0 .. m
                         PROVE  (i + p) % C \in Occupied(t)
                OBVIOUS
            <4>1. p = m \/ p \in 0 .. m - 1
                OBVIOUS
            <4> QED
                BY <3>3, <3>5, <4>1
        <3>7. (i + (m + 1)) % C = Succ(C, (i + m) % C)
            <4>1. m \in 0 .. C - 1
                OBVIOUS
            <4> QED
                BY <1>1, <4>1, Onward
        <3> QED
            BY <3>3, <3>4, <3>6, <3>7 DEF Kept, r
    <2> QED
        BY <2>2, <2>3
<1>5. C \in R
    <2> HIDE DEF R
    <2>1. Nat \subseteq R
        BY <1>3, <1>4, Induction
    <2> QED
        BY <2>1
<1> DEFINE s == after[C]
<1>6. Kept(C, s)
    BY <1>5
<1>7. s.closed
    <2>1. PICK p \in 0 .. C - 1 : (i + p) % C = v
        BY <1>1, Tour
    <2>2. v \notin Occupied(t)
        BY DEF Occupied
    <2> HIDE DEF s
    <2> QED
        BY <1>6, <2>1, <2>2
<1>8. ShiftBack(t, i) = s.table
    <2>1. Capacity(t) = C
        BY <1>1, TableShape DEF Tables
    <2> QED
        BY <2>1 DEF ShiftBack, after
<1>9. s.table \in Tables(C)
    BY <1>2 DEF Shiftings
<1>10. Count(s.table, P) \in Nat
    BY <1>9, HavingIsFinite
<1> HIDE DEF s
<1> QED
    BY <1>6, <1>7, <1>8, <1>10

-----------------------------------------------------------------------------
(* An insertion, the rebuilding of a full table, and a new one.            *)

\* No distance wraps in an insertion, or in the rebuilding of a table.
InsertFits(t, k, x) == DistancesFit(t, Home(t, k), [dist |-> 1, key |-> k, val |-> x])
MovingFits(t, D) ==
    \A n \in 0 .. Capacity(t) - 1 :
        t[n].dist # 0 => InsertFits(Moving(t, D)[n], t[n].key, t[n].val)

\* map_insert_internal stores the one entry, in order.
LEMMA InsertKeeps ==
    ASSUME NEW C \in Nat \ {0, 1}, NEW t, InOrder(C, t), NEW v \in Ring(C), t[v].dist = 0,
           NEW k \in Key, NEW x \in Val, InsertFits(t, k, x), NEW P
    PROVE  /\ InOrder(C, InsertInternal(t, k, x))
           /\ Count(InsertInternal(t, k, x), P)
                = Count(t, P) + (IF <<k, x>> \in P THEN 1 ELSE 0)
<1> DEFINE e == [dist |-> 1, key |-> k, val |-> x]
           i == Home(t, k)
<1>1. Capacity(t) = C
    BY TableShape DEF InOrder, Tables
<1>2. i = HomeIn(C, k) /\ i \in Ring(C)
    BY <1>1, HomeInRing DEF Home, HomeIn
<1>3. e \in Bucket /\ e.dist = 1 /\ e.key = k /\ e.val = x
    BY DistanceAssumption DEF Bucket
<1>4. Spot(C, HomeIn(C, k), 1) = i
    <2>1. 1 \in 1 .. C
        OBVIOUS
    <2> QED
        BY <1>2, <2>1, OneStep
<1>5. AtHome(C, i, e)
    BY <1>3, <1>4 DEF AtHome
<1>6. Own(e, P) = IF <<k, x>> \in P THEN 1 ELSE 0
    BY <1>3 DEF Own, Pair
<1>7. InsertInternal(t, k, x) = Place(t, i, e) /\ DistancesFit(t, i, e)
    BY DEF InsertInternal, InsertFits
<1> HIDE DEF e, i
<1> QED
    BY <1>2, <1>3, <1>5, <1>6, <1>7, PlaceKeeps

\* A fresh table is in order and holds nothing.
LEMMA EmptyInOrder ==
    ASSUME NEW C \in Nat \ {0}, NEW P
    PROVE  /\ InOrder(C, Vacancies(C)) /\ Count(Vacancies(C), P) = 0
           /\ Occupied(Vacancies(C)) = {}
           /\ \A i \in Ring(C) : Vacancies(C)[i].dist = 0
<1> DEFINE t == Vacancies(C)
<1>1. t \in Tables(C) /\ \A i \in Ring(C) : t[i].dist = 0
    BY VacantBucket DEF Vacancies, Tables, Ring
<1> HIDE DEF t
<1>2. Occupied(t) = {} /\ Having(t, P) = {}
    BY <1>1 DEF Occupied, Having, Tables
<1>3. Count(t, P) = 0
    BY <1>2, FS_EmptySet DEF Count
<1>4. InOrder(C, t)
    BY <1>1 DEF InOrder, Follows
<1> QED
    BY <1>1, <1>2, <1>3, <1>4 DEF t

\* Fewer entries than buckets leave one empty.
LEMMA SomeVacancy ==
    ASSUME NEW C \in Nat \ {0}, NEW t \in Tables(C)
    PROVE  Cardinality(Occupied(t)) < C <=> \E v \in Ring(C) : t[v].dist = 0
<1>1. /\ DOMAIN t = Ring(C) /\ IsFiniteSet(Ring(C)) /\ Cardinality(Ring(C)) = C
      /\ Occupied(t) \subseteq Ring(C)
    BY TableShape DEF Tables, Occupied
<1>2. Cardinality(Occupied(t)) \in Nat /\ Cardinality(Occupied(t)) <= C
      /\ (Cardinality(Occupied(t)) = C => Occupied(t) = Ring(C))
    <2>1. Occupied(t) \in SUBSET Ring(C)
        BY <1>1
    <2> QED
        BY <1>1, <2>1, FS_Subset, FS_CardinalityType
<1>3. Occupied(t) = Ring(C) <=> \A v \in Ring(C) : t[v].dist # 0
    BY <1>1 DEF Occupied
<1> QED
    BY <1>1, <1>2, <1>3

\* Inserting gives a table of the same capacity.
LEMMA InsertType ==
    ASSUME NEW C \in Nat \ {0, 1}, NEW t \in Tables(C), NEW k \in Key, NEW x \in Val
    PROVE  InsertInternal(t, k, x) \in Tables(C)
<1> DEFINE e == [dist |-> 1, key |-> k, val |-> x]
           i == Home(t, k)
<1>1. Capacity(t) = C /\ C \in Nat \ {0}
    BY TableShape DEF Tables
<1>2. i \in Ring(C)
    BY <1>1, HomeInRing DEF Home, HomeIn
<1>3. e \in Bucket
    BY DistanceAssumption DEF Bucket
<1>4. InsertInternal(t, k, x) = Placing(t, i, e)[C].table
    BY <1>1 DEF InsertInternal, Place
<1> HIDE DEF e, i
<1>5. \A n \in Nat : Placing(t, i, e)[n] \in Placings(C)
    BY <1>1, <1>2, <1>3, PlacingRounds
<1> QED
    BY <1>4, <1>5 DEF Placings

\* The rounds of the loop of map_grow.
LEMMA MovingRounds ==
    ASSUME NEW C \in Nat \ {0}, NEW t, InOrder(C, t),
           NEW D \in Nat \ {0, 1}
    PROVE  LET moved == Moving(t, D)
           IN  /\ moved[0] = Vacancies(D) /\ \A n \in 0 .. C : moved[n] \in Tables(D)
               /\ \A n \in 0 .. C - 1 :
                     moved[n + 1] = IF t[n].dist = 0 THEN moved[n]
                                    ELSE InsertInternal(moved[n], t[n].key, t[n].val)
<1> DEFINE Step(n, u) == IF t[n].dist = 0 THEN u ELSE InsertInternal(u, t[n].key, t[n].val)
           S == Nat \X Tables(D)
           x == <<0, Vacancies(D)>>
           h == [q \in S |-> <<q[1] + 1, IF q[1] < C THEN Step(q[1], q[2]) ELSE q[2]>>]
           Is(f) == f = [n \in 0 .. C |-> IF n = 0 THEN Vacancies(D)
                            ELSE IF t[n - 1].dist = 0 THEN f[n - 1]
                            ELSE InsertInternal(f[n - 1], t[n - 1].key, t[n - 1].val)]
           moved == Moving(t, D)
<1>1. x \in S
    BY EmptyInOrder DEF InOrder
<1>2. \A n \in 0 .. C - 1, u \in Tables(D) : Step(n, u) \in Tables(D)
    <2> SUFFICES ASSUME NEW n \in 0 .. C - 1, NEW u \in Tables(D), t[n].dist # 0
                 PROVE  InsertInternal(u, t[n].key, t[n].val) \in Tables(D)
        OBVIOUS
    <2>1. t[n].key \in Key /\ t[n].val \in Val
        BY DEF InOrder, AtHome, Ring
    <2> QED
        BY <2>1, InsertType
<1> HIDE DEF Step
<1>3. h \in [S -> S]
    <2> SUFFICES ASSUME NEW q \in S
                 PROVE  <<q[1] + 1, IF q[1] < C THEN Step(q[1], q[2]) ELSE q[2]>> \in S
        OBVIOUS
    <2>1. q[1] \in Nat /\ q[2] \in Tables(D)
        OBVIOUS
    <2>2. q[1] < C => q[1] \in 0 .. C - 1
        BY <2>1
    <2> QED
        BY <1>2, <2>1, <2>2
<1>4. PICK g \in [Nat -> S] : g[0] = x /\ \A n \in Nat : g[n + 1] = h[g[n]]
    <2> HIDE DEF h, S, x
    <2>1. \E g \in [Nat -> S] : Repeats(g, h, x)
        BY <1>1, <1>3, Recursion
    <2> QED
        BY <2>1 DEF Repeats
<1>5. \A n \in Nat : g[n][1] = n
    <2> DEFINE R == {n \in Nat : g[n][1] = n}
    <2>1. 0 \in R
        BY <1>4
    <2>2. ASSUME NEW n \in Nat, n \in R
          PROVE  n + 1 \in R
        <3>1. g[n] \in S /\ g[n + 1] = h[g[n]] /\ g[n][1] = n
            BY <1>4, <2>2
        <3>2. h[g[n]][1] = g[n][1] + 1
            BY <3>1
        <3> QED
            BY <3>1, <3>2
    <2>3. Nat \subseteq R
        <3> HIDE DEF R
        <3> QED
            BY <2>1, <2>2, Induction
    <2> QED
        BY <2>3
<1> DEFINE f == [n \in 0 .. C |-> g[n][2]]
<1>6. ASSUME NEW n \in 0 .. C
      PROVE  f[n] = IF n = 0 THEN Vacancies(D) ELSE Step(n - 1, f[n - 1])
    <2>1. CASE n = 0
        BY <1>4, <2>1
    <2>2. CASE n # 0
        <3>1. n - 1 \in Nat /\ (n - 1) + 1 = n /\ n - 1 < C /\ n - 1 \in 0 .. C
            BY <2>2
        <3>2. g[n] = h[g[n - 1]] /\ g[n - 1] \in S /\ g[n - 1][1] = n - 1
            BY <1>4, <1>5, <3>1
        <3>3. g[n][2] = Step(n - 1, g[n - 1][2])
            BY <3>1, <3>2
        <3> QED
            BY <2>2, <3>1, <3>3
    <2> QED
        BY <2>1, <2>2
<1>7. Is(f)
    <2>1. \A n \in 0 .. C : f[n] = IF n = 0 THEN Vacancies(D)
                            ELSE IF t[n - 1].dist = 0 THEN f[n - 1]
                            ELSE InsertInternal(f[n - 1], t[n - 1].key, t[n - 1].val)
        BY <1>6 DEF Step
    <2> QED
        BY <2>1
<1>8. Is(moved)
    <2>1. Capacity(t) = C
        BY TableShape DEF InOrder, Tables
    <2>2. moved = CHOOSE m : Is(m)
        BY <2>1 DEF Moving
    <2> HIDE DEF Is, moved, f
    <2> QED
        BY <1>7, <2>2
<1> HIDE DEF moved
<1>9. moved[0] = Vacancies(D)
    BY <1>8
<1>10. ASSUME NEW n \in 0 .. C - 1
       PROVE  moved[n + 1] = IF t[n].dist = 0 THEN moved[n]
                             ELSE InsertInternal(moved[n], t[n].key, t[n].val)
    <2>1. n + 1 \in 0 .. C /\ n + 1 # 0 /\ (n + 1) - 1 = n
        OBVIOUS
    <2> QED
        BY <1>8, <2>1
<1> DEFINE R == {n \in Nat : n <= C => moved[n] \in Tables(D)}
<1>11. Nat \subseteq R
    <2>1. 0 \in R
        BY <1>1, <1>9
    <2>2. ASSUME NEW n \in Nat, n \in R
          PROVE  n + 1 \in R
        BY <1>2, <1>10, <2>2 DEF Step
    <2> HIDE DEF R
    <2> QED
        BY <2>1, <2>2, Induction
<1> QED
    BY <1>9, <1>10, <1>11 DEF moved

\* Every entry is moved, in order, once; whatever there is an empty bucket left for it.
LEMMA MovingKeeps ==
    ASSUME NEW C \in Nat \ {0}, NEW t, InOrder(C, t),
           NEW D \in Nat \ {0, 1}, C < D, MovingFits(t, D), NEW P
    PROVE  /\ InOrder(D, Moving(t, D)[C])
           /\ Count(Moving(t, D)[C], P) = Count(t, P)
<1> DEFINE moved == Moving(t, D)
           All == Key \X Val
           below(Q, n) == {j \in Having(t, Q) : j < n}
           Kept(n) == /\ InOrder(D, moved[n])
                      /\ \A Q \in {P, All} : Count(moved[n], Q) = Cardinality(below(Q, n))
           R == {n \in Nat : n <= C => Kept(n)}
<1>1. t \in Tables(C) /\ DOMAIN t = Ring(C)
    BY DEF InOrder, Tables
<1>2. /\ moved[0] = Vacancies(D)
      /\ \A n \in 0 .. C - 1 :
            moved[n + 1] = IF t[n].dist = 0 THEN moved[n]
                           ELSE InsertInternal(moved[n], t[n].key, t[n].val)
    BY MovingRounds
<1> HIDE DEF moved
<1>3. \A Q : IsFiniteSet(Having(t, Q)) /\ Having(t, Q) \subseteq 0 .. C - 1
    BY <1>1, HavingIsFinite DEF Having, Occupied, Ring
<1>4. ASSUME NEW Q, NEW n \in Nat
      PROVE  /\ IsFiniteSet(below(Q, n)) /\ Cardinality(below(Q, n)) \in Nat
             /\ Cardinality(below(Q, n)) <= n
    <2>1. below(Q, n) \in SUBSET (0 .. n - 1)
        BY <1>3
    <2>2. IsFiniteSet(0 .. n - 1) /\ Cardinality(0 .. n - 1) = n
        <3>1. DOMAIN [j \in 0 .. n - 1 |-> 0] = Ring(n)
            BY DEF Ring
        <3> QED
            BY <3>1, TableShape DEF Ring
    <2> HIDE DEF below
    <2> QED
        BY <2>1, <2>2, FS_Subset, FS_CardinalityType
<1>5. 0 \in R
    <2>1. \A Q : below(Q, 0) = {}
        BY <1>3
    <2>2. InOrder(D, moved[0]) /\ \A Q : Count(moved[0], Q) = 0
        BY <1>2, EmptyInOrder
    <2>3. \A Q : Cardinality(below(Q, 0)) = 0
        BY <2>1, FS_EmptySet
    <2> HIDE DEF below
    <2> QED
        BY <2>2, <2>3
<1>6. ASSUME NEW n \in Nat, n \in R
      PROVE  n + 1 \in R
    <2> SUFFICES ASSUME n + 1 <= C
                 PROVE  Kept(n + 1)
        OBVIOUS
    <2>1. Kept(n) /\ n \in 0 .. C - 1 /\ n \in Ring(C)
        BY <1>6 DEF Ring
    <2>2. moved[n + 1] = IF t[n].dist = 0 THEN moved[n]
                         ELSE InsertInternal(moved[n], t[n].key, t[n].val)
        BY <1>2, <2>1
    <2>3. ASSUME NEW Q
          PROVE  Cardinality(below(Q, n + 1)) = Cardinality(below(Q, n)) + Own(t[n], Q)
        <3>1. n \in Having(t, Q) <=> Own(t[n], Q) = 1
            BY <1>1, <2>1 DEF Having, Occupied, Own
        <3>2. CASE Own(t[n], Q) = 1
            <4>1. below(Q, n + 1) = below(Q, n) \cup {n} /\ n \notin below(Q, n)
                BY <1>3, <3>1, <3>2
            <4> HIDE DEF below
            <4> QED
                BY <1>4, <3>2, <4>1, FS_AddElement
        <3>3. CASE Own(t[n], Q) # 1
            <4>1. below(Q, n + 1) = below(Q, n)
                BY <1>3, <3>1, <3>3
            <4>2. Own(t[n], Q) = 0
                BY <3>3 DEF Own
            <4> HIDE DEF below
            <4> QED
                BY <1>4, <4>1, <4>2
        <3> QED
            BY <3>2, <3>3
    <2>4. InOrder(D, moved[n]) /\ \A Q \in {P, All} : Count(moved[n], Q) = Cardinality(below(Q, n))
        BY <2>1
    <2> HIDE DEF below, All
    <2>5. CASE t[n].dist = 0
        <3>1. \A Q : Own(t[n], Q) = 0
            BY <2>5 DEF Own
        <3> QED
            BY <1>4, <2>2, <2>3, <2>4, <2>5, <3>1
    <2>6. CASE t[n].dist # 0
        <3>1. t[n].key \in Key /\ t[n].val \in Val
            BY <2>1, <2>6 DEF InOrder, AtHome
        <3>2. \A Q : Own(t[n], Q) = IF <<t[n].key, t[n].val>> \in Q THEN 1 ELSE 0
            BY <2>6 DEF Own, Pair
        <3>3. PICK v \in Ring(D) : moved[n][v].dist = 0
            <4>1. Cardinality(Occupied(moved[n])) <= n
                <5>1. Cardinality(Occupied(moved[n])) = Count(moved[n], All)
                    BY <2>4, CountAll DEF All
                <5> QED
                    BY <1>4, <2>4, <5>1
            <4>2. moved[n] \in Tables(D) /\ D \in Nat \ {0}
                BY <2>4 DEF InOrder
            <4>3. Cardinality(Occupied(moved[n])) < D
                <5>1. Cardinality(Occupied(moved[n])) \in Nat
                    BY <4>2, HavingIsFinite
                <5> QED
                    BY <4>1, <5>1
            <4> QED
                BY <4>2, <4>3, SomeVacancy
        <3>5. InsertFits(moved[n], t[n].key, t[n].val)
            <4>1. Capacity(t) = C
                BY <1>1, TableShape
            <4> QED
                BY <2>1, <2>6, <4>1 DEF MovingFits, moved
        <3>4. /\ InOrder(D, moved[n + 1])
              /\ \A Q : Count(moved[n + 1], Q) = Count(moved[n], Q) + Own(t[n], Q)
            BY <2>2, <2>4, <2>6, <3>1, <3>2, <3>3, <3>5, InsertKeeps
        <3> QED
            BY <1>4, <2>3, <2>4, <3>4
    <2> QED
        BY <2>5, <2>6
<1>7. Kept(C)
    <2>1. C \in R
        <3> HIDE DEF R
        <3>1. Nat \subseteq R
            BY <1>5, <1>6, Induction
        <3> QED
            BY <3>1
    <2> HIDE DEF Kept
    <2> QED
        BY <2>1
<1>8. below(P, C) = Having(t, P)
    BY <1>3
<1> QED
    BY <1>7, <1>8 DEF moved, Count

\* A full table, or none, is rebuilt at twice its capacity; it has an empty bucket then.
LEMMA GrowKeeps ==
    ASSUME NEW C \in Nat \ {0, 1}, NEW t, InOrder(C, t), NEW P
    PROVE  /\ Capacity(Grow(t)) = 2 * C
           /\ MovingFits(t, 2 * C) => /\ InOrder(2 * C, Grow(t))
                                      /\ \E v \in Ring(2 * C) : Grow(t)[v].dist = 0
                                      /\ Count(Grow(t), P) = Count(t, P)
<1> DEFINE D == 2 * C
           u == Moving(t, D)[C]
<1>1. Capacity(t) = C /\ C \in Nat \ {0} /\ D \in Nat \ {0, 1} /\ C < D /\ t \in Tables(C)
    BY TableShape DEF InOrder, Tables
<1>2. t # NoTable
    <2>1. DOMAIN t = Ring(C) /\ 0 \in Ring(C)
        BY <1>1 DEF Tables, Ring
    <2> QED
        BY <2>1 DEF NoTable
<1>3. Grow(t) = u
    BY <1>1, <1>2 DEF Grow
<1> HIDE DEF D
<1>4. Capacity(u) = D
    <2>1. C \in 0 .. C
        BY <1>1
    <2>2. u \in Tables(D)
        BY <1>1, <2>1, MovingRounds
    <2> HIDE DEF u
    <2> QED
        BY <1>1, <2>2, TableShape DEF Tables
<1> SUFFICES ASSUME MovingFits(t, D)
             PROVE  /\ InOrder(D, u) /\ Count(u, P) = Count(t, P)
                    /\ \E v \in Ring(D) : u[v].dist = 0
    BY <1>3, <1>4 DEF D
<1>5. InOrder(D, u) /\ Count(u, P) = Count(t, P) /\ Count(u, Key \X Val) = Count(t, Key \X Val)
    BY <1>1, MovingKeeps DEF D
<1> HIDE DEF u
<1>6. Cardinality(Occupied(u)) = Cardinality(Occupied(t))
    BY <1>1, <1>5, CountAll
<1>7. Cardinality(Occupied(t)) \in Nat /\ Cardinality(Occupied(t)) <= C
    <2>1. Occupied(t) \in SUBSET Ring(C) /\ IsFiniteSet(Ring(C)) /\ Cardinality(Ring(C)) = C
        BY <1>1, TableShape DEF Occupied, Tables
    <2> QED
        BY <2>1, FS_Subset, FS_CardinalityType
<1>8. \E v \in Ring(D) : u[v].dist = 0
    <2>1. u \in Tables(D) /\ Cardinality(Occupied(u)) < D
        BY <1>1, <1>5, <1>6, <1>7 DEF InOrder
    <2> QED
        BY <1>1, <2>1, SomeVacancy
<1> QED
    BY <1>5, <1>8

\* The map that has no table yet grows to an empty one of the first capacity.
LEMMA FirstGrow ==
    /\ Capacity(NoTable) = 0 /\ Occupied(NoTable) = {}
    /\ Grow(NoTable) = Vacancies(InitialCapacity)
<1>1. DOMAIN NoTable = {}
    BY DEF NoTable
<1>2. Capacity(NoTable) = 0 /\ Occupied(NoTable) = {}
    BY <1>1, FS_EmptySet DEF Capacity, Occupied
<1> DEFINE D == InitialCapacity
           Is(f) == f = [n \in 0 .. 0 |-> IF n = 0 THEN Vacancies(D)
                            ELSE IF NoTable[n - 1].dist = 0 THEN f[n - 1]
                            ELSE InsertInternal(f[n - 1], NoTable[n - 1].key, NoTable[n - 1].val)]
           moved == Moving(NoTable, D)
<1>3. Grow(NoTable) = moved[0]
    BY <1>2 DEF Grow
<1>4. moved = CHOOSE f : Is(f)
    BY <1>2 DEF Moving
<1>5. Is([n \in 0 .. 0 |-> Vacancies(D)])
    OBVIOUS
<1>6. Is(moved)
    <2> HIDE DEF Is, moved
    <2> QED
        BY <1>4, <1>5
<1>7. moved[0] = Vacancies(D)
    <2> HIDE DEF moved
    <2> QED
        BY <1>6
<1> QED
    BY <1>2, <1>3, <1>7

\* The capacity a map is made with is at least the one asked for.
LEMMA RoundUpEnough ==
    ASSUME NEW n \in Nat
    PROVE  RoundUp(n) \in Nat \ {0, 1} /\ RoundUp(n) >= n
<1> DEFINE S == Nat \ {0, 1}
           Step(q) == IF q < n THEN 2 * q ELSE q
           h == [q \in S |-> Step(q)]
           x == InitialCapacity
           Is(f) == f = [m \in Nat |-> IF m = 0 THEN x
                            ELSE IF f[m - 1] < n THEN 2 * f[m - 1] ELSE f[m - 1]]
           doubled == CHOOSE f : Is(f)
<1>1. x \in S
    BY CapacityAssumption
<1>2. h \in [S -> S]
    OBVIOUS
<1>3. RoundUp(n) = doubled[n]
    BY DEF RoundUp
<1> HIDE DEF x
<1>4. PICK g \in [Nat -> S] : g[0] = x /\ \A m \in Nat : g[m + 1] = h[g[m]]
    <2> HIDE DEF h, S
    <2>1. \E g \in [Nat -> S] : Repeats(g, h, x)
        BY <1>1, <1>2, Recursion
    <2> QED
        BY <2>1 DEF Repeats
<1>5. Is(g)
    <2>1. ASSUME NEW m \in Nat
          PROVE  g[m] = IF m = 0 THEN x ELSE Step(g[m - 1])
        <3>1. m # 0 => m - 1 \in Nat /\ (m - 1) + 1 = m
            OBVIOUS
        <3> QED
            BY <1>4, <3>1
    <2> QED
        BY <1>4, <2>1
<1>6. Is(doubled)
    <2> HIDE DEF Is
    <2> QED
        BY <1>5
<1> DEFINE R == {m \in Nat : doubled[m] \in S /\ (doubled[m] >= n \/ doubled[m] >= m)}
<1>7. Nat \subseteq R
    <2> HIDE DEF doubled
    <2>1. 0 \in R
        BY <1>1, <1>6
    <2>2. ASSUME NEW m \in Nat, m \in R
          PROVE  m + 1 \in R
        <3>1. m + 1 \in Nat /\ m + 1 # 0 /\ (m + 1) - 1 = m
            OBVIOUS
        <3>2. doubled[m + 1] = Step(doubled[m])
            BY <1>6, <3>1
        <3> QED
            BY <2>2, <3>2
    <2> HIDE DEF R
    <2> QED
        BY <2>1, <2>2, Induction
<1>8. doubled[n] \in S /\ doubled[n] >= n
    <2> HIDE DEF doubled
    <2> QED
        BY <1>7
<1> HIDE DEF doubled
<1> QED
    BY <1>3, <1>8

-----------------------------------------------------------------------------
(* A search, and a value stored in its place.                              *)

\* The least number of a set that is not empty is in it.
LEMMA LeastStop ==
    ASSUME NEW T \in SUBSET Nat, T # {}
    PROVE  Min(T) \in T /\ \A e \in T : Min(T) <= e
<1>1. \E m \in T : \A e \in T : m <= e
    BY LeastNumber
<1>2. Min(T) = CHOOSE m \in T : \A e \in T : m <= e
    BY DEF Min
<1> QED
    BY <1>1, <1>2

\* A search that starts at home finds an equal key, and finds it wherever it is.
LEMMA FindKey ==
    ASSUME NEW C \in Nat \ {0, 1}, NEW t, InOrder(C, t), NEW v \in Ring(C), t[v].dist = 0,
           NEW k \in Key
    PROVE  /\ Find(t, k) # None => /\ Find(t, k) \in Occupied(t)
                                   /\ KeysEqual(t[Find(t, k)].key, k)
           /\ \A j \in Occupied(t) : KeysEqual(t[j].key, k) => Find(t, k) # None
<1> DEFINE h == HomeIn(C, k)
           At(d) == (Home(t, k) + d - 1) % Capacity(t)
           Matches(d) == t[At(d)].dist = d /\ KeysEqual(t[At(d)].key, k)
           Stops(d) == t[At(d)].dist < d \/ Matches(d)
           T == {e \in 1 .. Capacity(t) + 1 : Stops(e)}
           m == Min(T)
<1>1. t \in Tables(C) /\ C \in Nat \ {0} /\ Capacity(t) = C /\ DOMAIN t = Ring(C)
    BY TableShape DEF InOrder, Tables
<1>2. h \in Ring(C) /\ \A d : At(d) = Spot(C, h, d)
    BY <1>1, HomeInRing DEF Home, HomeIn, Spot
<1>3. Find(t, k) = IF Occupied(t) # {} /\ Matches(m) THEN At(m) ELSE None
    BY DEF Find
<1>4. \A d \in 1 .. C : At(d) \in Ring(C)
    BY <1>1, <1>2, OneStep
<1>5. \A i \in Ring(C) : t[i].dist \in Nat /\ t[i].dist <= C - 1
    <2>1. \A i \in Ring(C) : t[i].dist <= C - 1
        BY <1>1, NoneFarther
    <2>2. \A i \in Ring(C) : t[i].dist \in Nat
        BY <1>1, DistanceAssumption DEF Tables, Bucket
    <2> QED
        BY <2>1, <2>2
<1> HIDE DEF At, h
<1>6. C \in T
    <2>1. At(C) \in Ring(C)
        BY <1>1, <1>4
    <2>2. t[At(C)].dist < C
        BY <1>5, <2>1
    <2> QED
        BY <1>1, <2>2
<1>7. m \in T /\ \A e \in T : m <= e
    <2>1. T \in SUBSET Nat /\ T # {}
        BY <1>1, <1>6
    <2> HIDE DEF T
    <2> QED
        BY <2>1, LeastStop
<1> HIDE DEF m
<1>8. m \in 1 .. C
    BY <1>1, <1>6, <1>7
<1>9. m \in Nat /\ Stops(m) /\ At(m) \in Ring(C)
    BY <1>4, <1>7, <1>8
<1>10. ASSUME Find(t, k) # None
       PROVE  Find(t, k) \in Occupied(t) /\ KeysEqual(t[Find(t, k)].key, k)
    <2>1. Matches(m) /\ Find(t, k) = At(m)
        BY <1>3, <1>10
    <2>2. t[At(m)].dist # 0
        BY <1>8, <2>1
    <2> QED
        BY <1>1, <1>9, <2>1, <2>2 DEF Occupied
<1>11. ASSUME NEW j \in Occupied(t), KeysEqual(t[j].key, k)
       PROVE  Find(t, k) # None
    <2> DEFINE q == t[j].dist
    <2>1. j \in Ring(C) /\ q # 0 /\ q \in Nat /\ q <= C - 1
        BY <1>1, <1>5 DEF Occupied
    <2>2. q \in 1 .. C
        BY <2>1
    <2>3. t[j].key \in Key /\ j = Spot(C, HomeIn(C, t[j].key), q)
        BY <2>1 DEF InOrder, AtHome
    <2>4. At(q) = j
        BY <1>2, <1>11, <2>3 DEF KeysEqual, HomeIn, h
    <2>5. Matches(q)
        BY <1>11, <2>4
    <2>6. m <= q
        BY <1>1, <1>7, <2>2, <2>5
    <2> DEFINE R == {n \in Nat : n < q => t[At(q - n)].dist >= q - n}
    <2> HIDE DEF q
    <2>7. 0 \in R
        BY <2>1, <2>2, <2>4 DEF q
    <2>8. ASSUME NEW n \in Nat, n \in R
          PROVE  n + 1 \in R
        <3> SUFFICES ASSUME n + 1 < q
                     PROVE  t[At(q - (n + 1))].dist >= q - (n + 1)
            OBVIOUS
        <3> DEFINE e == q - (n + 1)
        <3>1. e \in 1 .. C /\ e + 1 \in 1 .. C /\ q - n = e + 1
            BY <2>1
        <3> HIDE DEF e
        <3>2. t[At(e + 1)].dist >= e + 1
            <4>1. t[At(q - n)].dist >= q - n
                BY <2>1, <2>8
            <4> QED
                BY <3>1, <4>1
        <3>3. At(e + 1) \in Ring(C) /\ At(e) \in Ring(C) /\ Prev(C, At(e + 1)) = At(e)
            BY <1>1, <1>2, <1>4, <3>1, OneStep
        <3>4. Follows(t[At(e + 1)], t[At(e)])
            BY <3>3 DEF InOrder
        <3>5. t[At(e)].dist \in Nat /\ t[At(e + 1)].dist \in Nat
            BY <1>5, <3>3
        <3>6. t[At(e)].dist >= e
            BY <3>1, <3>2, <3>4, <3>5 DEF Follows
        <3> QED
            BY <3>6 DEF e
    <2>9. t[At(m)].dist >= m
        <3>1. Nat \subseteq R
            <4> HIDE DEF R
            <4> QED
                BY <2>7, <2>8, Induction
        <3>2. q - m \in Nat /\ q - (q - m) = m /\ q - m < q
            BY <1>8, <2>1, <2>6
        <3> QED
            BY <3>1, <3>2
    <2>10. Matches(m)
        BY <1>5, <1>9, <2>9
    <2>11. At(m) # None
        BY <1>9, NoneAssumption DEF Ring
    <2> HIDE DEF Matches
    <2> QED
        BY <1>3, <2>10, <2>11
<1> QED
    BY <1>10, <1>11

\* Without a table there is nothing to find.
LEMMA FindNothing ==
    ASSUME NEW k \in Key
    PROVE  Find(NoTable, k) = None
BY FirstGrow DEF Find

\* A value stored in the place of another leaves the order as it is.
LEMMA OverwriteKeeps ==
    ASSUME NEW C \in Nat \ {0}, NEW t, InOrder(C, t), NEW i \in Occupied(t), NEW x \in Val,
           NEW u \in Tables(C), \A j \in Ring(C) : j # i => u[j] = t[j],
           u[i].dist = t[i].dist, u[i].key = t[i].key, u[i].val = x, NEW P
    PROVE  /\ InOrder(C, u) /\ Occupied(u) = Occupied(t) /\ Capacity(u) = Capacity(t)
           /\ Count(u, P) = Count(t, P) - Own(t[i], P) + (IF <<t[i].key, x>> \in P THEN 1 ELSE 0)
<1>1. t \in Tables(C) /\ DOMAIN t = Ring(C) /\ i \in Ring(C) /\ t[i].dist # 0
    BY DEF InOrder, Tables, Occupied
<1>2. /\ Count(u, P) = Count(t, P) - Own(t[i], P) + Own(u[i], P)
      /\ Occupied(u) = Occupied(t) \cup {i}
    BY <1>1, CountStored
<1>3. Own(u[i], P) = IF <<t[i].key, x>> \in P THEN 1 ELSE 0
    BY <1>1 DEF Own, Pair
<1>4. \A j \in Ring(C) : u[j].dist = t[j].dist /\ u[j].key = t[j].key
                         /\ u[j].val = IF j = i THEN x ELSE t[j].val
    OBVIOUS
<1>5. InOrder(C, u)
    <2>1. \A j \in Ring(C) : u[j].dist # 0 => AtHome(C, j, u[j])
        BY <1>4 DEF InOrder, AtHome
    <2>2. \A j \in Ring(C) : Prev(C, j) \in Ring(C)
        BY Around
    <2>3. \A j \in Ring(C) : Follows(u[j], u[Prev(C, j)])
        BY <1>4, <2>2 DEF InOrder, Follows
    <2> QED
        BY <2>1, <2>3 DEF InOrder
<1>6. Capacity(u) = Capacity(t)
    BY <1>1 DEF Capacity, Tables
<1> QED
    BY <1>1, <1>2, <1>3, <1>5, <1>6

-----------------------------------------------------------------------------
(* The map.                                                                *)

\* What the theorems assume of every step: an insertion, and the rebuilding it may need,
\* passes the assertion of map_insert_internal that no distance wraps, which it does in
\* tables of fewer buckets than there are distances.
DistancesHold ==
    \/ MaxCapacity < DistanceValues
    \/ \A k \in Key, v \in Val :
          InsertNew(k, v) =>
              /\ IsFull(table, len) => MovingFits(table, 2 * Capacity(table))
              /\ InsertFits(IF IsFull(table, len) THEN Grow(table) ELSE table, k, v)

-----------------------------------------------------------------------------
(* Tables, allocated or not.                                               *)

\* A table in order, with an empty bucket if it has any.
Sound(t) ==
    /\ Capacity(t) \in Nat \ {1} /\ Capacity(t) <= MaxCapacity
    /\ InOrder(Capacity(t), t)
    /\ Capacity(t) = 0 <=> t = NoTable
    /\ Capacity(t) # 0 => \E v \in Ring(Capacity(t)) : t[v].dist = 0

\* Before the first insertion the map is sound.
LEMMA NoTableSound ==
    /\ Sound(NoTable) /\ Occupied(NoTable) = {}
    /\ \A P : Count(NoTable, P) = 0
<1>1. Capacity(NoTable) = 0 /\ Occupied(NoTable) = {}
    BY FirstGrow
<1>2. Ring(0) = {} /\ DOMAIN NoTable = {}
    BY DEF Ring, NoTable
<1>3. NoTable = [i \in {} |-> Vacant]
    BY DEF NoTable
<1>4. NoTable \in Tables(0)
    BY <1>2, <1>3 DEF Tables
<1>5. InOrder(0, NoTable)
    BY <1>2, <1>4 DEF InOrder
<1>6. \A P : Count(NoTable, P) = 0
    <2> SUFFICES ASSUME NEW P
                 PROVE  Count(NoTable, P) = 0
        OBVIOUS
    <2>1. Having(NoTable, P) = {}
        BY <1>1 DEF Having
    <2> QED
        BY <2>1, FS_EmptySet DEF Count
<1> QED
    BY <1>1, <1>5, <1>6, BoundAssumption DEF Sound

\* What a sound table has: a capacity, an empty bucket, keys and values in the occupied
\* ones.
LEMMA SoundFacts ==
    ASSUME NEW t, Sound(t)
    PROVE  /\ t \in Tables(Capacity(t)) /\ DOMAIN t = Ring(Capacity(t))
           /\ Cardinality(Occupied(t)) \in Nat
           /\ \A P : Count(t, P) \in Nat
           /\ \A i \in Occupied(t) : /\ i \in Ring(Capacity(t)) /\ i \in Nat
                                     /\ t[i].key \in Key /\ t[i].val \in Val
           /\ Occupied(t) # {} => Capacity(t) # 0
           /\ Capacity(t) # 0 => Capacity(t) \in Nat \ {0, 1} /\ Cardinality(Occupied(t)) < Capacity(t)
<1> DEFINE C == Capacity(t)
<1>1. C \in Nat /\ t \in Tables(C) /\ DOMAIN t = Ring(C)
    BY DEF Sound, InOrder, Tables
<1>2. Cardinality(Occupied(t)) \in Nat /\ \A P : Count(t, P) \in Nat
    BY <1>1, HavingIsFinite
<1>3. \A i \in Occupied(t) : i \in Ring(C) /\ t[i].dist # 0
    BY <1>1 DEF Occupied
<1>4. \A i \in Occupied(t) : t[i].key \in Key /\ t[i].val \in Val
    BY <1>3 DEF Sound, InOrder, AtHome
<1>5. \A i \in Ring(C) : i \in Nat
    BY <1>1 DEF Ring
<1>6. Occupied(t) # {} => C # 0
    BY <1>3 DEF Ring
<1>7. C # 0 => C \in Nat \ {0, 1} /\ Cardinality(Occupied(t)) < C
    <2> SUFFICES ASSUME C # 0
                 PROVE  C \in Nat \ {0, 1} /\ Cardinality(Occupied(t)) < C
        OBVIOUS
    <2>1. C \in Nat \ {0, 1} /\ C \in Nat \ {0}
        BY DEF Sound
    <2>2. \E v \in Ring(C) : t[v].dist = 0
        BY DEF Sound
    <2> HIDE DEF C
    <2> QED
        BY <1>1, <2>1, <2>2, SomeVacancy
<1> QED
    BY <1>1, <1>2, <1>3, <1>4, <1>5, <1>6, <1>7

\* A new table, with nothing in it.
LEMMA NewSound ==
    ASSUME NEW C \in Nat \ {0, 1}, C <= MaxCapacity
    PROVE  /\ Sound(Vacancies(C)) /\ Capacity(Vacancies(C)) = C /\ Occupied(Vacancies(C)) = {}
           /\ \A P : Count(Vacancies(C), P) = 0
<1> DEFINE t == Vacancies(C)
<1>1. /\ InOrder(C, t) /\ \A P : Count(t, P) = 0
      /\ Occupied(t) = {} /\ \A i \in Ring(C) : t[i].dist = 0
    BY EmptyInOrder
<1> HIDE DEF t
<1>2. DOMAIN t = Ring(C) /\ Capacity(t) = C
    BY <1>1, TableShape DEF InOrder, Tables
<1>3. 0 \in Ring(C) /\ t # NoTable
    <2>1. 0 \in Ring(C)
        BY DEF Ring
    <2>2. 0 \notin DOMAIN NoTable
        BY DEF NoTable
    <2> QED
        BY <1>2, <2>1, <2>2
<1> QED
    BY <1>1, <1>2, <1>3 DEF Sound, t

\* A table of no entries that keeps its capacity, or stays unallocated.
LEMMA ClearedSound ==
    ASSUME NEW t, Sound(t)
    PROVE  /\ Sound(Vacancies(Capacity(t))) /\ Capacity(Vacancies(Capacity(t))) = Capacity(t)
           /\ Occupied(Vacancies(Capacity(t))) = {}
           /\ \A P : Count(Vacancies(Capacity(t)), P) = 0
<1>1. CASE Capacity(t) # 0
    <2>1. Capacity(t) \in Nat \ {0, 1} /\ Capacity(t) <= MaxCapacity
        BY <1>1 DEF Sound
    <2> DEFINE C == Capacity(t)
    <2> HIDE DEF C
    <2>2. C \in Nat \ {0, 1} /\ C <= MaxCapacity
        BY <2>1 DEF C
    <2>3. /\ Sound(Vacancies(C)) /\ Capacity(Vacancies(C)) = C /\ Occupied(Vacancies(C)) = {}
          /\ \A P : Count(Vacancies(C), P) = 0
        BY <2>2, NewSound
    <2> QED
        BY <2>3 DEF C
<1>2. CASE Capacity(t) = 0
    <2>1. Vacancies(0) = NoTable
        BY DEF Vacancies, NoTable
    <2>2. Capacity(NoTable) = 0
        BY FirstGrow
    <2> QED
        BY <1>2, <2>1, <2>2, NoTableSound
<1> QED
    BY <1>1, <1>2

\* roxy_map_insert of a key that is not there, rebuilding the table when it is full.
LEMMA InsertedSound ==
    ASSUME NEW t, Sound(t), NEW n, n = Cardinality(Occupied(t)),
           NEW r, r = (IF IsFull(t, n) THEN Grow(t) ELSE t), Capacity(r) <= MaxCapacity,
           NEW k \in Key, NEW x \in Val, InsertFits(r, k, x),
           IsFull(t, n) => MovingFits(t, 2 * Capacity(t))
    PROVE  LET u == InsertInternal(r, k, x)
           IN  /\ Sound(u) /\ u # NoTable
               /\ Cardinality(Occupied(u)) = n + 1
               /\ \A P : Count(u, P) = Count(t, P) + (IF <<k, x>> \in P THEN 1 ELSE 0)
<1> DEFINE C == Capacity(t)
           D == Capacity(r)
           u == InsertInternal(r, k, x)
<1>1. n \in Nat /\ C \in Nat \ {1} /\ (C # 0 => n < C) /\ InOrder(C, t)
      /\ (C = 0 <=> t = NoTable) /\ \A P : Count(t, P) \in Nat
    BY SoundFacts DEF Sound
<1>2. /\ D \in Nat \ {0, 1} /\ n + 1 < D /\ InOrder(D, r)
      /\ \E v \in Ring(D) : r[v].dist = 0
      /\ \A P : Count(r, P) = Count(t, P)
    <2>1. CASE t = NoTable
        <3>1. r = Vacancies(InitialCapacity)
            BY <2>1, FirstGrow DEF IsFull
        <3>2. InitialCapacity \in Nat \ {0, 1} /\ InitialCapacity \in Nat \ {0}
            BY CapacityAssumption
        <3> DEFINE I == InitialCapacity
        <3> HIDE DEF I
        <3>3. InOrder(I, Vacancies(I)) /\ \A i \in Ring(I) : Vacancies(I)[i].dist = 0
            BY <3>2, EmptyInOrder DEF I
        <3>4. D = I /\ 0 \in Ring(I)
            BY <3>1, <3>2, <3>3, TableShape DEF InOrder, Tables, Ring, I
        <3>5. n = 0 /\ \A P : Count(t, P) = 0
            BY <2>1, NoTableSound, FS_EmptySet
        <3>6. \A P : Count(r, P) = 0
            BY <3>1, <3>2, EmptyInOrder
        <3> HIDE DEF D
        <3>7. D \in Nat \ {0, 1} /\ n + 1 < D
            BY <3>2, <3>4, <3>5 DEF I
        <3>8. InOrder(D, r) /\ \E v \in Ring(D) : r[v].dist = 0
            BY <3>1, <3>3, <3>4 DEF I
        <3> QED
            BY <3>5, <3>6, <3>7, <3>8 DEF D
    <2>2. CASE t # NoTable /\ IsFull(t, n)
        <3>1. C \in Nat \ {0, 1} /\ r = Grow(t)
            BY <1>1, <2>2
        <3>3. MovingFits(t, 2 * C)
            BY <2>2
        <3> HIDE DEF C
        <3>2. D = 2 * C
            BY <1>1, <3>1, GrowKeeps
        <3>4. /\ InOrder(2 * C, r) /\ \E v \in Ring(2 * C) : r[v].dist = 0
              /\ \A P : Count(r, P) = Count(t, P)
            BY <1>1, <3>1, <3>3, GrowKeeps
        <3>5. 2 * C \in Nat \ {0, 1} /\ n + 1 < 2 * C
            BY <1>1, <3>1
        <3> HIDE DEF D
        <3> QED
            BY <3>2, <3>4, <3>5
    <2>3. CASE t # NoTable /\ ~IsFull(t, n)
        <3>1. C \in Nat \ {0, 1} /\ r = t /\ D = C
            BY <1>1, <2>3
        <3>2. ~(n + 1 > (C * 4) \div 5)
            BY <2>3 DEF IsFull
        <3>3. \E v \in Ring(C) : t[v].dist = 0
            BY <3>1 DEF Sound
        <3> HIDE DEF C, D
        <3>4. n + 1 < C
            BY <1>1, <3>1, <3>2
        <3> QED
            BY <1>1, <3>1, <3>3, <3>4
    <2> QED
        BY <2>1, <2>2, <2>3
<1>3. D <= MaxCapacity
    OBVIOUS
<1> HIDE DEF D
<1>5. /\ InOrder(D, u)
      /\ \A P : Count(u, P) = Count(r, P) + (IF <<k, x>> \in P THEN 1 ELSE 0)
    BY <1>2, InsertKeeps
<1> HIDE DEF u
<1>6. Capacity(u) = D /\ u \in Tables(D) /\ D \in Nat
    BY <1>2, <1>5, TableShape DEF InOrder, Tables
<1>7. Cardinality(Occupied(u)) = n + 1
    <2> DEFINE All == Key \X Val
    <2>1. Count(u, All) = Cardinality(Occupied(u)) /\ Count(t, All) = n
        <3>1. Count(t, All) = Cardinality(Occupied(t))
            BY <1>1, CountAll
        <3> QED
            BY <1>5, <1>6, <3>1, CountAll
    <2>2. <<k, x>> \in All
        OBVIOUS
    <2> HIDE DEF All
    <2> QED
        BY <1>1, <1>2, <1>5, <2>1, <2>2
<1>8. \E v \in Ring(D) : u[v].dist = 0
    <2>1. Cardinality(Occupied(u)) < D /\ D \in Nat \ {0}
        BY <1>2, <1>7
    <2> QED
        BY <1>6, <2>1, SomeVacancy
<1>9. u # NoTable
    <2>1. Capacity(NoTable) = 0
        BY FirstGrow
    <2> QED
        BY <1>2, <1>6, <2>1
<1>10. Sound(u)
    BY <1>2, <1>3, <1>5, <1>6, <1>8, <1>9 DEF Sound
<1>11. \A P : Count(u, P) = Count(t, P) + (IF <<k, x>> \in P THEN 1 ELSE 0)
    BY <1>2, <1>5
<1> QED
    BY <1>7, <1>9, <1>10, <1>11 DEF u

Overwritten(t, i, x) == [t EXCEPT ![i].val = x]

\* A value stored in the place of another keeps the table sound.
LEMMA OverwrittenSound ==
    ASSUME NEW t, Sound(t), NEW i \in Occupied(t), NEW x \in Val
    PROVE  LET u == Overwritten(t, i, x)
           IN  /\ Sound(u) /\ Capacity(u) = Capacity(t) /\ Occupied(u) = Occupied(t)
               /\ \A j \in Occupied(t) : /\ u[j].key = t[j].key
                                         /\ u[j].val = IF j = i THEN x ELSE t[j].val
               /\ \A P : Count(u, P) = Count(t, P) - (IF Pair(t[i]) \in P THEN 1 ELSE 0)
                                       + (IF <<t[i].key, x>> \in P THEN 1 ELSE 0)
<1> DEFINE C == Capacity(t)
           u == [t EXCEPT ![i].val = x]
<1>1. C \in Nat \ {0} /\ InOrder(C, t) /\ C <= MaxCapacity /\ t # NoTable /\ C # 1
      /\ \E v \in Ring(C) : t[v].dist = 0
    BY SoundFacts DEF Sound
<1>2. /\ DOMAIN t = Ring(C) /\ i \in Ring(C) /\ t[i].dist # 0
      /\ \A j \in Occupied(t) : j \in Ring(C)
    BY SoundFacts DEF Occupied
<1> HIDE DEF C
<1>0. /\ u \in Tables(C) /\ u[i].dist = t[i].dist /\ u[i].key = t[i].key /\ u[i].val = x
      /\ \A j \in Ring(C) : j # i => u[j] = t[j]
    <2> DEFINE e == t[i]
               b == [e EXCEPT !.val = x]
    <2>1. t \in Tables(C) /\ e \in Bucket
        BY <1>1, <1>2 DEF InOrder, Tables
    <2>2. u = [t EXCEPT ![i] = b]
        OBVIOUS
    <2> HIDE DEF e
    <2>3. b \in Bucket /\ b.dist = e.dist /\ b.key = e.key /\ b.val = x
        BY <2>1 DEF Bucket
    <2> HIDE DEF b
    <2>4. u[i] = b /\ u \in Tables(C) /\ \A j \in Ring(C) : j # i => u[j] = t[j]
        BY <1>2, <2>1, <2>2, <2>3 DEF Tables
    <2> QED
        BY <2>3, <2>4 DEF e
<1> HIDE DEF u
<1>3. /\ InOrder(C, u) /\ Occupied(u) = Occupied(t) /\ Capacity(u) = Capacity(t)
      /\ \A P : Count(u, P) = Count(t, P) - Own(t[i], P)
                                + (IF <<t[i].key, x>> \in P THEN 1 ELSE 0)
    BY <1>0, <1>1, OverwriteKeeps
<1>4. \A P : Own(t[i], P) = IF Pair(t[i]) \in P THEN 1 ELSE 0
    BY <1>2 DEF Own
<1>5. DOMAIN u = Ring(C)
    BY <1>3 DEF InOrder, Tables
<1>6. \E v \in Ring(C) : u[v].dist = 0
    <2>1. PICK v \in Ring(C) : t[v].dist = 0
        BY <1>1
    <2>2. v \notin Occupied(u)
        BY <1>3, <2>1 DEF Occupied
    <2> QED
        BY <1>5, <2>2 DEF Occupied
<1>7. u # NoTable
    <2>1. Capacity(NoTable) = 0
        BY FirstGrow
    <2> QED
        BY <1>1, <1>3, <2>1 DEF C
<1>8. Sound(u)
    BY <1>1, <1>3, <1>6, <1>7 DEF Sound, C
<1> QED
    BY <1>0, <1>2, <1>3, <1>4, <1>8 DEF u, Overwritten

\* Taking an entry out and closing the gap keeps the table sound.
LEMMA RemovedSound ==
    ASSUME NEW t, Sound(t), NEW i \in Occupied(t)
    PROVE  LET u == ShiftBack(t, i)
           IN  /\ Sound(u) /\ Capacity(u) = Capacity(t)
               /\ Cardinality(Occupied(u)) = Cardinality(Occupied(t)) - 1
               /\ \A P : Count(u, P) = Count(t, P) - (IF Pair(t[i]) \in P THEN 1 ELSE 0)
<1> DEFINE C == Capacity(t)
           u == ShiftBack(t, i)
           All == Key \X Val
<1>1. C \in Nat \ {0, 1} /\ InOrder(C, t) /\ C <= MaxCapacity /\ t # NoTable
      /\ \E v \in Ring(C) : t[v].dist = 0
    BY SoundFacts DEF Sound
<1>2. /\ DOMAIN t = Ring(C) /\ i \in Ring(C) /\ t[i].dist # 0
      /\ t[i].key \in Key /\ t[i].val \in Val /\ Cardinality(Occupied(t)) \in Nat
      /\ Cardinality(Occupied(t)) < C /\ \A P : Count(t, P) \in Nat
    BY SoundFacts DEF Occupied
<1> HIDE DEF C
<1>3. InOrder(C, u) /\ \A P : Count(u, P) = Count(t, P) - Own(t[i], P)
    BY <1>1, <1>2, ShiftBackKeeps
<1>4. \A P : Own(t[i], P) = IF Pair(t[i]) \in P THEN 1 ELSE 0
    BY <1>2 DEF Own
<1> HIDE DEF u
<1>5. Capacity(u) = C /\ u \in Tables(C) /\ C \in Nat
    BY <1>1, <1>3, TableShape DEF InOrder, Tables
<1>6. Cardinality(Occupied(u)) = Cardinality(Occupied(t)) - 1
    <2>1. Count(u, All) = Cardinality(Occupied(u)) /\ Count(t, All) = Cardinality(Occupied(t))
        BY <1>1, <1>3, <1>5, CountAll
    <2>2. Pair(t[i]) \in All
        BY <1>2 DEF Pair
    <2> HIDE DEF All
    <2> QED
        BY <1>3, <1>4, <2>1, <2>2
<1>7. \E v \in Ring(C) : u[v].dist = 0
    <2>1. Cardinality(Occupied(u)) < C /\ C \in Nat \ {0}
        BY <1>1, <1>2, <1>6
    <2> QED
        BY <1>5, <2>1, SomeVacancy
<1>8. u # NoTable
    <2>1. Capacity(NoTable) = 0
        BY FirstGrow
    <2> QED
        BY <1>1, <1>5, <2>1
<1>9. Sound(u)
    BY <1>1, <1>3, <1>5, <1>7, <1>8 DEF Sound
<1> QED
    BY <1>3, <1>4, <1>5, <1>6, <1>9 DEF u, C

\* A search in any table.
LEMMA Search ==
    ASSUME NEW t, Sound(t), NEW k \in Key
    PROVE  /\ Find(t, k) # None => /\ Find(t, k) \in Occupied(t)
                                   /\ KeysEqual(t[Find(t, k)].key, k)
           /\ \A j \in Occupied(t) : KeysEqual(t[j].key, k) => Find(t, k) # None
<1>1. CASE t = NoTable
    BY <1>1, FindNothing, FirstGrow
<1>2. CASE t # NoTable
    <2> DEFINE C == Capacity(t)
    <2>1. C \in Nat \ {0, 1} /\ InOrder(C, t) /\ \E v \in Ring(C) : t[v].dist = 0
        BY <1>2, SoundFacts DEF Sound
    <2> HIDE DEF C
    <2> QED
        BY <2>1, FindKey
<1> QED
    BY <1>1, <1>2

-----------------------------------------------------------------------------
(* What is held of keys and values.                                        *)

OfKey(k) == {k} \X Val
OfVal(v) == Key \X {v}
OfClass(c) == {p \in Key \X Val : Content[p[1]] = c}

\* The counts a table holds are the numbers of its entries with that key and with that
\* value.
LEMMA HeldByTable ==
    ASSUME NEW t, Sound(t)
    PROVE  /\ KeysIn(t) \in [Key -> Nat] /\ ValsIn(t) \in [Val -> Nat]
           /\ \A k \in Key : KeysIn(t)[k] = IF Counted THEN Count(t, OfKey(k)) ELSE 0
           /\ \A v \in Val : ValsIn(t)[v] = IF ByReference THEN Count(t, OfVal(v)) ELSE 0
<1>1. \A P : Count(t, P) \in Nat
    BY SoundFacts
<1>2. \A i \in Occupied(t) : t[i].key \in Key /\ t[i].val \in Val
    BY SoundFacts
<1>3. ASSUME NEW k \in Key
      PROVE  Count(t, OfKey(k)) = Cardinality({i \in Occupied(t) : t[i].key = k})
    <2>1. Having(t, OfKey(k)) = {i \in Occupied(t) : t[i].key = k}
        BY <1>2 DEF Having, OfKey, Pair
    <2> QED
        BY <2>1 DEF Count
<1>4. ASSUME NEW v \in Val
      PROVE  Count(t, OfVal(v)) = Cardinality({i \in Occupied(t) : t[i].val = v})
    <2>1. Having(t, OfVal(v)) = {i \in Occupied(t) : t[i].val = v}
        BY <1>2 DEF Having, OfVal, Pair
    <2> QED
        BY <2>1 DEF Count
<1>5. \A k \in Key : KeysIn(t)[k] = IF Counted THEN Count(t, OfKey(k)) ELSE 0
    BY <1>3 DEF KeysIn
<1>6. \A v \in Val : ValsIn(t)[v] = IF ByReference THEN Count(t, OfVal(v)) ELSE 0
    BY <1>4 DEF ValsIn
<1>7. KeysIn(t) \in [Key -> Nat]
    <2>1. \A k \in Key : KeysIn(t)[k] \in Nat
        BY <1>1, <1>5
    <2> QED
        BY <2>1 DEF KeysIn
<1>8. ValsIn(t) \in [Val -> Nat]
    <2>1. \A v \in Val : ValsIn(t)[v] \in Nat
        BY <1>1, <1>6
    <2> QED
        BY <2>1 DEF ValsIn
<1> QED
    BY <1>5, <1>6, <1>7, <1>8

\* A count is one more, or one less, for the one object if such objects are counted.
LEMMA RetainRelease ==
    ASSUME NEW S, NEW c \in [S -> Int], NEW x \in S, NEW counted
    PROVE  /\ Retain(c, x, counted) \in [S -> Int] /\ Release(c, x, counted) \in [S -> Int]
           /\ \A y \in S : /\ Retain(c, x, counted)[y]
                                = c[y] + (IF counted /\ y = x THEN 1 ELSE 0)
                           /\ Release(c, x, counted)[y]
                                = c[y] - (IF counted /\ y = x THEN 1 ELSE 0)
<1>1. CASE counted
    BY <1>1 DEF Retain, Release
<1>2. CASE ~counted
    BY <1>2 DEF Retain, Release
<1> QED
    BY <1>1, <1>2

\* An entry that comes, or goes, changes the holdings of its key and of its value.
LEMMA HeldChanged ==
    ASSUME NEW t, Sound(t), NEW u, Sound(u), NEW k \in Key, NEW x \in Val, NEW d \in Int,
           \A P : Count(u, P) = Count(t, P) + (IF <<k, x>> \in P THEN d ELSE 0)
    PROVE  /\ \A y \in Key : KeysIn(u)[y] = KeysIn(t)[y] + (IF Counted /\ y = k THEN d ELSE 0)
           /\ \A z \in Val : ValsIn(u)[z] = ValsIn(t)[z] + (IF ByReference /\ z = x THEN d ELSE 0)
<1>1. ASSUME NEW y \in Key
      PROVE  KeysIn(u)[y] = KeysIn(t)[y] + (IF Counted /\ y = k THEN d ELSE 0)
    <2>1. <<k, x>> \in OfKey(y) <=> y = k
        BY DEF OfKey
    <2>2. Count(t, OfKey(y)) \in Nat
        BY SoundFacts
    <2>3. Count(u, OfKey(y)) = Count(t, OfKey(y)) + (IF <<k, x>> \in OfKey(y) THEN d ELSE 0)
        OBVIOUS
    <2>4. /\ KeysIn(t)[y] = IF Counted THEN Count(t, OfKey(y)) ELSE 0
          /\ KeysIn(u)[y] = IF Counted THEN Count(u, OfKey(y)) ELSE 0
        BY HeldByTable
    <2> QED
        BY ONLY <2>1, <2>2, <2>3, <2>4, d \in Int
<1>2. ASSUME NEW z \in Val
      PROVE  ValsIn(u)[z] = ValsIn(t)[z] + (IF ByReference /\ z = x THEN d ELSE 0)
    <2>1. <<k, x>> \in OfVal(z) <=> z = x
        BY DEF OfVal
    <2>2. Count(t, OfVal(z)) \in Nat
        BY SoundFacts
    <2>3. Count(u, OfVal(z)) = Count(t, OfVal(z)) + (IF <<k, x>> \in OfVal(z) THEN d ELSE 0)
        OBVIOUS
    <2>4. /\ ValsIn(t)[z] = IF ByReference THEN Count(t, OfVal(z)) ELSE 0
          /\ ValsIn(u)[z] = IF ByReference THEN Count(u, OfVal(z)) ELSE 0
        BY HeldByTable
    <2> QED
        BY ONLY <2>1, <2>2, <2>3, <2>4, d \in Int
<1> QED
    BY <1>1, <1>2

-----------------------------------------------------------------------------
(* The invariant.                                                          *)

TableInv ==
    /\ Sound(table)
    /\ len = Cardinality(Occupied(table))
    /\ ~alive => table = NoTable

\* Keys that can be found are there once.
KeysInv == \A c \in Class \ Unequal : Count(table, OfClass(c)) <= 1

\* As many pins as borrows, each of a bucket that holds what it was taken of.
BorrowInv ==
    /\ borrows \in Seq([key : Key, pos : Nat, of : Nat])
    /\ pins = Len(borrows)
    /\ \A n \in 1 .. Len(borrows) :
          /\ alive /\ Capacity(table) = borrows[n].of
          /\ borrows[n].pos \in Occupied(table)
          /\ table[borrows[n].pos].key = borrows[n].key
          /\ Content[borrows[n].key] \notin Unequal

\* Every count is that of the holders, counted or not.
CountInv ==
    /\ held \subseteq Key
    /\ product \in [keys : [Key -> Nat], vals : [Val -> Nat]]
    /\ key_count \in [Key -> Int] /\ val_count \in [Val -> Int]
    /\ \A k \in Key :
          key_count[k] = (IF k \in held THEN 1 ELSE 0) + KeysIn(table)[k] + product.keys[k]
    /\ \A v \in Val : val_count[v] = ValsIn(table)[v] + product.vals[v]

Inv ==
    /\ alive \in BOOLEAN /\ trapped \in BOOLEAN
    /\ TableInv /\ KeysInv /\ BorrowInv /\ CountInv

\* The invariant holds of the empty map.
LEMMA InitInv == Init => Inv
<1> SUFFICES ASSUME Init
             PROVE  Inv
    OBVIOUS
<1>1. table = NoTable /\ borrows = <<>> /\ pins = 0 /\ len = 0 /\ product = NoProduct
      /\ alive = TRUE /\ trapped = FALSE
    BY DEF Init
<1>2. Sound(NoTable) /\ Occupied(NoTable) = {} /\ \A P : Count(NoTable, P) = 0
    BY NoTableSound
<1>3. TableInv /\ KeysInv
    BY <1>1, <1>2, FS_EmptySet DEF TableInv, KeysInv
<1>4. BorrowInv
    BY <1>1 DEF BorrowInv
<1>5. /\ \A k \in Key : KeysIn(table)[k] = 0
      /\ \A v \in Val : ValsIn(table)[v] = 0
    BY <1>1, <1>2, HeldByTable
<1>6. CountInv
    BY <1>1, <1>5 DEF CountInv, Init, NoProduct, NoBag
<1> QED
    BY <1>1, <1>3, <1>4, <1>6 DEF Inv

\* A value is stored over that of the entry at bucket i.
LEMMA OverwriteInv ==
    ASSUME Inv, NEW i \in Occupied(table), NEW v \in Val,
           val_count' = Retain(Release(val_count, table[i].val, ByReference), v, ByReference),
           table' = [table EXCEPT ![i].val = v],
           UNCHANGED <<alive, len, borrows, pins, trapped, held, key_count, product>>
    PROVE  Inv'
<1> DEFINE k == table[i].key
           x == table[i].val
<1>1. Sound(table) /\ k \in Key /\ x \in Val
    BY SoundFacts DEF Inv, TableInv
<1>2. /\ Sound(table') /\ Capacity(table') = Capacity(table) /\ Occupied(table') = Occupied(table)
      /\ \A j \in Occupied(table) : table'[j].key = table[j].key
      /\ \A P : Count(table', P) = Count(table, P) - (IF <<k, x>> \in P THEN 1 ELSE 0)
                                   + (IF <<k, v>> \in P THEN 1 ELSE 0)
    <2>1. table' = Overwritten(table, i, v)
        BY DEF Overwritten
    <2> QED
        BY ONLY <1>1, <2>1, i \in Occupied(table), v \in Val, OverwrittenSound DEF Pair
<1> HIDE DEF k, x
<1>3. TableInv'
    BY <1>2, FirstGrow DEF Inv, TableInv, Sound
<1>4. KeysInv'
    <2> SUFFICES ASSUME NEW c \in Class \ Unequal
                 PROVE  Count(table', OfClass(c)) <= 1
        BY DEF KeysInv
    <2>1. <<k, x>> \in OfClass(c) <=> <<k, v>> \in OfClass(c)
        BY <1>1 DEF OfClass
    <2>2. Count(table, OfClass(c)) \in Nat /\ Count(table, OfClass(c)) <= 1
        BY <1>1, SoundFacts DEF Inv, KeysInv
    <2>3. Count(table', OfClass(c)) = Count(table, OfClass(c))
                - (IF <<k, x>> \in OfClass(c) THEN 1 ELSE 0)
                + (IF <<k, v>> \in OfClass(c) THEN 1 ELSE 0)
        BY <1>2
    <2> QED
        BY ONLY <2>1, <2>2, <2>3
<1>5. BorrowInv'
    BY <1>2 DEF Inv, BorrowInv
<1>6. \A y \in Key : KeysIn(table')[y] = KeysIn(table)[y]
    <2> SUFFICES ASSUME NEW y \in Key
                 PROVE  KeysIn(table')[y] = KeysIn(table)[y]
        OBVIOUS
    <2>1. <<k, x>> \in OfKey(y) <=> <<k, v>> \in OfKey(y)
        BY <1>1 DEF OfKey
    <2>2. Count(table, OfKey(y)) \in Nat
        BY <1>1, SoundFacts
    <2>3. Count(table', OfKey(y)) = Count(table, OfKey(y))
        <3>1. Count(table', OfKey(y)) = Count(table, OfKey(y))
                    - (IF <<k, x>> \in OfKey(y) THEN 1 ELSE 0)
                    + (IF <<k, v>> \in OfKey(y) THEN 1 ELSE 0)
            BY <1>2
        <3> QED
            BY ONLY <2>1, <2>2, <3>1
    <2> QED
        BY <1>1, <1>2, <2>3, HeldByTable
<1>7. \A z \in Val : ValsIn(table')[z] = ValsIn(table)[z]
                        - (IF ByReference /\ z = x THEN 1 ELSE 0)
                        + (IF ByReference /\ z = v THEN 1 ELSE 0)
    <2> SUFFICES ASSUME NEW z \in Val
                 PROVE  ValsIn(table')[z] = ValsIn(table)[z]
                            - (IF ByReference /\ z = x THEN 1 ELSE 0)
                            + (IF ByReference /\ z = v THEN 1 ELSE 0)
        OBVIOUS
    <2>1. (<<k, x>> \in OfVal(z) <=> z = x) /\ (<<k, v>> \in OfVal(z) <=> z = v)
        BY <1>1 DEF OfVal
    <2>2. Count(table, OfVal(z)) \in Nat
        BY <1>1, SoundFacts
    <2>3. Count(table', OfVal(z)) = Count(table, OfVal(z)) - (IF z = x THEN 1 ELSE 0)
                                    + (IF z = v THEN 1 ELSE 0)
        BY <1>2, <2>1, <2>2
    <2>4. /\ ValsIn(table)[z] = IF ByReference THEN Count(table, OfVal(z)) ELSE 0
          /\ ValsIn(table')[z] = IF ByReference THEN Count(table', OfVal(z)) ELSE 0
        BY <1>1, <1>2, HeldByTable
    <2> QED
        BY <2>2, <2>3, <2>4
<1>8. /\ val_count' \in [Val -> Int]
      /\ \A z \in Val : val_count'[z] = val_count[z] - (IF ByReference /\ z = x THEN 1 ELSE 0)
                                        + (IF ByReference /\ z = v THEN 1 ELSE 0)
    <2> DEFINE c == Release(val_count, x, ByReference)
    <2>1. val_count \in [Val -> Int]
        BY DEF Inv, CountInv
    <2>2. /\ c \in [Val -> Int]
          /\ \A z \in Val : c[z] = val_count[z] - (IF ByReference /\ z = x THEN 1 ELSE 0)
        BY <1>1, <2>1, RetainRelease
    <2>3. val_count' = Retain(c, v, ByReference)
        BY DEF x
    <2> HIDE DEF c
    <2> QED
        BY <2>2, <2>3, RetainRelease
<1>9. CountInv'
    <2>1. ValsIn(table) \in [Val -> Nat] /\ ValsIn(table') \in [Val -> Nat]
        BY <1>1, <1>2, HeldByTable
    <2>2. product \in [keys : [Key -> Nat], vals : [Val -> Nat]] /\ val_count \in [Val -> Int]
        BY DEF Inv, CountInv
    <2>3. ASSUME NEW z \in Val
          PROVE  val_count'[z] = ValsIn(table')[z] + product.vals[z]
        <3>1. val_count[z] = ValsIn(table)[z] + product.vals[z]
            BY DEF Inv, CountInv
        <3>2. val_count[z] \in Int /\ ValsIn(table)[z] \in Nat /\ ValsIn(table')[z] \in Nat
              /\ product.vals[z] \in Nat
            BY <2>1, <2>2
        <3> QED
            BY ONLY <1>7, <1>8, <3>1, <3>2, z \in Val
    <2> QED
        BY <1>6, <1>8, <2>3 DEF Inv, CountInv
<1> QED
    BY <1>3, <1>4, <1>5, <1>9 DEF Inv

\* Counts that follow the holdings of the table, key by key and value by value.
LEMMA CountsFollow ==
    ASSUME Inv, Sound(table'), NEW d \in [Key -> Int], NEW e \in [Val -> Int],
           \A y \in Key : KeysIn(table')[y] = KeysIn(table)[y] + d[y],
           \A z \in Val : ValsIn(table')[z] = ValsIn(table)[z] + e[z],
           key_count' \in [Key -> Int], \A y \in Key : key_count'[y] = key_count[y] + d[y],
           val_count' \in [Val -> Int], \A z \in Val : val_count'[z] = val_count[z] + e[z],
           UNCHANGED <<held, product>>
    PROVE  CountInv'
<1>1. /\ KeysIn(table) \in [Key -> Nat] /\ ValsIn(table) \in [Val -> Nat]
      /\ product \in [keys : [Key -> Nat], vals : [Val -> Nat]]
      /\ key_count \in [Key -> Int] /\ val_count \in [Val -> Int]
    BY HeldByTable DEF Inv, TableInv, CountInv
<1>2. ASSUME NEW y \in Key
      PROVE  key_count'[y] = (IF y \in held THEN 1 ELSE 0) + KeysIn(table')[y] + product.keys[y]
    <2> DEFINE h == IF y \in held THEN 1 ELSE 0
    <2>1. key_count[y] = h + KeysIn(table)[y] + product.keys[y] /\ h \in Nat
        BY DEF Inv, CountInv
    <2>2. KeysIn(table)[y] \in Nat /\ product.keys[y] \in Nat /\ key_count[y] \in Int /\ d[y] \in Int
        BY <1>1
    <2>3. KeysIn(table')[y] = KeysIn(table)[y] + d[y] /\ key_count'[y] = key_count[y] + d[y]
        OBVIOUS
    <2> HIDE DEF h
    <2>4. key_count'[y] = h + KeysIn(table')[y] + product.keys[y]
        BY ONLY <2>1, <2>2, <2>3
    <2> QED
        BY <2>4 DEF h
<1>3. ASSUME NEW z \in Val
      PROVE  val_count'[z] = ValsIn(table')[z] + product.vals[z]
    <2>1. val_count[z] = ValsIn(table)[z] + product.vals[z]
        BY DEF Inv, CountInv
    <2>2. ValsIn(table)[z] \in Nat /\ product.vals[z] \in Nat /\ val_count[z] \in Int /\ e[z] \in Int
        BY <1>1
    <2>3. ValsIn(table')[z] = ValsIn(table)[z] + e[z] /\ val_count'[z] = val_count[z] + e[z]
        OBVIOUS
    <2> QED
        BY ONLY <2>1, <2>2, <2>3
<1> QED
    BY <1>1, <1>2, <1>3 DEF Inv, CountInv

\* Only the one object's count changes.
LEMMA OneFollows ==
    ASSUME Inv, Sound(table'), NEW k \in Key, NEW x \in Val, NEW d \in {1, -1},
           \A P : Count(table', P) = Count(table, P) + (IF <<k, x>> \in P THEN d ELSE 0),
           key_count' = IF d = 1 THEN Retain(key_count, k, Counted)
                                 ELSE Release(key_count, k, Counted),
           val_count' = IF d = 1 THEN Retain(val_count, x, ByReference)
                                 ELSE Release(val_count, x, ByReference),
           UNCHANGED <<held, product>>
    PROVE  CountInv'
<1> DEFINE a == [y \in Key |-> IF Counted /\ y = k THEN d ELSE 0]
           b == [z \in Val |-> IF ByReference /\ z = x THEN d ELSE 0]
<1>1. d \in Int /\ a \in [Key -> Int] /\ b \in [Val -> Int]
    OBVIOUS
<1>2. /\ \A y \in Key : KeysIn(table')[y] = KeysIn(table)[y] + a[y]
      /\ \A z \in Val : ValsIn(table')[z] = ValsIn(table)[z] + b[z]
    <2>1. Sound(table)
        BY DEF Inv, TableInv
    <2>2. /\ \A y \in Key : KeysIn(table')[y] = KeysIn(table)[y]
                                + (IF Counted /\ y = k THEN d ELSE 0)
          /\ \A z \in Val : ValsIn(table')[z] = ValsIn(table)[z]
                                + (IF ByReference /\ z = x THEN d ELSE 0)
        BY ONLY <1>1, <2>1, Sound(table'), k \in Key, x \in Val, HeldChanged,
           \A P : Count(table', P) = Count(table, P) + (IF <<k, x>> \in P THEN d ELSE 0)
    <2> QED
        BY <2>2
<1>3. key_count \in [Key -> Int] /\ val_count \in [Val -> Int]
    BY DEF Inv, CountInv
<1>4. key_count' \in [Key -> Int] /\ \A y \in Key : key_count'[y] = key_count[y] + a[y]
    <2>1. CASE d = 1
        <3>0. key_count' = Retain(key_count, k, Counted)
            BY <2>1
        <3>1. /\ key_count' \in [Key -> Int]
              /\ \A y \in Key : key_count'[y] = key_count[y] + (IF Counted /\ y = k THEN 1 ELSE 0)
            BY ONLY <1>3, <3>0, k \in Key, RetainRelease
        <3> QED
            BY <2>1, <3>1
    <2>2. CASE d = -1
        <3>0. key_count' = Release(key_count, k, Counted)
            BY <2>2
        <3>1. /\ key_count' \in [Key -> Int]
              /\ \A y \in Key : key_count'[y] = key_count[y] - (IF Counted /\ y = k THEN 1 ELSE 0)
            BY ONLY <1>3, <3>0, k \in Key, RetainRelease
        <3>2. \A y \in Key : key_count[y] \in Int
            BY <1>3
        <3> QED
            BY <2>2, <3>1, <3>2
    <2> QED
        BY <2>1, <2>2
<1>5. val_count' \in [Val -> Int] /\ \A z \in Val : val_count'[z] = val_count[z] + b[z]
    <2>1. CASE d = 1
        <3>0. val_count' = Retain(val_count, x, ByReference)
            BY <2>1
        <3>1. /\ val_count' \in [Val -> Int]
              /\ \A z \in Val : val_count'[z] = val_count[z] + (IF ByReference /\ z = x THEN 1 ELSE 0)
            BY ONLY <1>3, <3>0, x \in Val, RetainRelease
        <3> QED
            BY <2>1, <3>1
    <2>2. CASE d = -1
        <3>0. val_count' = Release(val_count, x, ByReference)
            BY <2>2
        <3>1. /\ val_count' \in [Val -> Int]
              /\ \A z \in Val : val_count'[z] = val_count[z] - (IF ByReference /\ z = x THEN 1 ELSE 0)
            BY ONLY <1>3, <3>0, x \in Val, RetainRelease
        <3>2. \A z \in Val : val_count[z] \in Int
            BY <1>3
        <3> QED
            BY <2>2, <3>1, <3>2
    <2> QED
        BY <2>1, <2>2
<1> HIDE DEF a, b
<1> QED
    BY <1>1, <1>2, <1>4, <1>5, CountsFollow

-----------------------------------------------------------------------------
(* The actions keep it.                                                    *)

\* Without a pin there is no borrow.
LEMMA NoPinNoBorrow ==
    ASSUME Inv, ~MutationBlocked
    PROVE  borrows = <<>> /\ pins = 0
<1>1. pins = 0 /\ pins = Len(borrows) /\ borrows \in Seq([key : Key, pos : Nat, of : Nat])
    BY DEF Inv, BorrowInv, MutationBlocked
<1> QED
    BY <1>1, EmptySeq

\* What the theorems assume, where it is needed.
LEMMA HoldingFits ==
    ASSUME DistancesHold, Sound(table), NEW k \in Key, NEW v \in Val, InsertNew(k, v),
           NEW r, r = (IF IsFull(table, len) THEN Grow(table) ELSE table),
           Capacity(r) <= MaxCapacity
    PROVE  /\ InsertFits(r, k, v)
           /\ IsFull(table, len) => MovingFits(table, 2 * Capacity(table))
<1> DEFINE C == Capacity(table)
<1>1. CASE ~(MaxCapacity < DistanceValues)
    BY <1>1 DEF DistancesHold
<1>2. CASE MaxCapacity < DistanceValues
    <2>1. C \in Nat /\ (C = 0 <=> table = NoTable) /\ InOrder(C, table) /\ C # 1
        BY DEF Sound
    <2>2. Capacity(r) \in Nat /\ (IsFull(table, len) /\ C # 0 => Capacity(r) = 2 * C)
        <3>1. CASE ~IsFull(table, len)
            BY <2>1, <3>1
        <3>2. CASE C = 0
            <4>1. r = Vacancies(InitialCapacity)
                BY <2>1, <3>2, FirstGrow DEF IsFull
            <4>2. InitialCapacity \in Nat \ {0} /\ InitialCapacity \in Nat
                BY CapacityAssumption
            <4>3. DOMAIN r = Ring(InitialCapacity)
                BY <4>1 DEF Vacancies, Ring
            <4> QED
                BY <3>2, <4>2, <4>3, TableShape
        <3>3. CASE IsFull(table, len) /\ C # 0
            <4>1. C \in Nat \ {0, 1} /\ r = Grow(table)
                BY <2>1, <3>3
            <4> HIDE DEF C
            <4>2. Capacity(r) = 2 * C
                BY <2>1, <4>1, GrowKeeps
            <4> QED
                BY <4>1, <4>2
        <3> QED
            BY <3>1, <3>2, <3>3
    <2>3. Capacity(r) < DistanceValues
        BY <1>2, <2>2, BoundAssumption, DistanceAssumption
    <2>4. InsertFits(r, k, v)
        BY <2>3 DEF InsertFits, DistancesFit
    <2>5. ASSUME IsFull(table, len), NEW n \in 0 .. C - 1
          PROVE  Capacity(Moving(table, 2 * C)[n]) < DistanceValues
        <3>1. C \in Nat \ {0} /\ 2 * C \in Nat \ {0, 1} /\ n \in 0 .. C /\ Capacity(r) = 2 * C
            BY <2>1, <2>2, <2>5
        <3> HIDE DEF C
        <3>2. Moving(table, 2 * C)[n] \in Tables(2 * C)
            BY <2>1, <3>1, MovingRounds
        <3>3. Capacity(Moving(table, 2 * C)[n]) = 2 * C
            BY <3>1, <3>2, TableShape DEF Tables
        <3> QED
            BY <2>3, <3>1, <3>3
    <2>6. IsFull(table, len) => MovingFits(table, 2 * C)
        BY <2>5 DEF MovingFits, InsertFits, DistancesFit
    <2> QED
        BY <2>4, <2>6
<1> QED
    BY <1>1, <1>2

\* A new entry, in a table grown if need be, keeps the table sound and the counts right.
LEMMA InsertNewInv ==
    ASSUME DistancesHold, Inv, ~MutationBlocked, NEW k \in Key, NEW v \in Val,
           Find(table, k) = None, InsertNew(k, v), alive,
           UNCHANGED <<alive, borrows, pins, trapped, held, product>>
    PROVE  Inv'
<1> DEFINE r == IF IsFull(table, len) THEN Grow(table) ELSE table
<1>1. Sound(table) /\ len = Cardinality(Occupied(table)) /\ len \in Nat
    BY SoundFacts DEF Inv, TableInv
<1>2. /\ Capacity(r) <= MaxCapacity /\ table' = InsertInternal(r, k, v) /\ len' = len + 1
      /\ val_count' = Retain(val_count, v, ByReference)
      /\ key_count' = Retain(key_count, k, Counted)
    BY DEF InsertNew
<1>3. /\ Sound(table') /\ table' # NoTable
      /\ Cardinality(Occupied(table')) = len + 1
      /\ \A P : Count(table', P) = Count(table, P) + (IF <<k, v>> \in P THEN 1 ELSE 0)
    <2>1. r = IF IsFull(table, len) THEN Grow(table) ELSE table
        OBVIOUS
    <2> HIDE DEF r
    <2>2. /\ InsertFits(r, k, v)
          /\ IsFull(table, len) => MovingFits(table, 2 * Capacity(table))
        BY <1>1, <1>2, <2>1, HoldingFits
    <2> QED
        BY ONLY <1>1, <1>2, <2>1, <2>2, k \in Key, v \in Val, InsertedSound
<1> HIDE DEF r
<1>4. TableInv'
    BY <1>2, <1>3 DEF Inv, TableInv
<1>5. KeysInv'
    <2> SUFFICES ASSUME NEW c \in Class \ Unequal
                 PROVE  Count(table', OfClass(c)) <= 1
        BY DEF KeysInv
    <2>1. Count(table', OfClass(c)) = Count(table, OfClass(c))
                + (IF <<k, v>> \in OfClass(c) THEN 1 ELSE 0)
        BY <1>3
    <2>2. Count(table, OfClass(c)) \in Nat /\ Count(table, OfClass(c)) <= 1
        BY <1>1, SoundFacts DEF Inv, KeysInv
    <2>3. <<k, v>> \in OfClass(c) => Count(table, OfClass(c)) = 0
        <3> SUFFICES ASSUME Content[k] = c
                     PROVE  Count(table, OfClass(c)) = 0
            BY DEF OfClass
        <3>1. \A j \in Occupied(table) : ~KeysEqual(table[j].key, k)
            BY <1>1, Search
        <3>2. \A j \in Occupied(table) : Pair(table[j]) \notin OfClass(c)
            BY <3>1 DEF KeysEqual, OfClass, Pair
        <3>3. table \in Tables(Capacity(table)) /\ Capacity(table) \in Nat
            BY <1>1, SoundFacts DEF Sound
        <3> QED
            BY <3>2, <3>3, CountZero
    <2> QED
        BY ONLY <2>1, <2>2, <2>3
<1>6. BorrowInv'
    BY NoPinNoBorrow DEF BorrowInv
<1>7. CountInv'
    <2> DEFINE d == 1
    <2>1. d \in {1, -1} /\ d = 1
        OBVIOUS
    <2>2. UNCHANGED <<held, product>>
        OBVIOUS
    <2> HIDE DEF d
    <2>3. \A P : Count(table', P) = Count(table, P) + (IF <<k, v>> \in P THEN d ELSE 0)
        BY <1>3, <2>1
    <2>4. /\ key_count' = IF d = 1 THEN Retain(key_count, k, Counted)
                                   ELSE Release(key_count, k, Counted)
          /\ val_count' = IF d = 1 THEN Retain(val_count, v, ByReference)
                                   ELSE Release(val_count, v, ByReference)
        BY <1>2, <2>1
    <2> QED
        BY ONLY Inv, <1>3, <2>1, <2>2, <2>3, <2>4, k \in Key, v \in Val, OneFollows
<1> QED
    BY <1>4, <1>5, <1>6, <1>7 DEF Inv

\* The entry that a removal takes out gives back its counts.
LEMMA TakeOutInv ==
    ASSUME Inv, ~MutationBlocked, NEW k, NEW i \in Occupied(table), TakeOut(i, k),
           UNCHANGED <<alive, borrows, pins, trapped, held, product>>
    PROVE  Inv'
<1> DEFINE l == table[i].key
           x == table[i].val
<1>1. /\ Sound(table) /\ len = Cardinality(Occupied(table)) /\ len \in Nat
      /\ l \in Key /\ x \in Val
    BY SoundFacts DEF Inv, TableInv
<1>2. /\ val_count' = Release(val_count, x, ByReference)
      /\ key_count' = Release(key_count, l, Counted)
      /\ table' = ShiftBack(table, i) /\ len' = len - 1
    BY DEF TakeOut
<1>3. /\ Sound(table') /\ Capacity(table') = Capacity(table)
      /\ Cardinality(Occupied(table')) = len - 1
      /\ \A P : Count(table', P) = Count(table, P) - (IF <<l, x>> \in P THEN 1 ELSE 0)
    BY ONLY <1>1, <1>2, i \in Occupied(table), RemovedSound DEF Pair
<1> HIDE DEF l, x
<1>4. TableInv'
    <2>1. Capacity(table) # 0
        BY <1>1, SoundFacts
    <2> QED
        BY <1>2, <1>3, <2>1 DEF Inv, TableInv, Sound
<1>5. KeysInv'
    <2> SUFFICES ASSUME NEW c \in Class \ Unequal
                 PROVE  Count(table', OfClass(c)) <= 1
        BY DEF KeysInv
    <2>1. Count(table', OfClass(c)) = Count(table, OfClass(c))
                - (IF <<l, x>> \in OfClass(c) THEN 1 ELSE 0)
        BY <1>3
    <2>2. Count(table, OfClass(c)) \in Nat /\ Count(table, OfClass(c)) <= 1
        BY <1>1, SoundFacts DEF Inv, KeysInv
    <2> QED
        BY ONLY <2>1, <2>2
<1>6. BorrowInv'
    BY NoPinNoBorrow DEF BorrowInv
<1>7. CountInv'
    <2> DEFINE d == -1
    <2>1. d \in {1, -1} /\ d # 1 /\ d = -1
        OBVIOUS
    <2>2. UNCHANGED <<held, product>>
        OBVIOUS
    <2> HIDE DEF d
    <2>3. \A P : Count(table', P) = Count(table, P) + (IF <<l, x>> \in P THEN d ELSE 0)
        <3> SUFFICES ASSUME NEW P
                     PROVE  Count(table', P) = Count(table, P) + (IF <<l, x>> \in P THEN d ELSE 0)
            OBVIOUS
        <3>1. Count(table', P) = Count(table, P) - (IF <<l, x>> \in P THEN 1 ELSE 0)
            BY <1>3
        <3>2. Count(table, P) \in Nat
            BY <1>1, SoundFacts
        <3> QED
            BY ONLY <2>1, <3>1, <3>2
    <2>4. /\ key_count' = IF d = 1 THEN Retain(key_count, l, Counted)
                                   ELSE Release(key_count, l, Counted)
          /\ val_count' = IF d = 1 THEN Retain(val_count, x, ByReference)
                                   ELSE Release(val_count, x, ByReference)
        BY <1>2, <2>1
    <2> QED
        BY ONLY Inv, <1>1, <1>3, <2>1, <2>2, <2>3, <2>4, OneFollows
<1> QED
    BY <1>4, <1>5, <1>6, <1>7 DEF Inv

\* A table of no entries, and the counts of those it held released.
LEMMA EmptiedInv ==
    ASSUME Inv, ~MutationBlocked, ReleaseEntries,
           Sound(table'), Occupied(table') = {}, \A P : Count(table', P) = 0, len' = 0,
           alive' \in BOOLEAN, ~alive' => table' = NoTable,
           UNCHANGED <<borrows, pins, trapped, held, product>>
    PROVE  Inv'
<1>1. TableInv' /\ KeysInv'
    BY FS_EmptySet DEF TableInv, KeysInv
<1>2. BorrowInv'
    BY NoPinNoBorrow DEF BorrowInv
<1>3. Sound(table) /\ key_count \in [Key -> Int] /\ val_count \in [Val -> Int]
    BY DEF Inv, TableInv, CountInv
<1>4. KeysIn(table) \in [Key -> Nat] /\ ValsIn(table) \in [Val -> Nat]
    BY <1>3, HeldByTable
<1>5. /\ \A y \in Key : KeysIn(table')[y] = 0
      /\ \A z \in Val : ValsIn(table')[z] = 0
    BY ONLY Sound(table'), \A P : Count(table', P) = 0, HeldByTable
<1>6. CountInv'
    <2> DEFINE d == [y \in Key |-> -KeysIn(table)[y]]
               e == [z \in Val |-> -ValsIn(table)[z]]
    <2>1. d \in [Key -> Int] /\ e \in [Val -> Int]
        BY <1>4
    <2>2. /\ \A y \in Key : KeysIn(table')[y] = KeysIn(table)[y] + d[y]
          /\ \A z \in Val : ValsIn(table')[z] = ValsIn(table)[z] + e[z]
        BY <1>4, <1>5
    <2>3. key_count' \in [Key -> Int] /\ \A y \in Key : key_count'[y] = key_count[y] + d[y]
        BY <1>3, <1>4 DEF ReleaseEntries, Minus
    <2>4. val_count' \in [Val -> Int] /\ \A z \in Val : val_count'[z] = val_count[z] + e[z]
        BY <1>3, <1>4 DEF ReleaseEntries, Minus
    <2> HIDE DEF d, e
    <2> QED
        BY <2>1, <2>2, <2>3, <2>4, CountsFollow
<1> QED
    BY <1>1, <1>2, <1>6 DEF Inv

\* What leaves the table, the borrows and the counts alone.
LEMMA QuietInv ==
    ASSUME Inv, UNCHANGED <<alive, len, table, borrows, pins, counts>>, trapped' \in BOOLEAN
    PROVE  Inv'
<1>1. TableInv' /\ KeysInv'
    BY DEF Inv, TableInv, KeysInv
<1>2. BorrowInv'
    BY DEF Inv, BorrowInv
<1>3. CountInv'
    BY DEF Inv, CountInv, counts
<1> QED
    BY <1>1, <1>2, <1>3 DEF Inv

\* A list or map made from this one holds counts of its own.
LEMMA AcquireInv ==
    ASSUME Inv, NEW a \in [Key -> Nat], NEW b \in [Val -> Nat], Acquire(a, b),
           UNCHANGED <<alive, len, table, borrows, pins, trapped, held>>
    PROVE  Inv'
<1>1. TableInv' /\ KeysInv'
    BY DEF Inv, TableInv, KeysInv
<1>2. BorrowInv'
    BY DEF Inv, BorrowInv
<1>3. /\ Sound(table) /\ key_count \in [Key -> Int] /\ val_count \in [Val -> Int]
      /\ product = NoProduct /\ product' = [keys |-> a, vals |-> b]
    BY DEF Inv, TableInv, CountInv, Acquire
<1>4. KeysIn(table) \in [Key -> Nat] /\ ValsIn(table) \in [Val -> Nat]
    BY <1>3, HeldByTable
<1>5. /\ \A y \in Key : product.keys[y] = 0 /\ product'.keys[y] = a[y]
      /\ \A z \in Val : product.vals[z] = 0 /\ product'.vals[z] = b[z]
    BY <1>3 DEF NoProduct, NoBag
<1>6. key_count' \in [Key -> Int] /\ \A y \in Key : key_count'[y] = key_count[y] + a[y]
    BY <1>3 DEF Acquire, Plus
<1>7. val_count' \in [Val -> Int] /\ \A z \in Val : val_count'[z] = val_count[z] + b[z]
    BY <1>3 DEF Acquire, Plus
<1>8. ASSUME NEW y \in Key
      PROVE  key_count'[y] = (IF y \in held' THEN 1 ELSE 0) + KeysIn(table')[y] + product'.keys[y]
    <2>1. key_count[y] = (IF y \in held THEN 1 ELSE 0) + KeysIn(table)[y] + product.keys[y]
        BY DEF Inv, CountInv
    <2>2. a[y] \in Nat /\ KeysIn(table)[y] \in Nat
        BY <1>4
    <2> QED
        BY <1>5, <1>6, <2>1, <2>2
<1>9. ASSUME NEW z \in Val
      PROVE  val_count'[z] = ValsIn(table')[z] + product'.vals[z]
    <2>1. val_count[z] = ValsIn(table)[z] + product.vals[z]
        BY DEF Inv, CountInv
    <2>2. b[z] \in Nat /\ ValsIn(table)[z] \in Nat
        BY <1>4
    <2> QED
        BY <1>5, <1>7, <2>1, <2>2
<1>10. CountInv'
    BY <1>3, <1>6, <1>7, <1>8, <1>9 DEF Inv, CountInv
<1> QED
    BY <1>1, <1>2, <1>10 DEF Inv

\* Its destruction gives them back.
LEMMA DropProductInv ==
    ASSUME Inv, DropProduct
    PROVE  Inv'
<1>1. TableInv' /\ KeysInv'
    BY DEF Inv, TableInv, KeysInv, DropProduct
<1>2. BorrowInv'
    BY DEF Inv, BorrowInv, DropProduct
<1>3. /\ Sound(table) /\ key_count \in [Key -> Int] /\ val_count \in [Val -> Int]
      /\ product \in [keys : [Key -> Nat], vals : [Val -> Nat]]
      /\ product' = NoProduct /\ UNCHANGED <<table, held>>
    BY DEF Inv, TableInv, CountInv, DropProduct
<1>4. KeysIn(table) \in [Key -> Nat] /\ ValsIn(table) \in [Val -> Nat]
    BY <1>3, HeldByTable
<1>5. /\ product' \in [keys : [Key -> Nat], vals : [Val -> Nat]]
      /\ \A y \in Key : product'.keys[y] = 0
      /\ \A z \in Val : product'.vals[z] = 0
    BY <1>3 DEF NoProduct, NoBag
<1>6. key_count' \in [Key -> Int] /\ \A y \in Key : key_count'[y] = key_count[y] - product.keys[y]
    BY <1>3 DEF DropProduct, Minus
<1>7. val_count' \in [Val -> Int] /\ \A z \in Val : val_count'[z] = val_count[z] - product.vals[z]
    BY <1>3 DEF DropProduct, Minus
<1>8. ASSUME NEW y \in Key
      PROVE  key_count'[y] = (IF y \in held' THEN 1 ELSE 0) + KeysIn(table')[y] + product'.keys[y]
    <2>1. key_count[y] = (IF y \in held THEN 1 ELSE 0) + KeysIn(table)[y] + product.keys[y]
        BY DEF Inv, CountInv
    <2>2. product.keys[y] \in Nat /\ KeysIn(table)[y] \in Nat
        BY <1>3, <1>4
    <2> QED
        BY <1>3, <1>5, <1>6, <2>1, <2>2
<1>9. ASSUME NEW z \in Val
      PROVE  val_count'[z] = ValsIn(table')[z] + product'.vals[z]
    <2>1. val_count[z] = ValsIn(table)[z] + product.vals[z]
        BY DEF Inv, CountInv
    <2>2. product.vals[z] \in Nat /\ ValsIn(table)[z] \in Nat
        BY <1>3, <1>4
    <2> QED
        BY <1>3, <1>5, <1>7, <2>1, <2>2
<1>10. CountInv'
    BY <1>3, <1>5, <1>6, <1>7, <1>8, <1>9 DEF Inv, CountInv
<1> QED
    BY <1>1, <1>2, <1>10 DEF Inv, DropProduct

\* The program gives up a string of its own, or takes one from the list.
LEMMA HandsInv ==
    ASSUME Inv, NEW k \in Key, DropKey(k) \/ TakeKey(k)
    PROVE  Inv'
<1>1. TableInv' /\ KeysInv'
    BY DEF Inv, TableInv, KeysInv, DropKey, TakeKey
<1>2. BorrowInv'
    BY DEF Inv, BorrowInv, DropKey, TakeKey
<1>3. /\ Sound(table) /\ key_count \in [Key -> Int] /\ held \subseteq Key /\ Counted
      /\ product \in [keys : [Key -> Nat], vals : [Val -> Nat]]
      /\ UNCHANGED <<table, product, val_count>>
    BY DEF Inv, TableInv, CountInv, DropKey, TakeKey
<1>4. KeysIn(table) \in [Key -> Nat]
    BY <1>3, HeldByTable
<1>5. /\ held' \subseteq Key /\ key_count' \in [Key -> Int]
      /\ \A y \in Key : key_count'[y] = key_count[y] - (IF y \in held THEN 1 ELSE 0)
                                                     + (IF y \in held' THEN 1 ELSE 0)
    <2>1. CASE DropKey(k)
        <3>1. held' = held \ {k} /\ k \in held /\ key_count' = Release(key_count, k, Counted)
            BY <2>1 DEF DropKey
        <3>2. key_count \in [Key -> Int] /\ key_count' = Release(key_count, k, Counted)
            BY <1>3, <3>1
        <3>3. /\ key_count' \in [Key -> Int]
              /\ \A y \in Key : key_count'[y] = key_count[y] - (IF Counted /\ y = k THEN 1 ELSE 0)
            BY ONLY <3>2, k \in Key, RetainRelease
        <3>4. held' \subseteq Key /\ k \in Key
            BY <1>3, <3>1
        <3>5. ASSUME NEW y \in Key
              PROVE  key_count'[y] = key_count[y] - (IF y \in held THEN 1 ELSE 0)
                                                  + (IF y \in held' THEN 1 ELSE 0)
            <4>1. key_count[y] \in Int
                BY <1>3
            <4>2. CASE y = k
                <5>1. key_count'[y] = key_count[y] - 1
                    BY ONLY <1>3, <3>3, <4>2, y \in Key
                <5>2. y \in held /\ y \notin held'
                    BY ONLY <3>1, <4>2
                <5> QED
                    BY ONLY <4>1, <5>1, <5>2
            <4>3. CASE y # k
                BY <3>1, <3>3, <4>1, <4>3
            <4> QED
                BY <4>2, <4>3
        <3> QED
            BY <3>3, <3>4, <3>5
    <2>2. CASE TakeKey(k)
        <3>1. held' = held \cup {k} /\ k \notin held /\ key_count' = Retain(key_count, k, Counted)
            BY <2>2 DEF TakeKey
        <3>2. key_count \in [Key -> Int] /\ key_count' = Retain(key_count, k, Counted)
            BY <1>3, <3>1
        <3>3. /\ key_count' \in [Key -> Int]
              /\ \A y \in Key : key_count'[y] = key_count[y] + (IF Counted /\ y = k THEN 1 ELSE 0)
            BY ONLY <3>2, k \in Key, RetainRelease
        <3>4. held' \subseteq Key /\ k \in Key
            BY <1>3, <3>1
        <3>5. ASSUME NEW y \in Key
              PROVE  key_count'[y] = key_count[y] - (IF y \in held THEN 1 ELSE 0)
                                                  + (IF y \in held' THEN 1 ELSE 0)
            <4>1. key_count[y] \in Int
                BY <1>3
            <4>2. CASE y = k
                <5>1. key_count'[y] = key_count[y] + 1
                    BY ONLY <1>3, <3>3, <4>2, y \in Key
                <5>2. y \notin held /\ y \in held'
                    BY ONLY <3>1, <4>2
                <5> QED
                    BY ONLY <4>1, <5>1, <5>2
            <4>3. CASE y # k
                BY <3>1, <3>3, <4>1, <4>3
            <4> QED
                BY <4>2, <4>3
        <3> QED
            BY <3>3, <3>4, <3>5
    <2> QED
        BY <2>1, <2>2
<1>6. ASSUME NEW y \in Key
      PROVE  key_count'[y] = (IF y \in held' THEN 1 ELSE 0) + KeysIn(table')[y] + product'.keys[y]
    <2>1. key_count[y] = (IF y \in held THEN 1 ELSE 0) + KeysIn(table)[y] + product.keys[y]
        BY DEF Inv, CountInv
    <2>2. product.keys[y] \in Nat /\ KeysIn(table)[y] \in Nat
        BY <1>3, <1>4
    <2> QED
        BY <1>3, <1>5, <2>1, <2>2
<1>7. CountInv'
    BY <1>3, <1>5, <1>6 DEF Inv, CountInv
<1> QED
    BY <1>1, <1>2, <1>7 DEF Inv, DropKey, TakeKey

\* Lending a value pins the map and points into its bucket.
LEMMA BorrowKeepsInv ==
    ASSUME Inv, NEW k \in Key, Borrow(k)
    PROVE  Inv'
<1> DEFINE i == Find(table, k)
           b == [key |-> table[i].key, pos |-> i, of |-> Capacity(table)]
<1>1. /\ Sound(table) /\ i # None /\ alive /\ borrows' = Append(borrows, b) /\ pins' = pins + 1
      /\ UNCHANGED <<alive, len, table, trapped, counts>>
    BY DEF Inv, TableInv, Borrow
<1>2. i \in Occupied(table) /\ Content[table[i].key] \notin Unequal
    BY <1>1, Search DEF KeysEqual
<1>3. i \in Nat /\ table[i].key \in Key /\ Capacity(table) \in Nat
    BY <1>1, <1>2, SoundFacts DEF Sound
<1>4. b \in [key : Key, pos : Nat, of : Nat]
    BY <1>3
<1>5. TableInv' /\ KeysInv'
    BY <1>1 DEF Inv, TableInv, KeysInv
<1>6. CountInv'
    BY <1>1 DEF Inv, CountInv, counts
<1>7. BorrowInv'
    <2> DEFINE S == [key : Key, pos : Nat, of : Nat]
    <2>1. borrows \in Seq(S) /\ pins = Len(borrows) /\ Len(borrows) \in Nat
        BY DEF Inv, BorrowInv
    <2>2. b.key = table[i].key /\ b.pos = i /\ b.of = Capacity(table)
        OBVIOUS
    <2> HIDE DEF b, i, S
    <2>3. /\ borrows' \in Seq(S) /\ Len(borrows') = Len(borrows) + 1
          /\ \A n \in 1 .. Len(borrows') :
                borrows'[n] = IF n \in 1 .. Len(borrows) THEN borrows[n] ELSE b
        BY <1>1, <1>4, <2>1, AppendProperties DEF S
    <2>4. ASSUME NEW n \in 1 .. Len(borrows')
          PROVE  /\ alive' /\ Capacity(table') = borrows'[n].of
                 /\ borrows'[n].pos \in Occupied(table')
                 /\ table'[borrows'[n].pos].key = borrows'[n].key
                 /\ Content[borrows'[n].key] \notin Unequal
        <3>1. CASE n \in 1 .. Len(borrows)
            BY <1>1, <2>3, <3>1 DEF Inv, BorrowInv
        <3>2. CASE n \notin 1 .. Len(borrows)
            BY <1>1, <1>2, <2>2, <2>3, <3>2
        <3> QED
            BY <3>1, <3>2
    <2>5. pins' = Len(borrows')
        BY <1>1, <2>1, <2>3
    <2> QED
        BY <2>3, <2>4, <2>5 DEF BorrowInv, S
<1> QED
    BY <1>1, <1>5, <1>6, <1>7 DEF Inv

\* The return of a borrow takes its pin away and no other.
LEMMA UnborrowInv ==
    ASSUME Inv, Unborrow
    PROVE  Inv'
<1> DEFINE S == [key : Key, pos : Nat, of : Nat]
<1>1. /\ borrows \in Seq(S) /\ pins = Len(borrows) /\ borrows # <<>>
      /\ borrows' = Sx!Front(borrows) /\ pins' = IF pins > 0 THEN pins - 1 ELSE pins
      /\ UNCHANGED <<alive, len, table, trapped, counts>>
    BY DEF Inv, BorrowInv, Unborrow
<1> HIDE DEF S
<1>2. Len(borrows) \in Nat /\ Len(borrows) > 0
    BY <1>1
<1>3. borrows' = SubSeq(borrows, 1, Len(borrows) - 1)
    BY <1>1 DEF Sx!Front
<1>4. /\ borrows' \in Seq(S) /\ Len(borrows') = Len(borrows) - 1
      /\ \A n \in 1 .. Len(borrows') : borrows'[n] = borrows[n] /\ n \in 1 .. Len(borrows)
    <2> DEFINE m == Len(borrows) - 1
    <2>1. m \in Nat /\ \A n \in 1 .. m : n \in 1 .. Len(borrows) /\ borrows[n] \in S
        BY <1>1, <1>2
    <2>2. borrows' = SubSeq(borrows, 1, m)
        BY <1>3
    <2> HIDE DEF m
    <2>3. borrows' \in Seq(S) /\ Len(borrows') = m /\ \A n \in 1 .. m : borrows'[n] = borrows[n]
        BY ONLY <2>1, <2>2
    <2> QED
        BY <2>1, <2>3 DEF m
<1>5. TableInv' /\ KeysInv'
    BY <1>1 DEF Inv, TableInv, KeysInv
<1>6. CountInv'
    BY <1>1 DEF Inv, CountInv, counts
<1>7. BorrowInv'
    <2>1. pins' = Len(borrows')
        BY <1>1, <1>2, <1>4
    <2>2. \A n \in 1 .. Len(borrows') :
             /\ alive' /\ Capacity(table') = borrows'[n].of
             /\ borrows'[n].pos \in Occupied(table')
             /\ table'[borrows'[n].pos].key = borrows'[n].key
             /\ Content[borrows'[n].key] \notin Unequal
        BY <1>1, <1>4 DEF Inv, BorrowInv
    <2> QED
        BY <1>4, <2>1, <2>2 DEF BorrowInv, S
<1> QED
    BY <1>1, <1>5, <1>6, <1>7 DEF Inv

\* A new map starts with a table that is empty and large enough.
LEMMA CreateInv ==
    ASSUME Inv, NEW n \in Nat, Create(n)
    PROVE  Inv'
<1>1. /\ ~alive /\ alive' = TRUE /\ table = NoTable /\ Capacity(table') <= MaxCapacity
      /\ table' = IF n = 0 THEN NoTable ELSE Vacancies(RoundUp(n))
      /\ UNCHANGED <<len, borrows, pins, trapped, counts>>
    BY DEF Inv, TableInv, Create
<1>2. Sound(table') /\ Occupied(table') = {} /\ \A P : Count(table', P) = 0
    <2>1. CASE n = 0
        BY <1>1, <2>1, NoTableSound
    <2>2. CASE n # 0
        <3> DEFINE C == RoundUp(n)
        <3>1. C \in Nat \ {0, 1} /\ table' = Vacancies(C)
            BY <1>1, <2>2, RoundUpEnough
        <3> HIDE DEF C
        <3>2. Capacity(Vacancies(C)) = C
            <4>1. C \in Nat \ {0} /\ C \in Nat
                BY <3>1
            <4>2. InOrder(C, Vacancies(C))
                BY <4>1, EmptyInOrder
            <4> QED
                BY <4>1, <4>2, TableShape DEF InOrder, Tables
        <3>3. C <= MaxCapacity
            BY <1>1, <3>1, <3>2
        <3> QED
            BY ONLY <3>1, <3>3, NewSound
    <2> QED
        BY <2>1, <2>2
<1>3. Occupied(table) = {} /\ \A P : Count(table, P) = 0
    BY <1>1, NoTableSound
<1>4. TableInv' /\ KeysInv'
    BY <1>1, <1>2, <1>3 DEF Inv, TableInv, KeysInv
<1>5. BorrowInv'
    <2>1. borrows \in Seq([key : Key, pos : Nat, of : Nat]) /\ 1 .. Len(borrows) = {}
        BY <1>1 DEF Inv, BorrowInv
    <2> QED
        BY <1>1, <2>1 DEF Inv, BorrowInv
<1>6. CountInv'
    <2>1. Sound(table)
        BY DEF Inv, TableInv
    <2>2. /\ \A y \in Key : KeysIn(table')[y] = KeysIn(table)[y]
          /\ \A z \in Val : ValsIn(table')[z] = ValsIn(table)[z]
        BY <1>2, <1>3, <2>1, HeldByTable
    <2> QED
        BY <1>1, <2>2 DEF Inv, CountInv, counts
<1> QED
    BY <1>1, <1>4, <1>5, <1>6 DEF Inv

\* A refused call only traps.
LEMMA RefuseInv ==
    ASSUME Inv, Refuse
    PROVE  Inv'
<1>1. UNCHANGED <<alive, len, table, borrows, pins, counts>> /\ trapped' \in BOOLEAN
    BY DEF Refuse
<1> QED
    BY <1>1, QuietInv

\* The two outcomes of an insertion that is not refused.
LEMMA PutInv ==
    ASSUME DistancesHold, Inv, ~MutationBlocked, alive, NEW k \in Key, NEW v \in Val,
           IF Find(table, k) # None THEN Replace(Find(table, k), k, v) ELSE InsertNew(k, v),
           UNCHANGED <<alive, borrows, pins, trapped, held, product>>
    PROVE  Inv'
<1> DEFINE i == Find(table, k)
<1>1. CASE i # None
    <2>1. i \in Occupied(table)
        BY <1>1, Search DEF Inv, TableInv
    <2>2. Replace(i, k, v)
        BY <1>1
    <2> HIDE DEF i
    <2>3. /\ val_count' = Retain(Release(val_count, table[i].val, ByReference), v, ByReference)
          /\ table' = [table EXCEPT ![i].val = v]
          /\ UNCHANGED <<len, key_count>>
        BY <2>2 DEF Replace
    <2>4. UNCHANGED <<alive, len, borrows, pins, trapped, held, key_count, product>>
        BY <2>3
    <2> QED
        BY ONLY Inv, <2>1, <2>3, <2>4, v \in Val, OverwriteInv
<1>2. CASE i = None
    BY <1>2, InsertNewInv
<1> QED
    BY <1>1, <1>2

\* insert keeps the invariant, refused, overwriting or adding.
LEMMA InsertInv ==
    ASSUME DistancesHold, Inv, NEW k \in Key, NEW v \in Val, Insert(k, v)
    PROVE  Inv'
<1>1. CASE MutationBlocked /\ Refuse
    BY <1>1, RefuseInv
<1>2. CASE ~(MutationBlocked /\ Refuse)
    <2>1. /\ ~MutationBlocked /\ alive
          /\ IF Find(table, k) # None THEN Replace(Find(table, k), k, v) ELSE InsertNew(k, v)
          /\ UNCHANGED <<alive, borrows, pins, trapped, held, product>>
        BY <1>2 DEF Insert
    <2> QED
        BY <2>1, PutInv
<1> QED
    BY <1>1, <1>2

\* So does inserting a value that was read from the map.
LEMMA InsertOwnInv ==
    ASSUME DistancesHold, Inv, NEW k \in Key, NEW l \in Key, InsertOwn(k, l)
    PROVE  Inv'
<1> DEFINE j == Find(table, l)
           freed == ByPointer /\ Find(table, k) = None /\ IsFull(table, len)
<1>1. Sound(table) /\ j # None
    BY DEF Inv, TableInv, InsertOwn
<1>2. table[j].val \in Val
    <2>1. j \in Occupied(table)
        BY <1>1, Search
    <2> QED
        BY <1>1, <2>1, SoundFacts
<1>3. PICK read \in IF freed THEN Val ELSE {table[j].val} :
          IF Find(table, k) # None THEN Replace(Find(table, k), k, read) ELSE InsertNew(k, read)
    BY DEF InsertOwn
<1>4. read \in Val
    BY <1>2, <1>3
<1>5. ~MutationBlocked /\ alive /\ UNCHANGED <<alive, borrows, pins, trapped, held, product>>
    BY DEF InsertOwn
<1> HIDE DEF j, freed
<1> QED
    BY <1>3, <1>4, <1>5, PutInv

\* remove keeps the invariant, refused, in vain or not.
LEMMA RemoveInv ==
    ASSUME Inv, NEW k \in Key, Remove(k)
    PROVE  Inv'
<1> DEFINE i == Find(table, k)
<1>1. CASE MutationBlocked /\ Refuse
    BY <1>1, RefuseInv
<1>2. CASE ~(MutationBlocked /\ Refuse)
    <2>1. /\ ~MutationBlocked
          /\ IF i # None THEN TakeOut(i, k) ELSE UNCHANGED <<table, len, key_count, val_count>>
          /\ UNCHANGED <<alive, borrows, pins, trapped, held, product>>
        BY <1>2 DEF Remove
    <2>2. CASE i # None
        <3>1. i \in Occupied(table)
            BY <2>2, Search DEF Inv, TableInv
        <3> HIDE DEF i
        <3> QED
            BY <2>1, <2>2, <3>1, TakeOutInv
    <2>3. CASE i = None
        <3>1. UNCHANGED <<alive, len, table, borrows, pins, counts>> /\ trapped' \in BOOLEAN
            BY <2>1, <2>3 DEF Inv, counts
        <3> QED
            BY <3>1, QuietInv
    <2> QED
        BY <2>2, <2>3
<1> QED
    BY <1>1, <1>2

\* clear keeps the invariant: the counts go with the entries.
LEMMA ClearInv ==
    ASSUME Inv, Clear
    PROVE  Inv'
<1>1. CASE MutationBlocked /\ Refuse
    BY <1>1, RefuseInv
<1>2. CASE ~(MutationBlocked /\ Refuse)
    <2>1. /\ ~MutationBlocked /\ alive /\ ReleaseEntries
          /\ table' = Vacancies(Capacity(table)) /\ len' = 0
          /\ UNCHANGED <<alive, borrows, pins, trapped, held, product>>
        BY <1>2 DEF Clear
    <2>2. Sound(table') /\ Occupied(table') = {} /\ \A P : Count(table', P) = 0
        BY <2>1, ClearedSound DEF Inv, TableInv
    <2>3. alive' \in BOOLEAN /\ (~alive' => table' = NoTable)
        BY <2>1 DEF Inv
    <2> QED
        BY ONLY Inv, <2>1, <2>2, <2>3, EmptiedInv
<1> QED
    BY <1>1, <1>2

\* So does the destruction of the map.
LEMMA DestroyInv ==
    ASSUME Inv, Destroy
    PROVE  Inv'
<1>1. CASE pins # 0 /\ Refuse
    BY <1>1, RefuseInv
<1>2. CASE ~(pins # 0 /\ Refuse)
    <2>1. /\ ~MutationBlocked /\ ReleaseEntries /\ alive' = FALSE
          /\ table' = NoTable /\ len' = 0
          /\ UNCHANGED <<borrows, pins, trapped, held, product>>
        BY <1>2 DEF Destroy, MutationBlocked
    <2>2. Sound(table') /\ Occupied(table') = {} /\ \A P : Count(table', P) = 0
        BY <2>1, NoTableSound
    <2>3. alive' \in BOOLEAN /\ (~alive' => table' = NoTable)
        BY <2>1
    <2> QED
        BY ONLY Inv, <2>1, <2>2, <2>3, EmptiedInv
<1> QED
    BY <1>1, <1>2

\* keys, values and copy.
LEMMA ProductInv ==
    ASSUME Inv, Keys \/ Values \/ Copy
    PROVE  Inv'
<1>1. KeysIn(table) \in [Key -> Nat] /\ ValsIn(table) \in [Val -> Nat]
    BY HeldByTable DEF Inv, TableInv
<1>2. NoBag(Key) \in [Key -> Nat] /\ NoBag(Val) \in [Val -> Nat]
    BY DEF NoBag
<1>3. CASE Keys
    <2>1. /\ Acquire(KeysIn(table), NoBag(Val))
          /\ UNCHANGED <<alive, len, table, borrows, pins, trapped, held>>
        BY <1>3 DEF Keys
    <2> QED
        BY ONLY Inv, <1>1, <1>2, <2>1, AcquireInv
<1>4. CASE Values
    <2>1. /\ Acquire(NoBag(Key), ValsIn(table))
          /\ UNCHANGED <<alive, len, table, borrows, pins, trapped, held>>
        BY <1>4 DEF Values
    <2> QED
        BY ONLY Inv, <1>1, <1>2, <2>1, AcquireInv
<1>5. CASE Copy
    <2>1. /\ Acquire(KeysIn(table), ValsIn(table))
          /\ UNCHANGED <<alive, len, table, borrows, pins, trapped, held>>
        BY <1>5 DEF Copy
    <2> QED
        BY ONLY Inv, <1>1, <2>1, AcquireInv
<1> QED
    BY <1>3, <1>4, <1>5

\* So does a write through a borrow.
LEMMA WriteThroughInv ==
    ASSUME Inv, NEW v \in Val, WriteThrough(v)
    PROVE  Inv'
<1> DEFINE n == Len(borrows)
           i == borrows[n].pos
<1>1. /\ borrows \in Seq([key : Key, pos : Nat, of : Nat]) /\ borrows # <<>>
      /\ Sx!Last(borrows) = borrows[n]
    BY DEF Inv, BorrowInv, WriteThrough, Sx!Last
<1>2. n \in 1 .. Len(borrows)
    <2>1. Len(borrows) \in Nat /\ Len(borrows) # 0
        BY <1>1, EmptySeq
    <2> QED
        BY <2>1
<1>3. i \in Occupied(table)
    BY <1>2 DEF Inv, BorrowInv
<1>4. /\ val_count' = Retain(Release(val_count, table[i].val, ByReference), v, ByReference)
      /\ table' = [table EXCEPT ![i].val = v]
      /\ UNCHANGED <<alive, len, borrows, pins, trapped, held, key_count, product>>
    BY <1>1 DEF WriteThrough
<1> HIDE DEF i
<1> QED
    BY ONLY Inv, v \in Val, <1>3, <1>4, OverwriteInv

\* Every call keeps the invariant.
LEMMA NextInv ==
    Inv /\ [Next]_vars /\ [DistancesHold]_vars => Inv'
<1> SUFFICES ASSUME Inv, [Next]_vars, [DistancesHold]_vars
             PROVE  Inv'
    OBVIOUS
<1>1. ASSUME NEW k \in Key, Remove(k)
      PROVE  Inv'
    BY <1>1, RemoveInv
<1>2. ASSUME NEW k \in Key, Lookup(k)
      PROVE  Inv'
    <2>1. UNCHANGED <<alive, len, table, borrows, pins, counts>> /\ trapped' \in BOOLEAN
        BY <1>2 DEF Lookup, Inv
    <2> QED
        BY <2>1, QuietInv
<1>3. ASSUME NEW k \in Key, Borrow(k)
      PROVE  Inv'
    BY <1>3, BorrowKeepsInv
<1>4. ASSUME NEW k \in Key, DropKey(k) \/ TakeKey(k)
      PROVE  Inv'
    BY <1>4, HandsInv
<1>5. ASSUME NEW k \in Key, NEW v \in Val, Insert(k, v), DistancesHold
      PROVE  Inv'
    BY <1>5, InsertInv
<1>6. ASSUME NEW k \in Key, NEW l \in Key, InsertOwn(k, l), DistancesHold
      PROVE  Inv'
    BY <1>6, InsertOwnInv
<1>7. ASSUME NEW v \in Val, WriteThrough(v)
      PROVE  Inv'
    BY <1>7, WriteThroughInv
<1>8. ASSUME NEW n \in {0, InitialCapacity + 1}, Create(n)
      PROVE  Inv'
    <2>1. n \in Nat
        BY CapacityAssumption
    <2> QED
        BY <1>8, <2>1, CreateInv
<1>9. CASE Clear
    BY <1>9, ClearInv
<1>10. CASE Keys \/ Values \/ Copy
    BY <1>10, ProductInv
<1>11. CASE DropProduct
    BY <1>11, DropProductInv
<1>12. CASE Unborrow
    BY <1>12, UnborrowInv
<1>13. CASE Destroy
    BY <1>13, DestroyInv
<1>14. CASE UNCHANGED vars
    <2>1. UNCHANGED <<alive, len, table, borrows, pins, counts>> /\ trapped' \in BOOLEAN
        BY <1>14 DEF vars, counts, Inv
    <2> QED
        BY <2>1, QuietInv
<1> QED
    BY <1>1, <1>2, <1>3, <1>4, <1>5, <1>6, <1>7, <1>8, <1>9, <1>10, <1>11, <1>12, <1>13, <1>14
    DEF Next

\* Whatever the calls, the table stays in order and every count is that of its holders.
THEOREM Invariance ==
    Spec /\ [][DistancesHold]_vars => []Inv
<1>1. Init => Inv
    BY InitInv
<1>2. Inv /\ [Next]_vars /\ [DistancesHold]_vars => Inv'
    BY NextInv
<1> QED
    BY <1>1, <1>2, PTL DEF Spec

-----------------------------------------------------------------------------
(* What the invariant says.                                                *)

\* In any table every entry is as far from home as its bucket says and follows one that is at
\* most a step nearer, so a probe may give up where it does: roxy_map_insert, map_grow and
\* roxy_map_remove keep the order their own searches rely on.
THEOREM OrderKept ==
    Spec /\ [][DistancesHold]_vars => []RobinHoodOrder
<1>1. Inv => RobinHoodOrder
    <2> SUFFICES ASSUME Inv, NEW i \in Occupied(table)
                 PROVE  LET d == table[i].dist
                            before == (i + Capacity(table) - 1) % Capacity(table)
                        IN  /\ i = (Home(table, table[i].key) + d - 1) % Capacity(table)
                            /\ d > 1 => table[before].dist >= d - 1
        BY DEF RobinHoodOrder
    <2>1. /\ i \in Ring(Capacity(table)) /\ table[i].dist # 0
          /\ InOrder(Capacity(table), table)
        BY SoundFacts DEF Inv, TableInv, Sound, Occupied
    <2>2. AtHome(Capacity(table), i, table[i])
        BY <2>1 DEF InOrder
    <2>3. Follows(table[i], table[Prev(Capacity(table), i)])
        BY <2>1 DEF InOrder
    <2> QED
        BY <2>2, <2>3 DEF AtHome, Follows, Spot, HomeIn, Home, Prev
<1>2. Spec /\ [][DistancesHold]_vars => []Inv
    BY Invariance
<1> QED
    BY <1>1, <1>2, PTL

\* An allocated table always has an empty bucket, after any growth, initial capacity or
\* removal: the unbounded loops of the probes and of map_insert_internal come to an end.
THEOREM RoomCorrect ==
    Spec /\ [][DistancesHold]_vars => []RoomForAProbeToEnd
<1>1. Inv => RoomForAProbeToEnd
    <2> SUFFICES ASSUME Inv, table # NoTable
                 PROVE  Occupied(table) # DOMAIN table
        BY DEF RoomForAProbeToEnd
    <2>1. /\ DOMAIN table = Ring(Capacity(table))
          /\ \E v \in Ring(Capacity(table)) : table[v].dist = 0
        BY SoundFacts DEF Inv, TableInv, Sound
    <2> QED
        BY <2>1 DEF Occupied
<1>2. Spec /\ [][DistancesHold]_vars => []Inv
    BY Invariance
<1> QED
    BY <1>1, <1>2, PTL

\* Keys that are equal never have two entries, and hdr->length is the number of entries,
\* whatever was displaced, shifted or rehashed between the calls.
THEOREM EntriesCorrect ==
    Spec /\ [][DistancesHold]_vars => [](EqualKeysShareAnEntry /\ LengthExact)
<1>1. Inv => EqualKeysShareAnEntry /\ LengthExact
    <2> SUFFICES ASSUME Inv, NEW i \in Occupied(table), NEW j \in Occupied(table),
                        KeysEqual(table[i].key, table[j].key)
                 PROVE  i = j
        BY DEF EqualKeysShareAnEntry, LengthExact, Inv, TableInv
    <2> DEFINE c == Content[table[i].key]
    <2>1. /\ table[i].key \in Key /\ table[i].val \in Val
          /\ table[j].key \in Key /\ table[j].val \in Val
          /\ table \in Tables(Capacity(table)) /\ Capacity(table) \in Nat
        BY SoundFacts DEF Inv, TableInv, Sound
    <2>2. c \in Class \ Unequal
        BY <2>1, ContentAssumption DEF KeysEqual
    <2>3. Count(table, OfClass(c)) <= 1
        BY <2>2 DEF Inv, KeysInv
    <2>4. Pair(table[i]) \in OfClass(c) /\ Pair(table[j]) \in OfClass(c)
        BY <2>1 DEF Pair, OfClass, KeysEqual
    <2> HIDE DEF c
    <2> QED
        BY <2>1, <2>3, <2>4, CountZero DEF Having
<1>2. Spec /\ [][DistancesHold]_vars => []Inv
    BY Invariance
<1> QED
    BY <1>1, <1>2, PTL

\* The pointer an `inout` argument was given still points at its entry, in the same bucket
\* array of a living map, until the call returns.
THEOREM BorrowsCorrect ==
    Spec /\ [][DistancesHold]_vars => []BorrowedValuesStay
<1>1. Inv => BorrowedValuesStay
    BY DEF Inv, BorrowInv, BorrowedValuesStay
<1>2. Spec /\ [][DistancesHold]_vars => []Inv
    BY Invariance
<1> QED
    BY <1>1, <1>2, PTL

\* Every key string and every borrowed value is counted once by each of its holders, through any
\* insertions, replacements, removals, copies, drops and write-throughs.
THEOREM HoldingsCorrect ==
    Spec /\ [][DistancesHold]_vars => []HoldingsAreCounted
<1>1. Inv => HoldingsAreCounted
    <2> SUFFICES ASSUME Inv
                 PROVE  HoldingsAreCounted
        OBVIOUS
    <2>1. /\ Sound(table) /\ len = Cardinality(Occupied(table)) /\ held \subseteq Key
          /\ product \in [keys : [Key -> Nat], vals : [Val -> Nat]]
          /\ key_count \in [Key -> Int] /\ val_count \in [Val -> Int]
        BY DEF Inv, TableInv, CountInv
    <2>2. KeysIn(table) \in [Key -> Nat] /\ ValsIn(table) \in [Val -> Nat]
        BY <2>1, HeldByTable
    <2>3. key_count \in [Key -> Nat]
        <3> SUFFICES ASSUME NEW k \in Key
                     PROVE  key_count[k] \in Nat
            BY <2>1
        <3>1. key_count[k] = (IF k \in held THEN 1 ELSE 0) + KeysIn(table)[k] + product.keys[k]
            BY DEF Inv, CountInv
        <3>2. KeysIn(table)[k] \in Nat /\ product.keys[k] \in Nat
            BY <2>1, <2>2
        <3> QED
            BY ONLY <3>1, <3>2
    <2>4. val_count \in [Val -> Nat]
        <3> SUFFICES ASSUME NEW v \in Val
                     PROVE  val_count[v] \in Nat
            BY <2>1
        <3>1. val_count[v] = ValsIn(table)[v] + product.vals[v]
            BY DEF Inv, CountInv
        <3>2. ValsIn(table)[v] \in Nat /\ product.vals[v] \in Nat
            BY <2>1, <2>2
        <3> QED
            BY ONLY <3>1, <3>2
    <2>5. pins \in Nat
        BY DEF Inv, BorrowInv
    <2>6. len \in Nat /\ table \in [0 .. Capacity(table) - 1 -> Bucket]
        BY <2>1, SoundFacts DEF Tables, Ring
    <2>7. TypeOK
        BY <2>1, <2>3, <2>4, <2>5, <2>6 DEF TypeOK, Inv
    <2>8. KeyCountsExact
        BY DEF KeyCountsExact, Inv, CountInv
    <2>9. ValueBorrowsExact
        BY <2>7 DEF ValueBorrowsExact, Inv, CountInv
    <2> QED
        BY <2>8, <2>9 DEF HoldingsAreCounted
<1>2. Spec /\ [][DistancesHold]_vars => []Inv
    BY Invariance
<1> QED
    BY <1>1, <1>2, PTL

-----------------------------------------------------------------------------
(* The function a table is.                                                *)

Holding(c, x) == {p \in Key \X Val : Content[p[1]] = c /\ p[2] = x}
OfUnequal == {p \in Key \X Val : Content[p[1]] \in Unequal}

\* A class that can be found has one entry at the most.
Single(t) == \A c \in Class \ Unequal : Count(t, OfClass(c)) <= 1

\* It gives the class of each entry that can be found the value of that entry.
LEMMA ShownIs ==
    ASSUME NEW t, Sound(t), Single(t)
    PROVE  /\ DOMAIN Shown(t) = {Content[t[i].key] : i \in Found(t)}
           /\ DOMAIN Shown(t) \in SUBSET (Class \ Unequal)
           /\ \A i \in Found(t) : Shown(t)[Content[t[i].key]] = t[i].val
           /\ Shown(t) \in [DOMAIN Shown(t) -> Val]
<1> DEFINE D == {Content[t[i].key] : i \in Found(t)}
<1>1. /\ t \in Tables(Capacity(t)) /\ Capacity(t) \in Nat
      /\ \A i \in Found(t) : /\ i \in Occupied(t) /\ t[i].key \in Key /\ t[i].val \in Val
                             /\ Content[t[i].key] \in Class \ Unequal
    BY SoundFacts, ContentAssumption DEF Sound, Found
<1>2. ASSUME NEW i \in Found(t), NEW j \in Found(t), Content[t[i].key] = Content[t[j].key]
      PROVE  i = j
    <2> DEFINE c == Content[t[i].key]
    <2>1. Pair(t[i]) \in OfClass(c) /\ Pair(t[j]) \in OfClass(c)
        BY <1>1, <1>2 DEF Pair, OfClass
    <2>2. Count(t, OfClass(c)) <= 1
        BY <1>1 DEF Single
    <2> HIDE DEF c
    <2> QED
        BY <1>1, <2>1, <2>2, CountZero DEF Having
<1>3. Shown(t) = [c \in D |-> t[CHOOSE i \in Found(t) : Content[t[i].key] = c].val]
    BY DEF Shown
<1>4. ASSUME NEW i \in Found(t)
      PROVE  Shown(t)[Content[t[i].key]] = t[i].val
    <2> DEFINE c == Content[t[i].key]
               j == CHOOSE m \in Found(t) : Content[t[m].key] = c
    <2>1. j \in Found(t) /\ Content[t[j].key] = c
        OBVIOUS
    <2>2. c \in D /\ Shown(t)[c] = t[j].val
        BY <1>3
    <2> HIDE DEF j
    <2>3. j = i
        BY <1>2, <2>1
    <2> QED
        BY <2>2, <2>3
<1>5. DOMAIN Shown(t) = D
    BY <1>3
<1>6. D \in SUBSET (Class \ Unequal)
    BY <1>1
<1>7. Shown(t) \in [D -> Val]
    <2>1. ASSUME NEW c \in D
          PROVE  Shown(t)[c] \in Val
        <3>1. PICK i \in Found(t) : c = Content[t[i].key]
            OBVIOUS
        <3> QED
            BY <1>1, <1>4, <3>1
    <2> HIDE DEF D
    <2> QED
        BY <1>3, <2>1
<1> HIDE DEF D
<1> QED
    BY <1>4, <1>5, <1>6, <1>7 DEF D

\* What it is follows from what is counted.
LEMMA ShownCounts ==
    ASSUME NEW t, Sound(t), Single(t), NEW c \in Class \ Unequal
    PROVE  /\ c \in DOMAIN Shown(t) <=> Count(t, OfClass(c)) # 0
           /\ \A x \in Val : c \in DOMAIN Shown(t) /\ Shown(t)[c] = x
                                <=> Count(t, Holding(c, x)) # 0
<1>1. /\ t \in Tables(Capacity(t)) /\ Capacity(t) \in Nat
      /\ \A i \in Occupied(t) : t[i].key \in Key /\ t[i].val \in Val
    BY SoundFacts DEF Sound
<1>2. /\ DOMAIN Shown(t) = {Content[t[i].key] : i \in Found(t)}
      /\ \A i \in Found(t) : Shown(t)[Content[t[i].key]] = t[i].val
    BY ShownIs
<1>3. c \in DOMAIN Shown(t) <=> \E i \in Occupied(t) : Content[t[i].key] = c
    BY <1>2 DEF Found
<1>4. c \in DOMAIN Shown(t) <=> Count(t, OfClass(c)) # 0
    <2>1. \A i \in Occupied(t) : Pair(t[i]) \in OfClass(c) <=> Content[t[i].key] = c
        BY <1>1 DEF Pair, OfClass
    <2> QED
        BY <1>1, <1>3, <2>1, CountZero
<1>5. ASSUME NEW x \in Val
      PROVE  c \in DOMAIN Shown(t) /\ Shown(t)[c] = x <=> Count(t, Holding(c, x)) # 0
    <2>1. \A i \in Occupied(t) :
             Pair(t[i]) \in Holding(c, x) <=> Content[t[i].key] = c /\ t[i].val = x
        BY <1>1 DEF Pair, Holding
    <2>2. Count(t, Holding(c, x)) # 0
            <=> \E i \in Occupied(t) : Content[t[i].key] = c /\ t[i].val = x
        BY <1>1, <2>1, CountZero
    <2>3. \A i \in Occupied(t) : Content[t[i].key] = c => Shown(t)[c] = t[i].val
        BY <1>2 DEF Found
    <2> QED
        BY <1>3, <2>2, <2>3
<1> QED
    BY <1>4, <1>5

\* An entry of the class c and the value v, and the others as they were.
LEMMA ShownPut ==
    ASSUME NEW t, Sound(t), Single(t), NEW u, Sound(u), Single(u),
           NEW c \in Class \ Unequal, NEW v \in Val, Count(u, Holding(c, v)) # 0,
           \A d \in Class \ Unequal : d # c =>
              \A x \in Val : Count(u, Holding(d, x)) = Count(t, Holding(d, x))
    PROVE  Shown(u) = [d \in DOMAIN Shown(t) \cup {c} |-> IF d = c THEN v ELSE Shown(t)[d]]
<1> DEFINE f == Shown(t)
           g == Shown(u)
<1>1. /\ f \in [DOMAIN f -> Val] /\ DOMAIN f \in SUBSET (Class \ Unequal)
      /\ g \in [DOMAIN g -> Val] /\ DOMAIN g \in SUBSET (Class \ Unequal)
    BY ShownIs
<1>2. /\ \A d \in Class \ Unequal, x \in Val :
            /\ d \in DOMAIN f /\ f[d] = x <=> Count(t, Holding(d, x)) # 0
            /\ d \in DOMAIN g /\ g[d] = x <=> Count(u, Holding(d, x)) # 0
    BY ShownCounts
<1> HIDE DEF f, g
<1>3. c \in DOMAIN g /\ g[c] = v
    BY <1>2
<1>4. ASSUME NEW d \in Class \ Unequal, d # c
      PROVE  /\ d \in DOMAIN g <=> d \in DOMAIN f
             /\ d \in DOMAIN f => g[d] = f[d]
    BY <1>1, <1>2, <1>4
<1>5. DOMAIN g = DOMAIN f \cup {c}
    BY <1>1, <1>3, <1>4
<1>6. \A d \in DOMAIN g : g[d] = IF d = c THEN v ELSE f[d]
    BY <1>1, <1>3, <1>4, <1>5
<1> QED
    BY <1>1, <1>5, <1>6 DEF f, g

\* No entry of the class c, and the others as they were.
LEMMA ShownWithout ==
    ASSUME NEW t, Sound(t), Single(t), NEW u, Sound(u), Single(u),
           NEW c \in Class \ Unequal, Count(u, OfClass(c)) = 0,
           \A d \in Class \ Unequal : d # c =>
              \A x \in Val : Count(u, Holding(d, x)) = Count(t, Holding(d, x))
    PROVE  Shown(u) = [d \in DOMAIN Shown(t) \ {c} |-> Shown(t)[d]]
<1> DEFINE f == Shown(t)
           g == Shown(u)
<1>1. /\ f \in [DOMAIN f -> Val] /\ DOMAIN f \in SUBSET (Class \ Unequal)
      /\ g \in [DOMAIN g -> Val] /\ DOMAIN g \in SUBSET (Class \ Unequal)
    BY ShownIs
<1>2. /\ \A d \in Class \ Unequal, x \in Val :
            /\ d \in DOMAIN f /\ f[d] = x <=> Count(t, Holding(d, x)) # 0
            /\ d \in DOMAIN g /\ g[d] = x <=> Count(u, Holding(d, x)) # 0
    BY ShownCounts
<1>3. c \notin DOMAIN g
    BY ShownCounts
<1> HIDE DEF f, g
<1>4. ASSUME NEW d \in Class \ Unequal, d # c
      PROVE  /\ d \in DOMAIN g <=> d \in DOMAIN f
             /\ d \in DOMAIN f => g[d] = f[d]
    BY <1>1, <1>2, <1>4
<1>5. DOMAIN g = DOMAIN f \ {c}
    BY <1>1, <1>3, <1>4
<1>6. \A d \in DOMAIN g : g[d] = f[d]
    BY <1>1, <1>3, <1>4, <1>5
<1> QED
    BY <1>1, <1>5, <1>6 DEF f, g

\* The same counts make the same function.
LEMMA ShownSame ==
    ASSUME NEW t, Sound(t), Single(t), NEW u, Sound(u), Single(u),
           \A d \in Class \ Unequal, x \in Val : Count(u, Holding(d, x)) = Count(t, Holding(d, x))
    PROVE  Shown(u) = Shown(t)
<1> DEFINE f == Shown(t)
           g == Shown(u)
<1>1. /\ f \in [DOMAIN f -> Val] /\ DOMAIN f \in SUBSET (Class \ Unequal)
      /\ g \in [DOMAIN g -> Val] /\ DOMAIN g \in SUBSET (Class \ Unequal)
    BY ShownIs
<1>2. /\ \A d \in Class \ Unequal, x \in Val :
            /\ d \in DOMAIN f /\ f[d] = x <=> Count(t, Holding(d, x)) # 0
            /\ d \in DOMAIN g /\ g[d] = x <=> Count(u, Holding(d, x)) # 0
    BY ShownCounts
<1> HIDE DEF f, g
<1>4. ASSUME NEW d \in Class \ Unequal
      PROVE  /\ d \in DOMAIN g <=> d \in DOMAIN f
             /\ d \in DOMAIN f => g[d] = f[d]
    BY <1>1, <1>2
<1>5. DOMAIN g = DOMAIN f
    BY <1>1, <1>4
<1>6. \A d \in DOMAIN g : g[d] = f[d]
    BY <1>1, <1>4, <1>5
<1> QED
    BY <1>1, <1>5, <1>6 DEF f, g

\* The entries that no search finds are those of the classes that equal nothing.
LEMMA StraysCount ==
    ASSUME NEW t, Sound(t)
    PROVE  Strays(t) = Count(t, OfUnequal)
<1>1. \A i \in Occupied(t) : t[i].key \in Key /\ t[i].val \in Val
    BY SoundFacts
<1>2. Occupied(t) \ Found(t) = Having(t, OfUnequal)
    BY <1>1 DEF Found, Having, OfUnequal, Pair
<1> QED
    BY <1>2 DEF Strays, Count

\* Every entry is found or is not.
LEMMA EntriesAddUp ==
    ASSUME NEW t, Sound(t), Single(t)
    PROVE  Cardinality(Occupied(t)) = Cardinality(DOMAIN Shown(t)) + Strays(t)
<1> DEFINE F == Found(t)
           D == DOMAIN Shown(t)
           f == [i \in F |-> Content[t[i].key]]
<1>1. /\ t \in Tables(Capacity(t)) /\ Capacity(t) \in Nat
      /\ \A i \in F : /\ i \in Occupied(t) /\ t[i].key \in Key /\ t[i].val \in Val
                      /\ Content[t[i].key] \in Class \ Unequal
    BY SoundFacts, ContentAssumption DEF Sound, Found
<1>2. IsFiniteSet(Occupied(t)) /\ F \in SUBSET Occupied(t)
    BY <1>1, HavingIsFinite
<1>3. /\ IsFiniteSet(F) /\ Cardinality(F) \in Nat /\ Cardinality(Occupied(t)) \in Nat
      /\ Strays(t) = Cardinality(Occupied(t)) - Cardinality(Occupied(t) \cap F)
    BY <1>2, FS_Subset, FS_Difference, FS_CardinalityType DEF Strays
<1>4. Occupied(t) \cap F = F
    BY <1>2
<1>5. f \in Bijection(F, D)
    <2>1. D = {Content[t[i].key] : i \in F}
        BY ShownIs
    <2>2. f \in [F -> D] /\ \A c \in D : \E i \in F : f[i] = c
        BY <2>1
    <2>3. ASSUME NEW i \in F, NEW j \in F, f[i] = f[j]
          PROVE  i = j
        <3> DEFINE c == Content[t[i].key]
        <3>1. Pair(t[i]) \in OfClass(c) /\ Pair(t[j]) \in OfClass(c)
            BY <1>1, <2>3 DEF Pair, OfClass
        <3>2. Count(t, OfClass(c)) <= 1
            BY <1>1 DEF Single
        <3> HIDE DEF c
        <3> QED
            BY <1>1, <3>1, <3>2, CountZero DEF Having
    <2> HIDE DEF f, F, D
    <2> QED
        BY <2>2, <2>3 DEF Bijection, Injection, Surjection, IsInjective
<1>6. Cardinality(D) = Cardinality(F)
    <2> HIDE DEF f, F, D
    <2> QED
        BY <1>3, <1>5, FS_Bijection DEF ExistsBijection
<1> QED
    BY <1>3, <1>4, <1>6

-----------------------------------------------------------------------------
(* The refinement.  A map of structs is left out: m[k] = m[l] then stores  *)
(* what it reads from freed memory (see InsertOwn).                        *)

Meant == IF alive THEN Shown(table) ELSE None
PutIn(f, c, v) == [d \in DOMAIN f \cup {c} |-> IF d = c THEN v ELSE f[d]]

\* A search answers what the function says.
LEMMA SearchShown ==
    ASSUME NEW t, Sound(t), Single(t), NEW k \in Key
    PROVE  /\ Find(t, k) # None <=> Content[k] \in DOMAIN Shown(t)
           /\ Find(t, k) # None => /\ Find(t, k) \in Occupied(t)
                                   /\ Content[t[Find(t, k)].key] = Content[k]
                                   /\ Content[k] \in Class \ Unequal
                                   /\ Shown(t)[Content[k]] = t[Find(t, k)].val
<1>1. /\ Find(t, k) # None => /\ Find(t, k) \in Occupied(t)
                              /\ KeysEqual(t[Find(t, k)].key, k)
      /\ \A j \in Occupied(t) : KeysEqual(t[j].key, k) => Find(t, k) # None
    BY Search
<1>2. /\ DOMAIN Shown(t) = {Content[t[i].key] : i \in Found(t)}
      /\ \A i \in Found(t) : Shown(t)[Content[t[i].key]] = t[i].val
    BY ShownIs
<1>3. Content[k] \in Class
    BY ContentAssumption
<1>4. ASSUME Find(t, k) # None
      PROVE  /\ Find(t, k) \in Found(t) /\ Content[t[Find(t, k)].key] = Content[k]
             /\ Content[k] \notin Unequal
    BY <1>1, <1>4 DEF KeysEqual, Found
<1>5. ASSUME Content[k] \in DOMAIN Shown(t)
      PROVE  Find(t, k) # None
    <2>1. PICK j \in Found(t) : Content[t[j].key] = Content[k]
        BY <1>2, <1>5
    <2> QED
        BY <1>1, <2>1 DEF Found, KeysEqual
<1> QED
    BY <1>1, <1>2, <1>3, <1>4, <1>5

\* What the invariant says of the contract's state.
LEMMA MeantFacts ==
    ASSUME Inv
    PROVE  /\ Sound(table) /\ Single(table)
           /\ alive <=> Meant # None
           /\ borrows \in Seq([key : Key, pos : Nat, of : Nat])
           /\ borrows = <<>> <=> ~MutationBlocked
           /\ borrows # <<>> => alive
           /\ DOMAIN Shown(table) \subseteq Class
           /\ len = Cardinality(DOMAIN Shown(table)) + Strays(table)
<1>1. Sound(table) /\ Single(table) /\ len = Cardinality(Occupied(table))
    BY DEF Inv, TableInv, KeysInv, Single
<1>2. borrows \in Seq([key : Key, pos : Nat, of : Nat]) /\ pins = Len(borrows)
    BY DEF Inv, BorrowInv
<1>3. borrows = <<>> <=> ~MutationBlocked
    BY <1>2, EmptySeq DEF MutationBlocked
<1>4. borrows # <<>> => alive
    <2> SUFFICES ASSUME borrows # <<>>
                 PROVE  alive
        OBVIOUS
    <2>1. 1 \in 1 .. Len(borrows)
        BY <1>2, EmptySeq
    <2> QED
        BY <2>1 DEF Inv, BorrowInv
<1>5. DOMAIN Shown(table) \in SUBSET Class /\ Shown(table) \in [DOMAIN Shown(table) -> Val]
    BY <1>1, ShownIs
<1>6. Shown(table) # None
    BY <1>5, NoneAssumption
<1>7. len = Cardinality(DOMAIN Shown(table)) + Strays(table)
    BY <1>1, EntriesAddUp
<1> QED
    BY <1>1, <1>2, <1>3, <1>4, <1>5, <1>6, <1>7 DEF Meant

\* The classes that are lent, oldest first.
LEMMA LentIsSequence ==
    ASSUME NEW s \in Seq([key : Key, pos : Nat, of : Nat])
    PROVE  /\ Len(s) \in Nat
           /\ Lent(s) \in Seq(Class) /\ Len(Lent(s)) = Len(s)
           /\ \A n \in 1 .. Len(s) : Lent(s)[n] = Content[s[n].key]
           /\ Lent(s) = <<>> <=> s = <<>>
<1>1. Len(s) \in Nat /\ DOMAIN s = 1 .. Len(s)
    BY LenProperties
<1>2. ASSUME NEW n \in 1 .. Len(s)
      PROVE  Content[s[n].key] \in Class
    <2>1. s[n] \in [key : Key, pos : Nat, of : Nat]
        BY ElementOfSeq
    <2> QED
        BY <2>1, ContentAssumption
<1>3. Lent(s) = [n \in 1 .. Len(s) |-> Content[s[n].key]]
    BY <1>1 DEF Lent
<1>4. Lent(s) \in Seq(Class) /\ Len(Lent(s)) = Len(s)
    BY <1>1, <1>2, <1>3
<1>5. Lent(s) = <<>> <=> s = <<>>
    BY <1>4, EmptySeq
<1> QED
    BY <1>1, <1>3, <1>4, <1>5

\* A refused operation is a refused one of the contract.
LEMMA RefuseRefines ==
    ASSUME Inv, Refuse, alive, MutationBlocked
    PROVE  Contract!Refused
<1>1. /\ Meant # None /\ borrows # <<>> /\ borrows \in Seq([key : Key, pos : Nat, of : Nat])
    BY MeantFacts
<1>2. Lent(borrows) # <<>>
    BY <1>1, LentIsSequence
<1>3. /\ trapped' = TRUE /\ last' = <<"refused">>
      /\ UNCHANGED <<alive, table, borrows>>
    BY DEF Refuse
<1> QED
    BY <1>1, <1>2, <1>3 DEF Contract!Refused, Contract!Alive, Meant

\* A value stored in a bucket is put under the class of its key.
LEMMA OverwriteShown ==
    ASSUME Inv, Inv', NEW i \in Occupied(table), NEW v \in Val,
           table' = [table EXCEPT ![i].val = v],
           NEW c \in Class \ Unequal, Content[table[i].key] = c
    PROVE  Shown(table') = PutIn(Shown(table), c, v) /\ Strays(table') = Strays(table)
<1> DEFINE k == table[i].key
           x == table[i].val
<1>1. /\ Sound(table) /\ Single(table) /\ Sound(table') /\ Single(table')
      /\ k \in Key /\ x \in Val /\ Content[k] = c
    BY SoundFacts DEF Inv, TableInv, KeysInv, Single
<1>2. /\ Occupied(table') = Occupied(table)
      /\ table'[i].key = k /\ table'[i].val = v
      /\ \A P : Count(table', P) = Count(table, P) - (IF <<k, x>> \in P THEN 1 ELSE 0)
                                   + (IF <<k, v>> \in P THEN 1 ELSE 0)
    <2>1. table' = Overwritten(table, i, v)
        BY DEF Overwritten
    <2> QED
        BY ONLY <1>1, <2>1, i \in Occupied(table), v \in Val, OverwrittenSound DEF Pair
<1> HIDE DEF k, x
<1>3. Count(table', Holding(c, v)) # 0
    <2>1. Pair(table'[i]) \in Holding(c, v) /\ i \in Occupied(table')
        BY <1>1, <1>2 DEF Pair, Holding
    <2>2. table' \in Tables(Capacity(table')) /\ Capacity(table') \in Nat
        BY <1>1, SoundFacts DEF Sound
    <2>3. Count(table', Holding(c, v)) = 0
            <=> \A j \in Occupied(table') : Pair(table'[j]) \notin Holding(c, v)
        BY ONLY <2>2, CountZero
    <2> QED
        BY ONLY <2>1, <2>3
<1>4. ASSUME NEW P, <<k, x>> \in P <=> <<k, v>> \in P
      PROVE  Count(table', P) = Count(table, P)
    <2>1. Count(table, P) \in Nat
        BY <1>1, SoundFacts
    <2>2. Count(table', P) = Count(table, P) - (IF <<k, x>> \in P THEN 1 ELSE 0)
                                   + (IF <<k, v>> \in P THEN 1 ELSE 0)
        BY <1>2
    <2> QED
        BY ONLY <1>4, <2>1, <2>2
<1>5. \A d \in Class \ Unequal : d # c =>
         \A y \in Val : Count(table', Holding(d, y)) = Count(table, Holding(d, y))
    BY <1>1, <1>4 DEF Holding
<1>6. Count(table', OfUnequal) = Count(table, OfUnequal)
    BY <1>1, <1>4 DEF OfUnequal
<1>7. Shown(table') = PutIn(Shown(table), c, v)
    <2>1. Sound(table) /\ Single(table) /\ Sound(table') /\ Single(table')
        BY <1>1
    <2> QED
        BY ONLY <2>1, <1>3, <1>5, c \in Class \ Unequal, v \in Val, ShownPut DEF PutIn
<1>8. Strays(table') = Strays(table)
    BY <1>1, <1>6, StraysCount
<1> QED
    BY <1>7, <1>8

\* A new entry is put under its class, or is one more that nothing finds.
LEMMA InsertShown ==
    ASSUME Inv, Inv', NEW k \in Key, NEW v \in Val,
           \A P : Count(table', P) = Count(table, P) + (IF <<k, v>> \in P THEN 1 ELSE 0)
    PROVE  IF Content[k] \in Unequal
           THEN Shown(table') = Shown(table) /\ Strays(table') = Strays(table) + 1
           ELSE Shown(table') = PutIn(Shown(table), Content[k], v) /\ Strays(table') = Strays(table)
<1> DEFINE c == Content[k]
<1>1. /\ Sound(table) /\ Single(table) /\ Sound(table') /\ Single(table') /\ c \in Class
      /\ \A P : Count(table, P) \in Nat
    BY SoundFacts, ContentAssumption DEF Inv, TableInv, KeysInv, Single
<1>2. ASSUME NEW P
      PROVE  Count(table', P) = IF <<k, v>> \in P THEN Count(table, P) + 1 ELSE Count(table, P)
    <2>1. Count(table', P) = Count(table, P) + (IF <<k, v>> \in P THEN 1 ELSE 0)
        OBVIOUS
    <2>2. Count(table, P) \in Nat
        BY <1>1
    <2> QED
        BY ONLY <2>1, <2>2
<1>3. /\ \A d, y : <<k, v>> \in Holding(d, y) <=> d = c /\ y = v
      /\ <<k, v>> \in OfUnequal <=> c \in Unequal
    BY DEF Holding, OfUnequal
<1>4. Strays(table') = Count(table', OfUnequal) /\ Strays(table) = Count(table, OfUnequal)
    BY <1>1, StraysCount
<1>5. \A d \in Class \ Unequal : d # c =>
         \A y \in Val : Count(table', Holding(d, y)) = Count(table, Holding(d, y))
    BY <1>2, <1>3
<1>6. CASE c \in Unequal
    <2>1. \A d \in Class \ Unequal, y \in Val :
             Count(table', Holding(d, y)) = Count(table, Holding(d, y))
        BY <1>5, <1>6
    <2>2. Shown(table') = Shown(table)
        BY ONLY <1>1, <2>1, ShownSame
    <2>3. Strays(table') = Strays(table) + 1
        BY <1>2, <1>3, <1>4, <1>6
    <2> QED
        BY <1>6, <2>2, <2>3
<1>7. CASE c \notin Unequal
    <2>1. Count(table', Holding(c, v)) # 0
        <3>1. Count(table', Holding(c, v)) = Count(table, Holding(c, v)) + 1
            BY <1>2, <1>3
        <3>2. Count(table, Holding(c, v)) \in Nat
            BY <1>1
        <3> QED
            BY ONLY <3>1, <3>2
    <2>2. c \in Class \ Unequal
        BY <1>1, <1>7
    <2> HIDE DEF c
    <2>3. Shown(table') = PutIn(Shown(table), c, v)
        BY ONLY <1>1, <1>5, <2>1, <2>2, v \in Val, ShownPut DEF PutIn
    <2>4. Strays(table') = Strays(table)
        BY <1>2, <1>3, <1>4, <1>7
    <2> QED
        BY <1>7, <2>3, <2>4 DEF c
<1> QED
    BY <1>6, <1>7

\* An entry taken out leaves its class without one.
LEMMA RemoveShown ==
    ASSUME Inv, Inv', NEW i \in Occupied(table), table' = ShiftBack(table, i),
           NEW c \in Class \ Unequal, Content[table[i].key] = c
    PROVE  /\ Shown(table') = [d \in DOMAIN Shown(table) \ {c} |-> Shown(table)[d]]
           /\ Strays(table') = Strays(table)
<1> DEFINE k == table[i].key
           x == table[i].val
<1>1. /\ Sound(table) /\ Single(table) /\ Sound(table') /\ Single(table')
      /\ k \in Key /\ x \in Val /\ Content[k] = c
      /\ \A P : Count(table, P) \in Nat
    BY SoundFacts DEF Inv, TableInv, KeysInv, Single
<1>2. \A P : Count(table', P) = Count(table, P) - (IF <<k, x>> \in P THEN 1 ELSE 0)
    BY ONLY <1>1, table' = ShiftBack(table, i), i \in Occupied(table), RemovedSound DEF Pair
<1> HIDE DEF k, x
<1>3. ASSUME NEW P
      PROVE  Count(table', P) = IF <<k, x>> \in P THEN Count(table, P) - 1 ELSE Count(table, P)
    <2>1. Count(table', P) = Count(table, P) - (IF <<k, x>> \in P THEN 1 ELSE 0)
        BY <1>2
    <2>2. Count(table, P) \in Nat
        BY <1>1
    <2> QED
        BY ONLY <2>1, <2>2
<1>4. Count(table', OfClass(c)) = 0
    <2>1. <<k, x>> \in OfClass(c)
        BY <1>1 DEF OfClass
    <2>2. Count(table', OfClass(c)) = Count(table, OfClass(c)) - 1
        BY <1>3, <2>1
    <2>3. Count(table, OfClass(c)) \in Nat /\ Count(table, OfClass(c)) <= 1
        BY <1>1 DEF Single
    <2>4. Count(table', OfClass(c)) \in Nat
        BY <1>1, SoundFacts
    <2> QED
        BY ONLY <2>2, <2>3, <2>4
<1>5. \A d \in Class \ Unequal : d # c =>
         \A y \in Val : Count(table', Holding(d, y)) = Count(table, Holding(d, y))
    BY <1>1, <1>3 DEF Holding
<1>6. Count(table', OfUnequal) = Count(table, OfUnequal)
    BY <1>1, <1>3 DEF OfUnequal
<1>7. Shown(table') = [d \in DOMAIN Shown(table) \ {c} |-> Shown(table)[d]]
    BY ONLY <1>1, <1>4, <1>5, c \in Class \ Unequal, ShownWithout
<1>8. Strays(table') = Strays(table)
    BY <1>1, <1>6, StraysCount
<1> QED
    BY <1>7, <1>8

\* A table of no entries is the empty function.
LEMMA ShownNothing ==
    ASSUME NEW t, Occupied(t) = {}
    PROVE  Shown(t) = [c \in {} |-> None] /\ Strays(t) = 0
<1>1. Found(t) = {}
    BY DEF Found
<1>2. {Content[t[i].key] : i \in Found(t)} = {}
    BY <1>1
<1> QED
    BY <1>1, <1>2, FS_EmptySet DEF Shown, Strays

\* A value put under a key, whether it is new or not.
LEMMA PutRefines ==
    ASSUME DistancesHold, Inv, Inv', ~MutationBlocked, alive, NEW k \in Key, NEW v \in Val,
           IF Find(table, k) # None THEN Replace(Find(table, k), k, v) ELSE InsertNew(k, v),
           last' = <<"insert", Content[k], v>>,
           UNCHANGED <<alive, borrows, pins, trapped, held, product>>
    PROVE  Contract!Insert(Content[k], v)
<1> DEFINE c == Content[k]
           i == Find(table, k)
<1>1. /\ Sound(table) /\ Single(table) /\ Meant # None /\ borrows = <<>>
      /\ borrows \in Seq([key : Key, pos : Nat, of : Nat])
    BY MeantFacts
<1>2. IF c \in Unequal
      THEN Shown(table') = Shown(table) /\ Strays(table') = Strays(table) + 1
      ELSE Shown(table') = PutIn(Shown(table), c, v) /\ Strays(table') = Strays(table)
    <2>1. CASE i # None
        <3>1. i \in Occupied(table) /\ Content[table[i].key] = c /\ c \in Class \ Unequal
            BY <1>1, <2>1, SearchShown
        <3>2. Replace(i, k, v)
            BY <2>1
        <3> HIDE DEF i, c
        <3>3. table' = [table EXCEPT ![i].val = v]
            BY <3>2 DEF Replace
        <3>4. Shown(table') = PutIn(Shown(table), c, v) /\ Strays(table') = Strays(table)
            BY ONLY Inv, Inv', <3>1, <3>3, v \in Val, OverwriteShown
        <3> QED
            BY <3>1, <3>4
    <2>2. CASE i = None
        <3> DEFINE r == IF IsFull(table, len) THEN Grow(table) ELSE table
        <3>1. /\ InsertNew(k, v) /\ len = Cardinality(Occupied(table))
            BY <2>2 DEF Inv, TableInv
        <3>2. Capacity(r) <= MaxCapacity /\ table' = InsertInternal(r, k, v)
            BY <3>1 DEF InsertNew
        <3>3. r = IF IsFull(table, len) THEN Grow(table) ELSE table
            OBVIOUS
        <3> HIDE DEF r, i
        <3>4. /\ InsertFits(r, k, v)
              /\ IsFull(table, len) => MovingFits(table, 2 * Capacity(table))
            BY <1>1, <3>1, <3>2, <3>3, HoldingFits
        <3>5. \A P : Count(table', P) = Count(table, P) + (IF <<k, v>> \in P THEN 1 ELSE 0)
            BY ONLY <1>1, <3>1, <3>2, <3>3, <3>4, k \in Key, v \in Val, InsertedSound
        <3> QED
            BY ONLY Inv, Inv', <3>5, k \in Key, v \in Val, InsertShown
    <2> QED
        BY <2>1, <2>2
<1>3. Lent(borrows) = <<>>
    BY <1>1, LentIsSequence
<1> HIDE DEF i, c
<1>4. last' = <<"insert", c, v>>
    BY DEF c
<1>5. Contract!Insert(c, v)
    BY <1>1, <1>2, <1>3, <1>4 DEF Contract!Insert, Contract!Put, Contract!Alive, Meant, PutIn
<1> QED
    BY <1>5 DEF c

\* insert is the insertion of the contract.
LEMMA InsertRefines ==
    ASSUME DistancesHold, Inv, Inv', NEW k \in Key, NEW v \in Val, Insert(k, v)
    PROVE  Contract!Insert(Content[k], v) \/ Contract!Refused
<1>1. CASE MutationBlocked /\ Refuse
    BY <1>1, RefuseRefines DEF Insert
<1>2. CASE ~(MutationBlocked /\ Refuse)
    <2>1. /\ ~MutationBlocked /\ alive /\ last' = <<"insert", Content[k], v>>
          /\ IF Find(table, k) # None THEN Replace(Find(table, k), k, v) ELSE InsertNew(k, v)
          /\ UNCHANGED <<alive, borrows, pins, trapped, held, product>>
        BY <1>2 DEF Insert
    <2> QED
        BY <2>1, PutRefines
<1> QED
    BY <1>1, <1>2

\* The value read from the map itself is still there when it is stored.
LEMMA InsertOwnRefines ==
    ASSUME ~ByPointer, DistancesHold, Inv, Inv', NEW k \in Key, NEW l \in Key, InsertOwn(k, l)
    PROVE  \E v \in Val : Contract!Insert(Content[k], v)
<1> DEFINE v == table[Find(table, l)].val
<1>1. v \in Val
    <2>1. Sound(table) /\ Find(table, l) # None
        BY DEF Inv, TableInv, InsertOwn
    <2>2. Find(table, l) \in Occupied(table)
        BY <2>1, Search
    <2> QED
        BY <2>1, <2>2, SoundFacts
<1>2. /\ ~MutationBlocked /\ alive /\ last' = <<"insert", Content[k], v>>
      /\ IF Find(table, k) # None THEN Replace(Find(table, k), k, v) ELSE InsertNew(k, v)
      /\ UNCHANGED <<alive, borrows, pins, trapped, held, product>>
    BY DEF InsertOwn
<1> HIDE DEF v
<1> QED
    BY <1>1, <1>2, PutRefines

\* remove is the removal of the contract.
LEMMA RemoveRefines ==
    ASSUME Inv, Inv', NEW k \in Key, Remove(k)
    PROVE  Contract!Remove(Content[k]) \/ Contract!Refused
<1> DEFINE c == Content[k]
           i == Find(table, k)
<1>1. CASE MutationBlocked /\ Refuse
    BY <1>1, RefuseRefines DEF Remove
<1>2. CASE ~(MutationBlocked /\ Refuse)
    <2>1. /\ ~MutationBlocked /\ alive /\ last' = <<"remove", c, i # None>>
          /\ IF i # None THEN TakeOut(i, k) ELSE UNCHANGED <<table, len, key_count, val_count>>
          /\ UNCHANGED <<alive, borrows, pins, trapped, held, product>>
        BY <1>2 DEF Remove
    <2>2. /\ Sound(table) /\ Single(table) /\ Meant # None /\ borrows = <<>>
          /\ borrows \in Seq([key : Key, pos : Nat, of : Nat])
        BY <2>1, MeantFacts
    <2>3. (i # None) = (c \in DOMAIN Shown(table))
        BY <2>2, SearchShown
    <2>4. /\ Shown(table') = [d \in DOMAIN Shown(table) \ {c} |-> Shown(table)[d]]
          /\ Strays(table') = Strays(table)
        <3>1. CASE i # None
            <4>1. i \in Occupied(table) /\ Content[table[i].key] = c /\ c \in Class \ Unequal
                BY <2>2, <3>1, SearchShown
            <4>2. TakeOut(i, k)
                BY <2>1, <3>1
            <4> HIDE DEF i, c
            <4>3. table' = ShiftBack(table, i)
                BY <4>2 DEF TakeOut
            <4> QED
                BY ONLY Inv, Inv', <4>1, <4>3, RemoveShown
        <3>2. CASE i = None
            <4>1. table' = table /\ c \notin DOMAIN Shown(table)
                BY <2>1, <2>3, <3>2
            <4>2. Shown(table) \in [DOMAIN Shown(table) -> Val]
                BY <2>2, ShownIs
            <4> HIDE DEF i, c
            <4>3. DOMAIN Shown(table) \ {c} = DOMAIN Shown(table)
                BY <4>1
            <4> QED
                BY <4>1, <4>2, <4>3
        <3> QED
            BY <3>1, <3>2
    <2>5. Lent(borrows) = <<>>
        BY <2>2, LentIsSequence
    <2> HIDE DEF i, c
    <2>6. last' = <<"remove", c, c \in DOMAIN Shown(table)>>
        BY <2>1, <2>3
    <2>7. Contract!Remove(c)
        BY <2>1, <2>2, <2>4, <2>5, <2>6 DEF Contract!Remove, Contract!Without, Contract!Alive, Meant
    <2> QED
        BY <2>7 DEF c
<1> QED
    BY <1>1, <1>2

\* clear is that of the contract.
LEMMA ClearRefines ==
    ASSUME Inv, Clear
    PROVE  Contract!Clear \/ Contract!Refused
<1>1. CASE MutationBlocked /\ Refuse
    BY <1>1, RefuseRefines DEF Clear
<1>2. CASE ~(MutationBlocked /\ Refuse)
    <2>1. /\ ~MutationBlocked /\ alive /\ last' = <<"clear">>
          /\ table' = Vacancies(Capacity(table))
          /\ UNCHANGED <<alive, borrows, pins, trapped, held, product>>
        BY <1>2 DEF Clear
    <2>2. /\ Sound(table) /\ Meant # None /\ borrows = <<>>
          /\ borrows \in Seq([key : Key, pos : Nat, of : Nat])
        BY <2>1, MeantFacts
    <2>3. Occupied(table') = {}
        BY <2>1, <2>2, ClearedSound
    <2>4. Shown(table') = [c \in {} |-> None] /\ Strays(table') = 0
        BY <2>3, ShownNothing
    <2>5. Lent(borrows) = <<>>
        BY <2>2, LentIsSequence
    <2> QED
        BY <2>1, <2>2, <2>4, <2>5 DEF Contract!Clear, Contract!Empty, Contract!Alive, Meant
<1> QED
    BY <1>1, <1>2

\* Destroying the map is destroying the function.
LEMMA DestroyRefines ==
    ASSUME Inv, Destroy
    PROVE  Contract!Destroy \/ Contract!Refused
<1>1. CASE pins # 0 /\ Refuse
    BY <1>1, RefuseRefines DEF Destroy, MutationBlocked
<1>2. CASE ~(pins # 0 /\ Refuse)
    <2>1. /\ ~MutationBlocked /\ alive /\ alive' = FALSE /\ last' = <<"destroy">>
          /\ table' = NoTable
          /\ UNCHANGED <<borrows, pins, trapped, held, product>>
        BY <1>2 DEF Destroy, MutationBlocked
    <2>2. /\ Meant # None /\ borrows = <<>>
          /\ borrows \in Seq([key : Key, pos : Nat, of : Nat])
        BY <2>1, MeantFacts
    <2>3. Strays(table') = 0
        BY <2>1, FirstGrow, ShownNothing
    <2>4. Lent(borrows) = <<>>
        BY <2>2, LentIsSequence
    <2> QED
        BY <2>1, <2>2, <2>3, <2>4 DEF Contract!Destroy, Contract!Alive, Meant
<1> QED
    BY <1>1, <1>2

\* A new map is the empty function.
LEMMA CreateRefines ==
    ASSUME Inv, NEW n \in Nat, Create(n)
    PROVE  Contract!Create
<1>1. /\ ~alive /\ alive' = TRUE /\ table = NoTable /\ last' = <<"create">>
      /\ UNCHANGED <<borrows, trapped>>
      /\ table' = IF n = 0 THEN NoTable ELSE Vacancies(RoundUp(n))
    BY DEF Create, Inv, TableInv
<1>2. Occupied(table') = {}
    <2>1. CASE n = 0
        BY <1>1, <2>1, FirstGrow
    <2>2. CASE n # 0
        <3> DEFINE C == RoundUp(n)
        <3>1. C \in Nat \ {0} /\ table' = Vacancies(C)
            BY <1>1, <2>2, RoundUpEnough
        <3> HIDE DEF C
        <3> QED
            BY <3>1, EmptyInOrder
    <2> QED
        BY <2>1, <2>2
<1>3. Shown(table') = [c \in {} |-> None] /\ Strays(table') = 0 /\ Strays(table) = 0
    BY <1>1, <1>2, FirstGrow, ShownNothing
<1>4. Meant = None
    BY <1>1 DEF Meant
<1> QED
    BY <1>1, <1>3, <1>4 DEF Contract!Create, Contract!Empty, Contract!Alive, Meant

\* What is asked of a key.
LEMMA LookupRefines ==
    ASSUME Inv, NEW k \in Key, Lookup(k)
    PROVE  Contract!Ask
<1> DEFINE c == Content[k]
           i == Find(table, k)
           f == Shown(table)
<1>1. /\ alive /\ UNCHANGED <<alive, len, table, borrows, pins, trapped, counts>>
      /\ \/ last' = <<"contains", c, i # None>>
         \/ last' = <<"get", c, IF i # None THEN table[i].val ELSE None>>
    BY DEF Lookup
<1>2. Sound(table) /\ Single(table) /\ Meant # None
    BY <1>1, MeantFacts
<1>3. /\ (i # None) = (c \in DOMAIN f)
      /\ (IF i # None THEN table[i].val ELSE None) = (IF c \in DOMAIN f THEN f[c] ELSE None)
    BY <1>2, SearchShown
<1>4. c \in Class
    BY ContentAssumption
<1> HIDE DEF c, i
<1>5. \/ last' = <<"contains", c, c \in DOMAIN f>>
      \/ last' = <<"get", c, IF c \in DOMAIN f THEN f[c] ELSE None>>
    BY <1>1, <1>3
<1> HIDE DEF f
<1>6. f = IF alive THEN Shown(table) ELSE None
    BY <1>1 DEF f
<1> QED
    BY <1>1, <1>2, <1>4, <1>5, <1>6 DEF Contract!Ask, Contract!Lookup, Contract!Alive, Meant

\* What a list or a map made from this one shows.
LEMMA ProductRefines ==
    ASSUME Inv, Keys \/ Values \/ Copy
    PROVE  Contract!Ask
<1> DEFINE f == Shown(table)
<1>1. /\ alive /\ UNCHANGED <<alive, len, table, borrows, pins, trapped, held>>
      /\ last' = Entries
    BY DEF Keys, Values, Copy
<1>2. /\ Sound(table) /\ Single(table) /\ Meant # None
      /\ len = Cardinality(DOMAIN f) + Strays(table)
    BY <1>1, MeantFacts
<1>3. {Content[table[i].key] : i \in Occupied(table)} \ Unequal = DOMAIN f
    <2>1. DOMAIN f = {Content[table[i].key] : i \in Found(table)}
        BY <1>2, ShownIs
    <2> HIDE DEF f
    <2> QED
        BY <2>1 DEF Found
<1>4. Entries = <<"entries", DOMAIN f, Cardinality(DOMAIN f) + Strays(table)>>
    BY <1>2, <1>3 DEF Entries
<1> HIDE DEF f
<1>5. f = Meant
    BY <1>1 DEF f, Meant
<1>6. last' = <<"entries", DOMAIN Meant, Cardinality(DOMAIN Meant) + Strays(table)>>
    BY <1>1, <1>4, <1>5
<1>7. Shown(table') = Shown(table) /\ Strays(table') = Strays(table) /\ Lent(borrows') = Lent(borrows)
    BY <1>1
<1>8. Contract!Cardinality(DOMAIN Meant) = Cardinality(DOMAIN Meant)
    BY DEF Contract!Cardinality, Cardinality
<1> QED
    BY ONLY <1>1, <1>2, <1>6, <1>7, <1>8 DEF Contract!Ask, Contract!Size, Contract!Alive, Meant

\* A borrow of a value, oldest first.
LEMMA BorrowRefines ==
    ASSUME Inv, Inv', NEW k \in Key, Borrow(k)
    PROVE  Contract!Borrow(Content[k])
<1> DEFINE i == Find(table, k)
           c == Content[k]
           b == [key |-> table[i].key, pos |-> i, of |-> Capacity(table)]
           S == [key : Key, pos : Nat, of : Nat]
<1>1. /\ i # None /\ alive /\ borrows' = Append(borrows, b) /\ last' = <<"borrow", c>>
      /\ UNCHANGED <<alive, len, table, trapped, counts>>
    BY DEF Borrow
<1>2. /\ Sound(table) /\ Single(table) /\ Meant # None /\ borrows \in Seq(S)
    BY <1>1, MeantFacts
<1>3. /\ i \in Occupied(table) /\ Content[table[i].key] = c /\ c \in Class
      /\ c \in DOMAIN Shown(table)
    BY <1>1, <1>2, SearchShown
<1>4. b \in S /\ Content[b.key] = c
    <2>1. i \in Nat /\ table[i].key \in Key /\ Capacity(table) \in Nat
        BY <1>2, <1>3, SoundFacts DEF Sound
    <2> QED
        BY <1>3, <2>1
<1>5. borrows' \in Seq(S)
    BY DEF Inv, BorrowInv
<1> HIDE DEF b, i, c
<1>6. /\ Len(borrows) \in Nat /\ Len(borrows') = Len(borrows) + 1
      /\ borrows'[Len(borrows) + 1] = b
      /\ \A n \in 1 .. Len(borrows) : borrows'[n] = borrows[n]
    BY <1>1, <1>2, <1>4, AppendProperties, LenProperties
<1>7. /\ Lent(borrows) \in Seq(Class) /\ Len(Lent(borrows)) = Len(borrows)
      /\ \A n \in 1 .. Len(borrows) : Lent(borrows)[n] = Content[borrows[n].key]
    BY <1>2, LentIsSequence
<1>8. /\ Lent(borrows') \in Seq(Class) /\ Len(Lent(borrows')) = Len(borrows) + 1
      /\ \A n \in 1 .. Len(borrows) + 1 : Lent(borrows')[n] = Content[borrows'[n].key]
    BY <1>5, <1>6, LentIsSequence
<1>9. /\ Append(Lent(borrows), c) \in Seq(Class)
      /\ Len(Append(Lent(borrows), c)) = Len(borrows) + 1
      /\ \A n \in 1 .. Len(borrows) : Append(Lent(borrows), c)[n] = Lent(borrows)[n]
      /\ Append(Lent(borrows), c)[Len(borrows) + 1] = c
    BY <1>3, <1>7, AppendProperties
<1>10. \A n \in 1 .. Len(borrows) + 1 : n \in 1 .. Len(borrows) \/ n = Len(borrows) + 1
    BY <1>6
<1>11. \A n \in 1 .. Len(borrows) + 1 : Lent(borrows')[n] = Append(Lent(borrows), c)[n]
    BY <1>4, <1>6, <1>7, <1>8, <1>9, <1>10
<1>12. Lent(borrows') = Append(Lent(borrows), c)
    BY <1>8, <1>9, <1>11, SeqEqual
<1>13. Contract!Borrow(c)
    BY <1>1, <1>2, <1>3, <1>12 DEF Contract!Borrow, Contract!Alive, Meant
<1> QED
    BY <1>13 DEF c

\* The call returns.
LEMMA UnborrowRefines ==
    ASSUME Inv, Inv', Unborrow
    PROVE  Contract!Return
<1> DEFINE S == [key : Key, pos : Nat, of : Nat]
           m == Len(borrows) - 1
<1>1. /\ borrows # <<>> /\ borrows' = SubSeq(borrows, 1, m) /\ last' = <<"return">>
      /\ UNCHANGED <<alive, len, table, trapped, counts>>
    BY DEF Unborrow, Sx!Front
<1>2. Meant # None /\ borrows \in Seq(S) /\ borrows' \in Seq(S) /\ alive
    <2>1. Meant # None /\ borrows \in Seq(S) /\ alive
        BY <1>1, MeantFacts
    <2>2. borrows' \in Seq(S)
        BY DEF Inv, BorrowInv
    <2> QED
        BY <2>1, <2>2
<1>3. /\ Len(borrows) \in Nat /\ Lent(borrows) \in Seq(Class) /\ Len(Lent(borrows)) = Len(borrows)
      /\ \A n \in 1 .. Len(borrows) : Lent(borrows)[n] = Content[borrows[n].key]
      /\ Lent(borrows) # <<>>
    BY <1>1, <1>2, LentIsSequence
<1>4. m \in Nat /\ Len(Lent(borrows)) = m + 1
    BY <1>1, <1>2, <1>3, EmptySeq
<1>5. \A n \in 1 .. m : n \in 1 .. Len(borrows) /\ 1 + n - 1 = n
    BY <1>3, <1>4
<1>6. \A n \in 1 .. m : /\ borrows[n] \in S /\ Lent(borrows)[n] \in Class
                        /\ Lent(borrows)[n] = Content[borrows[n].key]
    BY <1>2, <1>3, <1>5, ElementOfSeq
<1> HIDE DEF S, m
<1>7. Len(borrows') = m /\ \A n \in 1 .. m : borrows'[n] = borrows[n]
    <2>1. /\ Len(SubSeq(borrows, 1, m)) = IF 1 <= m THEN m - 1 + 1 ELSE 0
          /\ \A n \in 1 .. m - 1 + 1 : SubSeq(borrows, 1, m)[n] = borrows[1 + n - 1]
        BY <1>4, <1>6, SubSeqProperties
    <2> QED
        BY <1>1, <1>4, <2>1
<1>8. /\ SubSeq(Lent(borrows), 1, m) \in Seq(Class) /\ Len(SubSeq(Lent(borrows), 1, m)) = m
      /\ \A n \in 1 .. m : SubSeq(Lent(borrows), 1, m)[n] = Lent(borrows)[n]
    <2>1. /\ SubSeq(Lent(borrows), 1, m) \in Seq(Class)
          /\ Len(SubSeq(Lent(borrows), 1, m)) = IF 1 <= m THEN m - 1 + 1 ELSE 0
          /\ \A n \in 1 .. m - 1 + 1 : SubSeq(Lent(borrows), 1, m)[n] = Lent(borrows)[1 + n - 1]
        BY <1>4, <1>6, SubSeqProperties
    <2> QED
        BY <1>4, <2>1
<1>9. /\ Lent(borrows') \in Seq(Class) /\ Len(Lent(borrows')) = m
      /\ \A n \in 1 .. m : Lent(borrows')[n] = Content[borrows'[n].key]
    BY <1>2, <1>7, LentIsSequence DEF S
<1>10. Lent(borrows') = SubSeq(Lent(borrows), 1, m)
    BY <1>6, <1>7, <1>8, <1>9, SeqEqual
<1>11. m = Len(Lent(borrows)) - 1
    BY <1>4
<1>12. Lent(borrows') = SubSeq(Lent(borrows), 1, Len(Lent(borrows)) - 1)
    BY <1>10, <1>11
<1> QED
    BY ONLY <1>1, <1>2, <1>3, <1>12 DEF Contract!Return, Contract!Alive, Meant

\* The innermost borrow writes into its own entry.
LEMMA WriteRefines ==
    ASSUME Inv, Inv', NEW v \in Val, WriteThrough(v)
    PROVE  Contract!Write(v)
<1> DEFINE n == Len(borrows)
           i == borrows[n].pos
           c == Content[borrows[n].key]
<1>1. /\ borrows \in Seq([key : Key, pos : Nat, of : Nat]) /\ borrows # <<>>
      /\ Sx!Last(borrows) = borrows[n] /\ Meant # None /\ alive
    BY MeantFacts DEF WriteThrough, Sx!Last
<1>2. n \in 1 .. Len(borrows)
    <2>1. Len(borrows) \in Nat /\ Len(borrows) # 0
        BY <1>1, EmptySeq
    <2> QED
        BY <2>1
<1>3. i \in Occupied(table) /\ table[i].key = borrows[n].key /\ c \notin Unequal
    BY <1>2 DEF Inv, BorrowInv
<1>4. c \in Class /\ Content[table[i].key] = c
    <2>1. table[i].key \in Key
        BY <1>3, SoundFacts DEF Inv, TableInv
    <2> QED
        BY <1>3, <2>1, ContentAssumption
<1>5. /\ table' = [table EXCEPT ![i].val = v] /\ last' = <<"write", v>>
      /\ UNCHANGED <<alive, len, borrows, pins, trapped, held, key_count, product>>
    BY <1>1 DEF WriteThrough
<1>6. Lent(borrows) # <<>> /\ Lent(borrows)[Len(Lent(borrows))] = c
    BY <1>1, <1>2, LentIsSequence
<1> HIDE DEF i, c
<1>7. Shown(table') = PutIn(Shown(table), c, v) /\ Strays(table') = Strays(table)
    BY ONLY Inv, Inv', <1>3, <1>4, <1>5, v \in Val, OverwriteShown
<1>8. Lent(borrows') = Lent(borrows)
    BY <1>5
<1> QED
    BY ONLY <1>1, <1>5, <1>6, <1>7, <1>8
    DEF Contract!Write, Contract!Put, Contract!Alive, Meant, PutIn

\* Every call is one of the contract, or none that it sees.
LEMMA NextRefines ==
    ASSUME ~ByPointer
    PROVE  Inv /\ Inv' /\ [Next]_vars /\ [DistancesHold]_vars => [Contract!Next]_Contract!vars
<1> SUFFICES ASSUME Inv, Inv', [Next]_vars, [DistancesHold]_vars
             PROVE  [Contract!Next]_Contract!vars
    OBVIOUS
<1>0. \A k \in Key : Content[k] \in Class
    BY ContentAssumption
<1>1. ASSUME NEW k \in Key, Remove(k)
      PROVE  Contract!Next
    BY <1>0, <1>1, RemoveRefines DEF Contract!Next
<1>2. ASSUME NEW k \in Key, Lookup(k)
      PROVE  Contract!Next
    BY <1>2, LookupRefines DEF Contract!Next
<1>3. ASSUME NEW k \in Key, Borrow(k)
      PROVE  Contract!Next
    BY <1>0, <1>3, BorrowRefines DEF Contract!Next
<1>4. ASSUME UNCHANGED <<alive, table, borrows, trapped, last>>
      PROVE  UNCHANGED Contract!vars
    BY <1>4 DEF Contract!vars
<1>5. ASSUME NEW k \in Key, NEW v \in Val, Insert(k, v), DistancesHold
      PROVE  Contract!Next
    BY <1>0, <1>5, InsertRefines DEF Contract!Next
<1>6. ASSUME NEW k \in Key, NEW l \in Key, InsertOwn(k, l), DistancesHold
      PROVE  Contract!Next
    BY <1>0, <1>6, InsertOwnRefines DEF Contract!Next
<1>7. ASSUME NEW v \in Val, WriteThrough(v)
      PROVE  Contract!Next
    BY <1>7, WriteRefines DEF Contract!Next
<1>8. ASSUME NEW n \in {0, InitialCapacity + 1}, Create(n)
      PROVE  Contract!Next
    <2>1. n \in Nat
        BY CapacityAssumption
    <2> QED
        BY <1>8, <2>1, CreateRefines DEF Contract!Next
<1>9. CASE Clear
    BY <1>9, ClearRefines DEF Contract!Next
<1>10. CASE Keys \/ Values \/ Copy
    BY <1>10, ProductRefines DEF Contract!Next
<1>11. CASE Unborrow
    BY <1>11, UnborrowRefines DEF Contract!Next
<1>12. CASE Destroy
    BY <1>12, DestroyRefines DEF Contract!Next
<1>13. CASE DropProduct
    BY <1>4, <1>13 DEF DropProduct
<1>14. CASE \E k \in Key : DropKey(k) \/ TakeKey(k)
    BY <1>4, <1>14 DEF DropKey, TakeKey
<1>15. CASE UNCHANGED vars
    BY <1>4, <1>15 DEF vars
<1> QED
    BY <1>1, <1>2, <1>3, <1>5, <1>6, <1>7, <1>8, <1>9, <1>10, <1>11, <1>12, <1>13, <1>14, <1>15
    DEF Next

\* The initial map is the empty function.
LEMMA InitRefines == Init => Contract!Init
<1> SUFFICES ASSUME Init
             PROVE  Contract!Init
    OBVIOUS
<1>1. /\ alive = TRUE /\ table = NoTable /\ borrows = <<>> /\ trapped = FALSE /\ last = None
    BY DEF Init
<1>2. Shown(table) = [c \in {} |-> None] /\ Strays(table) = 0
    BY <1>1, FirstGrow, ShownNothing
<1>3. Lent(borrows) = <<>>
    <2>1. borrows \in Seq([key : Key, pos : Nat, of : Nat])
        BY <1>1
    <2> QED
        BY <1>1, <2>1, LentIsSequence
<1> QED
    BY <1>1, <1>2, <1>3 DEF Contract!Init, Contract!Empty

\* A map whose values are not structs is the finite function a program takes it for, however
\* its entries are displaced, shifted and rebuilt, and what is done under a borrow is refused.
THEOREM Refinement ==
    ASSUME ~ByPointer
    PROVE  Spec /\ [][DistancesHold]_vars => ImplementsContract
<1>1. Inv /\ Inv' /\ [Next]_vars /\ [DistancesHold]_vars => [Contract!Next]_Contract!vars
    BY NextRefines
<1>2. Spec /\ [][DistancesHold]_vars => []Inv
    BY Invariance
<1> QED
    BY <1>1, <1>2, InitRefines, PTL DEF Spec, Contract!Spec, ImplementsContract

\* In tables of fewer buckets than there are distances, which a byte counts up to 255, the
\* hypothesis of the theorems is no restriction: no insertion of any behaviour can wrap.
THEOREM SmallTables ==
    ASSUME MaxCapacity < DistanceValues
    PROVE  Spec => [][DistancesHold]_vars
<1>1. DistancesHold
    BY DEF DistancesHold
<1> QED
    BY <1>1, PTL

=============================================================================
