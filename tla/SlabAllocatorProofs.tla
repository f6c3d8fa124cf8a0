------------------------ MODULE SlabAllocatorProofs ------------------------
(***************************************************************************)
(* Theorems of SlabAllocator, for every set of size classes, every slot    *)
(* count and every bound.                                                  *)
(*                                                                         *)
(* The argument has two floors.  GoodSlab is what holds of one slab on its *)
(* own; four lemmas show that the four steps of a slab keep it.  Above it, *)
(* an action is only what it does to the addresses: AllocAt puts a new     *)
(* generation where nothing lived, FreeAt zeroes the word of an object,    *)
(* SameObjects changes neither.  The heap's invariants and the refinement  *)
(* follow from those three.                                                *)
(***************************************************************************)
EXTENDS SlabAllocator, LoopLemmas

AliveSlots(c, s) == {i \in Slot(c) : s.state[i] = "ALIVE"}

GoodSlab(c, s) ==
    /\ s \in Slab(c)
    /\ SlabLinks(c, s)
    /\ \A i \in Slot(c) : s.state[i] = "FREE" => s.gen[i] = 0
    /\ s.remapped => s.free_head = NIL /\ AliveSlots(c, s) = {}
    /\ s.live_count = Cardinality(AliveSlots(c, s))

LEMMA SlotsFinite ==
    ASSUME NEW c \in Class, NEW s
    PROVE  IsFiniteSet(AliveSlots(c, s))
<1>1. SlotCount[c] \in Nat
    BY SlotCountAssumption
<1>2. IsFiniteSet(Slot(c))
    BY <1>1, FS_Interval DEF Slot
<1>3. AliveSlots(c, s) \subseteq Slot(c)
    BY DEF AliveSlots
<1> QED
    BY <1>2, <1>3, FS_Subset

LEMMA NewSlabGood ==
    ASSUME NEW c \in Class
    PROVE  GoodSlab(c, NewSlab(c)) /\ NewSlab(c).free_head = 0
<1> DEFINE s == NewSlab(c)
<1>1. SlotCount[c] \in Nat \ {0}
    BY SlotCountAssumption
<1>2. 0 \in Slot(c) /\ NIL \notin Slot(c)
    BY <1>1, NILAssumption DEF Slot
<1>3. s \in Slab(c)
    BY <1>1, <1>2 DEF NewSlab, Slab
<1>4. AliveSlots(c, s) = {}
    BY DEF AliveSlots, NewSlab
<1>5. \A i \in Slot(c) : s.state[i] = "FREE" /\ s.gen[i] = 0
    BY DEF NewSlab
<1>6. SlabLinks(c, s)
    BY <1>1, <1>2, NILAssumption DEF SlabLinks, NewSlab, Slot
<1>7. s.live_count = 0 /\ s.free_head = 0
    BY DEF NewSlab
<1>8. ~s.remapped
    BY DEF NewSlab
<1> QED
    BY <1>3, <1>4, <1>5, <1>6, <1>7, <1>8, FS_EmptySet DEF GoodSlab

LEMMA SlabAllocFields ==
    ASSUME NEW c \in Class, NEW s \in Slab(c), s.free_head \in Slot(c), NEW g
    PROVE  LET h == s.free_head
               t == SlabAlloc(s, g)
           IN  /\ t.free_head = s.link[h]
               /\ t.live_count = s.live_count + 1
               /\ t.remapped = s.remapped
               /\ \A i \in Slot(c) :
                     /\ t.state[i] = IF i = h THEN "ALIVE" ELSE s.state[i]
                     /\ t.gen[i] = IF i = h THEN g ELSE s.gen[i]
                     /\ t.link[i] = IF i = h THEN 0 ELSE s.link[i]
BY DEF SlabAlloc, Slab

LEMMA SlabFreeFields ==
    ASSUME NEW c \in Class, NEW s \in Slab(c), NEW i \in Slot(c)
    PROVE  LET t == SlabFree(s, i)
           IN  /\ t.free_head = i
               /\ t.live_count = s.live_count - 1
               /\ t.remapped = s.remapped
               /\ \A j \in Slot(c) :
                     /\ t.state[j] = IF j = i THEN "FREE" ELSE s.state[j]
                     /\ t.gen[j] = IF j = i THEN 0 ELSE s.gen[j]
                     /\ t.link[j] = IF j = i THEN s.free_head ELSE s.link[j]
BY DEF SlabFree, Slab

LEMMA SlabAllocGood ==
    ASSUME NEW c \in Class, NEW s, GoodSlab(c, s), s.free_head # NIL,
           NEW g \in Nat
    PROVE  /\ GoodSlab(c, SlabAlloc(s, g))
           /\ s.free_head \in Slot(c)
           /\ s.state[s.free_head] = "FREE"
           /\ ~s.remapped
<1> DEFINE h == s.free_head
           t == SlabAlloc(s, g)
<1>1. /\ s \in Slab(c)
      /\ SlabLinks(c, s)
      /\ ~s.remapped
      /\ s.live_count = Cardinality(AliveSlots(c, s))
    BY DEF GoodSlab
<1>2. h \in Slot(c) /\ s.state[h] = "FREE"
    BY <1>1 DEF SlabLinks
<1>3. SlotCount[c] \in Nat \ {0}
    BY SlotCountAssumption
<1>4. 0 \in Slot(c) /\ Slot(c) \subseteq Nat
    BY <1>3 DEF Slot
<1>5. t \in Slab(c)
    <2> DEFINE state == [s.state EXCEPT ![h] = "ALIVE"]
               gen == [s.gen EXCEPT ![h] = g]
               link == [s.link EXCEPT ![h] = 0]
               count == s.live_count + 1
    <2>1. /\ s.link[h] \in Slot(c) \cup {NIL}
          /\ count \in Int
          /\ state \in [Slot(c) -> {"FREE", "ALIVE"}]
          /\ gen \in [Slot(c) -> Nat]
          /\ link \in [Slot(c) -> Slot(c) \cup {NIL}]
        BY <1>1, <1>2, <1>4 DEF Slab
    <2>2. t = [s EXCEPT !.free_head = s.link[h], !.state = state, !.gen = gen,
                        !.link = link, !.live_count = count]
        BY Zenon DEF SlabAlloc
    <2> HIDE DEF state, gen, link, count, h, t
    <2> QED
        BY <1>1, <2>1, <2>2 DEF Slab
<1>6. /\ t.free_head = s.link[h]
      /\ t.live_count = s.live_count + 1
      /\ t.remapped = s.remapped
      /\ \A i \in Slot(c) : /\ t.state[i] = IF i = h THEN "ALIVE" ELSE s.state[i]
                            /\ t.gen[i] = IF i = h THEN g ELSE s.gen[i]
                            /\ t.link[i] = IF i = h THEN 0 ELSE s.link[i]
    BY <1>1, <1>2, SlabAllocFields
<1>7. SlabLinks(c, t)
    BY <1>1, <1>2, <1>6, NILAssumption, <1>4 DEF SlabLinks
<1>8. AliveSlots(c, t) = AliveSlots(c, s) \cup {h} /\ h \notin AliveSlots(c, s)
    BY <1>2, <1>6 DEF AliveSlots
<1>9. Cardinality(AliveSlots(c, t)) = Cardinality(AliveSlots(c, s)) + 1
    BY <1>8, SlotsFinite, FS_AddElement
<1>10. \A i \in Slot(c) : t.state[i] = "FREE" => t.gen[i] = 0
    BY <1>6 DEF GoodSlab
<1> QED
    BY <1>1, <1>2, <1>5, <1>6, <1>7, <1>9, <1>10 DEF GoodSlab

LEMMA SlabFreeGood ==
    ASSUME NEW c \in Class, NEW s, GoodSlab(c, s),
           NEW i \in Slot(c), s.state[i] = "ALIVE"
    PROVE  GoodSlab(c, SlabFree(s, i)) /\ ~s.remapped
<1> DEFINE t == SlabFree(s, i)
<1>1. /\ s \in Slab(c)
      /\ SlabLinks(c, s)
      /\ s.live_count = Cardinality(AliveSlots(c, s))
    BY DEF GoodSlab
<1>2. i \in AliveSlots(c, s) /\ ~s.remapped
    BY DEF GoodSlab, AliveSlots
<1>3. SlotCount[c] \in Nat \ {0}
    BY SlotCountAssumption
<1>4. Slot(c) \subseteq Nat /\ NIL \notin Slot(c)
    BY <1>3, NILAssumption DEF Slot
<1>5. t \in Slab(c)
    <2> DEFINE state == [s.state EXCEPT ![i] = "FREE"]
               gen == [s.gen EXCEPT ![i] = 0]
               link == [s.link EXCEPT ![i] = s.free_head]
               count == s.live_count - 1
    <2>1. /\ count \in Int
          /\ state \in [Slot(c) -> {"FREE", "ALIVE"}]
          /\ gen \in [Slot(c) -> Nat]
          /\ link \in [Slot(c) -> Slot(c) \cup {NIL}]
        BY <1>1 DEF Slab
    <2>2. t = [s EXCEPT !.free_head = i, !.state = state, !.gen = gen,
                        !.link = link, !.live_count = count]
        BY Zenon DEF SlabFree
    <2> HIDE DEF state, gen, link, count, t
    <2> QED
        BY <1>1, <2>1, <2>2 DEF Slab
<1>6. /\ t.free_head = i
      /\ t.live_count = s.live_count - 1
      /\ t.remapped = s.remapped
      /\ \A j \in Slot(c) : /\ t.state[j] = IF j = i THEN "FREE" ELSE s.state[j]
                            /\ t.gen[j] = IF j = i THEN 0 ELSE s.gen[j]
                            /\ t.link[j] = IF j = i THEN s.free_head ELSE s.link[j]
    BY <1>1, SlabFreeFields
<1>7. SlabLinks(c, t)
    <2> DEFINE free == {j \in Slot(c) : s.state[j] = "FREE"}
    <2>1. {j \in Slot(c) : t.state[j] = "FREE"} = free \cup {i} /\ i \notin free
        BY <1>6
    <2>2. s.free_head = NIL \/ s.free_head \in free
        BY <1>1 DEF SlabLinks
    <2>3. \A j \in free : s.link[j] = NIL \/ s.link[j] \in free
        BY <1>1, <1>2 DEF SlabLinks
    <2>4. \A j, k \in free : s.link[j] = s.link[k] /\ s.link[j] # NIL => j = k
        BY <1>1, <1>2 DEF SlabLinks
    <2>5. \A j \in free : s.link[j] = s.free_head => s.free_head = NIL
        BY <1>1, <1>2 DEF SlabLinks
    <2>6. /\ t.link[i] = s.free_head
          /\ \A j \in free : t.link[j] = s.link[j]
        BY <1>6, <2>1
    <2> HIDE DEF free, t
    <2>7. \A j \in free \cup {i} : t.link[j] # NIL => t.link[j] \in free
        BY <2>2, <2>3, <2>6
    <2>8. \A j, k \in free \cup {i} : t.link[j] = t.link[k] /\ t.link[j] # NIL => j = k
        BY <2>4, <2>5, <2>6
    <2>9. t.free_head = i /\ i \notin free /\ i # NIL
        BY <1>4, <1>6, <2>1
    <2>10. \A j \in free \cup {i} : t.link[j] # i
        BY <2>7, <2>9
    <2> QED
        BY <2>1, <2>7, <2>8, <2>9, <2>10 DEF SlabLinks
<1>8. AliveSlots(c, t) = AliveSlots(c, s) \ {i}
    BY <1>6 DEF AliveSlots
<1>9. Cardinality(AliveSlots(c, t)) = Cardinality(AliveSlots(c, s)) - 1
    BY <1>2, <1>8, SlotsFinite, FS_RemoveElement
<1>10. \A j \in Slot(c) : t.state[j] = "FREE" => t.gen[j] = 0
    BY <1>6 DEF GoodSlab
<1> QED
    BY <1>1, <1>2, <1>5, <1>6, <1>7, <1>9, <1>10 DEF GoodSlab

LEMMA SlabReclaimGood ==
    ASSUME NEW c \in Class, NEW s, GoodSlab(c, s), Reclaimable(s)
    PROVE  /\ GoodSlab(c, SlabReclaim(c, s))
           /\ \A i \in Slot(c) : s.state[i] = "FREE" /\ s.gen[i] = 0
<1> DEFINE t == SlabReclaim(c, s)
<1>1. s \in Slab(c) /\ AliveSlots(c, s) = {}
    BY SlotsFinite, FS_EmptySet DEF GoodSlab, Reclaimable, IsDrained
<1>2. \A i \in Slot(c) : s.state[i] = "FREE" /\ s.gen[i] = 0
    BY <1>1 DEF AliveSlots, Slab, GoodSlab
<1>3. SlotCount[c] \in Nat \ {0}
    BY SlotCountAssumption
<1>4. 0 \in Slot(c)
    BY <1>3 DEF Slot
<1>5. t \in Slab(c)
    BY <1>1, <1>4 DEF SlabReclaim, Slab
<1>6. /\ t.free_head = NIL /\ t.remapped /\ t.live_count = s.live_count
      /\ \A i \in Slot(c) : t.state[i] = "FREE" /\ t.gen[i] = 0
    BY <1>1 DEF SlabReclaim, Slab
<1>7. AliveSlots(c, t) = {}
    BY <1>6 DEF AliveSlots
<1>8. SlabLinks(c, t)
    BY <1>6 DEF SlabLinks
<1> QED
    BY <1>1, <1>2, <1>5, <1>6, <1>7, <1>8 DEF GoodSlab

-----------------------------------------------------------------------------
(* Every slab is good, and stays so.                                       *)

SlabsGood ==
    /\ slabs = [c \in Class |-> slabs[c]]
    /\ \A c \in Class : slabs[c] \in Seq(Slab(c))
    /\ \A c \in Class : \A k \in 1 .. Len(slabs[c]) : GoodSlab(c, slabs[c][k])

LEMMA InitSlabsGood == Init => SlabsGood
BY DEF Init, SlabsGood

LEMMA GenerationDrawn ==
    ASSUME NEW g, drawn \in Nat, Generation(g)
    PROVE  g = drawn + 1 /\ g \in Nat /\ drawn' = drawn + 1 /\ drawn < MaxGen
BY DEF Generation

\* What the two slab allocations do to the slabs.
LEMMA AllocFromSlabStep ==
    ASSUME SlabsGood, drawn \in Nat, NEW c \in Class, AllocFromSlab(c)
    PROVE  \E k \in 1 .. Len(slabs[c]) :
              LET s == slabs[c][k] IN
              /\ GoodSlab(c, s)
              /\ s.free_head # NIL
              /\ slabs' = [slabs EXCEPT ![c] = [slabs[c] EXCEPT ![k] = SlabAlloc(s, drawn + 1)]]
<1>1. PICK k \in 1 .. Len(slabs[c]), g \in 0 .. MaxGen :
         /\ FirstWithRoom(c, k)
         /\ Generation(g)
         /\ slabs' = [slabs EXCEPT ![c][k] = SlabAlloc(slabs[c][k], g)]
    BY DEF AllocFromSlab
<1>2. g = drawn + 1
    BY <1>1, GenerationDrawn
<1>3. GoodSlab(c, slabs[c][k]) /\ slabs[c][k].free_head # NIL
    BY <1>1 DEF FirstWithRoom, SlabsGood
<1> QED
    BY <1>1, <1>2, <1>3

LEMMA AllocFromNewSlabStep ==
    ASSUME drawn \in Nat, NEW c \in Class, AllocFromNewSlab(c)
    PROVE  slabs' = [slabs EXCEPT ![c] =
                        Append(slabs[c], SlabAlloc(NewSlab(c), drawn + 1))]
BY GenerationDrawn DEF AllocFromNewSlab

LEMMA FreshSlabGood ==
    ASSUME NEW c \in Class, NEW g \in Nat
    PROVE  GoodSlab(c, SlabAlloc(NewSlab(c), g))
BY NewSlabGood, SlabAllocGood, NILAssumption

\* Replacing the slabs of one class by good ones keeps the rest.
LEMMA OneClassGood ==
    ASSUME SlabsGood, NEW c \in Class, NEW q \in Seq(Slab(c)),
           \A k \in 1 .. Len(q) : GoodSlab(c, q[k]),
           slabs' = [slabs EXCEPT ![c] = q]
    PROVE  SlabsGood'
<1>1. \A d \in Class : slabs'[d] = IF d = c THEN q ELSE slabs[d]
    BY DEF SlabsGood
<1>2. slabs' = [d \in Class |-> slabs'[d]]
    BY DEF SlabsGood
<1> QED
    BY <1>1, <1>2 DEF SlabsGood

LEMMA ReplacedGood ==
    ASSUME NEW c, NEW q \in Seq(Slab(c)), NEW k \in 1 .. Len(q), NEW t,
           \A j \in 1 .. Len(q) : GoodSlab(c, q[j]), GoodSlab(c, t)
    PROVE  /\ [q EXCEPT ![k] = t] \in Seq(Slab(c))
           /\ \A j \in 1 .. Len([q EXCEPT ![k] = t]) : GoodSlab(c, [q EXCEPT ![k] = t][j])
<1>1. t \in Slab(c)
    BY DEF GoodSlab
<1>2. /\ [q EXCEPT ![k] = t] \in Seq(Slab(c))
      /\ Len([q EXCEPT ![k] = t]) = Len(q)
      /\ \A j \in 1 .. Len(q) : [q EXCEPT ![k] = t][j] = IF j = k THEN t ELSE q[j]
    BY <1>1
<1> QED
    BY <1>2

LEMMA AppendedGood ==
    ASSUME NEW c, NEW q \in Seq(Slab(c)), NEW t,
           \A j \in 1 .. Len(q) : GoodSlab(c, q[j]), GoodSlab(c, t)
    PROVE  /\ Append(q, t) \in Seq(Slab(c))
           /\ \A j \in 1 .. Len(Append(q, t)) : GoodSlab(c, Append(q, t)[j])
<1>1. t \in Slab(c)
    BY DEF GoodSlab
<1> QED
    BY <1>1

LEMMA NextSlabsGood ==
    ASSUME SlabsGood, drawn \in Nat, [Next]_vars
    PROVE  SlabsGood'
<1>1. ASSUME NEW c \in Class, AllocFromSlab(c)
      PROVE  SlabsGood'
    <2>1. PICK k \in 1 .. Len(slabs[c]) :
             /\ GoodSlab(c, slabs[c][k])
             /\ slabs[c][k].free_head # NIL
             /\ slabs' = [slabs EXCEPT ![c] = [slabs[c] EXCEPT ![k] =
                                                  SlabAlloc(slabs[c][k], drawn + 1)]]
        BY <1>1, AllocFromSlabStep
    <2> DEFINE t == SlabAlloc(slabs[c][k], drawn + 1)
    <2>2. GoodSlab(c, t) /\ t \in Slab(c)
        BY <2>1, SlabAllocGood DEF GoodSlab
    <2> HIDE DEF t
    <2>3. slabs[c] \in Seq(Slab(c)) /\ \A j \in 1 .. Len(slabs[c]) : GoodSlab(c, slabs[c][j])
        BY DEF SlabsGood
    <2> DEFINE q == [slabs[c] EXCEPT ![k] = t]
    <2>4. q \in Seq(Slab(c)) /\ \A j \in 1 .. Len(q) : GoodSlab(c, q[j])
        BY <2>2, <2>3, ReplacedGood
    <2> HIDE DEF q
    <2> QED
        BY <2>1, <2>4, OneClassGood DEF q, t
<1>2. ASSUME NEW c \in Class, AllocFromNewSlab(c)
      PROVE  SlabsGood'
    <2> DEFINE t == SlabAlloc(NewSlab(c), drawn + 1)
    <2>1. slabs' = [slabs EXCEPT ![c] = Append(slabs[c], t)]
        BY <1>2, AllocFromNewSlabStep
    <2>2. GoodSlab(c, t) /\ t \in Slab(c)
        BY FreshSlabGood DEF GoodSlab
    <2> HIDE DEF t
    <2>3. slabs[c] \in Seq(Slab(c)) /\ \A j \in 1 .. Len(slabs[c]) : GoodSlab(c, slabs[c][j])
        BY DEF SlabsGood
    <2> QED
        BY <2>1, <2>2, <2>3, AppendedGood, OneClassGood
<1>3. ASSUME NEW c \in Class, FreeInSlab(c)
      PROVE  SlabsGood'
    <2>1. PICK k \in 1 .. Len(slabs[c]), i \in Slot(c) :
             /\ slabs[c][k].state[i] = "ALIVE"
             /\ slabs' = [slabs EXCEPT ![c] = [slabs[c] EXCEPT ![k] =
                                                  SlabFree(slabs[c][k], i)]]
        BY <1>3 DEF FreeInSlab
    <2>2. slabs[c] \in Seq(Slab(c)) /\ \A j \in 1 .. Len(slabs[c]) : GoodSlab(c, slabs[c][j])
        BY DEF SlabsGood
    <2> DEFINE t == SlabFree(slabs[c][k], i)
    <2>3. GoodSlab(c, t)
        BY <2>1, <2>2, SlabFreeGood
    <2> HIDE DEF t
    <2> DEFINE q == [slabs[c] EXCEPT ![k] = t]
    <2>4. q \in Seq(Slab(c)) /\ \A j \in 1 .. Len(q) : GoodSlab(c, q[j])
        BY <2>2, <2>3, ReplacedGood
    <2> HIDE DEF q
    <2> QED
        BY <2>1, <2>4, OneClassGood DEF q, t
<1>4. ASSUME ReclaimTombstoned
      PROVE  SlabsGood'
    <2> DEFINE t(c, k) == IF Reclaimable(slabs[c][k])
                          THEN SlabReclaim(c, slabs[c][k]) ELSE slabs[c][k]
               q(c) == [k \in 1 .. Len(slabs[c]) |-> t(c, k)]
    <2>1. slabs' = [c \in Class |-> q(c)]
        BY <1>4 DEF ReclaimTombstoned
    <2>2. ASSUME NEW c \in Class
          PROVE  /\ q(c) \in Seq(Slab(c))
                 /\ \A k \in 1 .. Len(q(c)) : GoodSlab(c, q(c)[k])
        <3>1. slabs[c] \in Seq(Slab(c))
            BY DEF SlabsGood
        <3>2. ASSUME NEW k \in 1 .. Len(slabs[c])
              PROVE  GoodSlab(c, t(c, k)) /\ t(c, k) \in Slab(c)
            <4>1. GoodSlab(c, slabs[c][k])
                BY DEF SlabsGood
            <4>2. GoodSlab(c, t(c, k))
                BY <4>1, SlabReclaimGood
            <4> QED
                BY <4>2 DEF GoodSlab
        <3> HIDE DEF t
        <3>3. Len(slabs[c]) \in Nat
            BY <3>1
        <3> QED
            BY <3>2, <3>3
    <2> HIDE DEF q
    <2> QED
        BY <2>1, <2>2 DEF SlabsGood
<1>5. ASSUME UNCHANGED slabs
      PROVE  SlabsGood'
    BY <1>5 DEF SlabsGood
<1> QED
    BY <1>1, <1>2, <1>3, <1>4, <1>5
    DEF Next, vars, AllocLarge, FreeLarge, WeakCreate, WeakCheck

-----------------------------------------------------------------------------
(* The heap seen as addresses.                                             *)

LargeGood ==
    /\ large \in Seq(LargeObject)
    /\ \A k \in 1 .. Len(large) : large[k].tombstoned => large[k].gen = 0

\* An address that held nothing alive comes to hold a new generation.
AllocAt(a) ==
    /\ drawn < MaxGen /\ drawn' = drawn + 1
    /\ a \in Mapped' /\ AliveAt(a)' /\ GenAt(a)' = drawn + 1
    /\ a \in Mapped => ~AliveAt(a)
    /\ Mapped \subseteq Mapped'
    /\ \A b \in Mapped' \ {a} :
          IF b \in Mapped
          THEN (AliveAt(b)' <=> AliveAt(b)) /\ GenAt(b)' = GenAt(b)
          ELSE ~AliveAt(b)' /\ GenAt(b)' = 0

\* The object at an address dies and its word reads zero.
FreeAt(a) ==
    /\ drawn' = drawn
    /\ a \in Mapped /\ AliveAt(a)
    /\ Mapped' = Mapped
    /\ ~AliveAt(a)' /\ GenAt(a)' = 0
    /\ \A b \in Mapped \ {a} : (AliveAt(b)' <=> AliveAt(b)) /\ GenAt(b)' = GenAt(b)

\* Nobody can tell a difference.
SameObjects ==
    /\ drawn' = drawn
    /\ Mapped' = Mapped
    /\ \A b \in Mapped : (AliveAt(b)' <=> AliveAt(b)) /\ GenAt(b)' = GenAt(b)

IsSlabAddress(a) ==
    \E c \in Class : \E k \in 1 .. Len(slabs[c]) : \E i \in Slot(c) : a = <<c, k, i>>

IsLargeAddress(a) == \E k \in 1 .. Len(large) : a = <<LARGE, k, 0>>

LEMMA MappedCases ==
    /\ \A a : a \in Mapped <=> IsSlabAddress(a) \/ IsLargeAddress(a)
    /\ \A a : a \in Mapped' <=> IsSlabAddress(a)' \/ IsLargeAddress(a)'
<1>1. \A a : a \in SlabAddress <=> IsSlabAddress(a)
    BY DEF SlabAddress, IsSlabAddress
<1>2. \A a : a \in LargeAddress <=> IsLargeAddress(a)
    BY DEF LargeAddress, IsLargeAddress
<1>3. \A a : a \in SlabAddress' <=> IsSlabAddress(a)'
    BY DEF SlabAddress, IsSlabAddress
<1>4. \A a : a \in LargeAddress' <=> IsLargeAddress(a)'
    BY DEF LargeAddress, IsLargeAddress
<1> QED
    BY <1>1, <1>2, <1>3, <1>4 DEF Mapped

LEMMA ReadSlab ==
    ASSUME NEW c \in Class, NEW k, NEW i
    PROVE  /\ GenAt(<<c, k, i>>) = slabs[c][k].gen[i]
           /\ AliveAt(<<c, k, i>>) <=> slabs[c][k].state[i] = "ALIVE"
           /\ GenAt(<<c, k, i>>)' = slabs'[c][k].gen[i]
           /\ AliveAt(<<c, k, i>>)' <=> slabs'[c][k].state[i] = "ALIVE"
BY LARGEAssumption DEF GenAt, AliveAt

LEMMA ReadLarge ==
    ASSUME NEW k
    PROVE  /\ GenAt(<<LARGE, k, 0>>) = large[k].gen
           /\ AliveAt(<<LARGE, k, 0>>) <=> ~large[k].tombstoned
           /\ GenAt(<<LARGE, k, 0>>)' = large'[k].gen
           /\ AliveAt(<<LARGE, k, 0>>)' <=> ~large'[k].tombstoned
BY DEF GenAt, AliveAt

\* A step that replaces one slab touches only the addresses of its slots.
LEMMA OneSlabChanges ==
    ASSUME SlabsGood, NEW c \in Class, NEW k \in 1 .. Len(slabs[c]), NEW t,
           slabs' = [slabs EXCEPT ![c] = [slabs[c] EXCEPT ![k] = t]],
           large' = large
    PROVE  /\ Mapped' = Mapped
           /\ \A i \in Slot(c) :
                 /\ <<c, k, i>> \in Mapped
                 /\ GenAt(<<c, k, i>>)' = t.gen[i]
                 /\ AliveAt(<<c, k, i>>)' <=> t.state[i] = "ALIVE"
           /\ \A b \in Mapped :
                 (\A i \in Slot(c) : b # <<c, k, i>>)
                    => (AliveAt(b)' <=> AliveAt(b)) /\ GenAt(b)' = GenAt(b)
<1>1. /\ \A d \in Class : slabs[d] \in Seq(Slab(d))
      /\ DOMAIN slabs = Class
    BY DEF SlabsGood
<1>2. slabs'[c] = [slabs[c] EXCEPT ![k] = t] /\ \A d \in Class : d # c => slabs'[d] = slabs[d]
    BY <1>1
<1>3. Len(slabs'[c]) = Len(slabs[c]) /\ DOMAIN slabs[c] = 1 .. Len(slabs[c])
    BY <1>1, <1>2
<1>4. /\ slabs'[c][k] = t
      /\ \A j \in 1 .. Len(slabs[c]) : j # k => slabs'[c][j] = slabs[c][j]
    BY <1>2, <1>3
<1>5. \A d \in Class : Len(slabs'[d]) = Len(slabs[d])
    BY <1>2, <1>3
<1>6. Mapped' = Mapped
    <2>1. \A a : IsSlabAddress(a)' <=> IsSlabAddress(a)
        BY <1>5 DEF IsSlabAddress
    <2>2. \A a : IsLargeAddress(a)' <=> IsLargeAddress(a)
        BY DEF IsLargeAddress
    <2> QED
        BY <2>1, <2>2, MappedCases
<1>7. ASSUME NEW i \in Slot(c)
      PROVE  /\ <<c, k, i>> \in Mapped
             /\ GenAt(<<c, k, i>>)' = t.gen[i]
             /\ AliveAt(<<c, k, i>>)' <=> t.state[i] = "ALIVE"
    <2>1. <<c, k, i>> \in Mapped
        BY MappedCases DEF IsSlabAddress
    <2> QED
        BY <2>1, <1>4, ReadSlab
<1>8. ASSUME NEW b \in Mapped, \A i \in Slot(c) : b # <<c, k, i>>
      PROVE  (AliveAt(b)' <=> AliveAt(b)) /\ GenAt(b)' = GenAt(b)
    <2>1. CASE IsSlabAddress(b)
        <3>1. PICK d \in Class :
                 \E j \in 1 .. Len(slabs[d]) : \E i \in Slot(d) : b = <<d, j, i>>
            BY <2>1 DEF IsSlabAddress
        <3>2. PICK j \in 1 .. Len(slabs[d]), i \in Slot(d) : b = <<d, j, i>>
            BY <3>1
        <3>3. slabs'[d][j] = slabs[d][j]
            BY <1>2, <1>4, <1>8, <3>2
        <3> QED
            BY <3>2, <3>3, ReadSlab
    <2>2. CASE IsLargeAddress(b)
        <3>1. PICK j \in 1 .. Len(large) : b = <<LARGE, j, 0>>
            BY <2>2 DEF IsLargeAddress
        <3> QED
            BY <3>1, ReadLarge
    <2> QED
        BY <1>8, <2>1, <2>2, MappedCases
<1> QED
    BY <1>6, <1>7, <1>8

LEMMA AllocFromSlabAddress ==
    ASSUME SlabsGood, drawn \in Nat, NEW c \in Class, AllocFromSlab(c)
    PROVE  \E a : AllocAt(a)
<1>1. PICK k \in 1 .. Len(slabs[c]) :
         /\ GoodSlab(c, slabs[c][k])
         /\ slabs[c][k].free_head # NIL
         /\ slabs' = [slabs EXCEPT ![c] = [slabs[c] EXCEPT ![k] =
                                              SlabAlloc(slabs[c][k], drawn + 1)]]
    BY AllocFromSlabStep
<1> DEFINE s == slabs[c][k]
           t == SlabAlloc(s, drawn + 1)
<1>2. large' = large /\ drawn' = drawn + 1 /\ drawn < MaxGen
    BY GenerationDrawn DEF AllocFromSlab
<1>3. s \in Slab(c) /\ s.free_head \in Slot(c) /\ s.state[s.free_head] = "FREE"
    BY <1>1, SlabAllocGood DEF GoodSlab
<1>4. PICK h \in Slot(c) : h = s.free_head
    BY <1>3
<1> DEFINE a == <<c, k, h>>
<1> HIDE DEF s
<1>5. \A i \in Slot(c) :
         /\ t.state[i] = IF i = h THEN "ALIVE" ELSE s.state[i]
         /\ t.gen[i] = IF i = h THEN drawn + 1 ELSE s.gen[i]
    BY <1>3, <1>4, SlabAllocFields
<1>6. /\ Mapped' = Mapped
      /\ \A i \in Slot(c) :
            /\ <<c, k, i>> \in Mapped
            /\ GenAt(<<c, k, i>>)' = t.gen[i]
            /\ AliveAt(<<c, k, i>>)' <=> t.state[i] = "ALIVE"
      /\ \A b \in Mapped :
            (\A i \in Slot(c) : b # <<c, k, i>>)
               => (AliveAt(b)' <=> AliveAt(b)) /\ GenAt(b)' = GenAt(b)
    BY <1>1, <1>2, OneSlabChanges DEF s
<1> HIDE DEF t
<1>7. a \in Mapped' /\ AliveAt(a)' /\ GenAt(a)' = drawn + 1 /\ ~AliveAt(a)
    <2>1. t.state[h] = "ALIVE" /\ t.gen[h] = drawn + 1 /\ s.state[h] # "ALIVE"
        BY <1>3, <1>5, <1>4
    <2>2. AliveAt(a) <=> s.state[h] = "ALIVE"
        BY ReadSlab DEF s
    <2>3. a \in Mapped' /\ GenAt(a)' = t.gen[h] /\ (AliveAt(a)' <=> t.state[h] = "ALIVE")
        BY <1>6
    <2> QED
        BY <2>1, <2>2, <2>3
<1>8. ASSUME NEW b \in Mapped, b # a
      PROVE  (AliveAt(b)' <=> AliveAt(b)) /\ GenAt(b)' = GenAt(b)
    <2>1. CASE \E i \in Slot(c) : b = <<c, k, i>>
        <3>1. PICK i \in Slot(c) : b = <<c, k, i>>
            BY <2>1
        <3>2. i # h
            BY <1>8, <3>1
        <3>3. t.state[i] = s.state[i] /\ t.gen[i] = s.gen[i]
            BY <1>5, <3>2
        <3> QED
            BY <1>6, <3>1, <3>3, ReadSlab DEF s
    <2> QED
        BY <1>6, <2>1
<1>9. AllocAt(a)
    BY <1>2, <1>6, <1>7, <1>8 DEF AllocAt
<1> QED
    BY <1>9

LEMMA FreeInSlabAddress ==
    ASSUME SlabsGood, NEW c \in Class, FreeInSlab(c)
    PROVE  \E a : FreeAt(a)
<1>1. PICK k \in 1 .. Len(slabs[c]), h \in Slot(c) :
         /\ slabs[c][k].state[h] = "ALIVE"
         /\ slabs' = [slabs EXCEPT ![c] = [slabs[c] EXCEPT ![k] = SlabFree(slabs[c][k], h)]]
    BY DEF FreeInSlab
<1> DEFINE s == slabs[c][k]
           t == SlabFree(s, h)
           a == <<c, k, h>>
<1>2. large' = large /\ drawn' = drawn
    BY DEF FreeInSlab
<1>3. s \in Slab(c)
    BY DEF SlabsGood, GoodSlab
<1> HIDE DEF s
<1>4. \A i \in Slot(c) :
         /\ t.state[i] = IF i = h THEN "FREE" ELSE s.state[i]
         /\ t.gen[i] = IF i = h THEN 0 ELSE s.gen[i]
    BY <1>3, SlabFreeFields
<1>5. /\ Mapped' = Mapped
      /\ \A i \in Slot(c) :
            /\ <<c, k, i>> \in Mapped
            /\ GenAt(<<c, k, i>>)' = t.gen[i]
            /\ AliveAt(<<c, k, i>>)' <=> t.state[i] = "ALIVE"
      /\ \A b \in Mapped :
            (\A i \in Slot(c) : b # <<c, k, i>>)
               => (AliveAt(b)' <=> AliveAt(b)) /\ GenAt(b)' = GenAt(b)
    BY <1>1, <1>2, OneSlabChanges DEF s
<1> HIDE DEF t
<1>6. a \in Mapped /\ ~AliveAt(a)' /\ GenAt(a)' = 0 /\ AliveAt(a)
    BY <1>1, <1>4, <1>5, ReadSlab DEF s
<1>7. ASSUME NEW b \in Mapped, b # a
      PROVE  (AliveAt(b)' <=> AliveAt(b)) /\ GenAt(b)' = GenAt(b)
    <2>1. CASE \E i \in Slot(c) : b = <<c, k, i>>
        <3>1. PICK i \in Slot(c) : b = <<c, k, i>>
            BY <2>1
        <3>2. i # h
            BY <1>7, <3>1
        <3>3. t.state[i] = s.state[i] /\ t.gen[i] = s.gen[i]
            BY <1>4, <3>2
        <3> QED
            BY <1>5, <3>1, <3>3, ReadSlab DEF s
    <2> QED
        BY <1>5, <2>1
<1>8. FreeAt(a)
    BY <1>2, <1>5, <1>6, <1>7 DEF FreeAt
<1> QED
    BY <1>8

LEMMA AllocFromNewSlabAddress ==
    ASSUME SlabsGood, drawn \in Nat, NEW c \in Class, AllocFromNewSlab(c)
    PROVE  \E a : AllocAt(a)
<1> DEFINE n == NewSlab(c)
           t == SlabAlloc(n, drawn + 1)
<1>1. slabs' = [slabs EXCEPT ![c] = Append(slabs[c], t)]
    BY AllocFromNewSlabStep
<1>2. large' = large /\ drawn' = drawn + 1 /\ drawn < MaxGen
    BY GenerationDrawn DEF AllocFromNewSlab
<1>3. /\ n \in Slab(c) /\ n.free_head = 0 /\ 0 \in Slot(c)
      /\ \A i \in Slot(c) : n.state[i] = "FREE" /\ n.gen[i] = 0
    <2>1. GoodSlab(c, n) /\ n.free_head = 0
        BY NewSlabGood
    <2>2. 0 \in Slot(c)
        BY SlotCountAssumption DEF Slot
    <2> QED
        BY <2>1, <2>2 DEF GoodSlab, NewSlab
<1> HIDE DEF n
<1>4. \A i \in Slot(c) :
         /\ t.state[i] = IF i = 0 THEN "ALIVE" ELSE "FREE"
         /\ t.gen[i] = IF i = 0 THEN drawn + 1 ELSE 0
    BY <1>3, SlabAllocFields
<1> HIDE DEF t
<1>5. PICK k \in Nat \ {0} : k = Len(slabs[c]) + 1
    BY DEF SlabsGood
<1>6. /\ \A d \in Class : slabs[d] \in Seq(Slab(d))
      /\ DOMAIN slabs = Class
    BY DEF SlabsGood
<1>7. slabs'[c] = Append(slabs[c], t) /\ \A d \in Class : d # c => slabs'[d] = slabs[d]
    BY <1>1, <1>6
<1>8. /\ Len(slabs'[c]) = k
      /\ slabs'[c][k] = t
      /\ \A j \in 1 .. Len(slabs[c]) : slabs'[c][j] = slabs[c][j]
    BY <1>5, <1>6, <1>7
<1>9. \A b : IsSlabAddress(b)' <=> IsSlabAddress(b) \/ \E i \in Slot(c) : b = <<c, k, i>>
    <2>1. 1 .. k = (1 .. Len(slabs[c])) \cup {k}
        BY <1>5, <1>6
    <2>2. ASSUME NEW b, IsSlabAddress(b)'
          PROVE  IsSlabAddress(b) \/ \E i \in Slot(c) : b = <<c, k, i>>
        <3>1. PICK d \in Class :
                 \E j \in 1 .. Len(slabs'[d]) : \E i \in Slot(d) : b = <<d, j, i>>
            BY <2>2 DEF IsSlabAddress
        <3> QED
            BY <1>7, <1>8, <2>1, <3>1 DEF IsSlabAddress
    <2>3. ASSUME NEW b, IsSlabAddress(b)
          PROVE  IsSlabAddress(b)'
        <3>1. PICK d \in Class :
                 \E j \in 1 .. Len(slabs[d]) : \E i \in Slot(d) : b = <<d, j, i>>
            BY <2>3 DEF IsSlabAddress
        <3> QED
            BY <1>7, <1>8, <2>1, <3>1 DEF IsSlabAddress
    <2>4. ASSUME NEW i \in Slot(c)
          PROVE  IsSlabAddress(<<c, k, i>>)'
        BY <1>8, <2>1 DEF IsSlabAddress
    <2> QED
        BY <2>2, <2>3, <2>4
<1>10. \A b : IsLargeAddress(b)' <=> IsLargeAddress(b)
    BY <1>2 DEF IsLargeAddress
<1>11. \A b : b \in Mapped' <=> b \in Mapped \/ \E i \in Slot(c) : b = <<c, k, i>>
    BY <1>9, <1>10, MappedCases
<1>12. \A i \in Slot(c) : <<c, k, i>> \notin Mapped
    <2>1. ASSUME NEW i \in Slot(c)
          PROVE  ~IsSlabAddress(<<c, k, i>>) /\ ~IsLargeAddress(<<c, k, i>>)
        <3>1. k \notin 1 .. Len(slabs[c])
            BY <1>5, <1>6
        <3>2. \A d, j, h : <<c, k, i>> = <<d, j, h>> => d = c /\ j = k
            OBVIOUS
        <3>3. ~IsSlabAddress(<<c, k, i>>)
            BY <3>1, <3>2 DEF IsSlabAddress
        <3>4. ~IsLargeAddress(<<c, k, i>>)
            BY <3>2, LARGEAssumption DEF IsLargeAddress
        <3> QED
            BY <3>3, <3>4
    <2> QED
        BY <2>1, MappedCases
<1>13. \A i \in Slot(c) :
          /\ GenAt(<<c, k, i>>)' = t.gen[i]
          /\ AliveAt(<<c, k, i>>)' <=> t.state[i] = "ALIVE"
    BY <1>8, ReadSlab
<1>14. ASSUME NEW b \in Mapped
       PROVE  (AliveAt(b)' <=> AliveAt(b)) /\ GenAt(b)' = GenAt(b)
    <2>1. CASE IsSlabAddress(b)
        <3>1. PICK d \in Class :
                 \E j \in 1 .. Len(slabs[d]) : \E i \in Slot(d) : b = <<d, j, i>>
            BY <2>1 DEF IsSlabAddress
        <3>2. PICK j \in 1 .. Len(slabs[d]), i \in Slot(d) : b = <<d, j, i>>
            BY <3>1
        <3>3. slabs'[d][j] = slabs[d][j]
            BY <1>7, <1>8, <3>2
        <3> QED
            BY <3>2, <3>3, ReadSlab
    <2>2. CASE IsLargeAddress(b)
        <3>1. PICK j \in 1 .. Len(large) : b = <<LARGE, j, 0>>
            BY <2>2 DEF IsLargeAddress
        <3> QED
            BY <1>2, <3>1, ReadLarge
    <2> QED
        BY <2>1, <2>2, MappedCases
<1> DEFINE a == <<c, k, 0>>
<1>15. /\ a \in Mapped' /\ a \notin Mapped
       /\ AliveAt(a)' /\ GenAt(a)' = drawn + 1
    BY <1>3, <1>4, <1>11, <1>12, <1>13
<1>16. ASSUME NEW b \in Mapped', b # a, b \notin Mapped
       PROVE  ~AliveAt(b)' /\ GenAt(b)' = 0
    <2>1. PICK i \in Slot(c) : b = <<c, k, i>>
        BY <1>11, <1>16
    <2>2. t.state[i] = "FREE" /\ t.gen[i] = 0
        BY <1>4, <1>16, <2>1
    <2> QED
        BY <1>13, <2>1, <2>2
<1>17. AllocAt(a)
    BY <1>2, <1>11, <1>14, <1>15, <1>16 DEF AllocAt
<1> QED
    BY <1>17

LEMMA AllocLargeAddress ==
    ASSUME LargeGood, drawn \in Nat, AllocLarge
    PROVE  (\E a : AllocAt(a)) /\ LargeGood'
<1> DEFINE o == [gen |-> drawn + 1, tombstoned |-> FALSE]
<1>1. /\ large' = Append(large, o) /\ slabs' = slabs
      /\ drawn' = drawn + 1 /\ drawn < MaxGen
    BY GenerationDrawn DEF AllocLarge
<1>2. o \in LargeObject /\ large \in Seq(LargeObject) /\ ~o.tombstoned /\ o.gen = drawn + 1
    BY DEF LargeGood, LargeObject
<1> HIDE DEF o
<1>3. PICK k \in Nat \ {0} : k = Len(large) + 1
    BY <1>2
<1>4. /\ Len(large') = k
      /\ large'[k] = o
      /\ \A j \in 1 .. Len(large) : large'[j] = large[j]
      /\ large' \in Seq(LargeObject)
    BY <1>1, <1>2, <1>3
<1>5. 1 .. k = (1 .. Len(large)) \cup {k} /\ k \notin 1 .. Len(large)
    BY <1>2, <1>3
<1>6. LargeGood'
    BY <1>2, <1>4, <1>5 DEF LargeGood
<1>7. \A b : IsLargeAddress(b)' <=> IsLargeAddress(b) \/ b = <<LARGE, k, 0>>
    BY <1>4, <1>5 DEF IsLargeAddress
<1>8. \A b : IsSlabAddress(b)' <=> IsSlabAddress(b)
    BY <1>1 DEF IsSlabAddress
<1> DEFINE a == <<LARGE, k, 0>>
<1>9. \A b : b \in Mapped' <=> b \in Mapped \/ b = a
    BY <1>7, <1>8, MappedCases
<1>10. a \notin Mapped
    <2>1. ~IsSlabAddress(a)
        BY LARGEAssumption DEF IsSlabAddress
    <2>2. ~IsLargeAddress(a)
        BY <1>5 DEF IsLargeAddress
    <2> QED
        BY <2>1, <2>2, MappedCases
<1>11. AliveAt(a)' /\ GenAt(a)' = drawn + 1
    BY <1>2, <1>4, ReadLarge
<1>12. ASSUME NEW b \in Mapped
       PROVE  (AliveAt(b)' <=> AliveAt(b)) /\ GenAt(b)' = GenAt(b)
    <2>1. CASE IsSlabAddress(b)
        <3>1. PICK d \in Class :
                 \E j \in 1 .. Len(slabs[d]) : \E i \in Slot(d) : b = <<d, j, i>>
            BY <2>1 DEF IsSlabAddress
        <3> QED
            BY <1>1, <3>1, ReadSlab
    <2>2. CASE IsLargeAddress(b)
        <3>1. PICK j \in 1 .. Len(large) : b = <<LARGE, j, 0>>
            BY <2>2 DEF IsLargeAddress
        <3> QED
            BY <1>4, <3>1, ReadLarge
    <2> QED
        BY <2>1, <2>2, MappedCases
<1>13. AllocAt(a)
    BY <1>1, <1>9, <1>10, <1>11, <1>12 DEF AllocAt
<1> QED
    BY <1>6, <1>13

LEMMA FreeLargeAddress ==
    ASSUME LargeGood, FreeLarge
    PROVE  (\E a : FreeAt(a)) /\ LargeGood'
<1> DEFINE o == [gen |-> 0, tombstoned |-> TRUE]
<1>1. PICK k \in 1 .. Len(large) :
         ~large[k].tombstoned /\ large' = [large EXCEPT ![k] = o]
    BY DEF FreeLarge
<1>2. slabs' = slabs /\ drawn' = drawn
    BY DEF FreeLarge
<1>3. o \in LargeObject /\ large \in Seq(LargeObject) /\ o.tombstoned /\ o.gen = 0
    BY DEF LargeGood, LargeObject
<1> HIDE DEF o
<1>4. /\ large' \in Seq(LargeObject)
      /\ Len(large') = Len(large)
      /\ \A j \in 1 .. Len(large) : large'[j] = IF j = k THEN o ELSE large[j]
    BY <1>1, <1>3
<1>5. LargeGood'
    BY <1>3, <1>4 DEF LargeGood
<1>6. \A b : IsLargeAddress(b)' <=> IsLargeAddress(b)
    BY <1>4 DEF IsLargeAddress
<1>7. \A b : IsSlabAddress(b)' <=> IsSlabAddress(b)
    BY <1>2 DEF IsSlabAddress
<1>8. Mapped' = Mapped
    BY <1>6, <1>7, MappedCases
<1> DEFINE a == <<LARGE, k, 0>>
<1>9. a \in Mapped
    BY MappedCases DEF IsLargeAddress
<1>10. AliveAt(a) /\ ~AliveAt(a)' /\ GenAt(a)' = 0
    BY <1>1, <1>3, <1>4, ReadLarge
<1>11. ASSUME NEW b \in Mapped, b # a
       PROVE  (AliveAt(b)' <=> AliveAt(b)) /\ GenAt(b)' = GenAt(b)
    <2>1. CASE IsSlabAddress(b)
        <3>1. PICK d \in Class :
                 \E j \in 1 .. Len(slabs[d]) : \E i \in Slot(d) : b = <<d, j, i>>
            BY <2>1 DEF IsSlabAddress
        <3> QED
            BY <1>2, <3>1, ReadSlab
    <2>2. CASE IsLargeAddress(b)
        <3>1. PICK j \in 1 .. Len(large) : b = <<LARGE, j, 0>>
            BY <2>2 DEF IsLargeAddress
        <3>2. large'[j] = large[j]
            BY <1>4, <1>11, <3>1
        <3> QED
            BY <3>1, <3>2, ReadLarge
    <2> QED
        BY <2>1, <2>2, MappedCases
<1>12. FreeAt(a)
    BY <1>2, <1>8, <1>9, <1>10, <1>11 DEF FreeAt
<1> QED
    BY <1>5, <1>12

\* Reclaiming a drained slab is invisible: its slots were FREE and read zero.
LEMMA ReclaimAddress ==
    ASSUME SlabsGood, ReclaimTombstoned
    PROVE  SameObjects
<1>1. large' = large /\ drawn' = drawn
    BY DEF ReclaimTombstoned
<1>2. \A c \in Class : slabs[c] \in Seq(Slab(c))
    BY DEF SlabsGood
<1>3. ASSUME NEW c \in Class
      PROVE  /\ Len(slabs'[c]) = Len(slabs[c])
             /\ \A k \in 1 .. Len(slabs[c]) :
                   slabs'[c][k] = IF Reclaimable(slabs[c][k])
                                  THEN SlabReclaim(c, slabs[c][k]) ELSE slabs[c][k]
    <2>1. Len(slabs[c]) \in Nat
        BY <1>2
    <2>2. slabs'[c] = [k \in 1 .. Len(slabs[c]) |->
                         IF Reclaimable(slabs[c][k])
                         THEN SlabReclaim(c, slabs[c][k]) ELSE slabs[c][k]]
        BY DEF ReclaimTombstoned
    <2> QED
        BY <2>1, <2>2
<1>4. Mapped' = Mapped
    <2>1. \A a : IsSlabAddress(a)' <=> IsSlabAddress(a)
        BY <1>3 DEF IsSlabAddress
    <2>2. \A a : IsLargeAddress(a)' <=> IsLargeAddress(a)
        BY <1>1 DEF IsLargeAddress
    <2> QED
        BY <2>1, <2>2, MappedCases
<1>5. ASSUME NEW c \in Class, NEW k \in 1 .. Len(slabs[c]), NEW i \in Slot(c)
      PROVE  /\ slabs'[c][k].state[i] = slabs[c][k].state[i]
             /\ slabs'[c][k].gen[i] = slabs[c][k].gen[i]
    <2>1. CASE Reclaimable(slabs[c][k])
        <3>1. GoodSlab(c, slabs[c][k])
            BY DEF SlabsGood
        <3>2. slabs[c][k].state[i] = "FREE" /\ slabs[c][k].gen[i] = 0
            BY <2>1, <3>1, SlabReclaimGood
        <3>3. slabs'[c][k] = SlabReclaim(c, slabs[c][k]) /\ slabs[c][k] \in Slab(c)
            BY <1>3, <2>1, <3>1 DEF GoodSlab
        <3> QED
            BY <3>2, <3>3 DEF SlabReclaim, Slab
    <2> QED
        BY <1>3, <2>1
<1>6. ASSUME NEW b \in Mapped
      PROVE  (AliveAt(b)' <=> AliveAt(b)) /\ GenAt(b)' = GenAt(b)
    <2>1. CASE IsSlabAddress(b)
        <3>1. PICK c \in Class :
                 \E k \in 1 .. Len(slabs[c]) : \E i \in Slot(c) : b = <<c, k, i>>
            BY <2>1 DEF IsSlabAddress
        <3>2. PICK k \in 1 .. Len(slabs[c]), i \in Slot(c) : b = <<c, k, i>>
            BY <3>1
        <3> QED
            BY <1>5, <3>2, ReadSlab
    <2>2. CASE IsLargeAddress(b)
        <3>1. PICK j \in 1 .. Len(large) : b = <<LARGE, j, 0>>
            BY <2>2 DEF IsLargeAddress
        <3> QED
            BY <1>1, <3>1, ReadLarge
    <2> QED
        BY <2>1, <2>2, MappedCases
<1> QED
    BY <1>1, <1>4, <1>6 DEF SameObjects

-----------------------------------------------------------------------------
(* Every step at the level of addresses.                                   *)

LEMMA StepCases ==
    ASSUME SlabsGood, LargeGood, drawn \in Nat, [Next]_vars
    PROVE  /\ LargeGood'
           /\ \/ UNCHANGED <<weak, answer>> /\ \E a : AllocAt(a) \/ FreeAt(a)
              \/ UNCHANGED <<weak, answer>> /\ SameObjects
              \/ WeakCreate /\ SameObjects
              \/ WeakCheck /\ SameObjects
<1>1. ASSUME UNCHANGED <<slabs, large, drawn>>
      PROVE  LargeGood' /\ SameObjects
    <2>1. Mapped' = Mapped
        BY <1>1 DEF Mapped, SlabAddress, LargeAddress
    <2>2. \A b : GenAt(b)' = GenAt(b) /\ (AliveAt(b)' <=> AliveAt(b))
        BY <1>1 DEF GenAt, AliveAt
    <2> QED
        BY <1>1, <2>1, <2>2 DEF LargeGood, SameObjects
<1>2. ASSUME UNCHANGED large
      PROVE  LargeGood'
    BY <1>2 DEF LargeGood
<1>3. CASE \E c \in Class : AllocFromSlab(c)
    BY <1>2, <1>3, AllocFromSlabAddress DEF AllocFromSlab
<1>4. CASE \E c \in Class : AllocFromNewSlab(c)
    BY <1>2, <1>4, AllocFromNewSlabAddress DEF AllocFromNewSlab
<1>5. CASE \E c \in Class : FreeInSlab(c)
    BY <1>2, <1>5, FreeInSlabAddress DEF FreeInSlab
<1>6. CASE AllocLarge
    BY <1>6, AllocLargeAddress DEF AllocLarge
<1>7. CASE FreeLarge
    BY <1>7, FreeLargeAddress DEF FreeLarge
<1>8. CASE ReclaimTombstoned
    BY <1>2, <1>8, ReclaimAddress DEF ReclaimTombstoned
<1>9. CASE WeakCreate
    BY <1>1, <1>9 DEF WeakCreate
<1>10. CASE WeakCheck
    BY <1>1, <1>10 DEF WeakCheck
<1>11. CASE UNCHANGED vars
    BY <1>1, <1>11 DEF vars
<1> QED
    BY <1>3, <1>4, <1>5, <1>6, <1>7, <1>8, <1>9, <1>10, <1>11 DEF Next

-----------------------------------------------------------------------------
(* The inductive invariant.                                                *)

\* A weak reference points into mapped memory and no other live object can
\* ever carry the generation it remembers.
WeakGood ==
    \A w \in weak :
        /\ w \in WeakRef
        /\ w.at \in Mapped
        /\ w.gen \in 1 .. drawn
        /\ \A a \in AliveAddress : GenAt(a) = w.gen => a = w.at

DeadAddressesReadZero == \A a \in Mapped : ~AliveAt(a) => GenAt(a) = 0

HeapGood ==
    /\ drawn \in 0 .. MaxGen
    /\ DeadAddressesReadZero
    /\ GenerationsIdentifyObjects
    /\ WeakGood

TotalsGood ==
    /\ allocated \in Nat /\ tombstoned \in Nat
    /\ answer \in {None} \cup [of : Nat, alive : BOOLEAN]

Inv == SlabsGood /\ LargeGood /\ HeapGood /\ TotalsGood

LEMMA MappedAreAddresses == SlabsGood /\ LargeGood => Mapped \subseteq Address
<1> SUFFICES ASSUME SlabsGood, LargeGood, NEW b \in Mapped
             PROVE  b \in Address
    OBVIOUS
<1>1. CASE IsSlabAddress(b)
    <2>1. PICK c \in Class :
             \E k \in 1 .. Len(slabs[c]) : \E i \in Slot(c) : b = <<c, k, i>>
        BY <1>1 DEF IsSlabAddress
    <2>2. PICK k \in 1 .. Len(slabs[c]), i \in Slot(c) : b = <<c, k, i>>
        BY <2>1
    <2>3. k \in Nat \ {0} /\ i \in Nat
        BY SlotCountAssumption DEF SlabsGood, Slot
    <2> QED
        BY <2>2, <2>3 DEF Address
<1>2. CASE IsLargeAddress(b)
    <2>1. PICK j \in 1 .. Len(large) : b = <<LARGE, j, 0>>
        BY <1>2 DEF IsLargeAddress
    <2>2. j \in Nat \ {0}
        BY DEF LargeGood
    <2> QED
        BY <2>1, <2>2 DEF Address
<1> QED
    BY <1>1, <1>2, MappedCases

LEMMA InitInv == Init => Inv
<1> SUFFICES ASSUME Init
             PROVE  Inv
    OBVIOUS
<1>1. Mapped = {}
    BY MappedCases DEF Init, IsSlabAddress, IsLargeAddress
<1>2. AliveAddress = {}
    BY <1>1 DEF AliveAddress
<1>3. HeapGood
    BY <1>1, <1>2, BoundsAssumption
    DEF Init, HeapGood, DeadAddressesReadZero, GenerationsIdentifyObjects, WeakGood
<1> QED
    BY <1>3, InitSlabsGood DEF Init, Inv, LargeGood, TotalsGood

LEMMA AllocHeapGood ==
    ASSUME Inv, UNCHANGED weak, NEW a, AllocAt(a)
    PROVE  HeapGood'
<1>1. /\ drawn' \in 0 .. MaxGen /\ drawn' = drawn + 1 /\ drawn \in Nat
      /\ AliveAddress' = AliveAddress \cup {a} /\ a \notin AliveAddress
    <2>1. drawn' \in 0 .. MaxGen /\ drawn' = drawn + 1 /\ drawn \in Nat
        BY BoundsAssumption DEF AllocAt, Inv, HeapGood
    <2>2. \A b : b \in AliveAddress' <=> b \in AliveAddress \/ b = a
        BY DEF AllocAt, AliveAddress
    <2>3. a \notin AliveAddress
        BY DEF AllocAt, AliveAddress
    <2> QED
        BY <2>1, <2>2, <2>3
<1>2. /\ GenAt(a)' = drawn + 1
      /\ \A b \in AliveAddress : GenAt(b)' = GenAt(b)
    BY DEF AllocAt, AliveAddress
<1>3. \A b \in AliveAddress : GenAt(b) \in 1 .. drawn
    BY DEF Inv, HeapGood, GenerationsIdentifyObjects
<1>4. DeadAddressesReadZero'
    BY DEF AllocAt, Inv, HeapGood, DeadAddressesReadZero
<1>5. GenerationsIdentifyObjects'
    <2>1. \A b \in AliveAddress' : GenAt(b)' \in 1 .. drawn'
        BY <1>1, <1>2, <1>3
    <2>2. ASSUME NEW b \in AliveAddress', NEW d \in AliveAddress', GenAt(b)' = GenAt(d)'
          PROVE  b = d
        <3>1. b # a => GenAt(b)' = GenAt(b) /\ GenAt(b) \in 1 .. drawn
            BY <1>1, <1>2, <1>3
        <3>2. d # a => GenAt(d)' = GenAt(d) /\ GenAt(d) \in 1 .. drawn
            BY <1>1, <1>2, <1>3
        <3>3. \A x \in 1 .. drawn : x # drawn + 1
            BY <1>1
        <3> QED
            BY <1>1, <1>2, <2>2, <3>1, <3>2, <3>3
            DEF Inv, HeapGood, GenerationsIdentifyObjects
    <2> QED
        BY <2>1, <2>2 DEF GenerationsIdentifyObjects
<1>6. WeakGood'
    <2> SUFFICES ASSUME NEW w \in weak
                 PROVE  /\ w \in WeakRef
                        /\ w.at \in Mapped'
                        /\ w.gen \in 1 .. drawn'
                        /\ \A b \in AliveAddress' : GenAt(b)' = w.gen => b = w.at
        BY DEF WeakGood
    <2>1. /\ w \in WeakRef /\ w.at \in Mapped /\ w.gen \in 1 .. drawn
          /\ \A b \in AliveAddress : GenAt(b) = w.gen => b = w.at
        BY DEF Inv, HeapGood, WeakGood
    <2>2. w.gen # drawn + 1 /\ w.gen \in 1 .. drawn'
        BY <1>1, <2>1
    <2>3. w.at \in Mapped'
        BY <2>1 DEF AllocAt
    <2> QED
        BY <1>1, <1>2, <2>1, <2>2, <2>3
<1> QED
    BY <1>1, <1>4, <1>5, <1>6 DEF HeapGood

LEMMA FreeHeapGood ==
    ASSUME Inv, UNCHANGED weak, NEW a, FreeAt(a)
    PROVE  HeapGood'
<1>1. /\ AliveAddress' = AliveAddress \ {a}
      /\ \A b \in AliveAddress' : GenAt(b)' = GenAt(b)
    BY DEF FreeAt, AliveAddress
<1>2. DeadAddressesReadZero'
    BY DEF FreeAt, Inv, HeapGood, DeadAddressesReadZero
<1>3. GenerationsIdentifyObjects'
    BY <1>1 DEF FreeAt, Inv, HeapGood, GenerationsIdentifyObjects
<1>4. WeakGood'
    BY <1>1 DEF FreeAt, Inv, HeapGood, WeakGood
<1> QED
    BY <1>2, <1>3, <1>4 DEF HeapGood, FreeAt, Inv

LEMMA SameHeapGood ==
    ASSUME Inv, SameObjects, UNCHANGED weak \/ WeakCreate
    PROVE  HeapGood'
<1>1. /\ AliveAddress' = AliveAddress
      /\ \A b \in AliveAddress : GenAt(b)' = GenAt(b)
    BY DEF SameObjects, AliveAddress
<1>2. DeadAddressesReadZero'
    BY DEF SameObjects, Inv, HeapGood, DeadAddressesReadZero
<1>3. GenerationsIdentifyObjects'
    BY <1>1 DEF SameObjects, Inv, HeapGood, GenerationsIdentifyObjects
<1>4. \A w \in weak :
         /\ w \in WeakRef /\ w.at \in Mapped' /\ w.gen \in 1 .. drawn'
         /\ \A a \in AliveAddress' : GenAt(a)' = w.gen => a = w.at
    BY <1>1 DEF SameObjects, Inv, HeapGood, WeakGood
<1>5. CASE WeakCreate
    <2>1. PICK a \in AliveAddress : weak' = weak \cup {[at |-> a, gen |-> GenAt(a)]}
        BY <1>5 DEF WeakCreate
    <2>2. PICK w : w = [at |-> a, gen |-> GenAt(a)]
        OBVIOUS
    <2>3. GenAt(a) \in 1 .. drawn /\ drawn \in Nat /\ a \in Mapped
        BY DEF Inv, HeapGood, GenerationsIdentifyObjects, AliveAddress
    <2>4. w \in WeakRef /\ w.at = a /\ w.gen = GenAt(a)
        BY <2>2, <2>3, MappedAreAddresses DEF WeakRef, Inv
    <2>5. \A b \in AliveAddress' : GenAt(b)' = w.gen => b = w.at
        BY <1>1, <2>4 DEF Inv, HeapGood, GenerationsIdentifyObjects
    <2>6. w.at \in Mapped' /\ w.gen \in 1 .. drawn'
        BY <2>3, <2>4 DEF SameObjects
    <2>7. weak' = weak \cup {w}
        BY <2>1, <2>2
    <2>8. WeakGood'
        BY <1>4, <2>4, <2>5, <2>6, <2>7 DEF WeakGood
    <2> QED
        BY <1>2, <1>3, <2>8 DEF HeapGood, SameObjects, Inv
<1>6. CASE UNCHANGED weak
    BY <1>2, <1>3, <1>4, <1>6 DEF HeapGood, SameObjects, Inv, WeakGood
<1> QED
    BY <1>5, <1>6

LEMMA NextTotalsGood ==
    ASSUME Inv, [Next]_vars
    PROVE  TotalsGood'
<1>1. ASSUME WeakCheck
      PROVE  TotalsGood'
    <2>1. PICK w \in weak : answer' = [of |-> w.gen, alive |-> WeakValid(w)]
        BY <1>1 DEF WeakCheck
    <2>2. w.gen \in Nat
        BY DEF Inv, HeapGood, WeakGood
    <2>3. WeakValid(w) \in BOOLEAN
        BY DEF WeakValid
    <2>4. answer' \in [of : Nat, alive : BOOLEAN]
        BY <2>1, <2>2, <2>3
    <2> QED
        BY <1>1, <2>4 DEF WeakCheck, Inv, TotalsGood
<1>2. ASSUME UNCHANGED answer, allocated' \in {allocated, allocated + 1},
             tombstoned' \in {tombstoned, tombstoned + 1}
      PROVE  TotalsGood'
    BY <1>2 DEF Inv, TotalsGood
<1>3. CASE \E c \in Class : AllocFromSlab(c) \/ AllocFromNewSlab(c) \/ FreeInSlab(c)
    BY <1>2, <1>3 DEF AllocFromSlab, AllocFromNewSlab, FreeInSlab
<1>4. CASE AllocLarge \/ FreeLarge
    BY <1>2, <1>4 DEF AllocLarge, FreeLarge
<1>5. CASE ReclaimTombstoned \/ WeakCreate \/ UNCHANGED vars
    BY <1>2, <1>5 DEF ReclaimTombstoned, WeakCreate, vars
<1> QED
    BY <1>1, <1>3, <1>4, <1>5 DEF Next

LEMMA NextInv == Inv /\ [Next]_vars => Inv'
<1> SUFFICES ASSUME Inv, [Next]_vars
             PROVE  Inv'
    OBVIOUS
<1>1. SlabsGood /\ LargeGood /\ drawn \in Nat
    BY DEF Inv, HeapGood
<1>2. SlabsGood' /\ LargeGood'
    BY <1>1, NextSlabsGood, StepCases
<1>3. HeapGood'
    <2>1. CASE UNCHANGED <<weak, answer>> /\ \E a : AllocAt(a) \/ FreeAt(a)
        BY <2>1, AllocHeapGood, FreeHeapGood
    <2>2. CASE SameObjects /\ (UNCHANGED weak \/ WeakCreate)
        BY <2>2, SameHeapGood
    <2> QED
        BY <1>1, <2>1, <2>2, StepCases DEF WeakCheck
<1> QED
    BY <1>2, <1>3, NextTotalsGood DEF Inv

\* The inductive invariant holds in every state of every behaviour.
THEOREM Invariance == Spec => []Inv
BY InitInv, NextInv, PTL DEF Spec

-----------------------------------------------------------------------------
(* What follows from it.                                                   *)

\* Every variable keeps its shape.
THEOREM TypeCorrect == Spec => []TypeOK
<1>1. Inv => TypeOK
    BY DEF Inv, SlabsGood, LargeGood, HeapGood, WeakGood, TotalsGood, TypeOK
<1> QED
    BY <1>1, Invariance, PTL

\* alloc_from_slab never pops a slot that is in use, and the free list of a
\* slab never runs into one: whatever order allocations, frees and
\* reclamations come in.
THEOREM FreeListSafe == Spec => []FreeLinksStayFree
<1>1. Inv => FreeLinksStayFree
    BY DEF Inv, SlabsGood, GoodSlab, FreeLinksStayFree
<1> QED
    BY <1>1, Invariance, PTL

\* reclaim_tombstoned never takes the memory of a live object: the counter
\* it looks at is the number of ALIVE slots.
THEOREM LiveCountCorrect == Spec => []LiveCountExact
<1>1. Inv => LiveCountExact
    BY DEF Inv, SlabsGood, GoodSlab, LiveCountExact, AliveSlots
<1> QED
    BY <1>1, Invariance, PTL

\* Two live objects never share a generation.
THEOREM GenerationsCorrect == Spec => []GenerationsIdentifyObjects
<1>1. Inv => GenerationsIdentifyObjects
    BY DEF Inv, HeapGood
<1> QED
    BY <1>1, Invariance, PTL

\* The word behind a weak reference reads zero from the free of its object
\* to the next use of the slot.
THEOREM DeadWordsCorrect == Spec => []DeadWordsReadZero
<1>1. Inv => DeadWordsReadZero
    BY DEF Inv, SlabsGood, GoodSlab, LargeGood, DeadWordsReadZero
<1> QED
    BY <1>1, Invariance, PTL

LEMMA WeakValidIsLive ==
    ASSUME Inv, NEW w \in weak
    PROVE  WeakValid(w) <=> w.gen \in LiveObjects
<1>1. /\ w.at \in Mapped
      /\ w.gen \in 1 .. drawn
      /\ \A a \in AliveAddress : GenAt(a) = w.gen => a = w.at
    BY DEF Inv, HeapGood, WeakGood
<1>2. w.gen # 0
    BY <1>1 DEF Inv, HeapGood
<1>3. ASSUME GenAt(w.at) = w.gen
      PROVE  w.gen \in LiveObjects
    <2>1. AliveAt(w.at)
        BY <1>1, <1>2, <1>3 DEF Inv, HeapGood, DeadAddressesReadZero
    <2>2. w.at \in AliveAddress
        BY <1>1, <2>1 DEF AliveAddress
    <2> QED
        BY <1>3, <2>2 DEF LiveObjects
<1>4. ASSUME w.gen \in LiveObjects
      PROVE  GenAt(w.at) = w.gen
    BY <1>1, <1>4 DEF LiveObjects
<1> QED
    BY <1>2, <1>3, <1>4 DEF WeakValid

\* A weak reference tells the truth about its object, for ever.
THEOREM WeakRefsCorrect == Spec => []WeakRefsTellTheTruth
<1>1. Inv => WeakRefsTellTheTruth
    BY WeakValidIsLive DEF WeakRefsTellTheTruth
<1> QED
    BY <1>1, Invariance, PTL

\* A remapped slab is never written and never serves an allocation again.
THEOREM RemappedCorrect == Spec => RemappedSlabsAreFrozen
<1> DEFINE Frozen == \A c \in Class : \A k \in 1 .. Len(slabs[c]) :
                        slabs[c][k].remapped => slabs'[c][k] = slabs[c][k]
<1>1. ASSUME Inv, [Next]_vars
      PROVE  Frozen
    <2>1. /\ \A c \in Class : slabs[c] \in Seq(Slab(c))
          /\ DOMAIN slabs = Class
          /\ drawn \in Nat
        BY <1>1 DEF Inv, SlabsGood, HeapGood
    <2>2. ASSUME NEW d \in Class, NEW j \in 1 .. Len(slabs[d]), ~slabs[d][j].remapped,
                 NEW t, slabs' = [slabs EXCEPT ![d] = [slabs[d] EXCEPT ![j] = t]]
          PROVE  Frozen
        BY <2>1, <2>2
    <2>3. ASSUME NEW d \in Class, AllocFromSlab(d)
          PROVE  Frozen
        <3>1. PICK k \in 1 .. Len(slabs[d]) :
                 /\ GoodSlab(d, slabs[d][k])
                 /\ slabs[d][k].free_head # NIL
                 /\ slabs' = [slabs EXCEPT ![d] = [slabs[d] EXCEPT ![k] =
                                                      SlabAlloc(slabs[d][k], drawn + 1)]]
            BY <1>1, <2>1, <2>3, AllocFromSlabStep DEF Inv
        <3>2. ~slabs[d][k].remapped
            BY <3>1 DEF GoodSlab
        <3> QED
            BY <2>2, <3>1, <3>2
    <2>4. ASSUME NEW d \in Class, AllocFromNewSlab(d)
          PROVE  Frozen
        BY <2>1, <2>4, AllocFromNewSlabStep
    <2>5. ASSUME NEW d \in Class, FreeInSlab(d)
          PROVE  Frozen
        <3>1. PICK k \in 1 .. Len(slabs[d]), i \in Slot(d) :
                 /\ slabs[d][k].state[i] = "ALIVE"
                 /\ slabs' = [slabs EXCEPT ![d] = [slabs[d] EXCEPT ![k] =
                                                      SlabFree(slabs[d][k], i)]]
            BY <2>5 DEF FreeInSlab
        <3>2. GoodSlab(d, slabs[d][k])
            BY <1>1 DEF Inv, SlabsGood
        <3>3. ~slabs[d][k].remapped
            BY <3>1, <3>2, SlabFreeGood
        <3> QED
            BY <2>2, <3>1, <3>3
    <2>6. ASSUME ReclaimTombstoned
          PROVE  Frozen
        BY <2>1, <2>6 DEF ReclaimTombstoned, Reclaimable
    <2>7. ASSUME UNCHANGED slabs
          PROVE  Frozen
        BY <2>7
    <2> QED
        BY <1>1, <2>3, <2>4, <2>5, <2>6, <2>7
        DEF Next, vars, AllocLarge, FreeLarge, WeakCreate, WeakCheck
<1>2. Inv /\ [Next]_vars => [Frozen]_vars
    BY <1>1
<1> QED
    BY <1>2, Invariance, PTL DEF Spec, RemappedSlabsAreFrozen

-----------------------------------------------------------------------------
(* The refinement.                                                         *)

LEMMA AllocRefines ==
    ASSUME Inv, UNCHANGED <<weak, answer>>, NEW a, AllocAt(a)
    PROVE  Heap!Alloc
<1>1. /\ AliveAddress' = AliveAddress \cup {a}
      /\ GenAt(a)' = drawn + 1
      /\ \A b \in AliveAddress : GenAt(b)' = GenAt(b)
    <2>1. \A b : b \in AliveAddress' <=> b \in AliveAddress \/ b = a
        BY DEF AllocAt, AliveAddress
    <2> QED
        BY <2>1 DEF AllocAt, AliveAddress
<1>2. LiveObjects' = LiveObjects \cup {drawn + 1}
    BY <1>1 DEF LiveObjects
<1>3. drawn \in Nat /\ drawn < MaxGen /\ drawn' = drawn + 1
    BY DEF AllocAt, Inv, HeapGood
<1>4. /\ drawn + 1 \in (1 .. MaxGen) \ (1 .. drawn)
      /\ 1 .. drawn' = (1 .. drawn) \cup {drawn + 1}
    BY <1>3, BoundsAssumption
<1> QED
    BY <1>2, <1>4 DEF Heap!Alloc

LEMMA FreeRefines ==
    ASSUME Inv, UNCHANGED <<weak, answer>>, NEW a, FreeAt(a)
    PROVE  Heap!Free
<1>1. /\ AliveAddress' = AliveAddress \ {a} /\ a \in AliveAddress
      /\ \A b \in AliveAddress' : GenAt(b)' = GenAt(b)
    BY DEF FreeAt, AliveAddress
<1>2. \A b \in AliveAddress : GenAt(b) = GenAt(a) => b = a
    BY <1>1 DEF Inv, HeapGood, GenerationsIdentifyObjects
<1>3. LiveObjects' = LiveObjects \ {GenAt(a)} /\ GenAt(a) \in LiveObjects
    BY <1>1, <1>2 DEF LiveObjects
<1> QED
    BY <1>3 DEF Heap!Free, FreeAt

LEMMA NextRefines == Inv /\ [Next]_vars => [Heap!Next]_Heap!vars
<1> SUFFICES ASSUME Inv, [Next]_vars
             PROVE  [Heap!Next]_Heap!vars
    OBVIOUS
<1>1. ASSUME SameObjects
      PROVE  LiveObjects' = LiveObjects /\ drawn' = drawn
    <2>1. AliveAddress' = AliveAddress /\ \A b \in AliveAddress : GenAt(b)' = GenAt(b)
        BY <1>1 DEF SameObjects, AliveAddress
    <2> QED
        BY <1>1, <2>1 DEF LiveObjects, SameObjects
<1>2. CASE UNCHANGED <<weak, answer>> /\ \E a : AllocAt(a) \/ FreeAt(a)
    BY <1>2, AllocRefines, FreeRefines DEF Heap!Next
<1>3. CASE UNCHANGED <<weak, answer>> /\ SameObjects
    BY <1>1, <1>3 DEF Heap!vars
<1>4. CASE WeakCreate /\ SameObjects
    <2>1. PICK a \in AliveAddress : weak' = weak \cup {[at |-> a, gen |-> GenAt(a)]}
        BY <1>4 DEF WeakCreate
    <2>2. GenAt(a) \in LiveObjects /\ answer' = answer
        BY <1>4 DEF LiveObjects, WeakCreate
    <2>3. {w.gen : w \in weak'} = {w.gen : w \in weak} \cup {GenAt(a)}
        <3>1. PICK v : v = [at |-> a, gen |-> GenAt(a)]
            OBVIOUS
        <3>2. weak' = weak \cup {v} /\ v.gen = GenAt(a)
            BY <2>1, <3>1
        <3> QED
            BY <3>2
    <2> QED
        BY <1>1, <1>4, <2>2, <2>3 DEF Heap!Next, Heap!WeakCreate
<1>5. CASE WeakCheck /\ SameObjects
    <2>1. PICK w \in weak : answer' = [of |-> w.gen, alive |-> WeakValid(w)]
        BY <1>5 DEF WeakCheck
    <2>2. WeakValid(w) = (w.gen \in LiveObjects)
        BY WeakValidIsLive DEF WeakValid
    <2>3. /\ w.gen \in {v.gen : v \in weak}
          /\ answer' = [of |-> w.gen, alive |-> w.gen \in LiveObjects]
          /\ weak' = weak
        BY <1>5, <2>1, <2>2 DEF WeakCheck
    <2> QED
        BY <1>1, <1>5, <2>3 DEF Heap!Next, Heap!WeakCheck
<1> QED
    BY <1>2, <1>3, <1>4, <1>5, StepCases DEF Inv, HeapGood

LEMMA InitRefines == Init => Heap!Init
<1> SUFFICES ASSUME Init
             PROVE  Heap!Init
    OBVIOUS
<1>1. Mapped = {}
    BY MappedCases DEF Init, IsSlabAddress, IsLargeAddress
<1>2. LiveObjects = {}
    BY <1>1 DEF AliveAddress, LiveObjects
<1>3. 1 .. drawn = {}
    BY DEF Init
<1> QED
    BY <1>2, <1>3 DEF Init, Heap!Init

\* The slab allocator with its weak generations implements WeakHeap: objects
\* are never born twice, and a weak check answers by the life of its object.
THEOREM Refinement == Spec => ImplementsWeakHeap
BY InitRefines, NextRefines, Invariance, PTL DEF Spec, Heap!Spec, ImplementsWeakHeap

-----------------------------------------------------------------------------
(* The free list as a whole.  Where it leads is an order of the FREE slots: *)
(* a step of a slab takes the first of them away or puts one before it.     *)

FreeSlots(c, s) == {i \in Slot(c) : s.state[i] = "FREE"}

\* The slots of q are the FREE ones, each once, and the links follow q.
FreeOrder(c, s, q) ==
    /\ q \in Seq(Slot(c))
    /\ \A j \in 1 .. Len(q) : q[j] \in FreeSlots(c, s)
    /\ \A i \in FreeSlots(c, s) : \E j \in 1 .. Len(q) : q[j] = i
    /\ \A j, k \in 1 .. Len(q) : q[j] = q[k] => j = k
    /\ s.free_head = IF q = <<>> THEN NIL ELSE q[1]
    /\ \A j \in 1 .. Len(q) : s.link[q[j]] = IF j = Len(q) THEN NIL ELSE q[j + 1]

Ordered(c, s) == s.remapped \/ \E q \in Seq(Slot(c)) : FreeOrder(c, s, q)

LEMMA NewSlabOrdered ==
    ASSUME NEW c \in Class
    PROVE  Ordered(c, NewSlab(c))
<1> DEFINE s == NewSlab(c)
           n == SlotCount[c]
           q == [j \in 1 .. n |-> j - 1]
<1>1. n \in Nat \ {0}
    BY SlotCountAssumption
<1>2. q \in Seq(Slot(c)) /\ Len(q) = n /\ q # <<>>
    BY <1>1 DEF Slot
<1>3. FreeSlots(c, s) = Slot(c)
    BY DEF FreeSlots, NewSlab
<1>4. \A i \in Slot(c) : i + 1 \in 1 .. n /\ q[i + 1] = i
    BY <1>1 DEF Slot
<1>5. \A j \in 1 .. n : s.link[q[j]] = IF j = n THEN NIL ELSE q[j + 1]
    BY <1>1 DEF NewSlab, Slot
<1>6. s.free_head = q[1]
    BY <1>1 DEF NewSlab
<1>7. \A j, k \in 1 .. n : q[j] = q[k] => j = k
    BY <1>1
<1> HIDE DEF q, s, n
<1>8. FreeOrder(c, s, q)
    BY <1>1, <1>2, <1>3, <1>4, <1>5, <1>6, <1>7 DEF FreeOrder
<1> QED
    BY <1>2, <1>8 DEF Ordered, s

LEMMA SlabAllocOrdered ==
    ASSUME NEW c \in Class, NEW s \in Slab(c), Ordered(c, s),
           s.free_head # NIL, s.remapped => s.free_head = NIL, NEW g
    PROVE  Ordered(c, SlabAlloc(s, g))
<1> DEFINE h == s.free_head
           t == SlabAlloc(s, g)
<1>1. PICK q \in Seq(Slot(c)) : FreeOrder(c, s, q)
    BY DEF Ordered
<1>2. q # <<>> /\ h = q[1] /\ Len(q) \in Nat \ {0} /\ h \in Slot(c)
    BY <1>1 DEF FreeOrder
<1>3. /\ t.free_head = s.link[h]
      /\ \A i \in Slot(c) : i # h => t.state[i] = s.state[i] /\ t.link[i] = s.link[i]
      /\ t.state[h] = "ALIVE"
    BY <1>2, SlabAllocFields DEF SlabAlloc, Slab
<1> DEFINE r == Tail(q)
<1>4. /\ r \in Seq(Slot(c)) /\ Len(r) = Len(q) - 1
      /\ \A j \in 1 .. Len(r) : r[j] = q[j + 1] /\ j + 1 \in 1 .. Len(q)
      /\ r = <<>> <=> Len(q) = 1
    <2>1. r \in Seq(Slot(c)) /\ Len(r) = Len(q) - 1
        BY <1>2
    <2>2. \A j \in 1 .. Len(r) : r[j] = q[j + 1] /\ j + 1 \in 1 .. Len(q)
        BY <1>2, <2>1
    <2> HIDE DEF r
    <2>3. r = <<>> <=> Len(r) = 0
        BY <2>1
    <2> QED
        BY <1>2, <2>1, <2>2, <2>3
<1> HIDE DEF r
<1>5. \A j \in 1 .. Len(r) : r[j] # h /\ r[j] \in FreeSlots(c, s)
    <2>1. \A j \in 1 .. Len(r) : j + 1 # 1 /\ 1 \in 1 .. Len(q)
        BY <1>2, <1>4
    <2> QED
        BY <1>1, <1>2, <1>4, <2>1 DEF FreeOrder
<1>6. \A i : i \in FreeSlots(c, t) <=> i \in FreeSlots(c, s) /\ i # h
    BY <1>2, <1>3 DEF FreeSlots
<1>7. \A i \in FreeSlots(c, t) : \E j \in 1 .. Len(r) : r[j] = i
    <2> SUFFICES ASSUME NEW i \in FreeSlots(c, t)
                 PROVE  \E j \in 1 .. Len(r) : r[j] = i
        OBVIOUS
    <2>1. PICK j \in 1 .. Len(q) : q[j] = i
        BY <1>1, <1>6 DEF FreeOrder
    <2>2. j # 1
        BY <1>2, <1>6, <2>1
    <2>3. j - 1 \in 1 .. Len(r) /\ (j - 1) + 1 = j
        BY <1>2, <1>4, <2>2
    <2> QED
        BY <1>4, <2>1, <2>3
<1>8. \A j, k \in 1 .. Len(r) : r[j] = r[k] => j = k
    BY <1>1, <1>2, <1>4 DEF FreeOrder
<1>9. \A j \in 1 .. Len(r) : t.link[r[j]] = IF j = Len(r) THEN NIL ELSE r[j + 1]
    <2> SUFFICES ASSUME NEW j \in 1 .. Len(r)
                 PROVE  t.link[r[j]] = IF j = Len(r) THEN NIL ELSE r[j + 1]
        OBVIOUS
    <2>1. r[j] \in Slot(c) /\ t.link[r[j]] = s.link[r[j]]
        BY <1>3, <1>5 DEF FreeSlots
    <2>2. s.link[q[j + 1]] = IF j + 1 = Len(q) THEN NIL ELSE q[(j + 1) + 1]
        BY <1>1, <1>4 DEF FreeOrder
    <2>3. j # Len(r) => j + 1 \in 1 .. Len(r) /\ r[j + 1] = q[(j + 1) + 1]
        BY <1>2, <1>4
    <2>4. j + 1 = Len(q) <=> j = Len(r)
        BY <1>2, <1>4
    <2>5. r[j] = q[j + 1]
        BY <1>4
    <2> QED
        BY <2>1, <2>2, <2>3, <2>4, <2>5
<1>10. t.free_head = IF r = <<>> THEN NIL ELSE r[1]
    <2>0. 1 \in 1 .. Len(q)
        BY <1>2
    <2>1. s.link[q[1]] = IF 1 = Len(q) THEN NIL ELSE q[1 + 1]
        BY <1>1, <2>0 DEF FreeOrder
    <2>2. r # <<>> => r[1] = q[1 + 1]
        BY <1>2, <1>4
    <2> QED
        BY <1>2, <1>3, <1>4, <2>1, <2>2
<1> HIDE DEF t, h
<1>11. FreeOrder(c, t, r)
    BY <1>4, <1>5, <1>6, <1>7, <1>8, <1>9, <1>10 DEF FreeOrder
<1> QED
    BY <1>4, <1>11 DEF Ordered, t

LEMMA SlabFreeOrdered ==
    ASSUME NEW c \in Class, NEW s \in Slab(c), Ordered(c, s),
           NEW i \in Slot(c), s.state[i] = "ALIVE"
    PROVE  Ordered(c, SlabFree(s, i))
<1> DEFINE t == SlabFree(s, i)
<1>1. CASE s.remapped
    BY <1>1 DEF Ordered, SlabFree, Slab
<1>2. CASE ~s.remapped
    <2>1. PICK q \in Seq(Slot(c)) : FreeOrder(c, s, q)
        BY <1>2 DEF Ordered
    <2>2. /\ t.free_head = i
          /\ \A k \in Slot(c) : k # i => t.state[k] = s.state[k] /\ t.link[k] = s.link[k]
          /\ t.state[i] = "FREE" /\ t.link[i] = s.free_head
        BY DEF SlabFree, Slab
    <2> DEFINE r == <<i>> \o q
    <2>3. /\ r \in Seq(Slot(c)) /\ Len(r) = Len(q) + 1 /\ Len(q) \in Nat /\ r # <<>>
          /\ r[1] = i
          /\ \A j \in 1 .. Len(q) : r[j + 1] = q[j] /\ j + 1 \in 1 .. Len(r)
          /\ q = <<>> <=> Len(q) = 0
        OBVIOUS
    <2>4. \A j \in 1 .. Len(r) : j = 1 \/ (j - 1 \in 1 .. Len(q) /\ r[j] = q[j - 1])
        BY <2>3
    <2> HIDE DEF r
    <2>5. i \notin FreeSlots(c, s) /\ \A k : k \in FreeSlots(c, t) <=> k \in FreeSlots(c, s) \/ k = i
        BY <2>2 DEF FreeSlots
    <2>6. \A j \in 1 .. Len(q) : q[j] \in FreeSlots(c, s) /\ q[j] # i
        BY <2>1, <2>5 DEF FreeOrder
    <2>7. \A j \in 1 .. Len(r) : r[j] \in FreeSlots(c, t)
        BY <2>3, <2>4, <2>5, <2>6
    <2>8. \A k \in FreeSlots(c, t) : \E j \in 1 .. Len(r) : r[j] = k
        <3>1. 1 \in 1 .. Len(r)
            BY <2>3
        <3>2. \A k \in FreeSlots(c, s) : \E j \in 1 .. Len(q) : q[j] = k
            BY <2>1 DEF FreeOrder
        <3> QED
            BY <2>3, <2>5, <3>1, <3>2
    <2>9. \A j, k \in 1 .. Len(r) : r[j] = r[k] => j = k
        <3>1. \A j, k \in 1 .. Len(q) : q[j] = q[k] => j = k
            BY <2>1 DEF FreeOrder
        <3> SUFFICES ASSUME NEW j \in 1 .. Len(r), NEW k \in 1 .. Len(r), r[j] = r[k]
                     PROVE  j = k
            OBVIOUS
        <3>2. CASE j # 1 /\ k # 1
            <4>1. /\ j - 1 \in 1 .. Len(q) /\ r[j] = q[j - 1]
                  /\ k - 1 \in 1 .. Len(q) /\ r[k] = q[k - 1]
                BY <2>4, <3>2
            <4>2. j - 1 = k - 1
                BY <3>1, <4>1
            <4> QED
                BY <2>3, <4>2
        <3>3. \A l \in 1 .. Len(r) : r[l] = i => l = 1
            <4> SUFFICES ASSUME NEW l \in 1 .. Len(r), l # 1
                         PROVE  r[l] # i
                OBVIOUS
            <4>1. l - 1 \in 1 .. Len(q) /\ r[l] = q[l - 1]
                BY <2>4
            <4> QED
                BY <2>6, <4>1
        <3> QED
            BY <2>3, <3>2, <3>3
    <2>10. \A j \in 1 .. Len(r) : t.link[r[j]] = IF j = Len(r) THEN NIL ELSE r[j + 1]
        <3> SUFFICES ASSUME NEW j \in 1 .. Len(r)
                     PROVE  t.link[r[j]] = IF j = Len(r) THEN NIL ELSE r[j + 1]
            OBVIOUS
        <3>1. CASE j = 1
            <4>1. t.link[r[j]] = s.free_head
                BY <2>2, <2>3, <3>1
            <4>2. s.free_head = IF q = <<>> THEN NIL ELSE q[1]
                BY <2>1 DEF FreeOrder
            <4>3. q # <<>> => 1 \in 1 .. Len(q) /\ r[1 + 1] = q[1]
                BY <2>3
            <4> QED
                BY <2>3, <3>1, <4>1, <4>2, <4>3
        <3>2. CASE j # 1
            <4>1. j - 1 \in 1 .. Len(q) /\ r[j] = q[j - 1]
                BY <2>4, <3>2
            <4>2. q[j - 1] \in Slot(c) /\ t.link[q[j - 1]] = s.link[q[j - 1]]
                BY <2>2, <2>6, <4>1 DEF FreeSlots
            <4>3. s.link[q[j - 1]] = IF j - 1 = Len(q) THEN NIL ELSE q[(j - 1) + 1]
                BY <2>1, <4>1 DEF FreeOrder
            <4>4. j # Len(r) => j \in 1 .. Len(q) /\ r[j + 1] = q[j] /\ (j - 1) + 1 = j
                BY <2>3
            <4>5. j = Len(r) <=> j - 1 = Len(q)
                BY <2>3
            <4> QED
                BY <4>1, <4>2, <4>3, <4>4, <4>5
        <3> QED
            BY <3>1, <3>2
    <2> HIDE DEF t
    <2>11. FreeOrder(c, t, r)
        BY <2>2, <2>3, <2>7, <2>8, <2>9, <2>10 DEF FreeOrder
    <2> QED
        BY <2>3, <2>11 DEF Ordered, t
<1> QED
    BY <1>1, <1>2

AllOrdered == \A c \in Class : \A k \in 1 .. Len(slabs[c]) : Ordered(c, slabs[c][k])

\* One class changes, and its slabs are ordered.
LEMMA OneClassOrdered ==
    ASSUME SlabsGood, AllOrdered, NEW c \in Class, NEW q,
           \A k \in 1 .. Len(q) : Ordered(c, q[k]),
           slabs' = [slabs EXCEPT ![c] = q]
    PROVE  AllOrdered'
<1>1. \A d \in Class : slabs'[d] = IF d = c THEN q ELSE slabs[d]
    BY DEF SlabsGood
<1> QED
    BY <1>1 DEF AllOrdered

LEMMA ReplacedOrdered ==
    ASSUME NEW c, NEW q \in Seq(Slab(c)), NEW k \in 1 .. Len(q), NEW t,
           \A j \in 1 .. Len(q) : Ordered(c, q[j]), Ordered(c, t)
    PROVE  \A j \in 1 .. Len([q EXCEPT ![k] = t]) : Ordered(c, [q EXCEPT ![k] = t][j])
<1>1. /\ DOMAIN [q EXCEPT ![k] = t] = 1 .. Len(q)
      /\ Len([q EXCEPT ![k] = t]) = Len(q)
      /\ \A j \in 1 .. Len(q) : [q EXCEPT ![k] = t][j] = IF j = k THEN t ELSE q[j]
    OBVIOUS
<1> QED
    BY <1>1

LEMMA NextAllOrdered ==
    ASSUME Inv, AllOrdered, [Next]_vars
    PROVE  AllOrdered'
<1>0. SlabsGood /\ drawn \in Nat /\ \A c \in Class : slabs[c] \in Seq(Slab(c))
    BY BoundsAssumption DEF Inv, HeapGood, SlabsGood
<1>1. ASSUME NEW c \in Class, AllocFromSlab(c)
      PROVE  AllOrdered'
    <2>1. PICK k \in 1 .. Len(slabs[c]) :
             /\ GoodSlab(c, slabs[c][k])
             /\ slabs[c][k].free_head # NIL
             /\ slabs' = [slabs EXCEPT ![c] = [slabs[c] EXCEPT ![k] =
                                                  SlabAlloc(slabs[c][k], drawn + 1)]]
        BY <1>0, <1>1, AllocFromSlabStep
    <2> DEFINE t == SlabAlloc(slabs[c][k], drawn + 1)
    <2>2. Ordered(c, t)
        BY <2>1, SlabAllocOrdered DEF GoodSlab, AllOrdered
    <2> HIDE DEF t
    <2>3. \A j \in 1 .. Len(slabs[c]) : Ordered(c, slabs[c][j])
        BY DEF AllOrdered
    <2> DEFINE q == [slabs[c] EXCEPT ![k] = t]
    <2>4. \A j \in 1 .. Len(q) : Ordered(c, q[j])
        BY <1>0, <2>2, <2>3, ReplacedOrdered
    <2> HIDE DEF q
    <2> QED
        BY <1>0, <2>1, <2>4, OneClassOrdered DEF q, t
<1>2. ASSUME NEW c \in Class, AllocFromNewSlab(c)
      PROVE  AllOrdered'
    <2> DEFINE t == SlabAlloc(NewSlab(c), drawn + 1)
               q == Append(slabs[c], t)
    <2>1. NewSlab(c) \in Slab(c) /\ NewSlab(c).free_head # NIL /\ ~NewSlab(c).remapped
        BY NewSlabGood, NILAssumption DEF GoodSlab, NewSlab
    <2>2. Ordered(c, t)
        BY <2>1, NewSlabOrdered, SlabAllocOrdered
    <2>3. slabs' = [slabs EXCEPT ![c] = q]
        BY <1>0, <1>2, AllocFromNewSlabStep
    <2> HIDE DEF t
    <2>4. \A j \in 1 .. Len(slabs[c]) : Ordered(c, slabs[c][j])
        BY DEF AllOrdered
    <2>5. \A j \in 1 .. Len(q) : Ordered(c, q[j])
        BY <1>0, <2>2, <2>4
    <2> HIDE DEF q
    <2> QED
        BY <1>0, <2>3, <2>5, OneClassOrdered
<1>3. ASSUME NEW c \in Class, FreeInSlab(c)
      PROVE  AllOrdered'
    <2>1. PICK k \in 1 .. Len(slabs[c]), i \in Slot(c) :
             /\ slabs[c][k].state[i] = "ALIVE"
             /\ slabs' = [slabs EXCEPT ![c][k] = SlabFree(slabs[c][k], i)]
        BY <1>3 DEF FreeInSlab
    <2> DEFINE t == SlabFree(slabs[c][k], i)
    <2>2. Ordered(c, t)
        BY <1>0, <2>1, SlabFreeOrdered DEF AllOrdered
    <2>3. slabs' = [slabs EXCEPT ![c] = [slabs[c] EXCEPT ![k] = t]]
        BY <2>1
    <2> HIDE DEF t
    <2>4. \A j \in 1 .. Len(slabs[c]) : Ordered(c, slabs[c][j])
        BY DEF AllOrdered
    <2> DEFINE q == [slabs[c] EXCEPT ![k] = t]
    <2>5. \A j \in 1 .. Len(q) : Ordered(c, q[j])
        BY <1>0, <2>2, <2>4, ReplacedOrdered
    <2> HIDE DEF q
    <2> QED
        BY <1>0, <2>3, <2>5, OneClassOrdered DEF q
<1>4. ASSUME ReclaimTombstoned
      PROVE  AllOrdered'
    <2> SUFFICES ASSUME NEW c \in Class, NEW k \in 1 .. Len(slabs'[c])
                 PROVE  Ordered(c, slabs'[c][k])
        BY DEF AllOrdered
    <2> DEFINE t == IF Reclaimable(slabs[c][k]) THEN SlabReclaim(c, slabs[c][k])
                                                ELSE slabs[c][k]
    <2>1. k \in 1 .. Len(slabs[c]) /\ slabs'[c][k] = t
        <3> DEFINE q == [j \in 1 .. Len(slabs[c]) |->
                            IF Reclaimable(slabs[c][j]) THEN SlabReclaim(c, slabs[c][j])
                                                        ELSE slabs[c][j]]
        <3>1. slabs'[c] = q
            BY <1>4 DEF ReclaimTombstoned
        <3>2. Len(q) = Len(slabs[c])
            BY <1>0
        <3> QED
            BY <3>1, <3>2
    <2>2. slabs[c][k] \in Slab(c)
        BY <1>0, <2>1
    <2>3. CASE Reclaimable(slabs[c][k])
        BY <2>1, <2>2, <2>3 DEF SlabReclaim, Slab, Ordered
    <2>4. CASE ~Reclaimable(slabs[c][k])
        BY <2>1, <2>4 DEF AllOrdered
    <2> QED
        BY <2>3, <2>4
<1>5. ASSUME UNCHANGED slabs
      PROVE  AllOrdered'
    BY <1>5 DEF AllOrdered
<1> QED
    BY <1>1, <1>2, <1>3, <1>4, <1>5
    DEF Next, vars, AllocLarge, FreeLarge, WeakCreate, WeakCheck

\* The walk of Chain, round by round.
Walk(s, i) ==
    CHOOSE walk : walk =
        [m \in Nat |->
            IF m = 0 THEN <<i>>
            ELSE LET before == walk[m - 1]
                     last == before[Len(before)]
                 IN  IF last = NIL THEN before ELSE Append(before, s.link[last])]

LEMMA WalkRounds ==
    ASSUME NEW c \in Class, NEW s \in Slab(c), NEW i \in Slot(c) \cup {NIL}
    PROVE  /\ \A n : Chain(s, i, n) = Walk(s, i)[n]
           /\ Walk(s, i)[0] = <<i>>
           /\ \A n \in Nat : Walk(s, i)[n + 1] =
                 LET before == Walk(s, i)[n]
                     last == before[Len(before)]
                 IN  IF last = NIL THEN before ELSE Append(before, s.link[last])
<1> DEFINE Ends == Slot(c) \cup {NIL}
           Lists == {q \in Seq(Ends) : q # <<>>}
           Round(q) == IF q[Len(q)] = NIL THEN q ELSE Append(q, s.link[q[Len(q)]])
           h == [q \in Lists |-> Round(q)]
           IsWalk(g) == g = [m \in Nat |-> IF m = 0 THEN <<i>> ELSE Round(g[m - 1])]
<1>1. h \in [Lists -> Lists]
    <2> SUFFICES ASSUME NEW q \in Lists
                 PROVE  Round(q) \in Lists
        OBVIOUS
    <2>1. q[Len(q)] \in Ends
        OBVIOUS
    <2>2. CASE q[Len(q)] = NIL
        BY <2>2
    <2>3. CASE q[Len(q)] # NIL
        <3>1. s.link[q[Len(q)]] \in Ends
            BY <2>1, <2>3 DEF Slab
        <3> DEFINE x == s.link[q[Len(q)]]
        <3> HIDE DEF x
        <3>2. Append(q, x) \in Seq(Ends) /\ Append(q, x) # <<>>
            BY <3>1 DEF x
        <3> QED
            BY <2>3, <3>2 DEF x
    <2> QED
        BY <2>2, <2>3
<1>2. <<i>> \in Lists
    OBVIOUS
<1>3. PICK g \in [Nat -> Lists] : g[0] = <<i>> /\ \A n \in Nat : g[n + 1] = h[g[n]]
    <2> DEFINE x == <<i>>
    <2>1. x \in Lists
        BY <1>2
    <2> HIDE DEF h, Lists, x
    <2>2. \E g \in [Nat -> Lists] : Repeats(g, h, x)
        BY <1>1, <2>1, Recursion
    <2> QED
        BY <2>2 DEF x, Repeats
<1>4. IsWalk(g)
    <2>1. ASSUME NEW n \in Nat
          PROVE  g[n] = IF n = 0 THEN <<i>> ELSE Round(g[n - 1])
        <3>1. n # 0 => n - 1 \in Nat /\ (n - 1) + 1 = n
            OBVIOUS
        <3>2. n # 0 => g[n] = h[g[n - 1]] /\ g[n - 1] \in Lists
            BY <1>3, <3>1
        <3> HIDE DEF Lists, Round
        <3> QED
            BY <1>3, <3>2
    <2> HIDE DEF Round
    <2> QED
        BY <1>3, <2>1
<1>5. IsWalk(Walk(s, i))
    <2>1. Walk(s, i) = CHOOSE f : IsWalk(f)
        BY DEF Walk
    <2> HIDE DEF IsWalk
    <2> QED
        BY <1>4, <2>1
<1>6. \A n : Chain(s, i, n) = Walk(s, i)[n]
    BY DEF Chain, Walk
<1> DEFINE w == Walk(s, i)
<1>7. \A n \in Nat : w[n] = IF n = 0 THEN <<i>> ELSE Round(w[n - 1])
    <2> HIDE DEF Round, w
    <2> QED
        BY <1>5 DEF w
<1>8. w[0] = <<i>>
    BY <1>7
<1>9. ASSUME NEW n \in Nat
      PROVE  w[n + 1] = Round(w[n])
    <2> HIDE DEF Round, w
    <2>1. n + 1 \in Nat /\ n + 1 # 0 /\ (n + 1) - 1 = n
        OBVIOUS
    <2> QED
        BY <1>7, <2>1
<1> QED
    BY <1>6, <1>8, <1>9

\* Following the links of an ordered slab from the head meets the order, and then the end.
LEMMA ChainIsTheOrder ==
    ASSUME NEW c \in Class, NEW s \in Slab(c), NEW q \in Seq(Slot(c)), FreeOrder(c, s, q),
           NEW n \in Nat, Len(q) <= n
    PROVE  Chain(s, s.free_head, n) = Append(q, NIL)
<1> DEFINE Ends == Slot(c) \cup {NIL}
           L == Len(q)
           full == Append(q, NIL)
           walk == Walk(s, s.free_head)
           upto(m) == IF m <= L THEN m + 1 ELSE L + 1
           cut(m) == [j \in 1 .. upto(m) |-> full[j]]
<1>1. /\ L \in Nat /\ full \in Seq(Ends) /\ Len(full) = L + 1
      /\ full[L + 1] = NIL
      /\ \A j \in 1 .. L : full[j] = q[j] /\ q[j] \in Slot(c)
    OBVIOUS
<1>2. NIL \notin Slot(c)
    BY SlotCountAssumption, NILAssumption DEF Slot
<1>3. full[1] = s.free_head
    <2>1. s.free_head = IF q = <<>> THEN NIL ELSE q[1]
        BY DEF FreeOrder
    <2>2. CASE q = <<>>
        BY <1>1, <2>1, <2>2
    <2>3. CASE q # <<>>
        <3>1. 1 \in 1 .. L
            BY <2>3
        <3> QED
            BY <1>1, <2>1, <2>3, <3>1
    <2> QED
        BY <2>2, <2>3
<1>4. \A j \in 1 .. L : full[j] # NIL /\ s.link[full[j]] = full[j + 1]
    <2> SUFFICES ASSUME NEW j \in 1 .. L
                 PROVE  full[j] # NIL /\ s.link[full[j]] = full[j + 1]
        OBVIOUS
    <2>1. full[j] = q[j] /\ full[j] # NIL
        BY <1>1, <1>2
    <2>2. s.link[q[j]] = IF j = L THEN NIL ELSE q[j + 1]
        BY DEF FreeOrder
    <2>3. j # L => j + 1 \in 1 .. L
        BY <1>1
    <2> HIDE DEF full, L
    <2> QED
        BY <1>1, <2>1, <2>2, <2>3
<1>5. s.free_head \in Ends
    BY DEF Slab
<1>6. /\ \A m : Chain(s, s.free_head, m) = walk[m]
      /\ walk[0] = <<s.free_head>>
      /\ \A m \in Nat : walk[m + 1] =
            LET before == walk[m]
                last == before[Len(before)]
            IN  IF last = NIL THEN before ELSE Append(before, s.link[last])
    <2> HIDE DEF walk
    <2> QED
        BY <1>5, WalkRounds DEF walk
<1> HIDE DEF full, walk, L
<1>7. \A m \in Nat : upto(m) \in 1 .. L + 1
    BY <1>1
<1>8. \A m \in Nat : cut(m) \in Seq(Ends) /\ Len(cut(m)) = upto(m)
    <2> SUFFICES ASSUME NEW m \in Nat
                 PROVE  cut(m) \in Seq(Ends) /\ Len(cut(m)) = upto(m)
        OBVIOUS
    <2>1. \A j \in 1 .. upto(m) : full[j] \in Ends
        BY <1>1, <1>7
    <2>2. upto(m) \in Nat
        BY <1>1, <1>7
    <2> HIDE DEF upto
    <2> QED
        BY <2>1, <2>2
<1>9. \A m \in Nat : \A j \in 1 .. upto(m) : cut(m)[j] = full[j]
    OBVIOUS
<1>10. \A m \in Nat : /\ m < L => upto(m) = m + 1 /\ upto(m + 1) = m + 2
                      /\ L <= m => upto(m) = L + 1 /\ cut(m) = full
    <2> SUFFICES ASSUME NEW m \in Nat, L <= m
                 PROVE  upto(m) = L + 1 /\ cut(m) = full
        BY <1>1
    <2>1. upto(m) = L + 1
        BY <1>1
    <2>2. full = [j \in 1 .. L + 1 |-> full[j]]
        BY <1>1
    <2> QED
        BY <2>1, <2>2
<1> DEFINE E == {m \in Nat : walk[m] = cut(m)}
<1>11. 0 \in E
    <2>1. upto(0) = 1
        BY <1>1
    <2>2. cut(0) = <<full[1]>>
        BY <2>1
    <2> QED
        BY <1>3, <1>6, <2>2
<1> HIDE DEF cut, upto
<1>12. ASSUME NEW m \in Nat, m \in E
       PROVE  m + 1 \in E
    <2> DEFINE a == cut(m)
               b == cut(m + 1)
               u == upto(m)
    <2>1. walk[m] = a /\ Len(a) = u /\ u \in 1 .. L + 1 /\ a[u] = full[u] /\ a \in Seq(Ends)
        <3>1. walk[m] = a
            BY <1>12
        <3>2. u \in 1 .. L + 1 /\ Len(a) = u /\ a \in Seq(Ends)
            BY <1>7, <1>8
        <3>3. u \in 1 .. u
            BY <1>1, <3>2
        <3> HIDE DEF E
        <3>4. a[u] = full[u]
            BY <1>9, <3>3
        <3> QED
            BY <3>1, <3>2, <3>4
    <2>2. b \in Seq(Ends) /\ m + 1 \in Nat
        BY <1>8
    <2> SUFFICES walk[m + 1] = b
        BY <2>2
    <2>3. walk[m + 1] = IF full[u] = NIL THEN a ELSE Append(a, s.link[full[u]])
        BY <1>6, <2>1
    <2>4. CASE m < L
        <3> DEFINE x == full[m + 2]
        <3>1. u = m + 1 /\ m + 1 \in 1 .. L /\ upto(m + 1) = m + 2
            BY <1>1, <1>10, <2>4
        <3>2. full[m + 1] # NIL /\ s.link[full[m + 1]] = full[(m + 1) + 1] /\ (m + 1) + 1 = m + 2
            BY <1>4, <3>1
        <3>3. x \in Ends
            BY <1>1, <3>1
        <3>4. \A j \in 1 .. m + 1 : a[j] = full[j]
            BY <1>9, <3>1
        <3>5. (\A j \in 1 .. m + 2 : b[j] = full[j]) /\ Len(b) = m + 2
            BY <1>8, <1>9, <2>2, <3>1
        <3>6. walk[m + 1] = Append(a, x)
            BY <2>3, <3>1, <3>2
        <3> HIDE DEF a, b, x, u
        <3>7. Append(a, x) \in Seq(Ends) /\ Len(Append(a, x)) = m + 2
            BY <2>1, <3>1, <3>3
        <3>8. \A j \in 1 .. m + 2 : Append(a, x)[j] = b[j]
            BY <2>1, <3>1, <3>3, <3>4, <3>5 DEF x
        <3>9. Append(a, x) = b
            BY <2>2, <3>5, <3>7, <3>8
        <3> QED
            BY <3>6, <3>9
    <2>5. CASE ~(m < L)
        <3>1. u = L + 1 /\ a = full /\ b = full
            BY <1>1, <1>10, <2>5
        <3> QED
            BY <1>1, <2>3, <3>1
    <2> QED
        BY <2>4, <2>5
<1>13. Nat \subseteq E
    <2> HIDE DEF E
    <2> QED
        BY <1>11, <1>12, Induction
<1>14. cut(n) = full
    BY <1>10 DEF L
<1> QED
    BY <1>6, <1>13, <1>14 DEF full

\* An order has as many slots as there are FREE ones.
LEMMA OrderCounts ==
    ASSUME NEW c \in Class, NEW s \in Slab(c), NEW q \in Seq(Slot(c)), FreeOrder(c, s, q)
    PROVE  /\ Cardinality(FreeSlots(c, s)) = Len(q)
           /\ Len(q) <= SlotCount[c]
<1>1. Len(q) \in Nat /\ DOMAIN q = 1 .. Len(q) /\ SlotCount[c] \in Nat
    BY SlotCountAssumption
<1>2. /\ IsFiniteSet(1 .. Len(q)) /\ Cardinality(1 .. Len(q)) = Len(q)
      /\ IsFiniteSet(Slot(c)) /\ Cardinality(Slot(c)) = SlotCount[c]
    <2>1. ASSUME NEW m \in Nat
          PROVE  IsFiniteSet(1 .. m) /\ Cardinality(1 .. m) = m
        <3>1. Cardinality(1 .. m) = IF 1 > m THEN 0 ELSE m - 1 + 1
            BY FS_Interval
        <3>2. IsFiniteSet(1 .. m)
            BY FS_Interval
        <3> QED
            BY <3>1, <3>2
    <2> DEFINE n == SlotCount[c]
    <2>2. n \in Nat \ {0} /\ n - 1 \in Int
        BY SlotCountAssumption
    <2> HIDE DEF n
    <2>3. /\ IsFiniteSet(0 .. n - 1)
          /\ Cardinality(0 .. n - 1) = IF 0 > n - 1 THEN 0 ELSE (n - 1) - 0 + 1
        BY <2>2, FS_Interval
    <2> QED
        BY <1>1, <2>1, <2>2, <2>3 DEF Slot, n
<1> DEFINE F == FreeSlots(c, s)
<1>3. q \in [1 .. Len(q) -> F]
    <2>1. \A j \in 1 .. Len(q) : q[j] \in F
        BY DEF FreeOrder
    <2>2. q = [j \in 1 .. Len(q) |-> q[j]]
        BY <1>1
    <2> HIDE DEF F
    <2> QED
        BY <2>1, <2>2
<1>4. q \in Bijection(1 .. Len(q), F)
    <2>1. \A j, k \in 1 .. Len(q) : q[j] = q[k] => j = k
        BY DEF FreeOrder
    <2>2. \A i \in F : \E j \in 1 .. Len(q) : q[j] = i
        BY DEF FreeOrder
    <2> QED
        BY <1>3, <2>1, <2>2 DEF Bijection, Injection, Surjection, IsInjective
<1>5. Cardinality(F) = Len(q)
    BY <1>2, <1>4, FS_Bijection DEF ExistsBijection
<1>6. Cardinality(F) <= SlotCount[c]
    <2>1. F \in SUBSET Slot(c)
        BY DEF FreeSlots
    <2> HIDE DEF F
    <2> QED
        BY <1>2, <2>1, FS_Subset
<1> QED
    BY <1>5, <1>6

OrderInv == Inv /\ AllOrdered

LEMMA OrderIsKept == Spec => []OrderInv
<1>1. Init => OrderInv
    BY InitInv DEF Init, OrderInv, AllOrdered
<1>2. OrderInv /\ [Next]_vars => OrderInv'
    BY NextInv, NextAllOrdered DEF OrderInv
<1> QED
    BY <1>1, <1>2, PTL DEF Spec

\* A slab neither loses a slot nor lists one twice, however its slots were given and given back:
\* the walk along the links from free_head meets every FREE slot once, and ends.
THEOREM FreeListCorrect == Spec => []FreeListIsExactlyTheFreeSlots
<1>1. OrderInv => FreeListIsExactlyTheFreeSlots
    <2> SUFFICES ASSUME OrderInv, NEW c \in Class, NEW k \in 1 .. Len(slabs[c]),
                        ~slabs[c][k].remapped
                 PROVE  LET s == slabs[c][k]
                            list == Chain(s, s.free_head, SlotCount[c])
                        IN  /\ Len(list) = Cardinality(FreeSlots(c, s)) + 1
                            /\ {list[j] : j \in 1 .. Len(list)} = FreeSlots(c, s) \cup {NIL}
        BY DEF FreeListIsExactlyTheFreeSlots, FreeSlots
    <2> DEFINE s == slabs[c][k]
               list == Chain(s, s.free_head, SlotCount[c])
    <2>1. s \in Slab(c)
        BY DEF OrderInv, Inv, SlabsGood
    <2>2. PICK q \in Seq(Slot(c)) : FreeOrder(c, s, q)
        BY DEF OrderInv, AllOrdered, Ordered
    <2> HIDE DEF s
    <2>3. SlotCount[c] \in Nat
        BY SlotCountAssumption
    <2>4. Cardinality(FreeSlots(c, s)) = Len(q) /\ Len(q) <= SlotCount[c]
        BY <2>1, <2>2, OrderCounts
    <2>5. list = Append(q, NIL)
        BY <2>1, <2>2, <2>3, <2>4, ChainIsTheOrder
    <2> HIDE DEF list
    <2>6. /\ Len(list) = Len(q) + 1 /\ list[Len(q) + 1] = NIL /\ Len(q) \in Nat
          /\ \A j \in 1 .. Len(q) : list[j] = q[j]
        BY <2>5
    <2>7. /\ \A j \in 1 .. Len(q) : q[j] \in FreeSlots(c, s)
          /\ \A i \in FreeSlots(c, s) : \E j \in 1 .. Len(q) : q[j] = i
        BY <2>2 DEF FreeOrder
    <2>8. \A j \in 1 .. Len(list) : j \in 1 .. Len(q) \/ j = Len(q) + 1
        BY <2>6
    <2>9. \A j \in 1 .. Len(list) : list[j] \in FreeSlots(c, s) \cup {NIL}
        BY <2>6, <2>7, <2>8
    <2>10. \A i \in FreeSlots(c, s) \cup {NIL} : \E j \in 1 .. Len(list) : list[j] = i
        <3>1. Len(q) + 1 \in 1 .. Len(list) /\ \A j \in 1 .. Len(q) : j \in 1 .. Len(list)
            BY <2>6
        <3> QED
            BY <2>6, <2>7, <3>1
    <2>11. {list[j] : j \in 1 .. Len(list)} = FreeSlots(c, s) \cup {NIL}
        BY <2>9, <2>10
    <2> QED
        BY <2>4, <2>6, <2>11 DEF list, s
<1> QED
    BY <1>1, OrderIsKept, PTL

-----------------------------------------------------------------------------
(* The census.                                                             *)

AliveCounted ==
    IsFiniteSet(AliveAddress) /\ Cardinality(AliveAddress) = allocated - tombstoned

LEMMA AllocCounted ==
    ASSUME Inv, AliveCounted, NEW a, AllocAt(a),
           allocated' = allocated + 1, tombstoned' = tombstoned
    PROVE  AliveCounted'
<1>1. \A b : b \in AliveAddress' <=> b \in AliveAddress \/ b = a
    BY DEF AllocAt, AliveAddress
<1>2. a \notin AliveAddress /\ AliveAddress' = AliveAddress \cup {a}
    BY <1>1 DEF AllocAt, AliveAddress
<1> DEFINE A == AliveAddress
<1> HIDE DEF A
<1>3. IsFiniteSet(A) => /\ IsFiniteSet(A \cup {a})
                        /\ a \notin A => Cardinality(A \cup {a}) = Cardinality(A) + 1
    BY FS_AddElement
<1> QED
    BY <1>2, <1>3 DEF A, AliveCounted, Inv, TotalsGood

LEMMA FreeCounted ==
    ASSUME Inv, AliveCounted, NEW a, FreeAt(a),
           allocated' = allocated, tombstoned' = tombstoned + 1
    PROVE  AliveCounted'
<1>1. \A b : b \in AliveAddress' <=> b \in AliveAddress /\ b # a
    BY DEF FreeAt, AliveAddress
<1>2. a \in AliveAddress /\ AliveAddress' = AliveAddress \ {a}
    BY <1>1 DEF FreeAt, AliveAddress
<1> DEFINE A == AliveAddress
<1> HIDE DEF A
<1>3. IsFiniteSet(A) => /\ IsFiniteSet(A \ {a})
                        /\ a \in A => Cardinality(A \ {a}) = Cardinality(A) - 1
    BY FS_RemoveElement
<1> QED
    BY <1>2, <1>3 DEF A, AliveCounted, Inv, TotalsGood

LEMMA SameCounted ==
    ASSUME Inv, AliveCounted, SameObjects, UNCHANGED <<allocated, tombstoned>>
    PROVE  AliveCounted'
<1>1. AliveAddress' = AliveAddress
    BY DEF SameObjects, AliveAddress
<1> QED
    BY <1>1 DEF AliveCounted

LEMMA NextCounted ==
    ASSUME Inv, AliveCounted, [Next]_vars
    PROVE  AliveCounted'
<1>1. SlabsGood /\ LargeGood /\ drawn \in Nat
    BY BoundsAssumption DEF Inv, HeapGood
<1>2. ASSUME NEW c \in Class, AllocFromSlab(c) \/ AllocFromNewSlab(c)
      PROVE  AliveCounted'
    <2>1. allocated' = allocated + 1 /\ tombstoned' = tombstoned
        BY <1>2 DEF AllocFromSlab, AllocFromNewSlab
    <2>2. \E a : AllocAt(a)
        BY <1>1, <1>2, AllocFromSlabAddress, AllocFromNewSlabAddress
    <2> QED
        BY <2>1, <2>2, AllocCounted
<1>3. CASE AllocLarge
    BY <1>1, <1>3, AllocLargeAddress, AllocCounted DEF AllocLarge
<1>4. ASSUME NEW c \in Class, FreeInSlab(c)
      PROVE  AliveCounted'
    BY <1>1, <1>4, FreeInSlabAddress, FreeCounted DEF FreeInSlab
<1>5. CASE FreeLarge
    BY <1>1, <1>5, FreeLargeAddress, FreeCounted DEF FreeLarge
<1>6. CASE ReclaimTombstoned
    BY <1>1, <1>6, ReclaimAddress, SameCounted DEF ReclaimTombstoned
<1>7. CASE WeakCreate \/ WeakCheck \/ UNCHANGED vars
    <2>1. UNCHANGED <<slabs, large, allocated, tombstoned>>
        BY <1>7 DEF WeakCreate, WeakCheck, vars
    <2>2. Mapped' = Mapped /\ \A b : AliveAt(b)' <=> AliveAt(b)
        BY <2>1 DEF Mapped, SlabAddress, LargeAddress, AliveAt
    <2>3. AliveAddress' = AliveAddress
        BY <2>2 DEF AliveAddress
    <2> QED
        BY <2>1, <2>3 DEF AliveCounted
<1> QED
    BY <1>2, <1>3, <1>4, <1>5, <1>6, <1>7 DEF Next

CensusInv == Inv /\ AliveCounted

LEMMA CountIsKept == Spec => []CensusInv
<1>1. ASSUME Init
      PROVE  CensusInv
    <2>1. AliveAddress = {}
        BY <1>1, MappedCases DEF Init, IsSlabAddress, IsLargeAddress, AliveAddress
    <2> QED
        BY <1>1, <2>1, InitInv, FS_EmptySet DEF Init, CensusInv, AliveCounted
<1>2. CensusInv /\ [Next]_vars => CensusInv'
    BY NextInv, NextCounted DEF CensusInv
<1> QED
    BY <1>1, <1>2, PTL DEF Spec

\* The leak gate is told the truth: the walk over the slabs that still have memory and the large
\* blocks that are not tombstoned finds what was allocated and not freed, in every heap.
THEOREM CensusCorrect == Spec => []CensusBalances
<1>1. CensusInv => Census = allocated - tombstoned
    <2> SUFFICES ASSUME CensusInv
                 PROVE  Census = allocated - tombstoned
        OBVIOUS
    <2> DEFINE inSlabs == {a \in SlabAddress : ~slabs[a[1]][a[2]].remapped /\ AliveAt(a)}
               inLarge == {a \in LargeAddress : AliveAt(a)}
    <2>1. \A a \in SlabAddress : AliveAt(a) => ~slabs[a[1]][a[2]].remapped
        <3> SUFFICES ASSUME NEW a \in SlabAddress, AliveAt(a)
                     PROVE  ~slabs[a[1]][a[2]].remapped
            OBVIOUS
        <3>1. PICK c \in Class : a \in {c} \X (1 .. Len(slabs[c])) \X Slot(c)
            BY DEF SlabAddress
        <3>2. PICK k \in 1 .. Len(slabs[c]), i \in Slot(c) : a = <<c, k, i>>
            BY <3>1
        <3>3. slabs[c][k].state[i] = "ALIVE"
            BY <3>2, ReadSlab
        <3>4. GoodSlab(c, slabs[c][k])
            BY DEF CensusInv, Inv, SlabsGood
        <3> QED
            BY <3>2, <3>3, <3>4 DEF GoodSlab, AliveSlots
    <2>2. AliveAddress = inSlabs \cup inLarge
        BY <2>1 DEF AliveAddress, Mapped
    <2>3. inSlabs \cap inLarge = {}
        BY LARGEAssumption DEF SlabAddress, LargeAddress
    <2>4. Census = Cardinality(inSlabs) + Cardinality(inLarge)
        BY DEF Census
    <2> HIDE DEF inSlabs, inLarge
    <2>5. IsFiniteSet(inSlabs) /\ IsFiniteSet(inLarge)
        <3>1. inSlabs \in SUBSET AliveAddress /\ inLarge \in SUBSET AliveAddress
            BY <2>2
        <3>2. IsFiniteSet(AliveAddress)
            BY DEF CensusInv, AliveCounted
        <3> QED
            BY <3>1, <3>2, FS_Subset
    <2>6. Cardinality(AliveAddress) = Cardinality(inSlabs) + Cardinality(inLarge)
        <3>1. Cardinality(inSlabs \cup inLarge) =
                 Cardinality(inSlabs) + Cardinality(inLarge) - Cardinality(inSlabs \cap inLarge)
            BY <2>5, FS_Union
        <3>2. Cardinality(inSlabs) \in Nat /\ Cardinality(inLarge) \in Nat
            BY <2>5, FS_CardinalityType
        <3>3. Cardinality(inSlabs \cap inLarge) = 0
            BY <2>3, FS_EmptySet
        <3> QED
            BY <2>2, <3>1, <3>2, <3>3
    <2> QED
        BY <2>4, <2>6 DEF CensusInv, AliveCounted
<1>2. Inv => TypeOK
    BY DEF Inv, SlabsGood, LargeGood, HeapGood, WeakGood, TotalsGood, TypeOK
<1>3. CensusInv => CensusBalances
    BY <1>1, <1>2 DEF CensusBalances, CensusInv
<1> QED
    BY <1>3, CountIsKept, PTL

=============================================================================
