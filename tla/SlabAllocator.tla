--------------------------- MODULE SlabAllocator ---------------------------
(***************************************************************************)
(* The allocator behind every heap object of a Roxy program                *)
(* (src/roxy/rt/slab_allocator.cpp), with the four header operations of    *)
(* the weak-reference scheme that live above it (src/roxy/rt/roxy_rt.cpp,  *)
(* src/roxy/vm/object.cpp).                                                *)
(*                                                                         *)
(* A slab is an array of equal slots.  Its free list is intrusive: the     *)
(* next index of a free slot is a word of the slot itself, `link`, behind  *)
(* the word `gen` that holds the weak generation of the object living      *)
(* there.  Weak references keep reading `gen` after the object is gone, so *)
(* it has to read zero while the slot is free and something else than what *)
(* they remember once the slot is used again.                              *)
(*                                                                         *)
(* Memory is a slot at a time, and an address is a slot: the ranges of     *)
(* bytes that resolve_header searches are left out.  The random 64-bit     *)
(* generations are numbers not drawn before: a collision (2^-64 per reuse) *)
(* is left out.                                                            *)
(***************************************************************************)
EXTENDS Integers, Sequences, FiniteSets

CONSTANTS
    Class,          \* the size classes of SIZE_CLASS_SLOTS
    SlotCount,      \* SlotCount[c]: slots in a slab of class c
    LARGE,          \* stands for a class in the address of a large object
    NIL,            \* 0xFFFFFFFF, the end of a free list
    None,           \* no weak reference has been asked yet
    MaxSlabs,       \* bound: slabs the address space has room for
    MaxLarge,       \* bound: large objects it has room for
    MaxGen          \* bound: generations drawn in a run

ASSUME SlotCountAssumption == SlotCount \in [Class -> Nat \ {0}]
ASSUME LARGEAssumption == LARGE \notin Class
ASSUME NILAssumption == NIL \notin Nat
ASSUME BoundsAssumption ==
    MaxSlabs \in Nat /\ MaxLarge \in Nat /\ MaxGen \in Nat

VARIABLES
    slabs,          \* slabs[c]: the slabs of class c, oldest first
    large,          \* the large objects, oldest first
    drawn,          \* how many generations the generator has given
    allocated,      \* total_allocated
    tombstoned,     \* total_tombstoned
    weak,           \* the weak references the program holds
    answer          \* the last weak check and its result

vars == <<slabs, large, drawn, allocated, tombstoned, weak, answer>>

Slot(c) == 0 .. SlotCount[c] - 1

Slab(c) ==
    [free_head : Slot(c) \cup {NIL},
     live_count : Int,
     remapped : BOOLEAN,
     state : [Slot(c) -> {"FREE", "ALIVE"}],
     gen : [Slot(c) -> Nat],
     link : [Slot(c) -> Slot(c) \cup {NIL}]]

LargeObject == [gen : Nat, tombstoned : BOOLEAN]

\* Where a header is: <<class, slab, slot>>, or the base of a large object.
Address == (Class \X (Nat \ {0}) \X Nat) \cup ({LARGE} \X (Nat \ {0}) \X {0})
WeakRef == [at : Address, gen : Nat]

-----------------------------------------------------------------------------
(* Reading a header through its address.  Memory once mapped stays mapped, *)
(* so an address keeps its meaning when its object is dead.                *)

SlabAddress == UNION {{c} \X (1 .. Len(slabs[c])) \X Slot(c) : c \in Class}
LargeAddress == {LARGE} \X (1 .. Len(large)) \X {0}
Mapped == SlabAddress \cup LargeAddress

GenAt(a) ==
    IF a[1] = LARGE THEN large[a[2]].gen ELSE slabs[a[1]][a[2]].gen[a[3]]

AliveAt(a) ==
    IF a[1] = LARGE THEN ~large[a[2]].tombstoned
                    ELSE slabs[a[1]][a[2]].state[a[3]] = "ALIVE"

AliveAddress == {a \in Mapped : AliveAt(a)}

\* Defect: any occupant of the slot passes for the object referred to.
WeakValidOfAnyOccupant(w) == GenAt(w.at) # 0

\* weak_ref_valid / roxy_weak_valid
WeakValid(w) == w.gen # 0 /\ GenAt(w.at) = w.gen

\* live_object_stats: the walk over the slabs and the large objects that the
\* leak census of vm_destroy and `roxy` --heap-stats report.
Census ==
    LET inSlabs == {a \in SlabAddress :
                        ~slabs[a[1]][a[2]].remapped /\ AliveAt(a)}
        inLarge == {a \in LargeAddress : AliveAt(a)}
    IN  Cardinality(inSlabs) + Cardinality(inLarge)

-----------------------------------------------------------------------------
(* The steps of one slab, as functions of the slab.                        *)

\* The tail of find_or_create_slab: slots chained in index order, zeroed.
NewSlab(c) ==
    [free_head |-> 0,
     live_count |-> 0,
     remapped |-> FALSE,
     state |-> [i \in Slot(c) |-> "FREE"],
     gen |-> [i \in Slot(c) |-> 0],
     link |-> [i \in Slot(c) |-> IF i + 1 \in Slot(c) THEN i + 1 ELSE NIL]]

\* alloc_from_slab, then the generation stamped into the header by the
\* caller (roxy_alloc, object_alloc).  The slot's link word is wiped: zero.
SlabAlloc(s, g) ==
    [s EXCEPT !.free_head = s.link[s.free_head],
              !.state = [s.state EXCEPT ![s.free_head] = "ALIVE"],
              !.gen = [s.gen EXCEPT ![s.free_head] = g],
              !.link = [s.link EXCEPT ![s.free_head] = 0],
              !.live_count = s.live_count + 1]

\* Defects of the free: the rest of the list is dropped; the link lies over
\* the generation.
SlabFreeDroppingList(s, i) ==
    [s EXCEPT !.free_head = i,
              !.state = [s.state EXCEPT ![i] = "FREE"],
              !.gen = [s.gen EXCEPT ![i] = 0],
              !.link = [s.link EXCEPT ![i] = NIL],
              !.live_count = s.live_count - 1]

SlabFreeLinkOverWord(s, i) ==
    [s EXCEPT !.free_head = i,
              !.state = [s.state EXCEPT ![i] = "FREE"],
              !.gen = [s.gen EXCEPT ![i] = IF s.free_head = NIL THEN 0 ELSE s.free_head],
              !.link = [s.link EXCEPT ![i] = s.free_head],
              !.live_count = s.live_count - 1]

\* free_in_slab
SlabFree(s, i) ==
    [s EXCEPT !.free_head = i,
              !.state = [s.state EXCEPT ![i] = "FREE"],
              !.gen = [s.gen EXCEPT ![i] = 0],
              !.link = [s.link EXCEPT ![i] = s.free_head],
              !.live_count = s.live_count - 1]

\* Defect: the slab keeps its place in the rotation.
SlabReclaimInRotation(c, s) ==
    [s EXCEPT !.remapped = TRUE,
              !.gen = [i \in Slot(c) |-> 0],
              !.link = [i \in Slot(c) |-> 0]]

\* reclaim_tombstoned on a drained slab: its pages become shared zeros.
SlabReclaim(c, s) ==
    [s EXCEPT !.remapped = TRUE,
              !.free_head = NIL,
              !.state = [i \in Slot(c) |-> "FREE"],
              !.gen = [i \in Slot(c) |-> 0],
              !.link = [i \in Slot(c) |-> 0]]

IsDrained(s) == s.live_count = 0

Reclaimable(s) == ~s.remapped /\ IsDrained(s)

-----------------------------------------------------------------------------

Init ==
    /\ slabs = [c \in Class |-> <<>>]
    /\ large = <<>>
    /\ drawn = 0
    /\ allocated = 0
    /\ tombstoned = 0
    /\ weak = {}
    /\ answer = None

\* Defect: a draw of zero is stamped as it is.
GenerationWithoutRedraw(g) ==
    /\ drawn < MaxGen
    /\ drawn' = drawn + 1
    /\ \E first \in {0, drawn + 1} : g = first

\* The generation an allocation stamps: a draw, drawn again when it is zero.
Generation(g) ==
    /\ drawn < MaxGen
    /\ drawn' = drawn + 1
    /\ \E first \in {0, drawn + 1} :
          g = IF first = 0 THEN drawn + 1 ELSE first

\* find_or_create_slab's search: the oldest slab with a free slot.
FirstWithRoom(c, k) ==
    /\ k \in 1 .. Len(slabs[c])
    /\ slabs[c][k].free_head # NIL
    /\ \A j \in 1 .. k - 1 : slabs[c][j].free_head = NIL

NoRoom(c) == \A k \in 1 .. Len(slabs[c]) : slabs[c][k].free_head = NIL

SlabsMapped == UNION {{c} \X (1 .. Len(slabs[c])) : c \in Class}

\* alloc of a size of class c, served by a slab that exists.
AllocFromSlab(c) ==
    \E k \in 1 .. Len(slabs[c]), g \in 0 .. MaxGen :
        /\ FirstWithRoom(c, k)
        /\ Generation(g)
        /\ slabs' = [slabs EXCEPT ![c][k] = SlabAlloc(slabs[c][k], g)]
        /\ allocated' = allocated + 1
        /\ UNCHANGED <<large, tombstoned, weak, answer>>

\* alloc of a size of class c when every slab is full: reserve and commit a
\* slab and serve the object from it.  A failed reservation changes nothing.
AllocFromNewSlab(c) ==
    \E g \in 0 .. MaxGen :
        /\ NoRoom(c)
        /\ Cardinality(SlabsMapped) < MaxSlabs
        /\ Generation(g)
        /\ slabs' = [slabs EXCEPT ![c] = Append(slabs[c], SlabAlloc(NewSlab(c), g))]
        /\ allocated' = allocated + 1
        /\ UNCHANGED <<large, tombstoned, weak, answer>>

\* alloc of a size above every class.
AllocLarge ==
    \E g \in 0 .. MaxGen :
        /\ Len(large) < MaxLarge
        /\ Generation(g)
        /\ large' = Append(large, [gen |-> g, tombstoned |-> FALSE])
        /\ allocated' = allocated + 1
        /\ UNCHANGED <<slabs, tombstoned, weak, answer>>

\* free of a slab object.  The code asserts the slot is ALIVE: a second free
\* of the same object is a defect of the caller.
FreeInSlab(c) ==
    \E k \in 1 .. Len(slabs[c]), i \in Slot(c) :
        /\ slabs[c][k].state[i] = "ALIVE"
        /\ slabs' = [slabs EXCEPT ![c][k] = SlabFree(slabs[c][k], i)]
        /\ tombstoned' = tombstoned + 1
        /\ UNCHANGED <<large, drawn, allocated, weak, answer>>

\* Defect: the block is zeroed but not marked.
FreeLargeUnmarked ==
    \E k \in 1 .. Len(large) :
        /\ ~large[k].tombstoned
        /\ tombstoned < MaxGen
        /\ large' = [large EXCEPT ![k] = [gen |-> 0, tombstoned |-> FALSE]]
        /\ tombstoned' = tombstoned + 1
        /\ UNCHANGED <<slabs, drawn, allocated, weak, answer>>

\* free of a large object: idempotent, the address stays mapped and tracked.
FreeLarge ==
    \E k \in 1 .. Len(large) :
        /\ ~large[k].tombstoned
        /\ large' = [large EXCEPT ![k] = [gen |-> 0, tombstoned |-> TRUE]]
        /\ tombstoned' = tombstoned + 1
        /\ UNCHANGED <<slabs, drawn, allocated, weak, answer>>

\* reclaim_tombstoned: every drained slab of every class.
ReclaimTombstoned ==
    /\ \E c \in Class : \E k \in 1 .. Len(slabs[c]) : Reclaimable(slabs[c][k])
    /\ slabs' = [c \in Class |->
                    [k \in 1 .. Len(slabs[c]) |->
                        IF Reclaimable(slabs[c][k])
                        THEN SlabReclaim(c, slabs[c][k])
                        ELSE slabs[c][k]]]
    /\ UNCHANGED <<large, drawn, allocated, tombstoned, weak, answer>>

\* weak_ref_create / roxy_weak_create on a live object.
WeakCreate ==
    \E a \in AliveAddress :
        /\ weak' = weak \cup {[at |-> a, gen |-> GenAt(a)]}
        /\ UNCHANGED <<slabs, large, drawn, allocated, tombstoned, answer>>

\* weak_ref_valid / roxy_weak_valid, whenever the program asks.
WeakCheck ==
    \E w \in weak :
        /\ answer' = [of |-> w.gen, alive |-> WeakValid(w)]
        /\ UNCHANGED <<slabs, large, drawn, allocated, tombstoned, weak>>

Next ==
    \/ \E c \in Class : AllocFromSlab(c) \/ AllocFromNewSlab(c) \/ FreeInSlab(c)
    \/ AllocLarge
    \/ FreeLarge
    \/ ReclaimTombstoned
    \/ WeakCreate
    \/ WeakCheck

Spec == Init /\ [][Next]_vars

-----------------------------------------------------------------------------

\* Every variable has its shape.
TypeOK ==
    /\ slabs = [c \in Class |-> slabs[c]]
    /\ \A c \in Class : slabs[c] \in Seq(Slab(c))
    /\ large \in Seq(LargeObject)
    /\ drawn \in 0 .. MaxGen /\ allocated \in Nat /\ tombstoned \in Nat
    /\ weak \subseteq WeakRef
    /\ answer \in {None} \cup [of : Nat, alive : BOOLEAN]

-----------------------------------------------------------------------------
(* One slab.                                                               *)

\* The slots met from i on along the links, at most n of them.
Chain(s, i, n) ==
    LET walk[m \in Nat] ==
            IF m = 0 THEN <<i>>
            ELSE LET before == walk[m - 1]
                     last == before[Len(before)]
                 IN  IF last = NIL THEN before ELSE Append(before, s.link[last])
    IN  walk[n]

\* Walking the free list from free_head meets every FREE slot once, no ALIVE
\* slot, and ends: recycling neither loses a slot nor hands one out twice.
FreeListIsExactlyTheFreeSlots ==
    \A c \in Class : \A k \in 1 .. Len(slabs[c]) :
        LET s == slabs[c][k]
            free == {i \in Slot(c) : s.state[i] = "FREE"}
            list == Chain(s, s.free_head, SlotCount[c])
        IN  ~s.remapped =>
                /\ Len(list) = Cardinality(free) + 1
                /\ {list[j] : j \in 1 .. Len(list)} = free \cup {NIL}

\* The part of it that needs no walk: the head and every link of a FREE slot
\* lead to a FREE slot or end the list, and no slot has two predecessors.
\* alloc_from_slab's assert (the popped slot is FREE) is its first conjunct.
SlabLinks(c, s) ==
    LET free == {i \in Slot(c) : s.state[i] = "FREE"}
    IN  /\ s.free_head # NIL => s.free_head \in free
        /\ ~s.remapped =>
             /\ \A i \in free : s.link[i] # NIL => s.link[i] \in free
             /\ \A i, j \in free : s.link[i] = s.link[j] /\ s.link[i] # NIL => i = j
             /\ \A i \in free : s.link[i] = s.free_head => s.free_head = NIL

FreeLinksStayFree ==
    \A c \in Class : \A k \in 1 .. Len(slabs[c]) : SlabLinks(c, slabs[c][k])

\* live_count, on which reclaim_tombstoned decides that a slab may lose its
\* memory, counts the ALIVE slots.
LiveCountExact ==
    \A c \in Class : \A k \in 1 .. Len(slabs[c]) :
        LET s == slabs[c][k]
        IN  s.live_count = Cardinality({i \in Slot(c) : s.state[i] = "ALIVE"})

\* A slab whose memory went back to the system is out of the rotation: no
\* step takes a slot of it, gives one back or writes a word of it, so the
\* read-only zero pages are never written and never handed out.
RemappedSlabsAreFrozen ==
    [][\A c \in Class : \A k \in 1 .. Len(slabs[c]) :
          slabs[c][k].remapped => slabs'[c][k] = slabs[c][k]]_vars

-----------------------------------------------------------------------------
(* The heap.                                                               *)

\* An object's generation names it: nonzero, and no two live objects share
\* one, whichever slab or large block they are in.
GenerationsIdentifyObjects ==
    /\ \A a \in AliveAddress : GenAt(a) \in 1 .. drawn
    /\ \A a, b \in AliveAddress : GenAt(a) = GenAt(b) => a = b

\* The word a weak reference reads is zero wherever no object lives.
DeadWordsReadZero ==
    /\ \A c \in Class : \A k \in 1 .. Len(slabs[c]) : \A i \in Slot(c) :
          slabs[c][k].state[i] = "FREE" => slabs[c][k].gen[i] = 0
    /\ \A k \in 1 .. Len(large) : large[k].tombstoned => large[k].gen = 0

\* The census the leak gate trusts counts what was allocated and not freed,
\* though it skips remapped slabs and tombstoned large objects; and every
\* variable keeps its shape.
CensusBalances == TypeOK /\ Census = allocated - tombstoned

\* The objects the program could name: the generations of the live ones.
LiveObjects == {GenAt(a) : a \in AliveAddress}

\* A weak reference is valid exactly while its object lives.  Recycling the
\* slot, tombstoning the block or remapping the slab never revives it.
WeakRefsTellTheTruth ==
    \A w \in weak : WeakValid(w) <=> w.gen \in LiveObjects

\* The allocator keeps the promise of WeakHeap.
Heap == INSTANCE WeakHeap
          WITH Object <- 1 .. MaxGen,
               None <- None,
               live <- LiveObjects,
               born <- 1 .. drawn,
               weak <- {w.gen : w \in weak},
               answer <- answer

ImplementsWeakHeap == Heap!Spec

=============================================================================
