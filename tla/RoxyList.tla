------------------------------ MODULE RoxyList ------------------------------
(***************************************************************************)
(* The `List<T>` of the Roxy runtime (src/roxy/rt/roxy_rt.cpp), with the   *)
(* checks the VM puts before it (src/roxy/vm/natives.cpp, vm/list.cpp and  *)
(* the INDEX_..._LIST operations of vm/interpreter.cpp).                   *)
(*                                                                         *)
(* A header that never moves and a buffer that does: a push into a full    *)
(* buffer allocates one of twice the size, copies, and frees the old one,  *)
(* whatever still points into it.  Two things may: an `inout` argument,    *)
(* for which the header is pinned, and the value that is being pushed.     *)
(*                                                                         *)
(* Who owns the elements is the compiler's business: an element is a value *)
(* here.                                                                   *)
(***************************************************************************)
EXTENDS Integers, Sequences

CONSTANTS
    Val,                \* elements
    Junk,               \* what a slot holds that was never written
    None,
    InitialCapacity,    \* 8 in the code
    ByPointer,          \* whether elements are structs, passed by pointer
    PopsEmpty,          \* whether the program pops empty lists
    Reserve,            \* the capacities a program asks `List<T>(n)` for
    MaxCapacity,        \* bound: the largest buffer
    MaxBorrows          \* bound: elements borrowed at once

ASSUME JunkAssumption == Junk \notin Val
ASSUME CapacityAssumption ==
    InitialCapacity \in Nat \ {0} /\ MaxCapacity \in Nat /\ Reserve \subseteq Nat
ASSUME ProgramAssumption == ByPointer \in BOOLEAN /\ PopsEmpty \in BOOLEAN

VARIABLES
    alive,      \* whether the list exists
    length,     \* hdr->length
    elements,   \* hdr->elements, a slot each; its size is hdr->capacity
    capacity,   \* hdr->capacity
    buffer,     \* which of the list's allocations hdr->elements is
    borrows,    \* the element pointers handed out: [pos, of]
    pins,       \* hdr->borrow_count
    trapped,    \* roxy_runtime_error_set was called
    last        \* the last call, with its arguments and its answer

vars == <<alive, length, elements, capacity, buffer, borrows, pins, trapped, last>>
header == <<alive, length, capacity, buffer>>

Slots(n) == 0 .. n - 1
Position == -1 .. MaxCapacity
Fresh(n) == [i \in Slots(n) |-> Junk]

Init ==
    /\ alive = TRUE
    /\ length = 0
    /\ elements = Fresh(0)
    /\ capacity = 0
    /\ buffer = 0
    /\ borrows = <<>>
    /\ pins = 0
    /\ trapped = FALSE
    /\ last = None

\* Defect: the element after the last passes the test.
InBoundsInclusive(i) == i \in 0 .. length /\ i < capacity

\* The test of INDEX_GET_LIST and the others, which compare unsigned.
InBounds(i) == i \in 0 .. length - 1

\* Defect: only the push that has to grow is refused.
MutationBlockedUnlessRoom == pins # 0 /\ length >= capacity

\* list_mutation_blocked
MutationBlocked == pins # 0

Refuse ==
    /\ trapped' = TRUE
    /\ last' = <<"refused">>
    /\ UNCHANGED <<header, elements, borrows, pins>>

\* Defect: an element too few is copied.
GrownShort(n) == [i \in Slots(n) |-> IF i < length - 1 THEN elements[i] ELSE Junk]

\* The copy of the buffer that makes room.
Grown(n) == [i \in Slots(n) |-> IF i < length THEN elements[i] ELSE Junk]

Growth == IF capacity = 0 THEN InitialCapacity ELSE capacity * 2

\* The body of roxy_list_push, storing v.
Store(v) ==
    /\ IF length >= capacity
       THEN /\ Growth <= MaxCapacity
            /\ capacity' = Growth
            /\ elements' = [Grown(Growth) EXCEPT ![length] = v]
            /\ buffer' = buffer + 1
       ELSE /\ elements' = [elements EXCEPT ![length] = v]
            /\ UNCHANGED <<capacity, buffer>>
    /\ length' = length + 1

\* roxy_list_push (native_list_push)
Push(v) ==
    /\ alive
    /\ \/ MutationBlocked /\ Refuse
       \/ /\ ~MutationBlocked
          /\ Store(v)
          /\ last' = <<"push", v>>
          /\ UNCHANGED <<alive, borrows, pins, trapped>>

\* roxy_list_push of an element of the list itself, xs.push(xs[i]).  A
\* scalar has been copied to a register; for a struct (ByPointer) the argument
\* is a pointer into the buffer (INDEX_GET_LIST), which a growing push has
\* freed when it copies from it.  What is read from freed memory may be
\* anything.
PushOwn(i) ==
    /\ alive /\ ~MutationBlocked
    /\ InBounds(i)
    /\ \E read \in IF ByPointer /\ length >= capacity THEN Val ELSE {elements[i]} :
           Store(read)
    /\ last' = <<"push", elements[i]>>
    /\ UNCHANGED <<alive, borrows, pins, trapped>>

\* Defect: pop checks the pin only when it is about to free something.
PopUnchecked ==
    /\ alive /\ length # 0
    /\ length' = length - 1
    /\ last' = <<"pop", elements[length - 1]>>
    /\ UNCHANGED <<alive, elements, capacity, buffer, borrows, pins, trapped>>

\* native_list_pop: list_pop_ptr, which answers null for an empty list (the
\* register reads zero, and nothing is trapped), then roxy_list_pop.
Pop ==
    /\ alive
    /\ \/ /\ length = 0 /\ PopsEmpty
          /\ last' = <<"pop", None>>
          /\ UNCHANGED <<header, elements, borrows, pins, trapped>>
       \/ length # 0 /\ MutationBlocked /\ Refuse
       \/ /\ length # 0 /\ ~MutationBlocked
          /\ length' = length - 1
          /\ last' = <<"pop", elements[length - 1]>>
          /\ UNCHANGED <<alive, elements, capacity, buffer, borrows, pins, trapped>>

\* native_list_index, INDEX_GET_LIST: out of bounds is an error.
Get(i) ==
    /\ alive
    /\ last' = <<"get", i, IF InBounds(i) THEN elements[i] ELSE None>>
    /\ UNCHANGED <<header, elements, borrows, pins, trapped>>

\* native_list_index_mut, INDEX_SET_LIST: allowed while the list is pinned.
Set(i, v) ==
    /\ alive
    /\ elements' = IF InBounds(i) THEN [elements EXCEPT ![i] = v] ELSE elements
    /\ last' = <<"set", i, v>>
    /\ UNCHANGED <<header, borrows, pins, trapped>>

\* roxy_list_copy: the slots in use.
Copy ==
    /\ alive
    /\ last' = <<"copy", length, [i \in Slots(length) |-> elements[i]]>>
    /\ UNCHANGED <<header, elements, borrows, pins, trapped>>

\* `inout xs[i]`: INDEX_ADDR_LIST, then CONTAINER_PIN (roxy_list_pin).
Borrow(i) ==
    /\ alive /\ InBounds(i)
    /\ Len(borrows) < MaxBorrows
    /\ borrows' = Append(borrows, [pos |-> i, of |-> buffer])
    /\ pins' = pins + 1
    /\ last' = <<"borrow", i>>
    /\ UNCHANGED <<header, elements, trapped>>

\* The callee stores through the innermost pointer it was given.
WriteThrough(v) ==
    /\ borrows # <<>>
    /\ elements' = [elements EXCEPT ![borrows[Len(borrows)].pos] = v]
    /\ last' = <<"write", v>>
    /\ UNCHANGED <<header, borrows, pins, trapped>>

\* The call returns: CONTAINER_UNPIN (roxy_list_unpin).
Unborrow ==
    /\ borrows # <<>>
    /\ borrows' = SubSeq(borrows, 1, Len(borrows) - 1)
    /\ pins' = IF pins > 0 THEN pins - 1 ELSE pins
    /\ last' = <<"return">>
    /\ UNCHANGED <<header, elements, trapped>>

\* delete_value of a list: refused while it is pinned, else the buffer is
\* freed (roxy_list_delete).
Destroy ==
    /\ alive
    /\ \/ pins # 0 /\ Refuse
       \/ /\ pins = 0
          /\ alive' = FALSE
          /\ length' = 0
          /\ capacity' = 0
          /\ elements' = Fresh(0)
          /\ last' = <<"destroy">>
          /\ UNCHANGED <<buffer, borrows, pins, trapped>>

\* roxy_list_alloc, then native_list_init (roxy_list_init): exactly n slots.
Create(n) ==
    /\ ~alive
    /\ n <= MaxCapacity
    /\ alive' = TRUE
    /\ capacity' = n
    /\ elements' = Fresh(n)
    /\ buffer' = 0
    /\ last' = <<"create">>
    /\ UNCHANGED <<length, borrows, pins, trapped>>

Next ==
    \/ \E v \in Val : Push(v) \/ WriteThrough(v)
    \/ \E i \in Position : PushOwn(i) \/ Get(i) \/ Borrow(i)
    \/ \E i \in Position, v \in Val : Set(i, v)
    \/ \E n \in Reserve : Create(n)
    \/ Pop \/ Copy \/ Unborrow \/ Destroy

Spec == Init /\ [][Next]_vars

-----------------------------------------------------------------------------
(* Properties.                                                             *)

\* Every variable keeps its shape.
TypeOK ==
    /\ alive \in BOOLEAN /\ trapped \in BOOLEAN
    /\ length \in Nat /\ capacity \in Nat /\ buffer \in Nat /\ pins \in Nat
    /\ elements \in [Slots(capacity) -> Val \cup {Junk}]
    /\ borrows \in Seq([pos : Nat, of : Nat])

\* The length never runs past the buffer, and every slot below it was
\* written since the buffer was allocated: no element is ever made of
\* uninitialised memory.
ElementsWritten ==
    /\ length <= capacity
    /\ \A i \in Slots(length) : elements[i] \in Val

\* What the runs check: every variable keeps its shape, too.
ElementsInPlace == TypeOK /\ ElementsWritten

\* A pointer handed out to an `inout` argument points at an element, in the
\* buffer the list still uses, until its call returns; and the pin counts
\* exactly the pointers that are out.
BorrowedElementsStay ==
    /\ pins = Len(borrows)
    /\ \A n \in 1 .. Len(borrows) :
          alive /\ borrows[n].of = buffer /\ borrows[n].pos \in Slots(length)

\* "push(val): Append element (grows if needed)": also when val is one of
\* the elements.
PushedValueIsStored ==
    (last # None /\ last[1] = "push") => elements[length - 1] = last[2]

\* The list implements the sequence of its contract.
Contract == INSTANCE RoxyListContract WITH
    exists <- alive,
    size <- length,
    contents <- [i \in Slots(length) |-> elements[i]],
    borrowed <- [n \in 1 .. Len(borrows) |-> borrows[n].pos]

\* Through growth and borrows the program sees a sequence, and what is done
\* to it under a borrow is refused.  It holds of programs that pop no empty list.
ImplementsContract == Contract!Spec

=============================================================================
