------------------------------ MODULE WeakHeap ------------------------------
(***************************************************************************)
(* What the Roxy heap promises to the code above it, whatever allocator    *)
(* stands behind `roxy_allocator` (include/roxy/rt/roxy_rt.h).             *)
(*                                                                         *)
(* An allocation yields an object that never existed before; a free ends   *)
(* it for good; and a weak reference, held for as long as one likes,       *)
(* answers "alive" exactly while its own object is alive - never because   *)
(* the memory was handed to somebody else.                                 *)
(***************************************************************************)

CONSTANTS
    Object,     \* the identities an allocation can give
    None        \* no weak reference has been asked yet

VARIABLES
    live,       \* the objects that are allocated
    born,       \* the objects that ever were
    weak,       \* the objects some weak reference was taken of
    answer      \* the last weak check: [of, alive], or None

vars == <<live, born, weak, answer>>

Init ==
    /\ live = {}
    /\ born = {}
    /\ weak = {}
    /\ answer = None

Alloc ==
    \E o \in Object \ born :
        /\ live' = live \cup {o}
        /\ born' = born \cup {o}
        /\ UNCHANGED <<weak, answer>>

Free ==
    \E o \in live :
        /\ live' = live \ {o}
        /\ UNCHANGED <<born, weak, answer>>

WeakCreate ==
    \E o \in live :
        /\ weak' = weak \cup {o}
        /\ UNCHANGED <<live, born, answer>>

WeakCheck ==
    \E o \in weak :
        /\ answer' = [of |-> o, alive |-> o \in live]
        /\ UNCHANGED <<live, born, weak>>

Next == Alloc \/ Free \/ WeakCreate \/ WeakCheck

Spec == Init /\ [][Next]_vars

=============================================================================
