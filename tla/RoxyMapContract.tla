--------------------------- MODULE RoxyMapContract ---------------------------
(***************************************************************************)
(* What a `Map<K, V>` promises to a Roxy program (docs/internals/maps.md): *)
(* a finite function from the keys up to equality, whatever their hashes.  *)
(*                                                                         *)
(* A key that does not even equal itself (a float NaN) can be put in as    *)
(* often as one likes, is counted by `len` and `keys`, and is never found. *)
(*                                                                         *)
(* While a value is borrowed (`inout m[k]`), the entries may not move: a   *)
(* call that would change the set of entries is refused and raises the     *)
(* runtime trap, and the borrow keeps writing into its own entry.          *)
(***************************************************************************)
EXTENDS Integers, FiniteSets, Sequences

CONSTANTS
    Class,      \* the keys, up to equality
    Unequal,    \* the classes whose keys equal nothing
    Val,        \* the values
    None        \* no value, no call, no map

VARIABLES
    contents,   \* the function the map is; None once it was destroyed
    strays,     \* how many entries have a key that equals nothing
    borrowed,   \* the classes whose values are borrowed, oldest first
    trapped,    \* whether the runtime trap was raised
    last        \* the last call, with its arguments and its answer

vars == <<contents, strays, borrowed, trapped, last>>

Empty == [c \in {} |-> None]
Alive == contents # None
Size == Cardinality(DOMAIN contents) + strays
Lookup(c) == IF c \in DOMAIN contents THEN contents[c] ELSE None
Put(c, v) == [d \in DOMAIN contents \cup {c} |-> IF d = c THEN v ELSE contents[d]]
Without(c) == [d \in DOMAIN contents \ {c} |-> contents[d]]

Init ==
    /\ contents = Empty
    /\ strays = 0
    /\ borrowed = <<>>
    /\ trapped = FALSE
    /\ last = None

\* A call that would change the entries, made while a value is borrowed.
Refused ==
    /\ Alive /\ borrowed # <<>>
    /\ trapped' = TRUE
    /\ last' = <<"refused">>
    /\ UNCHANGED <<contents, strays, borrowed>>

Insert(c, v) ==
    /\ Alive /\ borrowed = <<>>
    /\ IF c \in Unequal
       THEN strays' = strays + 1 /\ UNCHANGED contents
       ELSE contents' = Put(c, v) /\ UNCHANGED strays
    /\ last' = <<"insert", c, v>>
    /\ UNCHANGED <<borrowed, trapped>>

Remove(c) ==
    /\ Alive /\ borrowed = <<>>
    /\ contents' = Without(c)
    /\ last' = <<"remove", c, c \in DOMAIN contents>>
    /\ UNCHANGED <<strays, borrowed, trapped>>

Clear ==
    /\ Alive /\ borrowed = <<>>
    /\ contents' = Empty
    /\ strays' = 0
    /\ last' = <<"clear">>
    /\ UNCHANGED <<borrowed, trapped>>

\* contains; get and get_or; keys, values and copy, and len.
Ask ==
    /\ Alive
    /\ \/ \E c \in Class : last' \in {<<"contains", c, c \in DOMAIN contents>>,
                                     <<"get", c, Lookup(c)>>}
       \/ last' = <<"entries", DOMAIN contents, Size>>
    /\ UNCHANGED <<contents, strays, borrowed, trapped>>

Borrow(c) ==
    /\ Alive /\ c \in DOMAIN contents
    /\ borrowed' = Append(borrowed, c)
    /\ last' = <<"borrow", c>>
    /\ UNCHANGED <<contents, strays, trapped>>

Write(v) ==
    /\ Alive /\ borrowed # <<>>
    /\ contents' = Put(borrowed[Len(borrowed)], v)
    /\ last' = <<"write", v>>
    /\ UNCHANGED <<strays, borrowed, trapped>>

Return ==
    /\ Alive /\ borrowed # <<>>
    /\ borrowed' = SubSeq(borrowed, 1, Len(borrowed) - 1)
    /\ last' = <<"return">>
    /\ UNCHANGED <<contents, strays, trapped>>

Destroy ==
    /\ Alive /\ borrowed = <<>>
    /\ contents' = None
    /\ strays' = 0
    /\ last' = <<"destroy">>
    /\ UNCHANGED <<borrowed, trapped>>

Create ==
    /\ ~Alive
    /\ contents' = Empty
    /\ last' = <<"create">>
    /\ UNCHANGED <<strays, borrowed, trapped>>

Next ==
    \/ \E c \in Class : Remove(c) \/ Borrow(c) \/ \E v \in Val : Insert(c, v)
    \/ \E v \in Val : Write(v)
    \/ Refused \/ Clear \/ Ask \/ Return \/ Destroy \/ Create

Spec == Init /\ [][Next]_vars

=============================================================================
