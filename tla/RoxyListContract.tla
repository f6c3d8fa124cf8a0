-------------------------- MODULE RoxyListContract --------------------------
(***************************************************************************)
(* What a `List<T>` promises to a Roxy program (docs/internals/list.md): a *)
(* sequence that grows and shrinks at its end, and whose length does not   *)
(* change while an element is borrowed (`inout xs[i]`): a push or a pop is *)
(* then refused and raises the runtime trap.  So does a pop of an empty    *)
(* list ("Indexing").  Its indices start at 0.                             *)
(***************************************************************************)
EXTENDS Integers, Sequences

CONSTANTS
    Val,        \* the elements
    Position,   \* the indices a program tries, good or bad
    None        \* no element, no call

VARIABLES
    exists,     \* whether the list was created and not destroyed
    size,       \* its length
    contents,   \* the elements, by index
    borrowed,   \* the indices of the borrowed elements, oldest first
    trapped,    \* whether the runtime trap was raised
    last        \* the last call, with its arguments and its answer

vars == <<exists, size, contents, borrowed, trapped, last>>

Init ==
    /\ exists = TRUE
    /\ size = 0
    /\ contents = [i \in 0 .. -1 |-> None]
    /\ borrowed = <<>>
    /\ trapped = FALSE
    /\ last = None

\* A push, pop or destruction while an element is borrowed.
Refused ==
    /\ exists /\ borrowed # <<>>
    /\ trapped' = TRUE
    /\ last' = <<"refused">>
    /\ UNCHANGED <<exists, size, contents, borrowed>>

Push(v) ==
    /\ exists /\ borrowed = <<>>
    /\ size' = size + 1
    /\ contents' = [i \in 0 .. size |-> IF i = size THEN v ELSE contents[i]]
    /\ last' = <<"push", v>>
    /\ UNCHANGED <<exists, borrowed, trapped>>

Pop ==
    /\ exists /\ borrowed = <<>>
    /\ size # 0
    /\ size' = size - 1
    /\ contents' = [i \in 0 .. size - 2 |-> contents[i]]
    /\ last' = <<"pop", contents[size - 1]>>
    /\ UNCHANGED <<exists, borrowed, trapped>>

\* "`.pop()` [...] still trap[s] on an empty [...] access."
PopEmpty ==
    /\ exists /\ size = 0
    /\ trapped' = TRUE
    /\ last' = <<"pop", None>>
    /\ UNCHANGED <<exists, size, contents, borrowed>>

Get(i) ==
    /\ exists
    /\ last' = <<"get", i, IF i \in 0 .. size - 1 THEN contents[i] ELSE None>>
    /\ UNCHANGED <<exists, size, contents, borrowed, trapped>>

Set(i, v) ==
    /\ exists
    /\ contents' = IF i \in 0 .. size - 1 THEN [contents EXCEPT ![i] = v] ELSE contents
    /\ last' = <<"set", i, v>>
    /\ UNCHANGED <<exists, size, borrowed, trapped>>

Copy ==
    /\ exists
    /\ last' = <<"copy", size, contents>>
    /\ UNCHANGED <<exists, size, contents, borrowed, trapped>>

Borrow(i) ==
    /\ exists /\ i \in 0 .. size - 1
    /\ borrowed' = Append(borrowed, i)
    /\ last' = <<"borrow", i>>
    /\ UNCHANGED <<exists, size, contents, trapped>>

\* The callee assigns to the element it was lent last.
Write(v) ==
    /\ exists /\ borrowed # <<>>
    /\ contents' = [contents EXCEPT ![borrowed[Len(borrowed)]] = v]
    /\ last' = <<"write", v>>
    /\ UNCHANGED <<exists, size, borrowed, trapped>>

Return ==
    /\ borrowed # <<>>
    /\ borrowed' = SubSeq(borrowed, 1, Len(borrowed) - 1)
    /\ last' = <<"return">>
    /\ UNCHANGED <<exists, size, contents, trapped>>

Destroy ==
    /\ exists /\ borrowed = <<>>
    /\ exists' = FALSE
    /\ size' = 0
    /\ contents' = [i \in 0 .. -1 |-> None]
    /\ last' = <<"destroy">>
    /\ UNCHANGED <<borrowed, trapped>>

Create ==
    /\ ~exists
    /\ exists' = TRUE
    /\ last' = <<"create">>
    /\ UNCHANGED <<size, contents, borrowed, trapped>>

Next ==
    \/ \E v \in Val : Push(v) \/ Write(v)
    \/ \E i \in Position : Get(i) \/ Borrow(i) \/ \E v \in Val : Set(i, v)
    \/ Refused \/ Pop \/ PopEmpty \/ Copy \/ Return \/ Destroy \/ Create

Spec == Init /\ [][Next]_vars

=============================================================================
