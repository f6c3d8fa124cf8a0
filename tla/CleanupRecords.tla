--------------------------- MODULE CleanupRecords ---------------------------
(***************************************************************************)
(* What the unwinder destroys: the cleanup records of a function that has  *)
(* been laid out, as the bytecode builder makes them (codegen/lowering.cpp)*)
(* and as the interpreter reads them (execute_cleanup).                    *)
(*                                                                         *)
(* A record says from where to where in the code a value is owned, and not *)
(* who owns it on the path that was taken.  So the places matter: they are *)
(* counted in instructions, of which a mark is none and everything else,   *)
(* the end of a block too, is one.                                         *)
(***************************************************************************)
EXTENDS BlockOrder, FiniteSets, FiniteSetsExt

Marks == {"bind", "nullify", "try", "finally"}

Room(code) == Cardinality({k \in DOMAIN code : code[k].op \notin Marks})

\* Where each block starts, and at last where the code ends.
Offsets(f) == FoldLeft(LAMBDA at, block : Append(at, Last(at) + Room(block.code) + 1), <<0>>, f.blocks)

\* The place of an instruction, and the one after it
Pc(f, at, b, k) == at[b] + Room(SubSeq(f.blocks[b].code, 1, k - 1))

\* The places of the instructions of a kind that are about a value
Places(f, at, op, value) ==
    UNION {{Pc(f, at, b, k) : k \in {j \in DOMAIN f.blocks[b].code : /\ f.blocks[b].code[j].op = op
                                                                    /\ f.blocks[b].code[j].value = value}} : b \in Blocks(f)}

-----------------------------------------------------------------------------
(***************************************************************************)
(* The blocks in which a value is still owned, compute_cleanup_coverage:   *)
(* those that are reached from the block it starts in before one that ends *)
(* it.  A handler is one of them if nothing in the body ends the value and *)
(* if the handler itself does, later, or never comes to a return.          *)
(***************************************************************************)
EndsIt(f, value) ==
    {b \in Blocks(f) : \E i \in ToSet(f.blocks[b].code) : i.op \in {"delete", "nullify"} /\ i.value = value}

Successors(f, b) == {to.block : to \in ToSet(f.blocks[b].end.to)}
Returns(f) == {b \in Blocks(f) : f.blocks[b].end.kind \in {"return", "yield"}}

RECURSIVE Closure(_, _)
Closure(next, seen) ==
    LET more == seen \cup UNION {next[b] : b \in seen}
    IN  IF more = seen THEN seen ELSE Closure(next, more)

HandlerCovered(f, h, ends) ==
    LET reached == Closure([b \in Blocks(f) |-> Successors(f, b)], {h.handler})
    IN  /\ h.body \cap ends = {}
        /\ reached \cap ends # {} \/ reached \cap Returns(f) = {}

Covered(f, record) ==
    LET ends     == EndsIt(f, record.value)
        handlers == {h \in ToSet(f.handlers) : HandlerCovered(f, h, ends)}
        beyond   == IF record.before THEN {record.upto} ELSE {}
        Next(b)  == Successors(f, b) \cup {h.handler : h \in {g \in handlers : b \in g.body}}
    IN  Closure([b \in Blocks(f) |-> IF b \in ends THEN {} ELSE Next(b) \ beyond], {record.from} \ beyond)

-----------------------------------------------------------------------------
(***************************************************************************)
(* build_cleanup_records.  A record is one stretch of the code, which the  *)
(* last mark of its value cuts short, and the covered blocks beyond it,    *)
(* each up to where the value ends in it.  (The code moves such an end     *)
(* back to the last call that had the value; no throw comes in between.)   *)
(***************************************************************************)
\* For comparison: as far as the record's block, whatever has become of the value before.
WholeStretch(f, at, record) ==
    [from |-> at[record.from], to |-> IF record.before THEN at[record.upto] ELSE at[record.upto + 1]]

Stretch(f, at, record) ==
    LET from == at[record.from]
        to   == IF record.before THEN at[record.upto] ELSE at[record.upto + 1]
        cut  == Places(f, at, "nullify", record.value)
    IN  [from |-> from, to |-> IF cut # {} /\ from <= Max(cut) /\ Max(cut) < to THEN Max(cut) ELSE to]

\* When the register has the value: `new` pushes a frame, and is one later.
Ready(f, at, value) == Max({0} \cup {p + 2 : p \in Places(f, at, "new", value)}
                               \cup {p + 1 : p \in Places(f, at, "load", value)})

Extensions(f, at, record, after) ==
    LET ends  == Places(f, at, "nullify", record.value) \cup {p + 1 : p \in Places(f, at, "delete", record.value)}
        In(b) == [from |-> Max({at[b], after}),
                  to   |-> Min({at[b + 1]} \cup {p \in ends : p \in at[b] .. at[b + 1]})]
    IN  {x \in {In(b) : b \in Covered(f, record)} : x.from < x.to}

Cleanup(f, at, record) ==
    LET scope == Stretch(f, at, record)
    IN  [value |-> record.value, scope |-> scope,
         live  |-> [scope EXCEPT !.from = Max({@, Ready(f, at, record.value)})],
         more  |-> Extensions(f, at, record, scope.to)]

\* The values that have a register: some are of blocks that were dropped.
Values(f, params) ==
    params \cup UNION {{block.params[v] : v \in DOMAIN block.params} : block \in ToSet(f.blocks)}
           \cup {h.value : h \in ToSet(f.handlers)}
           \cup {i.value : i \in {j \in UNION {ToSet(block.code) : block \in ToSet(f.blocks)} : j.op \in {"new", "load"}}}

\* A record whose value comes only after its stretch describes nothing.
Cleanups(f, at, params) ==
    {c \in {Cleanup(f, at, r) : r \in {s \in ToSet(f.records) : s.value \in Values(f, params)}} :
        c.live.from = c.scope.from \/ c.live.from < c.scope.to}

-----------------------------------------------------------------------------
Inside(pc, stretches) == \E s \in stretches : s.from <= pc /\ pc < s.to

\* execute_cleanup: what is owned where the exception left, and not where it is handled.
\* Without a handler in this function, `handler` is empty.
Unwound(cleanups, pc, handler) ==
    {c.value : c \in {d \in cleanups : /\ Inside(pc, {d.live} \cup d.more)
                                       /\ \A h \in handler : ~Inside(h, {d.scope} \cup d.more)}}
=============================================================================
