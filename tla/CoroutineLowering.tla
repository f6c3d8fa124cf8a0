-------------------------- MODULE CoroutineLowering --------------------------
(***************************************************************************)
(* A coroutine's body as the function that resumes it                      *)
(* (ir/coroutine_lowering.cpp).  The variables that are in scope at some   *)
(* yield live in fields of the coroutine's object: every block loads all   *)
(* of them as it starts, and a jump that carried one as an argument stores *)
(* it instead.  A yield becomes a return that leaves a number behind, the  *)
(* state, and the chain of tests in front of the body goes on from it.     *)
(***************************************************************************)
EXTENDS IrBuilder

YieldBlocks(ir) == {i \in DOMAIN ir.blocks : ir.blocks[i].code # <<>> /\ Last(ir.blocks[i].code).op = "yield"}

\* Promoted variables: the parameters of the blocks that follow the yields.
Promoted(ir) == UNION {DOMAIN ir.blocks[ir.blocks[i].end.to[1].block].params : i \in YieldBlocks(ir)}

\* All values a promoted variable is written as: parameters of the function and of its blocks.
\* The parameter of a handler is the unwinder's, and is none.
SpelledAs(ir, params, v) ==
    {k \in DOMAIN params : params[k] = v}
        \cup {ir.blocks[i].params[v] : i \in {k \in DOMAIN ir.blocks : v \in DOMAIN ir.blocks[k].params}}

\* The value that block i loads v into.
Accessor(ir, promoted, i, v) ==
    LET order == SetToSeq(promoted)
    IN  ir.next + (i - 1) * Len(order) + (CHOOSE k \in DOMAIN order : order[k] = v) - 1

Remap(ir, params, promoted, i, value) ==
    LET of == {v \in promoted : value \in SpelledAs(ir, params, v)}
    IN  IF of = {} THEN value ELSE Accessor(ir, promoted, i, CHOOSE v \in of : TRUE)

(***************************************************************************)
(* What the unwinder is to destroy.  The records of every variable that    *)
(* has the type of a promoted one are dropped, promoted or not: it is for  *)
(* the coroutine's destructor.  The exception of a catch has a type of its *)
(* own, and keeps its record.                                              *)
(***************************************************************************)
NotPromoted(records, promoted) ==
    SelectSeq(records, LAMBDA r : r.name = Caught \/ promoted \ {Caught} = {})

\* The tests and the trap come first; every other block moves on by as many.
Trap == 2
Moved(ir, block) == block + Cardinality(YieldBlocks(ir)) + 2

\* A catch starts by storing its exception, if it is promoted.
EntryStores(ir, promoted, i) ==
    LET catches == {k \in DOMAIN ir.handlers : ir.handlers[k].kind = "catch" /\ ir.handlers[k].handler = i}
    IN  IF Caught \notin promoted THEN <<>>
        ELSE [k \in 1 .. Cardinality(catches) |->
                  Instruction("store", Caught, ir.handlers[CHOOSE c \in catches : TRUE].value)]

\* What the body's own cleanup has destroyed is not for the destructor to destroy again.
ClearedAtTheEnd(promoted) ==
    LET owned == SetToSeq(promoted \ {Caught})
    IN  [k \in DOMAIN owned |-> Instruction("clear", owned[k], Null)]

LowerBlock(ir, params, promoted, i) ==
    LET block    == ir.blocks[i]
        loads    == [k \in DOMAIN SetToSeq(promoted) |->
                        LET v == SetToSeq(promoted)[k] IN Instruction("load", v, Accessor(ir, promoted, i, v))]
        New(value) == Remap(ir, params, promoted, i, value)
        NewInstruction(ins) ==
            LET new == [ins EXCEPT !.value = New(@)]
            IN  CASE ins.op = "yield" -> <<>>
                  [] ins.op = "delete" /\ ins.name = Caught /\ New(ins.value) # ins.value ->
                        <<new, Instruction("clear", Caught, Null)>>
                  [] OTHER -> <<new>>
        StoresFor(to) ==
            LET kept == SetToSeq({v \in DOMAIN to.args \cap promoted :
                                    New(to.args[v]) # Accessor(ir, promoted, i, v)})
            IN  [k \in DOMAIN kept |-> Instruction("store", kept[k], New(to.args[kept[k]]))]
        Rest(to) == [block |-> Moved(ir, to.block), args |-> [v \in DOMAIN to.args \ promoted |-> New(to.args[v])]]
        state    == Cardinality({y \in YieldBlocks(ir) : y <= i})
    IN  [params |-> [v \in DOMAIN block.params \ promoted |-> block.params[v]],
         code   |-> EntryStores(ir, promoted, i) \o loads
                    \o FlattenSeq([k \in DOMAIN block.code |-> NewInstruction(block.code[k])])
                    \o FlattenSeq([k \in DOMAIN block.end.to |-> StoresFor(block.end.to[k])])
                    \o (IF block.end.kind = "return" THEN ClearedAtTheEnd(promoted) ELSE <<>>),
         end    |-> IF i \in YieldBlocks(ir) THEN [kind |-> "yield", to |-> <<>>, state |-> state]
                    ELSE [kind |-> block.end.kind, to |-> [k \in DOMAIN block.end.to |-> Rest(block.end.to[k])]]]

\* One test after the other compares the state with 0, for the body's own start, and with the
\* number of each yield; what the last one fails to is a trap.
Dispatch(ir) ==
    LET yields == SetToSortSeq(YieldBlocks(ir), <)
        n == 1 + Len(yields)
        Place(k) == IF k = 1 THEN 1 ELSE k + 1
        Goal(k) == IF k = 1 THEN 1 ELSE ir.blocks[yields[k - 1]].end.to[1].block
        Test(k) == [kind |-> "state", state |-> k - 1,
                    to |-> <<To(Moved(ir, Goal(k)), NoArgs), To(IF k = n THEN Trap ELSE Place(k + 1), NoArgs)>>]
    IN  [i \in 1 .. n + 1 |->
            [EmptyBlock EXCEPT !.end = IF i = Trap THEN [kind |-> "unreachable", to |-> <<>>]
                                       ELSE Test(CHOOSE k \in 1 .. n : Place(k) = i)]]

\* The cleanup records that are left go on naming the blocks by the numbers they had.
LowerCoroutine(ir, params) ==
    LET promoted == Promoted(ir)
    IN  [ir EXCEPT !.blocks   = Dispatch(ir) \o [i \in DOMAIN @ |-> LowerBlock(ir, params, promoted, i)],
                   !.handlers = [h \in DOMAIN @ |-> [@[h] EXCEPT !.body = {Moved(ir, i) : i \in @},
                                                                  !.handler = Moved(ir, @)]],
                   !.records  = NotPromoted(@, promoted),
                   !.next     = @ + Len(ir.blocks) * Cardinality(promoted)]
=============================================================================
