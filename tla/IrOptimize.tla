----------------------------- MODULE IrOptimize -----------------------------
(***************************************************************************)
(* The optimiser (ir/ir_optimize.cpp, ir/ir_fold.cpp and the folding half  *)
(* of ir/ir_builder_expr.cpp): a function is emitted with its constants    *)
(* folded, laid out, and then taken through the passes of                  *)
(* optimize_function, one action each, until a round of them changes       *)
(* nothing.                                                                *)
(***************************************************************************)
EXTENDS SsaForm

CONSTANTS Sources,   \* the functions, as the builder is asked for them: blocks in the order of their creation
          Inputs     \* what they are run on: arguments, and which call throws

VARIABLES func, stage, changed,
          promised   \* what the source does on each input
vars == <<func, stage, changed, promised>>

Stages == {"emit", "lay out", "copies", "dead", "branches", "merging", "arguments", "common", "reorder",
           "orphans", "done"}

-----------------------------------------------------------------------------
(* Phase 1: emit_binary folds and simplifies what it is asked for. *)

IsInt(i, n) == i.op = "int" /\ i.data = n
Const(i, n) == [i EXCEPT !.op = "int", !.args = <<>>, !.data = n]

\* fold_binary_const: nothing that would trap, and only constants
Folds(op, l, r) ==
    l.op = "int" /\ r.op = "int" /\ op \in ArithmeticOps /\ Arithmetic(op, l.data, r.data) # Trap

FoldBinary(i, l, r) ==
    [i EXCEPT !.op = IF @ \in {"less", "equal"} THEN "bool" ELSE "int", !.args = <<>>,
              !.data = Arithmetic(i.op, l.data, r.data)]

\* try_simplify_binary: the operand that is the result, or 0
SameAs(i, l, r) ==
    CASE i.op = "add" /\ IsInt(r, 0) -> i.args[1]
      [] i.op = "add" /\ ~IsInt(r, 0) /\ IsInt(l, 0) -> i.args[2]
      [] i.op = "sub" /\ IsInt(r, 0) -> i.args[1]
      [] i.op = "mul" /\ ~IsInt(l, 0) /\ IsInt(r, 1) -> i.args[1]
      [] i.op = "mul" /\ ~IsInt(r, 0) /\ IsInt(l, 1) -> i.args[2]
      [] i.op = "div" /\ IsInt(r, 1) -> i.args[1]
      [] OTHER -> 0

\* ... and the cheaper instruction that takes its place
Simplified(i, l, r) ==
    CASE i.op = "sub" /\ i.args[1] = i.args[2] -> Const(i, 0)
      [] i.op = "mul" /\ (IsInt(l, 0) \/ IsInt(r, 0)) -> Const(i, 0)
      [] i.op = "mul" /\ IsInt(r, 2) -> [i EXCEPT !.op = "add", !.args = <<@[1], @[1]>>]
      [] i.op = "mul" /\ ~IsInt(r, 2) /\ IsInt(l, 2) -> [i EXCEPT !.op = "add", !.args = <<@[2], @[2]>>]
      [] OTHER -> i

\* For every value asked for: the value given instead, and the instruction that defines it.
\* Operands are asked for before the instructions that use them.
Emitted(f) ==
    LET none == [op |-> "none", to |-> 0, args |-> <<>>, data |-> 0]
        given[v \in 0 .. f.values] ==
            IF DefinedBy(f, v) = {} THEN [value |-> v, inst |-> none]
            ELSE LET asked == CHOOSE i \in DefinedBy(f, v) : TRUE
                     i == [asked EXCEPT !.args = [k \in DOMAIN @ |-> given[@[k]].value]]
                     l == given[i.args[1]].inst
                     r == given[i.args[2]].inst
                 IN  IF i.op \notin ArithmeticOps THEN [value |-> v, inst |-> i]
                     ELSE IF Folds(i.op, l, r) THEN [value |-> v, inst |-> FoldBinary(i, l, r)]
                     ELSE IF SameAs(i, l, r) # 0 THEN [value |-> SameAs(i, l, r), inst |-> none]
                     ELSE [value |-> v, inst |-> Simplified(i, l, r)]
    IN  given

EmitBinary(f) ==
    LET given == Emitted(f)
        to    == [v \in Values(f) |-> given[v].value]
        emitted(i) == IF i.to = 0 THEN [i EXCEPT !.args = Renamed(@, to)] ELSE given[i.to].inst
    IN  [f EXCEPT !.blocks = [b \in DOMAIN @ |->
            [params |-> @[b].params,
             code   |-> SelectSeq([k \in DOMAIN @[b].code |-> emitted(@[b].code[k])], LAMBDA i : i.op # "none"),
             end    |-> RenamedEnd(@[b].end, to)]]]

-----------------------------------------------------------------------------
(* Phase 2: copies and dead values *)

\* For comparison: a division is kept, because it may trap.
DivisionsToo(op) == op \in {"store", "release", "make", "call", "throw", "div"}

HasSideEffect(op) == op \in {"store", "release", "make", "call", "throw"}

\* Replacements of replacements, followed to their end.
PathCompressed(subst) ==
    LET root[v \in DOMAIN subst] == IF subst[v] = v THEN v ELSE root[subst[v]] IN root

RunCopyPropagation(f) ==
    LET copies(v) == {i \in DefinedBy(f, v) : i.op = "copy"}
        subst == [v \in Values(f) |-> IF copies(v) = {} THEN v ELSE (CHOOSE i \in copies(v) : TRUE).args[1]]
    IN  Rewritten(f, PathCompressed(subst), {"copy"})

Lives(used, i) == i.to \in used \cup {0} \/ HasSideEffect(i.op)

RECURSIVE RunDce(_)
RunDce(f) ==
    CHOOSE g \in
        {IF \A i \in Instructions(f) : Lives(used, i) THEN f
         ELSE RunDce([f EXCEPT !.blocks = [b \in DOMAIN @ |->
                  [@[b] EXCEPT !.code = SelectSeq(@, LAMBDA i : Lives(used, i))]]]) : used \in {Uses(f)}} : TRUE

-----------------------------------------------------------------------------
(* Phase 3: control flow *)

RunBranchFolding(f) ==
    LET known(end) == IF end.kind # "branch" THEN {} ELSE {i \in DefinedBy(f, end.on) : i.op = "bool"}
        folded(end) ==
            IF known(end) = {} THEN end
            ELSE [kind |-> "goto", on |-> 0,
                  to |-> <<end.to[IF (CHOOSE i \in known(end) : TRUE).data = 0 THEN 2 ELSE 1]>>]
    IN  [f EXCEPT !.blocks = [b \in DOMAIN @ |-> [@[b] EXCEPT !.end = folded(@)]]]

BlockInMetadata(f, b) ==
    \/ \E h \in DOMAIN f.handlers : b = f.handlers[h].handler \/ b \in f.handlers[h].body
    \/ \E r \in DOMAIN f.records : b \in {f.records[r].from, f.records[r].upto}

\* Whether b goes into the one block that precedes it; `before` are the predecessors when the pass began.
Merges(f, before, b) ==
    /\ f.blocks[b].end.kind # "none"
    /\ Cardinality(before[b]) = 1
    /\ LET a == (CHOOSE e \in before[b] : TRUE)[1]
       IN  /\ a # b
           /\ f.blocks[a].end.kind = "goto"
           /\ f.blocks[a].end.to[1].block = b
           /\ Len(f.blocks[a].end.to[1].args) = Len(f.blocks[b].params)
    /\ ~BlockInMetadata(f, b)

\* One merge: the code moves, and every parameter stands for its argument from now on.
Merge(f, subst, a, b) ==
    LET params == f.blocks[b].params
        args   == f.blocks[a].end.to[1].args
    IN  [f |-> [f EXCEPT !.blocks[a] = [params |-> @.params, code |-> @.code \o f.blocks[b].code,
                                        end |-> f.blocks[b].end],
                         !.blocks[b] = NoBlock],
         subst |-> [v \in DOMAIN subst |->
                       IF v \in ToSet(params) THEN args[CHOOSE k \in DOMAIN params : params[k] = v] ELSE subst[v]]]

\* One pass over the blocks, then one sweep of all operands; passes until none merges.
RECURSIVE RunBlockMerging(_)
RunBlockMerging(f) ==
    LET before == [b \in Blocks(f) |-> Predecessors(f, b)]
        visit(acc, b) ==
            CHOOSE r \in {IF Merges(s.f, before, b)
                          THEN Merge(s.f, s.subst, (CHOOSE e \in before[b] : TRUE)[1], b) ELSE s : s \in {acc}} : TRUE
        pass == FoldLeft(visit, [f |-> f, subst |-> [v \in Values(f) |-> v]], [b \in Blocks(f) |-> b])
    IN  IF pass.f = f THEN f ELSE RunBlockMerging(Rewritten(pass.f, PathCompressed(pass.subst), {}))

\* What the predecessors pass for the k-th parameter of b, the parameter itself left out.
ArgsFor(f, b, k) ==
    {f.blocks[e[1]].end.to[e[2]].args[k] : e \in Predecessors(f, b)} \ {f.blocks[b].params[k]}

ArmsAgree(f, b, k) ==
    \A e, g \in Predecessors(f, b) :
        e[1] = g[1] => f.blocks[e[1]].end.to[e[2]].args[k] = f.blocks[g[1]].end.to[g[2]].args[k]

TrivialParams(f, b) ==
    {k \in DOMAIN f.blocks[b].params : b # 1 /\ ArmsAgree(f, b, k) /\ Cardinality(ArgsFor(f, b, k)) = 1}

Without(s, ks) ==
    LET kept == SetToSortSeq(DOMAIN s \ ks, LAMBDA x, y : x < y) IN [k \in DOMAIN kept |-> s[kept[k]]]

RunTrivialBlockArgElim(f) ==
    LET drop  == [b \in Blocks(f) |-> TrivialParams(f, b)]
        home  == [v \in Values(f) |-> {e \in UNION {{b} \X drop[b] : b \in Blocks(f)} : f.blocks[e[1]].params[e[2]] = v}]
        subst == [v \in Values(f) |->
                    IF home[v] = {} THEN v
                    ELSE LET e == CHOOSE x \in home[v] : TRUE IN CHOOSE a \in ArgsFor(f, e[1], e[2]) : TRUE]
        fewer(t) == [t EXCEPT !.args = Without(@, drop[t.block])]
        g == Rewritten(f, PathCompressed(subst), {})
    IN  [g EXCEPT !.blocks = [b \in DOMAIN @ |->
            [@[b] EXCEPT !.params = Without(@, drop[b]),
                         !.end = [@ EXCEPT !.to = [k \in DOMAIN @ |-> fewer(@[k])]]]]]

-----------------------------------------------------------------------------
(* Phase 4: common subexpressions of a block.  A load is none: the memory may have changed. *)

\* For comparison: loads too, as if nothing were stored in between.
CseOfLoads(op) == op \in {"int", "bool", "load"} \cup ArithmeticOps

CseEligible(op) == op \in {"int", "bool"} \cup ArithmeticOps

\* For the k-th instruction of a block: the first that computes the same.
FirstLike(code, k) ==
    CHOOSE j \in 1 .. k :
        /\ [code[j] EXCEPT !.to = 0] = [code[k] EXCEPT !.to = 0]
        /\ \A m \in 1 .. j - 1 : [code[m] EXCEPT !.to = 0] # [code[k] EXCEPT !.to = 0]

Redirects(f) ==
    {<<f.blocks[b].code[k].to, f.blocks[b].code[FirstLike(f.blocks[b].code, k)].to>> :
        <<b, k>> \in {p \in Blocks(f) \X (1 .. Max({Len(f.blocks[c].code) : c \in Blocks(f)} \cup {0})) :
            /\ p[2] <= Len(f.blocks[p[1]].code)
            /\ CseEligible(f.blocks[p[1]].code[p[2]].op)
            /\ FirstLike(f.blocks[p[1]].code, p[2]) # p[2]}}

RunLocalCse(f) ==
    LET to(v) == {r[2] : r \in {x \in Redirects(f) : x[1] = v}}
    IN  Rewritten(f, [v \in Values(f) |-> IF to(v) = {} THEN v ELSE CHOOSE x \in to(v) : TRUE], {})

-----------------------------------------------------------------------------
(* The end: releases of what nothing defines any more *)

\* For comparison: a release stays, whatever became of its value.
NeverOrphaned(f, i) == FALSE

Orphaned(f, i) == i.op = "release" /\ i.args[1] \notin Defined(f)

RunOrphanedCleanupElim(f) ==
    [f EXCEPT !.blocks = [b \in DOMAIN @ |->
        [@[b] EXCEPT !.code = SelectSeq(@, LAMBDA i : ~Orphaned(f, i))]]]

-----------------------------------------------------------------------------

Init ==
    /\ func \in Sources
    /\ stage = "emit"
    /\ changed = FALSE
    /\ promised = [input \in Inputs |-> Meaning(func, input)]

Pass(here, result, next) ==
    /\ stage = here
    /\ func' \in {result}
    /\ stage' = next
    /\ UNCHANGED promised

\* The builder: emission, and the layout when the body has ended.
Emit      == Pass("emit", EmitBinary(func), "lay out") /\ UNCHANGED changed
LayOut    == Pass("lay out", ReorderBlocksRpo(func), "copies") /\ UNCHANGED changed

\* optimize_function
Copies    == Pass("copies", RunCopyPropagation(func), "dead") /\ UNCHANGED changed
Dead      == Pass("dead", RunDce(func), "branches") /\ changed' = FALSE
Branches  == Pass("branches", RunBranchFolding(func), "merging") /\ changed' = (changed \/ func' # func)
Merging   == Pass("merging", RunBlockMerging(func), "arguments") /\ changed' = (changed \/ func' # func)
Arguments == Pass("arguments", RunTrivialBlockArgElim(func), "common") /\ changed' = (changed \/ func' # func)

Common ==
    LET again == changed \/ Redirects(func) # {}
    IN  /\ Pass("common", RunLocalCse(func), IF again THEN "copies" ELSE "reorder")
        /\ changed' = again

Reorder   == Pass("reorder", ReorderBlocksRpo(func), "orphans") /\ UNCHANGED changed
Orphans   == Pass("orphans", RunOrphanedCleanupElim(func), "done") /\ UNCHANGED changed

Next ==
    \/ Emit \/ LayOut \/ Copies \/ Dead \/ Branches \/ Merging \/ Arguments \/ Common \/ Reorder \/ Orphans
    \/ stage = "done" /\ UNCHANGED vars

Spec == Init /\ [][Next]_vars /\ WF_vars(Next)

-----------------------------------------------------------------------------

\* What a run shows of the source, the compiled function shows, after every pass.  A run that stops with
\* an error may go on instead: a division whose result nothing uses is removed, and its trap with it.
SameRun(was, is) ==
    \/ was = is
    \/ /\ was # <<>> /\ Last(was) = <<"trap">>
       /\ IsPrefix(Front(was), is)
       /\ is # <<>> /\ Last(is) # <<"undefined">>

\* Every pass keeps what the function does on every input: its calls and their arguments in order, its
\* result, which handler takes an exception, and what its code releases on the way (optimize_function,
\* reorder_blocks_rpo, emit_binary).
MeaningIsKept ==
    \A input \in Inputs : SameRun(promised[input], Meaning(func, input))

\* Between the passes the function is one the validator accepts, and a cleanup record still begins in the
\* block that makes its value.  In the end no operand is left that nothing defines, and no block that
\* cannot be reached or was emptied: lowering would fault on either.
IrStaysValid ==
    /\ stage \in Stages /\ changed \in BOOLEAN
    /\ Valid(func)
    /\ \A r \in ToSet(func.records) :
          /\ {r.from, r.upto} \subseteq Blocks(func)
          /\ r.value \in Defined(func) => \E i \in ToSet(func.blocks[r.from].code) : i.to = r.value
    /\ stage = "done" =>
          /\ Uses(func) \subseteq Defined(func)
          /\ Dropped(func) = {}
          /\ \A b \in Blocks(func) : func.blocks[b].end.kind # "none"

\* The passes come to rest: no pass undoes another, or reports a change that the others do not remove.
PassesEnd == <>(stage = "done")
=============================================================================
