-------------------------- MODULE TrivialArguments --------------------------
(***************************************************************************)
(* run_trivial_block_arg_elim (ir/ir_optimize.cpp) on a function as the    *)
(* builder makes it, with parameters and arguments keyed by variables: a   *)
(* parameter that is given one value by all jumps stands for that value.   *)
(* It is repeated here because cleanup records hang on it, which are not   *)
(* rewritten: the record of a parameter that is gone is of no value.       *)
(* (IrOptimize has the pass among the others, and what a function means.)  *)
(***************************************************************************)
EXTENDS Naturals, Sequences, FiniteSets, SequencesExt

TargetsTo(f, b) == {to \in UNION {ToSet(f.blocks[p].end.to) : p \in DOMAIN f.blocks} : to.block = b}

\* What a parameter is given, itself left out.  (All nulls are one value here, and many in the
\* code, where a parameter that is always null may stay: nothing is owned through it either way.)
Given(f, b, v) == {to.args[v] : to \in TargetsTo(f, b)} \ {f.blocks[b].params[v]}

TrivialParams(f, b) ==
    {v \in DOMAIN f.blocks[b].params : b # 1 /\ Cardinality(Given(f, b, v)) = 1}

Without(map, keys) == [v \in DOMAIN map \ keys |-> map[v]]

\* Replacements of replacements are followed to their end.
Substitution(f, drop) ==
    LET at(value) == {e \in UNION {{b} \X drop[b] : b \in DOMAIN drop} : f.blocks[e[1]].params[e[2]] = value}
        root[value \in 0 .. f.next - 1] ==
            IF at(value) = {} THEN value
            ELSE LET e == CHOOSE x \in at(value) : TRUE IN root[CHOOSE a \in Given(f, e[1], e[2]) : TRUE]
    IN  root

Dropping(f, drop, subst) ==
    LET NewCode(code) == [k \in DOMAIN code |-> [code[k] EXCEPT !.value = subst[@]]]
        NewTo(to) == [to EXCEPT !.args = [v \in DOMAIN @ \ drop[to.block] |-> subst[@[v]]]]
    IN  [f EXCEPT !.blocks = [b \in DOMAIN @ |->
            [params |-> Without(@[b].params, drop[b]),
             code   |-> NewCode(@[b].code),
             end    |-> [@[b].end EXCEPT !.to = [k \in DOMAIN @ |-> NewTo(@[k])]]]]]

\* One pass, and passes until one finds nothing.  (Quantified variables are evaluated once.)
RECURSIVE RunTrivialBlockArgElim(_)
RunTrivialBlockArgElim(f) ==
    CHOOSE g \in {IF \A b \in DOMAIN drop : drop[b] = {} THEN f
                  ELSE CHOOSE h \in {RunTrivialBlockArgElim(Dropping(f, drop, subst)) :
                                        subst \in {[value \in 0 .. f.next - 1 |-> Substitution(f, drop)[value]]}} : TRUE :
                     drop \in {[b \in DOMAIN f.blocks |-> TrivialParams(f, b)]}} : TRUE
=============================================================================
