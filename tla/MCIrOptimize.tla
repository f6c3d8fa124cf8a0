---------------------------- MODULE MCIrOptimize ----------------------------
(***************************************************************************)
(* Functions as gen_if_stmt, gen_while_stmt, gen_try_stmt and              *)
(* gen_binary_expr lay their blocks out, with everything small in them:    *)
(* value 1 is a condition, value 2 a number, both parameters.              *)
(***************************************************************************)
EXTENDS IrOptimize

I(op, to, args) == [op |-> op, to |-> to, args |-> args, data |-> 0]
Number(to, n)   == [op |-> "int", to |-> to, args |-> <<>>, data |-> n]
Truth(to, n)    == [op |-> "bool", to |-> to, args |-> <<>>, data |-> n]
To(b, args)     == [block |-> b, args |-> args]
Goto(b, args)   == [kind |-> "goto", on |-> 0, to |-> <<To(b, args)>>]
Branch(v, t, e) == [kind |-> "branch", on |-> v, to |-> <<t, e>>]
Return(v)       == [kind |-> "return", on |-> v, to |-> <<>>]
Unreachable     == [kind |-> "unreachable", on |-> 0, to |-> <<>>]
B(params, code, end) == [params |-> params, code |-> code, end |-> end]
F(values, blocks) ==
    [params |-> <<1, 2>>, blocks |-> blocks, handlers |-> <<>>, records |-> <<>>, values |-> values]

\* Expressions: every pair of operations on the parameter, constants and what was computed before.
Straight ==
    {F(6, <<B(<<>>, <<a, b, c, I("call", 6, <<5>>)>>, Return(4))>>) :
        a \in {Number(3, n) : n \in {-1, 0, 1, 2}} \cup {I("copy", 3, <<2>>), I("load", 3, <<>>)},
        b \in {I(op, 4, args) : op \in ArithmeticOps \ {"equal"}, args \in {<<2, 3>>, <<3, 2>>, <<3, 3>>}}
                 \cup {I("call", 4, <<3>>)},
        c \in {I(op, 5, args) : op \in {"add", "mul", "sub", "div", "equal"}, args \in {<<2, 3>>, <<3, 4>>, <<4, 4>>}}
                 \cup {I("load", 5, <<>>), I("copy", 5, <<4>>)}}

\* Conditions, computed as value 4 behind value 3.
Conditions == {<<Number(3, 1), Truth(4, 0)>>, <<Number(3, 1), Truth(4, 1)>>, <<Number(3, 1), I("copy", 4, <<1>>)>>,
               <<Number(3, 1), I("less", 4, <<2, 3>>)>>, <<Truth(3, 1), I("copy", 4, <<3>>)>>,
               <<Number(3, 1), I("less", 4, <<3, 3>>)>>}

\* What an arm does before it goes on, computing value v.
Arms(v) == {<<I("add", v, <<2, 3>>)>>, <<I("call", v, <<2>>)>>, <<Number(v, 1), I("store", 0, <<v>>)>>}

\* if (4) { x = 5; } else { x = 6; }, memory read on both sides of it
IfElse ==
    {F(11, <<B(<<>>, cond \o <<I("load", 8, <<>>)>>, Branch(4, To(2, <<>>), To(3, <<>>))),
             B(<<>>, then, Goto(4, <<r>>)), B(<<>>, other, Goto(4, <<s>>)),
             B(<<7>>, <<I("load", 9, <<>>), I("store", 0, <<7>>), I("call", 10, <<8>>), I("call", 11, <<9>>)>>,
               Return(7))>>) :
        cond \in Conditions, then \in Arms(5), other \in Arms(6), r \in {2, 5}, s \in {2, 6}}

\* while (5 < 3) { 5 = 5 + 1; 6 = ... }
Loop ==
    {F(12, <<B(<<>>, <<Number(3, 2), Number(4, 1)>>, Goto(2, <<start, 2>>)),
             B(<<5, 6>>, <<test>>, Branch(7, To(3, <<>>), To(4, <<>>))),
             B(<<>>, body \o <<I("add", 8, <<5, 4>>), I("add", 11, <<5, 4>>)>>, Goto(2, <<last, back>>)),
             B(<<>>, <<I("call", 10, <<6>>), I("load", 12, <<>>), I("call", 9, <<12>>)>>, Return(5))>>) :
        start \in {2, 4}, test \in {I("less", 7, <<5, 3>>), Truth(7, 0)}, last \in {8, 11}, back \in {2, 6, 8},
        body \in {<<>>, <<I("store", 0, <<6>>)>>}}

-----------------------------------------------------------------------------
(***************************************************************************)
(* try { ... } catch: the block behind it is the second, the try's are     *)
(* next.  The catch goes on behind the try, and no block of the try is     *)
(* unreachable: what becomes of the handler otherwise is in the README,    *)
(* section 5.                                                              *)
(***************************************************************************)

Try(values, before, after, body, catch, records) ==
    [F(values, <<B(<<>>, before, Goto(3, <<>>)), after>> \o body \o <<catch>>) EXCEPT
        !.handlers = <<[body |-> 3 .. 2 + Len(body), handler |-> 3 + Len(body)]>>, !.records = records]

CatchGoesOn == {B(<<8>>, code, Goto(2, <<w>>)) : code \in {<<>>, <<I("call", 9, <<3>>)>>}, w \in {2, 3}}

After == B(<<7>>, <<I("add", 10, <<2, 3>>), I("call", 11, <<10>>)>>, Return(7))

TryPlain ==
    {Try(12, <<Number(3, 1), I("call", 12, <<2>>)>>, After, <<B(<<>>, <<a, I("call", 5, <<2>>)>>, end)>>, catch, <<>>) :
        a \in {I("call", 4, <<2>>), I("add", 4, <<2, 3>>)}, end \in {Goto(2, <<4>>), Goto(2, <<2>>)},
        catch \in CatchGoesOn}
    \cup
    {Try(12, <<Number(3, 1), I("call", 12, <<2>>)>>, After, <<B(<<>>, <<a, I("call", 5, <<2>>)>>, Return(4))>>, catch, <<>>) :
        a \in {I("call", 4, <<2>>), I("add", 4, <<2, 3>>)}, catch \in CatchGoesOn}

\* try { if (1) { ... } }
TryWithIf ==
    {Try(12, <<Number(3, 1), I("call", 12, <<2>>)>>, After,
         <<B(<<>>, <<I("call", 4, <<2>>)>>, Branch(1, To(4, <<>>), To(5, <<2>>))),
           B(<<>>, <<I("call", 5, <<3>>)>>, then), B(<<6>>, <<>>, Goto(2, <<6>>))>>, catch, <<>>) :
        then \in {Goto(5, <<2>>), Goto(5, <<3>>), Return(3)}, catch \in CatchGoesOn}

\* An owner of the function, and one of the try.
TryOwners ==
    {Try(12, <<Number(3, 1), I("make", 5, <<>>)>>, B(<<7>>, <<I("call", 10, <<7>>), I("release", 0, <<5>>)>>, Return(7)),
         <<B(<<>>, <<I("make", 6, <<>>), I("call", 4, <<2>>), I("release", 0, <<6>>), I("call", 11, <<2>>)>>, Goto(2, <<4>>))>>,
         B(<<8>>, <<I("call", 9, <<3>>)>>, Goto(2, <<2>>)),
         <<[value |-> 5, from |-> 1, upto |-> 2, before |-> FALSE],
           [value |-> 6, from |-> 3, upto |-> 3, before |-> FALSE]>>)}

\* if (4) ... with an owner around it.  An arm falls through, returns or throws.
Arm(v, b, end) ==
    CASE end = "falls"   -> B(<<>>, <<I("call", v, <<2>>)>>, Goto(b, <<>>))
      [] end = "returns" -> B(<<>>, <<I("call", v, <<2>>), I("release", 0, <<5>>)>>, Return(2))
      [] end = "throws"  -> B(<<>>, <<I("throw", 0, <<2>>)>>, Unreachable)

Owner ==
    {[F(9, <<B(<<>>, <<I("make", 5, <<>>)>> \o cond, Branch(4, To(2, <<>>), To(3, <<>>))),
             Arm(6, 4, then), Arm(7, 4, other),
             B(<<>>, <<I("call", 8, <<2>>), I("release", 0, <<5>>)>>, Return(2))>>)
        EXCEPT !.records = <<[value |-> 5, from |-> 1, upto |-> 4, before |-> FALSE]>>] :
        cond \in Conditions, then \in {"falls", "returns", "throws"}, other \in {"falls", "returns", "throws"}}

\* 4 && f(make()): what the right side makes is released behind the merge
AndTemporary ==
    {[F(9, <<B(<<>>, cond \o <<Truth(9, 0)>>, Branch(4, To(2, <<>>), To(3, <<9>>))),
             B(<<>>, <<I("make", 6, <<>>), I("call", 7, <<2>>)>>, Goto(3, <<1>>)),
             B(<<5>>, <<I("call", 8, <<5>>), I("release", 0, <<6>>)>>, Return(5))>>)
        EXCEPT !.records = <<[value |-> 6, from |-> 2, upto |-> 3, before |-> FALSE]>>] : cond \in Conditions}

SourcesValue ==
    Straight \cup IfElse \cup Loop \cup TryPlain \cup TryWithIf \cup TryOwners \cup Owner \cup AndTemporary

InputsValue == [args : {<<c, x>> : c \in {0, 1}, x \in {0, 3}}, throwing : 0 .. 2]
=============================================================================
