----------------------------- MODULE MCLowering -----------------------------
(* Functions for Lowering: what the compiler's front end makes of small       *)
(* programs (block and value numbers as it gives them, blocks from one), and  *)
(* others written down directly, for spilling and the constant pool.          *)
EXTENDS Lowering

I(op, v, uses) ==
    [b |-> 0, op |-> op, def |-> v, uses |-> uses, takes |-> {}, to |-> <<>>]
Takes(v, uses, taken) == [I("call", v, uses) EXCEPT !.takes = taken]

To(b, args) == [block |-> b, args |-> args]
Goto(b, args) == [I("goto", None, <<>>) EXCEPT !.to = <<To(b, args)>>]
Branch(v, b, args, c, brgs) ==
    [I("branch", None, <<v>>) EXCEPT !.to = <<To(b, args), To(c, brgs)>>]
Ret(v) == [I("return", None, <<v>>) EXCEPT !.takes = {v}]
Stop == I("stop", None, <<>>)
B(params, insts, term) == [params |-> params, insts |-> insts, term |-> term]

Record(kind, v, from, to) ==
    [kind |-> kind, value |-> v, start |-> from, end |-> to,
     before |-> FALSE, whole |-> FALSE, borrow |-> FALSE]
Before(kind, v, from, to) == [Record(kind, v, from, to) EXCEPT !.before = TRUE]
Borrow(kind, v, from, to) == [Record(kind, v, from, to) EXCEPT !.borrow = TRUE]
Whole(v) == [Record("dec", v, 1, 1) EXCEPT !.whole = TRUE]

\* fun nest: a value computed before two loops and read inside them.
Nested ==
    [params |-> <<0>>, wide |-> {},
     blocks |-> <<
        B(<<>>,
          <<I("const", 1, <<>>), I("const", 3, <<>>), I("rk", 4, <<0, 3>>)>>,
          Goto(2, <<1, 1>>)),
        B(<<5, 6>>,
          <<I("compare", 7, <<6, 0>>)>>,
          Branch(7, 4, <<>>, 3, <<>>)),
        B(<<>>,
          <<>>,
          Ret(5)),
        B(<<>>,
          <<I("const", 8, <<>>), I("rk", 9, <<6, 4>>)>>,
          Goto(5, <<5, 8>>)),
        B(<<10, 11>>,
          <<I("compare", 12, <<11, 6>>)>>,
          Branch(12, 7, <<>>, 6, <<>>)),
        B(<<>>,
          <<I("const", 16, <<>>), I("rk", 17, <<6, 16>>)>>,
          Goto(2, <<10, 17>>)),
        B(<<>>,
          <<I("rk", 13, <<10, 9>>), I("const", 14, <<>>), I("rk", 15, <<11, 14>>)>>,
          Goto(5, <<13, 15>>))>>,
     cleanup |-> <<>>,
     handlers |-> <<>>]

\* fun weakly: a call in a loop, with a weak parameter (two registers).
Weakly ==
    [params |-> <<0, 1>>, wide |-> {0},
     blocks |-> <<
        B(<<>>,
          <<I("const", 2, <<>>)>>,
          Goto(2, <<2, 2>>)),
        B(<<4, 5>>,
          <<I("compare", 6, <<5, 1>>)>>,
          Branch(6, 4, <<>>, 3, <<>>)),
        B(<<>>,
          <<>>,
          Ret(4)),
        B(<<>>,
          <<I("call", 7, <<0, 5>>), I("rk", 8, <<4, 7>>), I("const", 9, <<>>),
            I("rk", 10, <<5, 9>>)>>,
          Goto(2, <<8, 10>>))>>,
     cleanup |-> <<>>,
     handlers |-> <<>>]

\* fun twice: two calls, the weak parameter on top.
Twice ==
    [params |-> <<0, 1>>, wide |-> {1},
     blocks |-> <<
        B(<<>>,
          <<I("call", 2, <<1, 0>>), I("call", 3, <<1, 2>>)>>,
          Ret(3))>>,
     cleanup |-> <<>>,
     handlers |-> <<>>]

\* fun h: a comparison carried around a loop as a value, one folded into its branch.
Tested ==
    [params |-> <<0, 1>>, wide |-> {},
     blocks |-> <<
        B(<<>>,
          <<I("compare", 2, <<0, 1>>), I("const", 3, <<>>)>>,
          Goto(2, <<3, 2>>)),
        B(<<4, 5>>,
          <<>>,
          Branch(5, 6, <<>>, 3, <<>>)),
        B(<<>>,
          <<>>,
          Branch(5, 5, <<>>, 4, <<4>>)),
        B(<<9>>,
          <<>>,
          Ret(9)),
        B(<<>>,
          <<I("const", 10, <<>>)>>,
          Goto(4, <<10>>)),
        B(<<>>,
          <<I("const", 6, <<>>), I("rk", 7, <<4, 6>>), I("compare", 8, <<7, 1>>)>>,
          Goto(2, <<7, 8>>))>>,
     cleanup |-> <<>>,
     handlers |-> <<>>]

\* fun f: `a < b || c < b`, a comparison read by a jump and by the branch before it.
Either ==
    [params |-> <<0, 1, 2>>, wide |-> {},
     blocks |-> <<
        B(<<>>,
          <<I("compare", 3, <<0, 1>>), I("make", 5, <<>>)>>,
          Branch(3, 3, <<5>>, 2, <<>>)),
        B(<<>>,
          <<I("compare", 6, <<2, 1>>)>>,
          Goto(3, <<6>>)),
        B(<<4>>,
          <<>>,
          Ret(4))>>,
     cleanup |-> <<>>,
     handlers |-> <<>>]

\* fun outside: an owned local, and a try in a loop that uses it.
Outside ==
    [params |-> <<0>>, wide |-> {},
     blocks |-> <<
        B(<<>>,
          <<I("new", 1, <<>>), I("const", 2, <<>>), I("store", 3, <<1, 2>>),
            I("const", 5, <<>>)>>,
          Goto(4, <<5, 5>>)),
        B(<<17>>,
          <<I("load", 18, <<17>>), I("delete", 19, <<17>>), I("nullify", 20, <<17>>)>>,
          Goto(3, <<18>>)),
        B(<<10>>,
          <<I("const", 21, <<>>), I("rk", 22, <<8, 21>>)>>,
          Goto(4, <<10, 22>>)),
        B(<<7, 8>>,
          <<I("compare", 9, <<8, 0>>)>>,
          Branch(9, 6, <<>>, 5, <<>>)),
        B(<<>>,
          <<I("delete", 23, <<1>>), I("nullify", 24, <<1>>)>>,
          Ret(7)),
        B(<<>>,
          <<>>,
          Goto(7, <<>>)),
        B(<<>>,
          <<I("load", 11, <<1>>), I("inc", 12, <<11>>), I("call", 13, <<1, 8>>),
            I("dec", 14, <<11>>), I("nullify", 15, <<11>>), I("rk", 16, <<7, 13>>)>>,
          Goto(3, <<16>>))>>,
     cleanup |-> <<Record("delete", 17, 2, 2),
                  Record("delete", 1, 1, 5),
                  Borrow("dec", 11, 7, 7)>>,
     handlers |-> <<[block |-> 2, body |-> {7}, all |-> FALSE]>>]

\* fun inside: an owned local of a try, a throw laid out behind its end.
Inside ==
    [params |-> <<0>>, wide |-> {},
     blocks |-> <<
        B(<<>>,
          <<>>,
          Goto(2, <<>>)),
        B(<<>>,
          <<I("new", 3, <<>>), I("const", 4, <<>>), I("store", 5, <<3, 4>>),
            I("load", 7, <<3>>), I("inc", 8, <<7>>), I("call", 9, <<3, 0>>),
            I("dec", 10, <<7>>), I("nullify", 11, <<7>>), I("const", 12, <<>>),
            I("compare", 13, <<0, 12>>)>>,
          Branch(13, 4, <<>>, 3, <<>>)),
        B(<<>>,
          <<I("load", 20, <<3>>), I("rk", 21, <<9, 20>>), I("delete", 22, <<3>>),
            I("nullify", 23, <<3>>)>>,
          Goto(6, <<21>>)),
        B(<<>>,
          <<I("make", 14, <<>>), I("const", 15, <<>>), I("store", 16, <<14, 15>>),
            I("new", 17, <<>>), I("store", 18, <<17, 14>>), I("throw", 19, <<17>>)>>,
          Stop),
        B(<<24>>,
          <<I("delete", 25, <<24>>), I("nullify", 26, <<24>>)>>,
          Goto(6, <<0>>)),
        B(<<2>>,
          <<>>,
          Ret(2))>>,
     cleanup |-> <<Record("delete", 3, 2, 3),
                  Record("delete", 24, 5, 5),
                  Borrow("dec", 7, 2, 2)>>,
     handlers |-> <<[block |-> 5, body |-> {2, 4, 3}, all |-> FALSE]>>]

\* fun c: a throw laid out behind the normal exit of its scope.
PastTheExit ==
    [params |-> <<0>>, wide |-> {},
     blocks |-> <<
        B(<<>>,
          <<I("new", 1, <<>>), I("const", 2, <<>>), I("store", 3, <<1, 2>>),
            I("load", 6, <<1>>), I("const", 7, <<>>), I("compare", 8, <<0, 7>>)>>,
          Branch(8, 3, <<>>, 2, <<>>)),
        B(<<>>,
          <<I("load", 15, <<1>>), I("rk", 16, <<6, 15>>), I("delete", 17, <<1>>),
            I("nullify", 18, <<1>>)>>,
          Ret(16)),
        B(<<>>,
          <<I("make", 9, <<>>), I("const", 10, <<>>), I("store", 11, <<9, 10>>),
            I("new", 12, <<>>), I("store", 13, <<12, 9>>), I("throw", 14, <<12>>)>>,
          Stop)>>,
     cleanup |-> <<Record("delete", 1, 1, 2)>>,
     handlers |-> <<>>]

\* fun rebind: the owned local gets another object in one branch.
Rebound ==
    [params |-> <<0>>, wide |-> {},
     blocks |-> <<
        B(<<>>,
          <<I("call", 1, <<0>>), I("const", 3, <<>>), I("compare", 4, <<0, 3>>)>>,
          Branch(4, 3, <<>>, 2, <<1>>)),
        B(<<5>>,
          <<I("call", 12, <<0>>), I("load", 13, <<5>>), I("delete", 14, <<5>>),
            I("nullify", 15, <<5>>)>>,
          Ret(13)),
        B(<<>>,
          <<I("const", 6, <<>>), I("rk", 7, <<0, 6>>), I("call", 8, <<7>>),
            I("delete", 9, <<1>>), I("nullify", 10, <<1>>)>>,
          Goto(2, <<8>>))>>,
     cleanup |-> <<Record("delete", 8, 3, 3),
                  Before("delete", 1, 1, 2),
                  Record("delete", 5, 2, 2)>>,
     handlers |-> <<>>]

\* fun giveback: the owned local is returned, or lost to a throw.
GivenBack ==
    [params |-> <<0>>, wide |-> {},
     blocks |-> <<
        B(<<>>,
          <<I("call", 1, <<0>>), I("const", 3, <<>>), I("compare", 4, <<0, 3>>)>>,
          Branch(4, 3, <<>>, 2, <<>>)),
        B(<<>>,
          <<>>,
          Ret(1)),
        B(<<>>,
          <<I("make", 5, <<>>), I("const", 6, <<>>), I("store", 7, <<5, 6>>),
            I("new", 8, <<>>), I("store", 9, <<8, 5>>), I("throw", 10, <<8>>)>>,
          Stop)>>,
     cleanup |-> <<Record("delete", 1, 1, 2)>>,
     handlers |-> <<>>]

\* fun fin: a finally around a call.
Final ==
    [params |-> <<0>>, wide |-> {},
     blocks |-> <<
        B(<<>>,
          <<I("call", 1, <<0>>)>>,
          Goto(2, <<>>)),
        B(<<>>,
          <<I("call", 5, <<0>>), I("load", 6, <<1>>), I("rk", 7, <<5, 6>>)>>,
          Goto(3, <<>>)),
        B(<<>>,
          <<I("delete", 11, <<1>>), I("nullify", 12, <<1>>)>>,
          Ret(7)),
        B(<<8>>,
          <<I("throw", 10, <<8>>)>>,
          Stop)>>,
     cleanup |-> <<Record("delete", 1, 1, 3)>>,
     handlers |-> <<[block |-> 4, body |-> {2}, all |-> TRUE]>>]

\* fun borrow: a ref parameter.
Borrowed ==
    [params |-> <<0, 1>>, wide |-> {},
     blocks |-> <<
        B(<<>>,
          <<I("inc", 2, <<0>>), I("const", 3, <<>>), I("compare", 4, <<1, 3>>)>>,
          Branch(4, 3, <<>>, 2, <<>>)),
        B(<<>>,
          <<I("load", 11, <<0>>), I("dec", 12, <<0>>)>>,
          Ret(11)),
        B(<<>>,
          <<I("make", 5, <<>>), I("const", 6, <<>>), I("store", 7, <<5, 6>>),
            I("new", 8, <<>>), I("store", 9, <<8, 5>>), I("throw", 10, <<8>>)>>,
          Stop)>>,
     cleanup |-> <<Whole(0)>>,
     handlers |-> <<>>]

\* fun str: two locals with one string.
Shared ==
    [params |-> <<0>>, wide |-> {},
     blocks |-> <<
        B(<<>>,
          <<I("native", 1, <<0>>), I("retain", 2, <<1>>), I("call", 3, <<0>>),
            I("native", 4, <<1>>), I("release", 5, <<1>>), I("nullify", 6, <<1>>),
            I("release", 7, <<1>>), I("nullify", 8, <<1>>)>>,
          Ret(0))>>,
     cleanup |-> <<Record("release", 1, 1, 1),
                  Record("release", 1, 1, 1)>>,
     handlers |-> <<>>]

\* fun swap: two variables exchanged in a loop.
Swapped ==
    [params |-> <<0>>, wide |-> {},
     blocks |-> <<
        B(<<>>,
          <<I("const", 1, <<>>), I("const", 2, <<>>), I("const", 3, <<>>)>>,
          Goto(2, <<1, 2, 3>>)),
        B(<<4, 5, 6>>,
          <<I("compare", 7, <<6, 0>>)>>,
          Branch(7, 4, <<>>, 3, <<>>)),
        B(<<>>,
          <<I("const", 10, <<>>), I("rk", 11, <<4, 10>>), I("rk", 12, <<11, 5>>)>>,
          Ret(12)),
        B(<<>>,
          <<I("const", 8, <<>>), I("rk", 9, <<6, 8>>)>>,
          Goto(2, <<5, 4, 9>>))>>,
     cleanup |-> <<>>,
     handlers |-> <<>>]

\* fun b: an owned local and a try in the body of a loop.
LocalOfALoop ==
    [params |-> <<0>>, wide |-> {},
     blocks |-> <<
        B(<<>>,
          <<I("const", 1, <<>>)>>,
          Goto(5, <<1, 1>>)),
        B(<<24>>,
          <<I("load", 25, <<24>>), I("rk", 26, <<3, 25>>), I("delete", 27, <<24>>),
            I("nullify", 28, <<24>>)>>,
          Goto(3, <<26>>)),
        B(<<9>>,
          <<I("const", 29, <<>>), I("compare", 30, <<4, 29>>)>>,
          Branch(30, 11, <<>>, 4, <<>>)),
        B(<<>>,
          <<I("const", 37, <<>>), I("rk", 38, <<4, 37>>), I("delete", 39, <<6>>),
            I("nullify", 40, <<6>>)>>,
          Goto(5, <<9, 38>>)),
        B(<<3, 4>>,
          <<I("compare", 5, <<4, 0>>)>>,
          Branch(5, 7, <<>>, 6, <<>>)),
        B(<<>>,
          <<>>,
          Ret(3)),
        B(<<>>,
          <<I("new", 6, <<>>), I("store", 7, <<6, 4>>)>>,
          Goto(8, <<>>)),
        B(<<>>,
          <<I("load", 10, <<6>>), I("inc", 11, <<10>>), I("call", 12, <<6, 4>>),
            I("dec", 13, <<10>>), I("nullify", 14, <<10>>), I("rk", 15, <<3, 12>>),
            I("const", 16, <<>>), I("compare", 17, <<4, 16>>)>>,
          Branch(17, 10, <<>>, 9, <<>>)),
        B(<<>>,
          <<>>,
          Goto(3, <<15>>)),
        B(<<>>,
          <<I("make", 18, <<>>), I("const", 19, <<>>), I("store", 20, <<18, 19>>),
            I("new", 21, <<>>), I("store", 22, <<21, 18>>), I("throw", 23, <<21>>)>>,
          Stop),
        B(<<>>,
          <<I("make", 31, <<>>), I("const", 32, <<>>), I("store", 33, <<31, 32>>),
            I("new", 34, <<>>), I("store", 35, <<34, 31>>), I("throw", 36, <<34>>)>>,
          Stop)>>,
     cleanup |-> <<Record("delete", 24, 2, 2),
                  Record("delete", 6, 7, 4),
                  Borrow("dec", 10, 8, 8)>>,
     handlers |-> <<[block |-> 2, body |-> {8, 10, 9}, all |-> FALSE]>>]

\* fun a: a call that throws, then a local borrow of a ref parameter.
NotYetBorrowed ==
    [params |-> <<0, 1>>, wide |-> {},
     blocks |-> <<
        B(<<>>,
          <<I("inc", 2, <<0>>), I("call", 3, <<1>>), I("inc", 4, <<0>>),
            I("load", 5, <<0>>), I("rk", 6, <<3, 5>>), I("dec", 7, <<0>>),
            I("nullify", 8, <<0>>), I("dec", 9, <<0>>)>>,
          Ret(6))>>,
     cleanup |-> <<Record("dec", 0, 1, 1),
                  Whole(0)>>,
     handlers |-> <<>>]

\* Six values, four of them needed only behind a loop of two parameters.
Spilled ==
    [params |-> <<0>>, wide |-> {},
     blocks |-> <<
        B(<<>>,
          <<I("rk", 1, <<0, 0>>), I("rk", 2, <<1, 0>>), I("rk", 3, <<2, 0>>),
            I("rk", 4, <<3, 0>>), I("rk", 5, <<4, 0>>), I("rk", 6, <<5, 0>>)>>,
          Goto(2, <<1, 2>>)),
        B(<<7, 8>>,
          <<I("compare", 9, <<7, 0>>)>>,
          Branch(9, 3, <<>>, 4, <<>>)),
        B(<<>>,
          <<I("rk", 10, <<7, 8>>), I("call", 11, <<10, 0>>)>>,
          Goto(2, <<10, 11>>)),
        B(<<>>,
          <<I("rk", 12, <<4, 5>>), I("store", 13, <<3, 6>>), I("rk", 14, <<12, 6>>),
            I("load", 15, <<5>>), I("rkl", 16, <<15, 14>>), I("native", 17, <<4, 16>>)>>,
          Ret(17))>>,
     cleanup |-> <<>>,
     handlers |-> <<>>]

\* Constants on either side of operations, more than the operands can name.
PoolFull ==
    [params |-> <<0>>, wide |-> {},
     blocks |-> <<
        B(<<>>,
          <<I("const", 1, <<>>), I("const", 2, <<>>), I("const", 3, <<>>),
            I("rk", 4, <<1, 0>>), I("rkl", 5, <<0, 2>>), I("rkl", 6, <<3, 0>>),
            I("rk", 7, <<5, 2>>), I("rk", 8, <<1, 3>>)>>,
          Ret(8))>>,
     cleanup |-> <<>>,
     handlers |-> <<>>]

\* A call that returns two registers, and values enough behind it to spill.
Halved ==
    [params |-> <<0>>, wide |-> {5},
     blocks |-> <<
        B(<<>>,
          <<I("rk", 1, <<0, 0>>), I("rk", 2, <<0, 1>>), I("rk", 3, <<1, 2>>),
            I("store", 4, <<3, 0>>), I("call", 5, <<0>>), I("rk", 6, <<0, 0>>),
            I("rk", 7, <<0, 6>>), I("rk", 8, <<6, 7>>), I("rk", 9, <<7, 8>>),
            I("rk", 10, <<6, 7>>), I("rk", 11, <<8, 9>>), I("rk", 12, <<10, 11>>),
            I("store", 13, <<5, 12>>)>>,
          Ret(12))>>,
     cleanup |-> <<>>,
     handlers |-> <<>>]

\* Two values computed early and read late, and a value that dies between them.
Early ==
    [params |-> <<0>>, wide |-> {},
     blocks |-> <<
        B(<<>>,
          <<I("rk", 1, <<0, 0>>), I("rk", 2, <<0, 0>>), I("rk", 3, <<1, 0>>),
            I("rk", 4, <<3, 0>>), I("rk", 5, <<0, 0>>), I("rk", 6, <<0, 5>>),
            I("rk", 7, <<5, 6>>), I("rk", 8, <<6, 7>>), I("rk", 9, <<7, 8>>),
            I("rk", 10, <<5, 6>>), I("rk", 11, <<7, 8>>), I("rk", 12, <<9, 10>>),
            I("rk", 13, <<11, 12>>), I("store", 14, <<2, 13>>), I("store", 15, <<4, 13>>)>>,
          Ret(13))>>,
     cleanup |-> <<>>,
     handlers |-> <<>>]

\* A jump past a block that spills what the jump has written.
Far ==
    [params |-> <<0>>, wide |-> {},
     blocks |-> <<
        B(<<>>,
          <<I("make", 1, <<>>), I("make", 2, <<>>), I("compare", 3, <<1, 2>>)>>,
          Branch(3, 3, <<2, 1>>, 2, <<>>)),
        B(<<>>,
          <<I("make", 5, <<>>), I("rk", 6, <<5, 5>>), I("rk", 7, <<5, 6>>),
            I("rk", 8, <<6, 7>>), I("rk", 9, <<7, 8>>), I("rk", 10, <<5, 6>>),
            I("rk", 11, <<7, 8>>), I("rk", 12, <<9, 10>>), I("rk", 13, <<11, 12>>)>>,
          Ret(13)),
        B(<<20, 21>>,
          <<I("store", 22, <<20, 21>>)>>,
          Ret(20))>>,
     cleanup |-> <<>>,
     handlers |-> <<>>]

\* A parameter that is read last, behind more values than there are registers.
LateParameter ==
    [params |-> <<0>>, wide |-> {},
     blocks |-> <<
        B(<<>>,
          <<I("make", 1, <<>>), I("make", 2, <<>>), I("make", 3, <<>>), I("make", 4, <<>>),
            I("rk", 5, <<1, 2>>), I("rk", 6, <<3, 4>>), I("rk", 7, <<5, 6>>)>>,
          Ret(0))>>,
     cleanup |-> <<>>,
     handlers |-> <<>>]

In(n, S) == {[fn |-> f, limit |-> n] : f \in S}

Compiled ==
    In(13, {Nested, Weakly, Twice, Tested, Either, Outside, Inside, PastTheExit, Rebound, GivenBack,
            Final, Borrowed, Shared})
    \union UNION {In(n, {Spilled}) : n \in 8 .. 12}
    \union UNION {In(n, {PoolFull}) : n \in 2 .. 5}

\* What the violation is seen on.
Swaps == In(13, {Swapped})

\* Given to Function in the place of Compiled, these show what the README says of
\* them (section 5).
LosesALocal == In(13, {LocalOfALoop})
BorrowsLate == In(13, {NotYetBorrowed})
LosesAHalf == In(6, {Halved})
ReloadsTooEarly == In(7, {Early})
PassesTwice == In(7, {Far})
LosesAParameter == In(5, {LateParameter})

=============================================================================
