---------------------------- MODULE MCInterpreter ----------------------------
(***************************************************************************)
(* Programs for the interpreter, as the compiler of this repository        *)
(* compiles them (roxy --dump-bc): the offsets, registers, handlers and    *)
(* cleanup records are the compiler's.  Instructions on numbers, strings   *)
(* and struct fields that only read or write numbers are left out, so that *)
(* offsets have gaps.  Positions in lists and in descs count from 1.       *)
(***************************************************************************)
EXTENDS Interpreter, TLC

LOAD(a) == [op |-> "load", a |-> a]
MOV(a, b) == [op |-> "mov", a |-> a, b |-> b]
JMP(to) == [op |-> "jmp", to |-> to]
BRANCH(to) == [op |-> "branch", to |-> to]
DIV(a) == [op |-> "div", a |-> a]
CALL(a, f) == [op |-> "call", a |-> a, fn |-> f]
RET(a) == [op |-> "ret", a |-> a]
RET_VOID == [op |-> "ret_void"]
NEW_OBJ(a, type) == [op |-> "new", a |-> a, type |-> type]
DEL_OBJ(a) == [op |-> "del_obj", a |-> a]
DELETE(a, desc) == [op |-> "delete", a |-> a, desc |-> desc]
REF_INC(a) == [op |-> "ref_inc", a |-> a]
REF_DEC(a) == [op |-> "ref_dec", a |-> a]
PIN(a) == [op |-> "pin", a |-> a]
UNPIN(a) == [op |-> "unpin", a |-> a]
PUSH(a) == [op |-> "push", a |-> a]
INDEX_ADDR(a, b, at) == [op |-> "index_addr", a |-> a, b |-> b, at |-> at]
INDEX_GET(a, b, at) == [op |-> "index_get", a |-> a, b |-> b, at |-> at]
INDEX_SET(b, a, at) == [op |-> "index_set", a |-> a, b |-> b, at |-> at]
GET_SLOT(a, b) == [op |-> "get_slot", a |-> a, b |-> b]
SET_SLOT(b, a) == [op |-> "set_slot", a |-> a, b |-> b]
THROW(a) == [op |-> "throw", a |-> a]

Compiled(params, registers, locals, code, handlers, records, descs) ==
    [params |-> params, registers |-> registers, locals |-> locals, code |-> code,
     handlers |-> handlers, records |-> records, descs |-> descs]
Handler(from, to, at, type, reg) ==
    [from |-> from, to |-> to, at |-> at, type |-> type, reg |-> reg]
Record(kind, reg, from, end, live, desc) ==
    [kind |-> kind, reg |-> reg, from |-> from, end |-> end, live |-> live,
     desc |-> desc, extends |-> FALSE]
Extends(kind, reg, from, end, live, desc) ==
    [Record(kind, reg, from, end, live, desc) EXCEPT !.extends = TRUE]

Owned(destructor) == [cleanup |-> "dtor", fn |-> destructor, elem |-> None, free |-> TRUE]
Plain == [cleanup |-> "none", fn |-> None, elem |-> None, free |-> TRUE]
ListOf(elem) == [cleanup |-> "list", fn |-> None, elem |-> elem, free |-> TRUE]

-----------------------------------------------------------------------------
\* nested: locals that own an object in nested scopes and calls, a `ref' parameter, and
\* a catch clause that throws again.
nested == [
    risky |-> Compiled(1, 3, 2,
        0 :> LOAD(1) @@ 1 :> BRANCH(4) @@ 3 :> JMP(19) @@ 5 :> LOAD(1) @@
        6 :> BRANCH(9) @@ 8 :> JMP(11) @@ 10 :> RET_VOID @@ 11 :> LOAD(0) @@
        12 :> LOAD(1) @@ 15 :> NEW_OBJ(1, "Other") @@ 17 :> THROW(1) @@
        19 :> LOAD(0) @@ 20 :> LOAD(1) @@ 23 :> NEW_OBJ(1, "Err") @@
        25 :> THROW(1),
        <<>>, <<>>, <<>>),
    peek |-> Compiled(1, 4, 0,
        0 :> REF_INC(0) @@ 1 :> LOAD(1) @@ 3 :> MOV(3, 1) @@
        4 :> CALL(2, "risky") @@ 6 :> REF_DEC(0) @@ 7 :> RET_VOID,
        <<>>,
        <<Record("RefDec", 0, 0, 8, 0, None)>>,
        <<>>),
    inner |-> Compiled(1, 5, 0,
        0 :> NEW_OBJ(1, "R") @@ 3 :> MOV(3, 0) @@ 4 :> CALL(2, "risky") @@
        6 :> NEW_OBJ(2, "R") @@ 9 :> MOV(4, 2) @@ 10 :> CALL(3, "peek") @@
        12 :> MOV(4, 0) @@ 13 :> CALL(3, "risky") @@ 15 :> DELETE(2, 1) @@
        16 :> DELETE(1, 1) @@ 17 :> RET_VOID,
        <<>>,
        <<Record("Delete", 1, 0, 17, 2, 1), Record("Delete", 2, 0, 16, 8, 1)>>,
        <<Owned("R_delete")>>),
    work |-> Compiled(1, 8, 0,
        0 :> NEW_OBJ(1, "R") @@ 4 :> NEW_OBJ(2, "R") @@ 7 :> MOV(4, 0) @@
        8 :> CALL(3, "inner") @@ 10 :> MOV(4, 0) @@ 11 :> CALL(3, "risky") @@
        13 :> DELETE(2, 1) @@ 14 :> JMP(20) @@ 15 :> MOV(7, 0) @@
        16 :> CALL(6, "risky") @@ 18 :> DELETE(5, 2) @@ 20 :> MOV(3, 0) @@
        21 :> CALL(2, "risky") @@ 23 :> LOAD(0) @@ 24 :> DELETE(1, 1) @@
        25 :> RET(0),
        <<Handler(4, 15, 15, "Err", 5)>>,
        <<Record("Delete", 2, 4, 14, 6, 1),
          Record("Delete", 5, 15, 19, 15, 2), Record("Delete", 1, 0, 25, 2, 1)>>,
        <<Owned("R_delete"), Plain>>),
    tick |-> Compiled(0, 0, 0,
        0 :> RET_VOID,
        <<>>, <<>>, <<>>),
    R_delete |-> Compiled(1, 3, 0,
        0 :> LOAD(1) @@ 3 :> CALL(0, "tick") @@ 5 :> RET_VOID,
        <<>>, <<>>, <<>>),
    main |-> Compiled(0, 3, 0,
        0 :> LOAD(0) @@ 1 :> MOV(2, 0) @@ 2 :> CALL(1, "work") @@ 4 :> RET(1),
        <<>>, <<>>, <<>>)]

\* rethrow: a clause that rethrows, from a block laid out of order, a moved argument,
\* and a clause that catches everything.
rethrow == [
    risky |-> Compiled(1, 3, 1,
        0 :> LOAD(1) @@ 1 :> BRANCH(4) @@ 3 :> JMP(6) @@ 5 :> RET_VOID @@
        6 :> LOAD(0) @@ 7 :> LOAD(1) @@ 10 :> NEW_OBJ(1, "Err") @@
        12 :> THROW(1),
        <<>>, <<>>, <<>>),
    take |-> Compiled(1, 4, 0,
        0 :> LOAD(1) @@ 1 :> MOV(3, 1) @@ 2 :> CALL(2, "risky") @@
        4 :> DELETE(0, 1) @@ 5 :> RET_VOID,
        <<>>,
        <<Record("Delete", 0, 0, 5, 0, 1)>>,
        <<Owned("R_delete")>>),
    work |-> Compiled(1, 7, 0,
        0 :> NEW_OBJ(1, "R") @@ 4 :> MOV(3, 0) @@ 5 :> CALL(2, "risky") @@
        8 :> MOV(3, 1) @@ 9 :> CALL(2, "take") @@ 11 :> RET_VOID @@
        12 :> LOAD(2) @@ 13 :> BRANCH(16) @@ 15 :> JMP(19) @@
        17 :> THROW(4) @@ 19 :> MOV(6, 0) @@ 20 :> CALL(5, "risky") @@
        22 :> JMP(17),
        <<Handler(4, 8, 12, "Err", 4)>>,
        <<Record("Delete", 4, 12, 19, 12, 1),
          Extends("Delete", 4, 19, 23, 19, 1),
          Record("Delete", 1, 0, 11, 2, 2),
          Extends("Delete", 1, 12, 23, 12, 2)>>,
        <<Plain, Owned("R_delete")>>),
    R_delete |-> Compiled(1, 1, 0,
        0 :> RET_VOID,
        <<>>, <<>>, <<>>),
    main |-> Compiled(0, 6, 0,
        1 :> LOAD(0) @@ 2 :> MOV(2, 0) @@ 3 :> CALL(1, "work") @@
        5 :> JMP(17) @@ 6 :> NEW_OBJ(0, "R") @@ 7 :> LOAD(1) @@
        10 :> LOAD(1) @@ 11 :> MOV(5, 1) @@ 12 :> CALL(4, "risky") @@
        14 :> DELETE(0, 1) @@ 15 :> DEL_OBJ(3) @@ 17 :> LOAD(0) @@
        18 :> RET(0),
        <<Handler(1, 6, 6, None, 3)>>,
        <<Record("Delete", 0, 6, 15, 8, 1), Record("Delete", 3, 6, 16, 6, 2)>>,
        <<Owned("R_delete"), Plain>>)]

\* lends: `touch(inout xs[n], xs, n)': an element lent to a function that replaces
\* it, and that may push on the list meanwhile.
lends == [
    risky |-> Compiled(1, 3, 1,
        0 :> LOAD(1) @@ 1 :> BRANCH(4) @@ 3 :> JMP(6) @@ 5 :> RET_VOID @@
        6 :> LOAD(0) @@ 7 :> LOAD(1) @@ 10 :> NEW_OBJ(1, "Err") @@
        12 :> THROW(1),
        <<>>, <<>>, <<>>),
    touch |-> Compiled(3, 7, 0,
        0 :> REF_INC(1) @@ 1 :> LOAD(3) @@ 2 :> BRANCH(5) @@ 4 :> JMP(24) @@
        6 :> MOV(4, 2) @@ 7 :> CALL(3, "risky") @@ 9 :> NEW_OBJ(3, "R") @@
        10 :> LOAD(4) @@ 11 :> DIV(5) @@ 14 :> GET_SLOT(4, 0) @@
        16 :> DELETE(4, 1) @@ 17 :> SET_SLOT(0, 3) @@ 19 :> MOV(5, 2) @@
        20 :> CALL(4, "risky") @@ 22 :> REF_DEC(1) @@ 23 :> RET_VOID @@
        24 :> NEW_OBJ(3, "R") @@ 27 :> MOV(5, 1) @@ 28 :> MOV(6, 3) @@
        29 :> PUSH(4) @@ 31 :> JMP(6),
        <<>>,
        <<Record("Delete", 3, 24, 27, 26, 1),
          Record("Delete", 3, 6, 19, 11, 1),
          Record("RefDec", 1, 0, 32, 0, None)>>,
        <<Owned("R_delete")>>),
    R_delete |-> Compiled(1, 1, 0,
        0 :> RET_VOID,
        <<>>, <<>>, <<>>),
    main |-> Compiled(1, 18, 0,
        0 :> LOAD(1) @@ 1 :> LOAD(2) @@ 2 :> MOV(4, 1) @@ 3 :> MOV(5, 2) @@
        4 :> NEW_OBJ(3, "List") @@ 6 :> MOV(5, 3) @@ 7 :> LOAD(4) @@
        9 :> NEW_OBJ(6, "R") @@ 12 :> MOV(8, 3) @@ 13 :> MOV(9, 6) @@
        14 :> PUSH(7) @@ 16 :> NEW_OBJ(10, "R") @@ 19 :> MOV(12, 3) @@
        20 :> MOV(13, 10) @@ 21 :> PUSH(11) @@
        24 :> INDEX_ADDR(1, 3, {2, 3}) @@ 25 :> MOV(2, 3) @@ 26 :> PIN(2) @@
        27 :> MOV(12, 1) @@ 28 :> MOV(13, 3) @@ 29 :> MOV(14, 0) @@
        30 :> CALL(11, "touch") @@ 32 :> UNPIN(2) @@ 33 :> JMP(39) @@
        34 :> MOV(17, 0) @@ 35 :> CALL(16, "risky") @@ 37 :> DELETE(15, 1) @@
        39 :> LOAD(0) @@ 40 :> DELETE(3, 2) @@ 41 :> RET(0),
        <<Handler(24, 34, 34, "Err", 15)>>,
        <<Record("Delete", 15, 34, 38, 34, 1),
          Record("Delete", 3, 0, 41, 7, 2),
          Record("Delete", 6, 0, 12, 11, 3),
          Record("Delete", 10, 0, 19, 18, 3),
          Record("Unpin", 2, 26, 33, 26, None)>>,
        <<Plain, ListOf(3), Owned("R_delete")>>)]

\* aliased: `use(xs[0], xs)', which overwrites the element it borrows.
aliased == [
    risky |-> Compiled(1, 3, 1,
        0 :> LOAD(1) @@ 1 :> BRANCH(4) @@ 3 :> JMP(6) @@ 5 :> RET_VOID @@
        6 :> LOAD(0) @@ 7 :> LOAD(1) @@ 10 :> NEW_OBJ(1, "Other") @@
        12 :> THROW(1),
        <<>>, <<>>, <<>>),
    use |-> Compiled(2, 6, 0,
        0 :> REF_INC(0) @@ 1 :> REF_INC(1) @@ 2 :> NEW_OBJ(2, "R") @@
        3 :> LOAD(3) @@ 6 :> LOAD(3) @@ 7 :> INDEX_GET(4, 1, {1}) @@
        8 :> DELETE(4, 1) @@ 9 :> INDEX_SET(1, 2, {1}) @@ 10 :> LOAD(3) @@
        12 :> MOV(5, 3) @@ 13 :> CALL(4, "risky") @@ 15 :> REF_DEC(0) @@
        16 :> REF_DEC(1) @@ 17 :> RET_VOID,
        <<>>,
        <<Record("Delete", 2, 0, 10, 4, 1),
          Record("RefDec", 0, 0, 18, 0, None),
          Record("RefDec", 1, 0, 18, 0, None)>>,
        <<Owned("R_delete")>>),
    R_delete |-> Compiled(1, 1, 0,
        0 :> RET_VOID,
        <<>>, <<>>, <<>>),
    main |-> Compiled(0, 12, 0,
        0 :> LOAD(0) @@ 1 :> LOAD(1) @@ 2 :> MOV(3, 0) @@ 3 :> MOV(4, 1) @@
        4 :> NEW_OBJ(2, "List") @@ 6 :> MOV(4, 2) @@ 7 :> LOAD(3) @@
        9 :> NEW_OBJ(5, "R") @@ 12 :> MOV(7, 2) @@ 13 :> MOV(8, 5) @@
        14 :> PUSH(6) @@ 16 :> LOAD(9) @@ 17 :> MOV(11, 2) @@
        18 :> LOAD(10) @@ 20 :> LOAD(0) @@ 21 :> LOAD(1) @@ 22 :> LOAD(3) @@
        23 :> BRANCH(25) @@ 24 :> JMP(34) @@ 26 :> INDEX_GET(0, 2, {1}) @@
        27 :> MOV(7, 0) @@ 28 :> MOV(8, 2) @@ 29 :> CALL(6, "use") @@
        31 :> LOAD(0) @@ 32 :> DELETE(2, 1) @@ 33 :> RET(0) @@
        34 :> NEW_OBJ(0, "IndexError") @@ 35 :> THROW(0),
        <<>>,
        <<Record("Delete", 2, 0, 33, 7, 1),
          Extends("Delete", 2, 34, 37, 34, 1),
          Record("Delete", 5, 0, 12, 11, 2)>>,
        <<ListOf(2), Owned("R_delete")>>)]

\* eaten: `eat(inout xs[0], xs)': the list is given away while its element is lent.
eaten == [
    eat |-> Compiled(2, 3, 0,
        0 :> DELETE(1, 1) @@ 1 :> RET_VOID,
        <<>>,
        <<Record("Delete", 1, 0, 1, 0, 1)>>,
        <<ListOf(2), Owned("R_delete")>>),
    R_delete |-> Compiled(1, 1, 0,
        0 :> RET_VOID,
        <<>>, <<>>, <<>>),
    main |-> Compiled(0, 10, 0,
        0 :> LOAD(0) @@ 1 :> LOAD(1) @@ 2 :> MOV(3, 0) @@ 3 :> MOV(4, 1) @@
        4 :> NEW_OBJ(2, "List") @@ 6 :> MOV(4, 2) @@ 7 :> LOAD(3) @@
        9 :> NEW_OBJ(0, "R") @@ 12 :> MOV(4, 2) @@ 13 :> MOV(5, 0) @@
        14 :> PUSH(3) @@ 16 :> LOAD(1) @@ 17 :> INDEX_ADDR(3, 2, {1}) @@
        18 :> MOV(6, 2) @@ 19 :> PIN(6) @@ 20 :> MOV(8, 3) @@
        21 :> MOV(9, 2) @@ 22 :> CALL(7, "eat") @@ 24 :> UNPIN(6) @@
        25 :> RET(1),
        <<>>,
        <<Record("Delete", 2, 0, 25, 7, 1),
          Record("Delete", 0, 0, 12, 11, 2),
          Record("Unpin", 6, 19, 25, 19, None)>>,
        <<ListOf(2), Owned("R_delete")>>)]

\* doomed: a destructor that throws while an exception is on its way.
doomed == [
    boom |-> Compiled(0, 3, 1,
        0 :> LOAD(0) @@ 1 :> LOAD(1) @@ 4 :> NEW_OBJ(1, "Err") @@
        6 :> THROW(1),
        <<>>, <<>>, <<>>),
    work |-> Compiled(0, 3, 0,
        0 :> NEW_OBJ(0, "R") @@ 1 :> LOAD(1) @@ 4 :> CALL(1, "boom") @@
        6 :> DELETE(0, 1) @@ 7 :> RET_VOID,
        <<>>,
        <<Record("Delete", 0, 0, 7, 2, 1)>>,
        <<Owned("R_delete")>>),
    R_delete |-> Compiled(1, 2, 0,
        0 :> CALL(1, "boom") @@ 2 :> RET_VOID,
        <<>>, <<>>, <<>>),
    main |-> Compiled(0, 3, 0,
        1 :> CALL(0, "work") @@ 3 :> LOAD(0) @@ 4 :> RET(0) @@
        5 :> LOAD(0) @@ 6 :> DELETE(1, 1) @@ 7 :> RET(0),
        <<Handler(1, 5, 5, "Err", 1)>>,
        <<Record("Delete", 1, 5, 7, 5, 1)>>,
        <<Plain>>)]

\* spin: a recursion without end, of one register a frame.
spin == [
    spin |-> Compiled(0, 1, 0,
        0 :> CALL(0, "spin") @@ 2 :> RET_VOID,
        <<>>, <<>>, <<>>),
    main |-> Compiled(0, 1, 0,
        0 :> CALL(0, "spin") @@ 2 :> LOAD(0) @@ 3 :> RET(0),
        <<>>, <<>>, <<>>)]

\* pile: one with a struct in each frame.
pile == [
    pile |-> Compiled(1, 5, 2,
        0 :> LOAD(1) @@ 3 :> LOAD(0) @@ 6 :> LOAD(0) @@ 8 :> LOAD(2) @@
        10 :> MOV(4, 2) @@ 11 :> CALL(3, "pile") @@ 13 :> LOAD(1) @@
        14 :> RET(1),
        <<>>, <<>>, <<>>),
    main |-> Compiled(1, 4, 2,
        0 :> LOAD(1) @@ 1 :> LOAD(0) @@ 4 :> LOAD(0) @@ 7 :> LOAD(0) @@
        9 :> MOV(3, 0) @@ 10 :> CALL(2, "pile") @@ 12 :> LOAD(0) @@
        14 :> LOAD(1) @@ 15 :> RET(1),
        <<>>, <<>>, <<>>)]

\* wide: one with many registers.
wide == [
    wide |-> Compiled(3, 7, 0,
        0 :> MOV(4, 2) @@ 1 :> MOV(5, 0) @@ 2 :> MOV(6, 1) @@
        3 :> CALL(3, "wide") @@ 5 :> LOAD(1) @@ 6 :> RET(1),
        <<>>, <<>>, <<>>),
    main |-> Compiled(0, 7, 0,
        0 :> LOAD(0) @@ 1 :> LOAD(1) @@ 2 :> LOAD(2) @@ 3 :> MOV(4, 0) @@
        4 :> MOV(5, 1) @@ 5 :> MOV(6, 2) @@ 6 :> CALL(3, "wide") @@ 8 :> RET(3),
        <<>>, <<>>, <<>>)]

\* padded: structs of two words, behind which the locals of a call are aligned, and a
\* destructor that calls.
padded == [
    half |-> Compiled(1, 3, 2,
        0 :> LOAD(1) @@ 3 :> LOAD(0) @@ 6 :> LOAD(0) @@ 8 :> RET(0),
        <<>>, <<>>, <<>>),
    early |-> Compiled(0, 3, 0,
        0 :> NEW_OBJ(0, "R") @@ 4 :> DELETE(0, 1) @@ 5 :> RET_VOID,
        <<>>,
        <<Record("Delete", 0, 0, 5, 2, 1)>>,
        <<Owned("R_delete")>>),
    R_delete |-> Compiled(1, 4, 0,
        0 :> LOAD(1) @@ 1 :> MOV(3, 1) @@ 2 :> CALL(2, "half") @@ 4 :> RET_VOID,
        <<>>, <<>>, <<>>),
    main |-> Compiled(0, 4, 2,
        1 :> LOAD(1) @@ 4 :> LOAD(1) @@ 7 :> CALL(1, "early") @@
        9 :> LOAD(1) @@ 11 :> MOV(3, 1) @@ 12 :> CALL(2, "half") @@
        14 :> CALL(3, "early") @@ 16 :> RET(2),
        <<>>, <<>>, <<>>)]

\* inner_scope: a `ref' local, in a scope inside that of the local it borrows.
inner_scope == [
    risky |-> Compiled(1, 3, 1,
        0 :> LOAD(1) @@ 1 :> BRANCH(4) @@ 3 :> JMP(6) @@ 5 :> RET_VOID @@
        6 :> LOAD(0) @@ 7 :> LOAD(1) @@ 10 :> NEW_OBJ(1, "Other") @@
        12 :> THROW(1),
        <<>>, <<>>, <<>>),
    work |-> Compiled(1, 4, 0,
        0 :> NEW_OBJ(1, "R") @@ 1 :> LOAD(2) @@ 4 :> REF_INC(1) @@
        5 :> MOV(3, 0) @@ 6 :> CALL(2, "risky") @@ 8 :> REF_DEC(1) @@
        9 :> DELETE(1, 1) @@ 10 :> RET_VOID,
        <<>>,
        <<Record("RefDec", 1, 0, 10, 2, None),
          Record("Delete", 1, 0, 10, 2, 1)>>,
        <<Owned("R_delete")>>),
    R_delete |-> Compiled(1, 1, 0,
        0 :> RET_VOID,
        <<>>, <<>>, <<>>),
    main |-> Compiled(0, 4, 0,
        1 :> LOAD(0) @@ 2 :> MOV(2, 0) @@ 3 :> CALL(1, "work") @@
        5 :> JMP(8) @@ 6 :> DEL_OBJ(3) @@ 8 :> LOAD(0) @@ 9 :> RET(0),
        <<Handler(1, 6, 6, None, 3)>>,
        <<Record("Delete", 3, 6, 7, 6, 1)>>,
        <<Plain>>)]

\* lent_and_moved: `eat(inout xs[0], c)': one argument lends, the other moves.
lent_and_moved == [
    eat |-> Compiled(2, 4, 1,
        0 :> LOAD(2) @@ 1 :> LOAD(0) @@ 4 :> NEW_OBJ(0, "Err") @@
        6 :> THROW(0),
        <<>>,
        <<Record("Delete", 1, 0, 8, 0, 1)>>,
        <<Owned("R_delete")>>),
    work |-> Compiled(0, 8, 0,
        0 :> NEW_OBJ(0, "R") @@ 1 :> LOAD(1) @@ 4 :> LOAD(1) @@
        5 :> LOAD(2) @@ 6 :> MOV(4, 1) @@ 7 :> MOV(5, 2) @@
        8 :> NEW_OBJ(3, "List") @@ 10 :> MOV(5, 3) @@ 11 :> LOAD(4) @@
        13 :> NEW_OBJ(1, "R") @@ 16 :> MOV(5, 3) @@ 17 :> MOV(6, 1) @@
        18 :> PUSH(4) @@ 20 :> LOAD(2) @@ 21 :> INDEX_ADDR(4, 3, {1}) @@
        22 :> MOV(2, 3) @@ 23 :> PIN(2) @@ 24 :> MOV(6, 4) @@
        25 :> MOV(7, 0) @@ 26 :> CALL(5, "eat") @@ 28 :> UNPIN(2) @@
        29 :> DELETE(3, 1) @@ 30 :> RET_VOID,
        <<>>,
        <<Record("Delete", 0, 0, 29, 2, 2),
          Record("Delete", 3, 0, 30, 11, 1),
          Record("Delete", 1, 0, 16, 15, 2),
          Record("Unpin", 2, 23, 29, 23, None)>>,
        <<ListOf(2), Owned("R_delete")>>),
    R_delete |-> Compiled(1, 1, 0,
        0 :> RET_VOID,
        <<>>, <<>>, <<>>),
    main |-> Compiled(0, 2, 0,
        1 :> CALL(0, "work") @@ 3 :> JMP(6) @@ 4 :> DEL_OBJ(1) @@
        6 :> LOAD(0) @@ 7 :> RET(0),
        <<Handler(1, 4, 4, None, 1)>>,
        <<Record("Delete", 1, 4, 5, 4, 1)>>,
        <<Plain>>)]
-----------------------------------------------------------------------------
Sound == [nested |-> nested, rethrow |-> rethrow, lends |-> lends,
          aliased |-> aliased, eaten |-> eaten, doomed |-> doomed,
          spin |-> spin, pile |-> pile, wide |-> wide, padded |-> padded]
\* Given to Programs in place of Sound, these two show what the README says of them (section 5).
Only_inner_scope == [inner_scope |-> inner_scope]
Only_lent_and_moved == [lent_and_moved |-> lent_and_moved]

Objects == 1 .. 14
=============================================================================
