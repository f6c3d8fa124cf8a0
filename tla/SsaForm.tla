------------------------------- MODULE SsaForm -------------------------------
(***************************************************************************)
(* A function of the SSA IR, and what it does when it runs (ir/ssa_ir.cpp, *)
(* ir/ir_validator.cpp).                                                   *)
(*                                                                         *)
(* A function is a record of its parameters, blocks, exception handlers    *)
(* and cleanup records, and how many values it has.  A block has           *)
(* parameters, code and an end; the end jumps to targets, each a block and *)
(* its arguments.  0 is no value.  The first block is the entry.           *)
(***************************************************************************)
EXTENDS BlockOrder, Integers, FiniteSets, FiniteSetsExt

CONSTANTS Width,    \* integers have Width bits (64 in the code)
          Unset,    \* what a register holds before anything is stored in it
          Fuel      \* bound: a run is followed for this many steps

ASSUME WidthAssumption == Width \in Nat \ {0}

Limit    == 2 ^ (Width - 1)
Least    == 0 - Limit
Wrap(n)  == ((n + Limit) % (2 ^ Width)) - Limit
Trap     == 2 ^ Width          \* no result: the run stops with an error

Quotient(a, b) ==
    LET q == (IF a < 0 THEN 0 - a ELSE a) \div (IF b < 0 THEN 0 - b ELSE b)
    IN  IF (a < 0) = (b < 0) THEN q ELSE 0 - q

ArithmeticOps == {"add", "sub", "mul", "div", "less", "equal"}

Arithmetic(op, a, b) ==
    CASE op = "add"   -> Wrap(a + b)
      [] op = "sub"   -> Wrap(a - b)
      [] op = "mul"   -> Wrap(a * b)
      [] op = "div"   -> IF b = 0 \/ (a = Least /\ b = -1) THEN Trap ELSE Quotient(a, b)
      [] op = "less"  -> IF a < b THEN 1 ELSE 0
      [] op = "equal" -> IF a = b THEN 1 ELSE 0

-----------------------------------------------------------------------------
(* Values and edges *)

Values(f)  == 1 .. f.values
NoBlock    == [params |-> <<>>, code |-> <<>>, end |-> [kind |-> "none", on |-> 0, to |-> <<>>]]

Instructions(f) == UNION {ToSet(f.blocks[b].code) : b \in Blocks(f)}
DefinedBy(f, v) == {i \in Instructions(f) : i.to = v}

Defined(f) ==
    ToSet(f.params) \cup {i.to : i \in Instructions(f)}
        \cup UNION {ToSet(f.blocks[b].params) : b \in Blocks(f)}

\* for_each_operand, for_each_terminator_operand
Uses(f) ==
    UNION {ToSet(i.args) : i \in Instructions(f)}
        \cup UNION {LET end == f.blocks[b].end
                    IN  ({end.on} \ {0}) \cup UNION {ToSet(end.to[k].args) : k \in DOMAIN end.to} : b \in Blocks(f)}

\* The edges into b: the block, and which of its targets.
Predecessors(f, b) ==
    {e \in Blocks(f) \X {1, 2} : e[2] \in DOMAIN f.blocks[e[1]].end.to /\ f.blocks[e[1]].end.to[e[2]].block = b}

Renamed(values, to) == [k \in DOMAIN values |-> to[values[k]]]

RenamedEnd(end, to) ==
    [end EXCEPT !.on = IF @ = 0 THEN 0 ELSE to[@],
                !.to = [k \in DOMAIN @ |-> [block |-> @[k].block, args |-> Renamed(@[k].args, to)]]]

\* Every operand is replaced, but those of the instructions `kept`.
Rewritten(f, to, kept) ==
    [f EXCEPT !.blocks = [b \in DOMAIN @ |->
        [params |-> @[b].params,
         code   |-> [k \in DOMAIN @[b].code |->
                        IF @[b].code[k].op \in kept THEN @[b].code[k]
                        ELSE [@[b].code[k] EXCEPT !.args = Renamed(@, to)]],
         end    |-> RenamedEnd(@[b].end, to)]]]

-----------------------------------------------------------------------------
\* IRValidator::validate_function, validate_block, validate_terminator
Valid(f) ==
    /\ \A b \in Blocks(f) :
          LET end == f.blocks[b].end
          IN  /\ end.kind \in {"goto", "branch", "return", "unreachable", "none"}
              /\ \A k \in DOMAIN end.to :
                    end.to[k].block \in Blocks(f) /\ Len(end.to[k].args) = Len(f.blocks[end.to[k].block].params)
              /\ (\E k \in DOMAIN f.blocks[b].code : f.blocks[b].code[k].op = "throw") => end.kind = "unreachable"
    /\ \A h \in DOMAIN f.handlers : f.handlers[h].handler \in Blocks(f) /\ f.handlers[h].body \subseteq Blocks(f)
    /\ Defined(f) \cup Uses(f) \subseteq 0 .. f.values
    /\ \A v \in Values(f) : Cardinality(DefinedBy(f, v)) <= 1

-----------------------------------------------------------------------------
(* What a function does: a run on the arguments and the choices of `input`, whose call number
   `throwing` throws.  Handlers take any exception.  A run is what the rest of the program sees of
   it: the calls with their arguments, what is released by the code, which handler catches, and how
   it ends. *)

Entered(f, input) ==
    [block |-> 1, pos |-> 1, memory |-> 0, calls |-> 0, held |-> {}, seen |-> <<>>, over |-> FALSE,
     env   |-> [v \in Values(f) |-> IF v \in ToSet(f.params) THEN input.args[v] ELSE Unset]]

Ends(s, how) == [s EXCEPT !.seen = Append(@, how), !.over = TRUE]

\* What unwinding releases is decided by the coverage that the lowering computes (see Lowering).
Unwinds(f, s) ==
    LET covering == {h \in DOMAIN f.handlers : s.block \in f.handlers[h].body}
        first    == CHOOSE h \in covering : \A g \in covering : h <= g
        to       == IF covering = {} THEN 0 ELSE f.handlers[first].handler
    IN  IF to = 0 THEN Ends(s, <<"thrown">>)
        ELSE [s EXCEPT !.seen = Append(@, <<"caught", first>>),
                       !.block = to, !.pos = 1, !.env[f.blocks[to].params[1]] = 0]

\* One instruction.  To release what was never stored does nothing here, as where CALL zeroes the
\* registers (without NDEBUG): what is compared are the passes, and a source may leave it to chance.
Executed(f, input, s) ==
    LET i    == f.blocks[s.block].code[s.pos]
        on   == [s EXCEPT !.pos = @ + 1]
        a(k) == s.env[i.args[k]]
        gives(x) == [on EXCEPT !.env[i.to] = x]
        called == [on EXCEPT !.calls = @ + 1, !.memory = Wrap(@ + 1), !.env[i.to] = s.memory,
                             !.seen = Append(@, <<"call", a(1)>>)]
    IN  CASE i.op = "release" ->
               IF a(1) = Unset THEN on
               ELSE IF a(1) \in s.held
               THEN [on EXCEPT !.held = @ \ {a(1)}, !.seen = Append(@, <<"release", a(1)>>)]
               ELSE Ends(s, <<"released twice">>)
          [] i.op # "release" /\ \E k \in DOMAIN i.args : a(k) = Unset -> Ends(s, <<"undefined">>)
          [] i.op \in {"int", "bool"} -> gives(i.data)
          [] i.op = "copy" -> gives(a(1))
          [] i.op \in ArithmeticOps ->
               LET r == Arithmetic(i.op, a(1), a(2)) IN IF r = Trap THEN Ends(s, <<"trap">>) ELSE gives(r)
          [] i.op = "load"  -> gives(s.memory)
          [] i.op = "store" -> [on EXCEPT !.memory = a(1)]
          [] i.op = "make"  -> [gives(i.to) EXCEPT !.held = @ \cup {i.to}]
          [] i.op = "call"  -> IF called.calls = input.throwing
                               THEN Unwinds(f, [called EXCEPT !.env = s.env]) ELSE called
          [] i.op = "throw" -> Unwinds(f, s)

\* The end of a block: the arguments are bound all at once.
Left(f, s) ==
    LET end == f.blocks[s.block].end
        to  == end.to[IF end.kind = "branch" /\ s.env[end.on] = 0 THEN 2 ELSE 1]
        params == f.blocks[to.block].params
    IN  CASE end.on # 0 /\ s.env[end.on] = Unset -> Ends(s, <<"undefined">>)
          [] end.kind = "return" /\ s.env[end.on] # Unset -> Ends(s, <<"returned", s.env[end.on], s.held>>)
          [] end.kind = "goto" \/ (end.kind = "branch" /\ s.env[end.on] # Unset) ->
               [s EXCEPT !.block = to.block, !.pos = 1,
                         !.env = [v \in DOMAIN @ |-> IF v \in ToSet(params)
                                                     THEN @[to.args[CHOOSE k \in DOMAIN params : params[k] = v]]
                                                     ELSE @[v]]]
          [] OTHER -> Ends(s, <<"undefined">>)

RECURSIVE Runs(_, _, _, _)
Runs(f, input, s, fuel) ==
    IF s.over THEN s.seen
    ELSE IF fuel = 0 THEN Append(s.seen, <<"running">>)
    ELSE Runs(f, input,
              IF s.pos > Len(f.blocks[s.block].code) THEN Left(f, s) ELSE Executed(f, input, s), fuel - 1)

Meaning(f, input) == Runs(f, input, Entered(f, input), Fuel)
=============================================================================
