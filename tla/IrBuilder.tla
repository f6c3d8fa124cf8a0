------------------------------ MODULE IrBuilder ------------------------------
(***************************************************************************)
(* The IR builder's statements: a function in SSA form with explicit       *)
(* destruction of everything that is owned (ir/ir_builder_stmt.cpp,        *)
(* ir/ir_builder_lifetime.cpp, ir/ownership_tracker.cpp).                  *)
(*                                                                         *)
(* The builder is a record b that every operator takes and gives back.     *)
(* `local` binds names to values, `owned` is the tracker's stack and       *)
(* `gone` the entries of it that are marked as moved.  `records` are the   *)
(* cleanup records, from which the unwinder will know what to destroy: a   *)
(* value and the blocks it is held in (see CleanupRecords).  A temporary   *)
(* is produced and adopted by one statement; it leaves a record where an   *)
(* assignment adopts it, and is left out otherwise.                        *)
(***************************************************************************)
EXTENDS RoxySyntax, Naturals, FiniteSets, SequencesExt

CONSTANT Names

Bound   == Names \cup {Caught}
Null    == 0            \* the value of `const_null`
Unbound == [value |-> Null, depth |-> 0]
NoBlock == 0
NoArgs  == [v \in {} |-> Null]

\* A block: parameters and arguments are keyed by the variable they carry.
EmptyBlock == [params |-> NoArgs, code |-> <<>>, end |-> [kind |-> "none", to |-> <<>>]]
To(block, args) == [block |-> block, args |-> args]

Instruction(op, v, value) == [op |-> op, name |-> v, value |-> value]

Closed(b) == b.at = NoBlock \/ b.blocks[b.at].end.kind # "none"

Emit(b, i) == IF b.at = NoBlock THEN b ELSE [b EXCEPT !.blocks[b.at].code = Append(@, i)]

\* finish_block_goto, finish_block_branch, finish_block_return: a second end replaces the first
End(b, kind, targets) ==
    IF b.at = NoBlock THEN b ELSE [b EXCEPT !.blocks[b.at].end = [kind |-> kind, to |-> targets]]
Unreachable(b) == [End(b, "unreachable", <<>>) EXCEPT !.last = b.at, !.at = NoBlock]

AddBlocks(b, n) == [b EXCEPT !.blocks = @ \o [i \in 1 .. n |-> EmptyBlock]]

-----------------------------------------------------------------------------
\* Names and owners

IsBound(b, v) == b.local[v].depth > 0
ValueOf(b, v) == b.local[v].value

DefineLocal(b, v, value) ==
    [b EXCEPT !.local[v] = [value |-> value, depth |-> IF IsBound(b, v) THEN @.depth ELSE b.depth]]

\* An entry's record will name the value it was made with, whatever the name stands for by then.
TrackValue(b, v, value) ==
    [b EXCEPT !.owned = Append(@, [name |-> v, depth |-> b.depth, initial |-> value, from |-> b.at])]
Track(b, v) == TrackValue(b, v, ValueOf(b, v))

Tracked(b, v) == {i \in DOMAIN b.owned : b.owned[i].name = v}      \* find_by_name: at most one

\* A mark without code: from here on the value is not the record's any more.
Nullify(b, i) == Emit(b, Instruction("nullify", b.owned[i].name, b.owned[i].initial))

ImplicitDestroy(b, i) ==
    LET v == b.owned[i].name
    IN  IF i \in b.gone \/ b.at = NoBlock THEN b
        ELSE [Nullify(Emit(b, Instruction("delete", v, ValueOf(b, v))), i) EXCEPT !.gone = @ \cup {i}]

MarkMovedFrom(b, v, nullTheName, nullifyRecord) ==
    IF Tracked(b, v) \subseteq b.gone THEN b
    ELSE LET named == IF nullTheName THEN DefineLocal(b, v, Null) ELSE b
             ended == IF nullifyRecord THEN Nullify(named, CHOOSE i \in Tracked(b, v) : TRUE) ELSE named
         IN  [ended EXCEPT !.gone = @ \cup Tracked(b, v)]

Record(b, i, upto, before) ==
    [b EXCEPT !.records = Append(@, [name |-> b.owned[i].name, value |-> b.owned[i].initial,
                                     from |-> b.owned[i].from, upto |-> upto, before |-> before])]

\* Of the entries of the scopes from this depth on, those that have been moved among them.
RecordScopeCleanup(b, depth) ==
    FoldLeft(LAMBDA c, i : IF c.owned[i].depth < depth THEN c
                           ELSE Record(c, i, IF c.at = NoBlock THEN c.last ELSE c.at, FALSE),
             b, [k \in DOMAIN b.owned |-> k])

EmitScopeCleanup(b, depth) ==
    FoldLeft(LAMBDA c, i : IF c.owned[i].depth >= depth THEN ImplicitDestroy(c, i) ELSE c,
             b, [k \in DOMAIN b.owned |-> Len(b.owned) + 1 - k])

PushScope(b) == [b EXCEPT !.depth = @ + 1]

PopScope(b) ==
    LET c == EmitScopeCleanup(RecordScopeCleanup(b, b.depth), b.depth)
        outer == SelectSeq(b.owned, LAMBDA o : o.depth < b.depth)
    IN  [c EXCEPT !.owned = outer,
                  !.gone  = @ \cap DOMAIN outer,
                  !.local = [v \in Bound |-> IF @[v].depth = b.depth THEN Unbound ELSE @[v]],
                  !.depth = @ - 1]

-----------------------------------------------------------------------------
\* Merges

\* snapshot_scopes: bindings and which owners have been given up
Snapshot(b) == [local |-> b.local, tracked |-> DOMAIN b.owned, gone |-> b.gone]

RestoreMoves(b, snapshot) == [b EXCEPT !.gone = snapshot.gone \cup (@ \ snapshot.tracked)]
RestoreNames(b, snapshot) == [b EXCEPT !.local = snapshot.local]
Restore(b, snapshot) == RestoreMoves(RestoreNames(b, snapshot), snapshot)

RECURSIVE AssignedIn(_)
AssignedIn(body) ==     \* collect_assigned_vars: declarations are new variables, and are not descended into
    UNION {IF body[i].kind = "assign" THEN {body[i].name}
           ELSE UNION {AssignedIn(body[i].arms[j]) : j \in DOMAIN body[i].arms} : i \in DOMAIN body}

AssignedInArms(stmt) == UNION {AssignedIn(stmt.arms[j]) : j \in DOMAIN stmt.arms}

\* make_merge_phis, and the header parameters of a loop: a new value for each variable bound here
WithParams(b, block, names) ==
    LET merged == SetToSeq({v \in names : IsBound(b, v)})
        params == [v \in ToSet(merged) |-> b.next - 1 + CHOOSE k \in DOMAIN merged : merged[k] = v]
    IN  [b EXCEPT !.blocks[block].params = params, !.next = @ + Len(merged)]

ArgsFor(b, block) == [v \in DOMAIN b.blocks[block].params |-> ValueOf(b, v)]

BindParams(b, block) ==
    LET params == b.blocks[block].params
    IN  [b EXCEPT !.local = [v \in Bound |-> IF v \in DOMAIN params THEN DefineLocal(b, v, params[v]).local[v]
                                             ELSE @[v]]]

(***************************************************************************)
(* An owner that comes to a merge as its parameter: the record of the value *)
(* it had ends there, and one of the parameter begins.  What a loop's      *)
(* header or a yield binds is not moved on like this.                      *)
(***************************************************************************)
BindMerge(b, block) ==
    LET rebound == {i \in DOMAIN b.owned : b.owned[i].name \in DOMAIN b.blocks[block].params}
        Close(c, i) == IF i \in c.gone THEN c ELSE Record(c, i, block, TRUE)
        Rebind(c, i) == [Close(c, i) EXCEPT !.owned[i].initial = ValueOf(c, c.owned[i].name), !.owned[i].from = block]
    IN  FoldLeft(Rebind, BindParams([b EXCEPT !.at = block], block), SetToSortSeq(rebound, <))

GotoIfOpen(b, block) == IF Closed(b) THEN b ELSE End(b, "goto", <<To(block, ArgsFor(b, block))>>)

NoReconciling(b, paths, from, merge, original) == b

(***************************************************************************)
(* Where paths meet of which some have given an owner up, those that still *)
(* have it destroy it as they leave.  A path is the block it ends in and   *)
(* the state it ends with; the edge that runs no branch has no block, and  *)
(* is given one when it has something to destroy.                          *)
(***************************************************************************)
ReconcileDivergentMoves(b, paths, from, merge, original) ==
    LET Gave(k, i) == i \in paths[k].state.gone
        divergent == {i \in DOMAIN b.owned : /\ \A k \in DOMAIN paths : i \in paths[k].state.tracked
                                             /\ \E k, m \in DOMAIN paths : Gave(k, i) /\ ~Gave(m, i)}
        downward == Reverse(SetToSortSeq(divergent, <))
        DropIn(c, k) == FoldLeft(LAMBDA d, i : IF Gave(k, i) THEN d
                                               ELSE ImplicitDestroy([d EXCEPT !.gone = @ \ {i}], i),
                                 Restore(c, paths[k].state), downward)
        NewEdge(c) ==
            LET d    == AddBlocks(c, 1)
                edge == Len(d.blocks)
            IN  [d EXCEPT !.blocks[from].end.to =
                               [@ EXCEPT ![Len(@)] = To(edge, NoArgs)], !.at = edge]
        Visit(c, k) ==
            CASE \A i \in divergent : Gave(k, i)  -> c
              [] paths[k].block # NoBlock         -> DropIn([c EXCEPT !.at = paths[k].block], k)
              [] OTHER -> End(DropIn(NewEdge(c), k), "goto", <<To(merge, original)>>)
        visited == FoldLeft(Visit, b, [k \in DOMAIN paths |-> k])
        settled == [Restore(visited, Snapshot(b)) EXCEPT !.at = b.at]
    IN  IF Len(paths) < 2 \/ divergent = {} THEN b
        ELSE [settled EXCEPT !.gone = @ \cup divergent]

-----------------------------------------------------------------------------
\* Simple statements

Destroyed(b, v) == FoldLeft(LAMBDA c, i : ImplicitDestroy(c, i), b, SetToSeq(Tracked(b, v)))
Revived(b, v) == [b EXCEPT !.gone = @ \ Tracked(b, v)]

\* gen_expr of `uniq T {}` or of a name, and the value it gives
Produce(b, from) == IF from = Fresh THEN [Emit(b, Instruction("new", NoName, b.next)) EXCEPT !.next = @ + 1] ELSE b
Produced(b, from) == IF from = Fresh THEN b.next ELSE ValueOf(b, from)

\* The name now stands for the value; the instruction only tells the reader of the code.
Bind(b, v, value) == Emit(DefineLocal(b, v, value), Instruction("bind", v, value))

\* The temporary of a declaration leaves its record to the variable.
GenVarDecl(b, v, from) ==
    LET c == Track(Bind(Produce(b, from), v, Produced(b, from)), v)
    IN  IF from = Fresh THEN c ELSE MarkMovedFrom(c, from, TRUE, TRUE)

\* That of an assignment has been moved, but it keeps its record to the end of this scope.
Adopted(b, value) == [TrackValue(b, NoName, value) EXCEPT !.gone = @ \cup {Len(b.owned) + 1}]

GenAssignLocal(b, v, from) ==
    LET c == Bind(Revived(Destroyed(Produce(b, from), v), v), v, Produced(b, from))
    IN  IF from = Fresh THEN Adopted(c, b.next) ELSE MarkMovedFrom(c, from, TRUE, FALSE)

GenReturn(b) == End(EmitScopeCleanup(b, 1), "return", <<>>)

GenBreak(b) ==
    LET loop == Last(b.loops)
    IN  End(EmitScopeCleanup(b, loop.depth + 1), "goto", <<To(loop.exit, NoArgs)>>)

\* A while continues at its header, with arguments; a for at its increment, without.
GenContinue(b) ==
    LET loop == Last(b.loops)
        Again(c) == End(c, "goto", <<To(loop.again, IF loop.again = loop.header
                                                    THEN ArgsFor(c, loop.header) ELSE NoArgs)>>)
    IN  Again(EmitScopeCleanup(b, loop.depth + 1))

ThrowValue(b, value) == Unreachable(Emit(b, Instruction("throw", NoName, value)))

GenThrow(b) == ThrowValue(Produce(b, Fresh), b.next)

\* A block ends in a yield and goes on in another, which is given all that is in scope.
GenYield(b) ==
    LET resume == Len(b.blocks) + 1
        Go(c) == End(Emit(c, Instruction("yield", NoName, Null)), "goto", <<To(resume, ArgsFor(c, resume))>>)
        From(c) == BindParams([Go(c) EXCEPT !.at = resume], resume)
    IN  From(WithParams(AddBlocks(b, 1), resume, Bound))

-----------------------------------------------------------------------------
RECURSIVE Gen(_, _)

GenBody(b, body) == FoldLeft(LAMBDA c, stmt : Gen(c, stmt), b, body)
GenBlock(b, body) == PopScope(GenBody(PushScope(b), body))

(***************************************************************************)
(* Branches.  The tests of a chain or of a `when` follow each other, each  *)
(* in a block of its own, and the last one fails to the else or, without   *)
(* one, to the merge; where the cases are exhaustive, it cannot fail.  The *)
(* three constructs differ in the state they go on with at the merge.      *)
(***************************************************************************)
EndInTests(b, stmt, first, merge) ==
    LET tests == Len(stmt.arms) - (IF "else" \in stmt.has THEN 1 ELSE 0)
        Test(c, k) ==
            LET next == Len(c.blocks) + 1
                Fails(to) == End(c, "branch", <<To(first + k, NoArgs)>> \o to)
            IN  CASE k < tests            -> [AddBlocks(Fails(<<To(next, NoArgs)>>), 1) EXCEPT !.at = next]
                  [] stmt.has = {}        -> Fails(<<To(merge, ArgsFor(c, merge))>>)
                  [] "else" \in stmt.has -> Fails(<<To(first + tests + 1, NoArgs)>>)
                  [] OTHER                -> Fails(<<>>)
    IN  FoldLeft(Test, b, [k \in 1 .. tests |-> k])

AfterArm(acc, c, merge) ==
    [b     |-> GotoIfOpen(c, merge),
     paths |-> IF Closed(c) THEN acc.paths ELSE Append(acc.paths, [block |-> c.at, state |-> Snapshot(c)])]

\* An if goes on in the state of the branch that gets there, the later one if both do.
GoOnAfterIf(stmt, b, before, going) ==
    CASE stmt.has = {} /\ going = <<>>  -> Restore(b, before)
      [] going = <<>>                   -> b
      [] OTHER                          -> Restore(b, Last(going).state)

\* A chain without an else leaves the owners as the last branch left them.
GoOnAfterChain(stmt, b, before, going) ==
    IF stmt.has # {} /\ going # <<>> THEN Restore(b, Last(going).state) ELSE RestoreNames(b, before)

GoOnAfterWhen(b, before) == RestoreNames(b, before)

GoOn(stmt, b, before, going) ==
    CASE stmt.kind = "if"    -> GoOnAfterIf(stmt, b, before, going)
      [] stmt.kind = "chain" -> GoOnAfterChain(stmt, b, before, going)
      [] stmt.kind = "when"  -> GoOnAfterWhen(b, before)

GenArms(b, stmt) ==
    LET n     == Len(stmt.arms)
        first == Len(b.blocks)
        merge == first + n + 1
        Arms(tested) ==
            FoldLeft(LAMBDA acc, k :
                         AfterArm(acc, GenBlock([Restore(acc.b, Snapshot(tested)) EXCEPT !.at = first + k], stmt.arms[k]), merge),
                     [b |-> tested, paths |-> <<>>], [k \in 1 .. n |-> k])
        Paths(tested, going) ==
            IF stmt.has = {} THEN Append(going, [block |-> NoBlock, state |-> Snapshot(tested)]) ELSE going
        Meet(tested, done) ==
            ReconcileDivergentMoves(GoOn(stmt, done.b, Snapshot(tested), done.paths), Paths(tested, done.paths),
                                    tested.at, merge, ArgsFor(tested, merge))
        From(tested) == BindMerge(Meet(tested, Arms(tested)), merge)
    IN  From(EndInTests(WithParams(AddBlocks(b, n + 1), merge, AssignedInArms(stmt)), stmt, first, merge))

-----------------------------------------------------------------------------
\* Loops.  Variables assigned in the body are parameters of the header, and where a resumed
\* coroutine comes back into the loop all others are too; the exit has none of its own.
OnlyAssigned(body) == AssignedIn(body)
Threaded(body) == AssignedIn(body) \cup (IF Yields(body) THEN Bound ELSE {})

EnterLoop(b, header, again, exit, assigned) ==
    LET Into(c) == BindParams([End(c, "goto", <<To(header, ArgsFor(c, header))>>) EXCEPT !.at = header], header)
    IN  [Into(WithParams(b, header, assigned)) EXCEPT
            !.loops = Append(@, [header |-> header, again |-> again, exit |-> exit, depth |-> b.depth])]

LeaveLoop(b) ==
    LET loop == Last(b.loops)
    IN  BindParams([b EXCEPT !.loops = Front(@), !.at = loop.exit], loop.header)

GenWhile(b, stmt) ==
    LET header == Len(b.blocks) + 1
        body   == header + 1
        exit   == header + 2
        entered == EnterLoop(AddBlocks(b, 3), header, header, exit, Threaded(stmt.arms[1]))
        tested  == End(entered, "branch", IF "true" \in stmt.has THEN <<To(body, NoArgs)>>
                                          ELSE <<To(body, NoArgs), To(exit, NoArgs)>>)
    IN  LeaveLoop(GotoIfOpen(GenBlock([tested EXCEPT !.at = body], stmt.arms[1]), header))

\* The increment only goes back to the header; the initialiser's scope ends while it is still current.
GenFor(b, stmt) ==
    LET From(start) ==
            LET header == Len(start.blocks) + 1
                body   == header + 1
                again  == header + 2
                exit   == header + 3
                entered == EnterLoop(AddBlocks(start, 4), header, again, exit, Threaded(stmt.arms[2]))
                tested  == End(entered, "branch", <<To(body, NoArgs), To(exit, NoArgs)>>)
                done    == GotoIfOpen(GenBlock([tested EXCEPT !.at = body], stmt.arms[2]), again)
                Increment(c) == End(c, "goto", <<To(header, ArgsFor(c, header))>>)
            IN  LeaveLoop(PopScope(Increment([done EXCEPT !.at = again])))
    IN  From(GenBody(PushScope(b), stmt.arms[1]))

-----------------------------------------------------------------------------
(***************************************************************************)
(* try.  The bodies of the handlers start from the names of before the     *)
(* try, but from the owners as the bodies before them left them.  A        *)
(* finally is built again for each way out that falls off the end of a     *)
(* body, and once for the exceptions that no catch takes.                  *)
(***************************************************************************)
HasFinally(stmt) == "finally" \in stmt.has
GenFinally(b, stmt) == GenBlock(Emit(b, Instruction("finally", NoName, Null)), Last(stmt.arms))

LeaveWithoutFinally(b, stmt, after) == GotoIfOpen(b, after)

LeaveTry(b, stmt, after) ==
    GotoIfOpen(IF Closed(b) \/ ~HasFinally(stmt) THEN b ELSE GenFinally(b, stmt), after)

\* A block whose parameter is the exception.
AddHandler(b, kind, covered, names) ==
    LET d == AddBlocks(b, 1)
        h == Len(d.blocks)
    IN  [RestoreNames(d, names) EXCEPT
            !.at = h, !.next = @ + 1,
            !.handlers = Append(@, [body |-> covered, handler |-> h, kind |-> kind, value |-> d.next])]

RethrowIfOpen(b, value) == IF Closed(b) THEN b ELSE ThrowValue(b, value)

GenTry(b, stmt) ==
    LET after == Len(b.blocks) + 1
        entry == after + 1
        Begun(c) == [End(c, "goto", <<To(entry, NoArgs)>>) EXCEPT !.at = entry]
        \* this mark and the one of a finally that starts are for the reader of the code only
        Marked(c) == IF HasFinally(stmt) THEN Emit(c, Instruction("try", NoName, Null)) ELSE c
        Catch(c, covered, names) ==
            LET d == Bind(PushScope(AddHandler(c, "catch", covered, names)), Caught, c.next)
            IN  IF "catch" \notin stmt.has THEN c
                ELSE LeaveTry(PopScope(GenBlock(Track(d, Caught), stmt.arms[2])), stmt, after)
        Finally(c, covered, names) ==
            IF ~HasFinally(stmt) THEN c
            ELSE RethrowIfOpen(GenFinally(AddHandler(c, "finally", covered, names), stmt), c.next)
        Handlers(c, covered, names) == Finally(Catch(LeaveTry(c, stmt, after), covered, names), covered, names)
        AfterBody(c, names) == Handlers(c, entry .. Len(c.blocks), names)
        From(start) == AfterBody(GenBlock(Marked(Begun(start)), stmt.arms[1]), Snapshot(start))
    IN  BindMerge(From(WithParams(AddBlocks(b, 2), after, AssignedInArms(stmt))), after)

-----------------------------------------------------------------------------
Gen(b, stmt) ==
    LET v == stmt.name
    IN  CASE stmt.kind = "declare"  -> GenVarDecl(b, v, stmt.source)
          [] stmt.kind = "assign"   -> GenAssignLocal(b, v, stmt.source)
          [] stmt.kind = "use"      -> Emit(b, Instruction("use", v, ValueOf(b, v)))
          [] stmt.kind = "eat"      -> MarkMovedFrom(Emit(b, Instruction("eat", v, ValueOf(b, v))), v, TRUE, TRUE)
          [] stmt.kind = "delete"   -> MarkMovedFrom(Emit(b, Instruction("delete", v, ValueOf(b, v))), v, FALSE, TRUE)
          [] stmt.kind = "return"   -> GenReturn(b)
          [] stmt.kind = "break"    -> GenBreak(b)
          [] stmt.kind = "continue" -> GenContinue(b)
          [] stmt.kind = "throw"    -> GenThrow(b)
          [] stmt.kind = "yield"    -> GenYield(b)
          [] stmt.kind = "block"    -> GenBlock(b, stmt.arms[1])
          [] stmt.kind \in {"if", "chain", "when"} -> GenArms(b, stmt)
          [] stmt.kind = "while"    -> GenWhile(b, stmt)
          [] stmt.kind = "for"      -> GenFor(b, stmt)
          [] stmt.kind = "try"      -> GenTry(b, stmt)

-----------------------------------------------------------------------------
\* A function that owns its parameters, values 1 .. n; the entry block is block 1.
BeginFunction(params) ==
    LET empty == [blocks |-> <<EmptyBlock>>, at |-> 1, last |-> 1, next |-> 1, depth |-> 1,
                  local |-> [v \in Bound |-> Unbound], owned |-> <<>>, gone |-> {}, loops |-> <<>>,
                  handlers |-> <<>>, records |-> <<>>]
        Param(b, v) == [Track(Bind(b, v, b.next), v) EXCEPT !.next = @ + 1]
    IN  FoldLeft(Param, empty, params)

EndFunction(b) == RecordScopeCleanup(IF Closed(b) THEN b ELSE GenReturn(b), 1)

Build(body, params) == EndFunction(GenBlock(BeginFunction(params), body))
=============================================================================
