--------------------------- MODULE LifetimeChecker ---------------------------
(***************************************************************************)
(* The part of semantic analysis that follows who owns what: a state per   *)
(* `uniq` variable, carried through the statements in the order of the     *)
(* text and merged where paths meet (sema/semantic.cpp,                    *)
(* sema/lifetime_checker.cpp).                                             *)
(***************************************************************************)
EXTENDS RoxySyntax, Naturals, FiniteSets, SequencesExt

CONSTANT Names          \* the variables of type `uniq T`

Untracked == "untracked"
Live      == "live"
Moved     == "moved"
Maybe     == "maybe"    \* MaybeValid: moved on some of the paths

\* moves: m_move_states; ends: m_branch_terminates; rejected: some error was reported
Checked == [moves : [Names -> {Untracked, Live, Moved, Maybe}], ends : BOOLEAN, rejected : BOOLEAN]

\* A function whose first parameter is an owner it must destroy.
AtEntry(params) ==
    [moves |-> [v \in Names |-> IF v \in params THEN Live ELSE Untracked],
     ends |-> FALSE, rejected |-> FALSE]

\* check_not_moved, called for every identifier that is evaluated
Read(s, v) == [s EXCEPT !.rejected = @ \/ s.moves[v] \in {Moved, Maybe}]

Mark(s, v, state) == IF s.moves[v] = Untracked THEN s ELSE [s EXCEPT !.moves[v] = state]

\* analyze an expression and consume it: only names are marked
Consume(s, from) == IF from = Fresh THEN s ELSE Mark(s, from, Moved)
Evaluate(s, from) == IF from = Fresh THEN s ELSE Read(s, from)

-----------------------------------------------------------------------------
\* Where two snapshots meet.  A variable one of them does not know keeps the state it has in `now`.
MergeMoves(now, a, b) ==
    LET In(snapshot, v) == IF snapshot[v] = Untracked THEN now[v] ELSE snapshot[v]
    IN  [v \in Names |->
            CASE now[v] = Untracked     -> Untracked
              [] In(a, v) = In(b, v)    -> In(a, v)
              [] OTHER                  -> Maybe]

\* The two branches of an `if`: one that ends adds nothing to what comes after.
MergeTwo(before, a, b) ==
    [moves |-> CASE a.ends /\ ~b.ends -> b.moves
                 [] ~a.ends /\ b.ends -> a.moves
                 [] OTHER             -> MergeMoves(before.moves, a.moves, b.moves),
     ends |-> a.ends /\ b.ends,
     rejected |-> b.rejected]

\* Any number of paths, in order; the ones that end are dropped.
MergeAll(paths) ==
    LET going    == SelectSeq(paths, LAMBDA s : ~s.ends)
        rejected == Last(paths).rejected
    IN  IF going = <<>> THEN [Head(paths) EXCEPT !.ends = TRUE, !.rejected = rejected]
        ELSE [moves |-> FoldLeft(LAMBDA now, s : MergeMoves(now, now, s.moves),
                                 Head(going).moves, Tail(going)),
              ends |-> FALSE, rejected |-> rejected]

-----------------------------------------------------------------------------
\* The first statement of a loop's body gives v a new value that does not depend on the old one.
ReassignsFirst(body, v) ==
    body # <<>> /\ Head(body).kind = "assign" /\ Head(body).name = v /\ Head(body).source # v

MovedOnEveryPath(body, before, after) ==
    \E v \in Names : before.moves[v] = Live /\ after.moves[v] = Moved /\ ~ReassignsFirst(body, v)

MovedAcrossIterations(body, before, after) ==
    \E v \in Names : before.moves[v] = Live /\ after.moves[v] \in {Moved, Maybe} /\ ~ReassignsFirst(body, v)

\* What follows a loop: its body may not have run at all.
AfterLoop(body, before, after, ends) ==
    [moves |-> MergeMoves(before.moves, after.moves, before.moves),
     ends |-> ends,
     rejected |-> after.rejected \/ MovedAcrossIterations(body, before, after)]

RECURSIVE JumpsOut(_, _)
JumpsOut(body, kinds) ==        \* stmt_has_direct_break
    \E i \in DOMAIN body :
        \/ body[i].kind \in kinds
        \/ body[i].kind \notin {"while", "for"} /\ \E j \in DOMAIN body[i].arms : JumpsOut(body[i].arms[j], kinds)

\* An else-if chain is an `if` in the else branch of another.
RECURSIVE Nested(_, _)
Nested(arms, else) ==
    CASE Len(arms) = 1          -> If(arms[1])
      [] Len(arms) = 2 /\ else  -> IfElse(arms[1], arms[2])
      [] OTHER                  -> IfElse(arms[1], <<Nested(Tail(arms), else)>>)

-----------------------------------------------------------------------------
RECURSIVE Analyze(_, _)

AnalyzeAll(body, s) == FoldLeft(LAMBDA now, stmt : Analyze(stmt, now), s, body)

\* A body analysed on its own from the moves of s, errors carried along.
Branch(body, s, rejected) == AnalyzeAll(body, [s EXCEPT !.ends = FALSE, !.rejected = rejected])

AnalyzeIf(stmt, s) ==
    LET then == Branch(stmt.arms[1], s, s.rejected)
        none == [s EXCEPT !.ends = FALSE, !.rejected = then.rejected]
    IN  MergeTwo(s, then, IF "else" \in stmt.has THEN Branch(stmt.arms[2], s, then.rejected) ELSE none)

AnalyzeWhen(stmt, s) ==
    LET OneMore(paths, arm) == Append(paths, Branch(arm, s, IF paths = <<>> THEN s.rejected ELSE Last(paths).rejected))
        cases == FoldLeft(OneMore, <<>>, stmt.arms)
        unmatched == [s EXCEPT !.ends = FALSE, !.rejected = Last(cases).rejected]
    IN  MergeAll(IF stmt.has = {} THEN Append(cases, unmatched) ELSE cases)

AnalyzeWhile(stmt, s) ==
    LET body  == stmt.arms[1]
        after == AnalyzeAll(body, s)
        stays == "true" \in stmt.has /\ ~JumpsOut(body, {"break"})
    IN  AfterLoop(body, s, after, stays \/ s.ends)

AnalyzeFor(stmt, s) ==
    LET start == AnalyzeAll(stmt.arms[1], s)
    IN  AfterLoop(stmt.arms[2], start, AnalyzeAll(stmt.arms[2], start), start.ends)

\* A catch may be entered from any point of the body, a finally from any way out of the others.
AnalyzeTry(stmt, s) ==
    LET body     == Branch(stmt.arms[1], s, s.rejected)
        entry    == MergeMoves(s.moves, s.moves, body.moves)
        catches  == IF "catch" \in stmt.has
                    THEN <<Branch(stmt.arms[2], [s EXCEPT !.moves = entry], body.rejected)>> ELSE <<>>
        paths    == <<body>> \o catches
        onward   == MergeAll(paths)
        finally0 == FoldLeft(LAMBDA now, p : MergeMoves(now, now, p.moves), entry, paths)
        finally  == Branch(Last(stmt.arms), [s EXCEPT !.moves = finally0], onward.rejected)
    IN  IF "finally" \notin stmt.has THEN onward
        ELSE [moves |-> [v \in Names |-> IF onward.moves[v] # Untracked /\ finally.moves[v] # finally0[v]
                                         THEN finally.moves[v] ELSE onward.moves[v]],
              ends |-> finally.ends \/ onward.ends,
              rejected |-> finally.rejected]

Analyze(stmt, s) ==
    LET v    == stmt.name
        from == stmt.source
    IN  CASE stmt.kind = "declare" -> [Consume(Evaluate(s, from), from) EXCEPT !.moves[v] = Live]
          [] stmt.kind = "assign"  ->
                \* the target is live again before its source is consumed; x = x is refused
                IF v = from THEN [s EXCEPT !.rejected = TRUE]
                ELSE Consume(Mark(Evaluate(s, from), v, Live), from)
          [] stmt.kind = "use"     -> Read(s, v)
          [] stmt.kind \in {"eat", "delete"} -> Mark(Read(s, v), v, Moved)
          [] stmt.kind \in {"return", "break", "continue", "throw"} -> [s EXCEPT !.ends = TRUE]
          [] stmt.kind = "yield"   -> s
          [] stmt.kind = "block"   -> AnalyzeAll(stmt.arms[1], s)
          [] stmt.kind = "if"      -> AnalyzeIf(stmt, s)
          [] stmt.kind = "chain"   -> AnalyzeIf(Nested(stmt.arms, "else" \in stmt.has), s)
          [] stmt.kind = "when"    -> AnalyzeWhen(stmt, s)
          [] stmt.kind = "while"   -> AnalyzeWhile(stmt, s)
          [] stmt.kind = "for"     -> AnalyzeFor(stmt, s)
          [] stmt.kind = "try"     -> AnalyzeTry(stmt, s)

\* Statement i of a body is analysed in the scope of those before it, its bodies too.
Declared(body) == {body[i].name : i \in {k \in DOMAIN body : body[k].kind = "declare"}}
ScopeAt(body, i, scope) == scope \cup Declared(SubSeq(body, 1, i - 1))
ScopeIn(body, i, j, scope) ==
    ScopeAt(body, i, scope) \cup (IF body[i].kind = "for" /\ j = 2 THEN Declared(body[i].arms[1]) ELSE {})

\* A declaration of a name that is in scope (check_no_local_shadowing), or another use of one that is not
RECURSIVE Misnames(_, _)
Misnames(body, scope) ==
    \E i \in DOMAIN body :
        LET stmt == body[i]
            read == {stmt.source} \cup (IF stmt.kind = "declare" THEN {} ELSE {stmt.name})
        IN  \/ stmt.kind = "declare" /\ stmt.name \in ScopeAt(body, i, scope)
            \/ ~(read \cap Names \subseteq ScopeAt(body, i, scope))
            \/ \E j \in DOMAIN stmt.arms : Misnames(stmt.arms[j], ScopeIn(body, i, j, scope))

YieldsInFinally(body) == \E s \in Within(body) : "finally" \in s.has /\ Yields(Last(s.arms))

\* break and continue are errors outside of a loop, and so is a yield in a finally
Accepts(body, params) ==
    /\ ~AnalyzeAll(body, AtEntry(params)).rejected
    /\ ~JumpsOut(body, {"break", "continue"})
    /\ ~YieldsInFinally(body)
    /\ ~Misnames(body, params)
=============================================================================
