----------------------------- MODULE MCOwnership -----------------------------
EXTENDS Ownership, RoxySyntax

ParamsValue == <<"p">>

-----------------------------------------------------------------------------
(***************************************************************************)
(* The programs.  p is a parameter, q a variable of some inner body.  Each *)
(* family puts every act in every place of one kind of statement; a second *)
(* statement follows it, to see the state that the first one leaves.       *)
(***************************************************************************)
Touch == {<<>>, <<Use("p")>>, <<Eat("p")>>, <<Assign("p", Fresh)>>}
Move  == {<<Delete("p")>>, <<Declare("q", "p")>>, <<Declare("q", Fresh)>>,
          <<Declare("q", Fresh), Assign("p", "q")>>, <<Declare("q", "p"), Assign("p", "q")>>,
          <<Declare("q", "p"), Use("q"), Assign("p", Fresh)>>}
Acts  == Touch \cup Move

\* Statements after one that jumps are left out: what the code builds for them is the README's.
Then(acts, exits) == {a \o e : a \in acts, e \in {<<>>} \cup {<<x>> : x \in exits}}

After == {<<>>, <<Use("p")>>, <<Assign("p", Fresh)>>}

Straight == {a \o b \o c : a \in Acts, b \in Touch, c \in Touch}
Ifs ==
    {<<If(a)>> \o z : a \in Then(Acts, {Return, Throw}), z \in Touch}
    \cup {<<IfElse(a, b)>> \o z : a \in Then(Acts, {Return, Throw}), b \in Then(Touch, {Return, Throw}), z \in After}
    \cup {<<If(a \o <<If(b)>> \o c)>> \o z : a \in Touch, b \in Then(Acts, {Return}), c \in After, z \in After}
Chains ==
    LET arms == {<<a, b>> : a \in Then(Acts, {Return}), b \in Then(Touch, {Return, Throw})}
    IN  {<<stmt>> \o z : z \in {<<>>, <<Use("p")>>},
            stmt \in {Chain(ab) : ab \in arms} \cup {When(ab) : ab \in arms} \cup {WhenAll(ab) : ab \in arms}
                     \cup {ChainElse(ab, <<Eat("p")>>) : ab \in arms} \cup {WhenElse(ab, <<>>) : ab \in arms}}
Loops ==
    LET bodies == {a \o <<If(b)>> \o c : a \in Touch, b \in Then(Touch, {Break, Continue, Return}), c \in Touch}
                  \cup Acts
    IN  {<<stmt>> \o z : z \in After,
            stmt \in {While(b) : b \in bodies} \cup {Forever(b) : b \in bodies} \cup {For(<<>>, b) : b \in bodies}}
Tries ==
    LET bodies   == {a \o <<If(b)>> \o c : a \in Acts, b \in Then(After, {Return, Throw}), c \in {<<>>, <<Use("p")>>}}
        handlers == Then(After, {Return, Throw})    \* what gives p up in one is the README's
    IN  {<<stmt>> \o z : z \in {<<>>, <<Eat("p")>>},
            stmt \in {TryCatch(b, c) : b \in bodies, c \in handlers}
                     \cup {TryFinally(b, c) : b \in bodies, c \in After}
                     \cup {TryCatchFinally(b, c, <<Use("p")>>) : b \in bodies, c \in handlers}}
Nested ==
    LET inner == {<<If(a)>> : a \in Then(Acts, {Break, Return, Throw})}
                 \cup {<<ChainElse(<<a, <<Use("p")>>>>, <<>>)>> : a \in Acts} \cup {<<When(<<a, <<>>>>)>> : a \in Acts}
                 \cup {<<While(a)>> : a \in Acts} \cup {<<TryCatch(<<If(<<Throw>>)>>, a)>> : a \in After}
                 \cup {<<TryFinally(<<If(<<Throw>>)>>, a)>> : a \in After}
        local == {<<Declare("q", Fresh)>> \o k \o <<Use("q")>> : k \in inner}
        bodies == inner \cup local
    IN  {<<stmt>> \o z : z \in After,
            stmt \in {While(b) : b \in bodies} \cup {For(<<>>, b) : b \in bodies} \cup {Block(b) : b \in bodies}
                     \cup {TryCatch(b, <<>>) : b \in bodies} \cup {TryFinally(b, <<Use("p")>>) : b \in bodies}
                     \cup {WhenElse(<<b, <<>>>>, <<Use("p")>>) : b \in bodies}}


\* Coroutines: q is a local of the body itself or of an inner one.
Y         == <<Yield>>
MaybeY    == {<<>>, Y}
Before    == {<<>>, Y, <<Assign("p", Fresh)>>, <<Declare("q", Fresh)>>}
LastReads == {<<>>, <<Use("p")>>, <<Use("q")>>}
InBody    == {<<>>, <<Use("p")>>, <<Eat("p")>>, <<Assign("p", Fresh)>>, <<Declare("q", Fresh)>>, <<Declare("q", "p")>>,
              <<Declare("q", "p"), Assign("p", Fresh)>>}
Suspended == {a \o y \o b : a \in InBody, y \in MaybeY, b \in Touch \cup LastReads}
Coroutines ==
    LET reads    == {a \o y \o b : a \in {<<>>, <<Use("p")>>}, y \in MaybeY, b \in {<<>>, <<Use("p")>>}}
        arms     == {<<>>, Y, <<Use("p")>> \o Y, Y \o <<Throw>>, Y \o <<Return>>}
        jumps    == {<<If(x)>> : x \in {Y, <<Throw>>, Y \o <<Return>>, Y \o <<Break>>, Y \o <<Continue>>}}
        catches  == {<<>>, Y, <<Use("p")>> \o Y, Y \o <<Return>>}
        branches == {If(a) : a \in reads} \cup {IfElse(a, b) : a \in reads, b \in arms}
                    \cup {TryCatch(a \o <<If(<<Throw>>)>>, c) : a \in reads, c \in catches}
        changing == {If(a) : a \in Acts} \cup {IfElse(a, b) : a \in Acts, b \in Touch}
        loops    == {While(a) : a \in Suspended \cup jumps} \cup {For(<<>>, a) : a \in Suspended \cup jumps}
    IN  {a \o Y \o b \o y \o c : a \in InBody, b \in Touch \cup LastReads, y \in MaybeY, c \in LastReads}
        \cup {d \o <<s>> \o y \o z : d \in MaybeY, s \in branches, y \in MaybeY, z \in LastReads}
        \cup {d \o Y \o <<s>> \o z : d \in Before, s \in changing, z \in LastReads}
        \cup {d \o <<s>> \o y \o z : d \in Before, s \in loops, y \in MaybeY, z \in LastReads}

-----------------------------------------------------------------------------
(***************************************************************************)
(* What is known to go wrong, and is left out of the run that passes: each *)
(* of these is a line of the README's section on divergences.              *)
(***************************************************************************)
Exits == {"return", "break", "continue", "throw"}
Has(body, kinds) == \E s \in Within(body) : s.kind \in kinds
GivesUp(body)    == \E s \in Within(body) : s.kind \in {"eat", "delete"} \/ s.source \in Names
Changes(body)    == GivesUp(body) \/ Has(body, {"assign"})
EndsIn(body, kinds) == body # <<>> /\ Last(body).kind \in kinds

\* A jump out of the middle of a body that changes who owns what
JumpAmongChanges(s) ==
    s.kind \in {"while", "for"} /\ Has(Last(s.arms), {"break", "continue"}) /\ Changes(Last(s.arms))
\* A loop or a try that is left by a return at its own level
ReturnAtTop(s) ==
    s.kind \in {"while", "for", "try"} /\ \E k \in DOMAIN s.arms : EndsIn(s.arms[k], {"return"})
\* The owners after a branch are as its last arm left them, which ended
LastArmEnds(s) ==
    /\ s.kind = "when" \/ (s.kind = "chain" /\ s.has = {})
    /\ EndsIn(Last(s.arms), {"return", "throw"})
\* Revived first and given up later in the body: what the loop did not run for leaks
RevivedInLoop(s) == s.kind \in {"while", "for"} /\ Has(Last(s.arms), {"assign"}) /\ GivesUp(Last(s.arms))
\* The handlers, and what follows them, go on with the names of before the try
ChangedForHandlers(s) ==
    /\ s.kind = "try" /\ Has(s.arms[1], {"throw"})
    /\ \/ "catch" \in s.has /\ Has(s.arms[1], {"assign"})
       \/ Changes(s.arms[1]) /\ \E k \in 2 .. Len(s.arms) : Has(s.arms[k], {"use", "eat", "delete", "assign"})

\* What the cleanup records do not describe, which are one stretch of the code for each value:
Arms(s) == {s.arms[k] : k \in DOMAIN s.arms}
\* given up in one place after another, of which only the last cuts the stretch;
ThrowsAfter(arm, kinds) == EndsIn(arm, {"throw"}) /\ Has(arm, kinds)
GivenUpInAnotherArm(s) ==
    "else" \in s.has /\ \E k \in 2 .. Len(s.arms) : ThrowsAfter(s.arms[k], {"eat", "delete"})
GivenUpWhereCaught(s) ==
    "catch" \in s.has /\ \E t \in Within(s.arms[1]) : \E arm \in Arms(t) : ThrowsAfter(arm, {"eat", "delete"})
\* a value that two variables have had, the first of which ended it;
TakenOverThenThrown(s) ==
    \E arm \in Arms(s) : \E i, j \in DOMAIN arm :
        i < j /\ arm[i].kind = "declare" /\ arm[i].source \in Names /\ Has(<<arm[j]>>, {"throw"})
\* an owner that one arm throws with, another assigns, and the last leaves gone;
AssignedThenGone(s) ==
    /\ \E arm \in Arms(s) : EndsIn(arm, {"throw"}) /\ ~Changes(arm)
    /\ \E arm \in Arms(s) : ~EndsIn(arm, {"throw"}) /\ Has(arm, {"assign"})
    /\ Has(Last(s.arms), {"eat", "delete"}) \/ \A arm \in Arms(s) : EndsIn(arm, Exits)
\* and what a loop lays out before the place where its value is made.
HandledInLoop(s) ==
    /\ s.kind \in {"while", "for"}
    /\ \E t \in ToSet(Last(s.arms)) :
          /\ t.kind = "try"
          /\ (\E k \in 2 .. Len(t.arms) : Has(t.arms[k], {"assign"})) \/ \E i \in ToSet(Last(s.arms)) : i.kind = "declare"

\* No finally is built for a jump out of the body or the catch, nor for an exception of the catch
LeftPastFinally(s) ==
    /\ s.kind = "try" /\ "finally" \in s.has
    /\ Has(s.arms[1], Exits \ {"throw"}) \/ ("catch" \in s.has /\ Has(s.arms[2], Exits))
\* The initialiser's variables are destroyed by the increment
OwnerInForStart(s) == s.kind = "for" /\ Has(s.arms[1], {"declare"})

\* What a coroutine does not keep in step with its fields (README, section 5):
Owning(body) == Changes(body) \/ Has(body, {"declare"})
Branches(stmt) == {s \in Within(<<stmt>>) : s.kind \in {"if", "chain", "when"}}
\* the cleanup records of a throw,
ThrowsInCoroutine(body) == Has(body, {"throw"}) /\ Owning(body)
\* the fields of an inner scope that has ended,
ScopeEndsBeforeYield(stmt, later) == stmt.arms # <<>> /\ Has(<<stmt>>, {"declare"}) /\ Yields(later)
\* what only one arm has stored,
StoredInOneArm(stmt, earlier) == \E s \in Branches(stmt) : Yields(<<s>>) /\ Owning(<<stmt>> \o earlier)
\* and what only one arm has given up.
GivenUpInOneArm(stmt, later) == \E s \in Branches(stmt) : Changes(<<s>>) /\ Yields(<<stmt>> \o later)

SoundCoroutine(body) ==
    /\ ~ThrowsInCoroutine(body)
    /\ \A i \in DOMAIN body :
          LET earlier == SubSeq(body, 1, i - 1)
              later   == SubSeq(body, i + 1, Len(body))
          IN  /\ ~ScopeEndsBeforeYield(body[i], later)
              /\ ~StoredInOneArm(body[i], earlier)
              /\ ~GivenUpInOneArm(body[i], later)

Sound(body) ==
    /\ Yields(body) => SoundCoroutine(body)
    /\ \A s \in Within(body) :
        /\ ~JumpAmongChanges(s) /\ ~ReturnAtTop(s) /\ ~LastArmEnds(s) /\ ~RevivedInLoop(s)
        /\ ~OwnerInForStart(s) /\ ~ChangedForHandlers(s) /\ ~LeftPastFinally(s)
        /\ ~GivenUpInAnotherArm(s) /\ ~GivenUpWhereCaught(s) /\ ~TakenOverThenThrown(s)
        /\ ~AssignedThenGone(s) /\ ~HandledInLoop(s)

ProgramsValue == {body \in Straight \cup Ifs \cup Chains \cup Loops \cup Tries \cup Nested \cup Coroutines : Sound(body)}

\* README, "Where the code disagrees with its documents"
ScopeEndedBefore == {<<If(<<Declare("q", Fresh), Yield, Use("q")>>), Yield>>}
=============================================================================
