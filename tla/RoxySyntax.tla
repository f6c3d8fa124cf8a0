----------------------------- MODULE RoxySyntax -----------------------------
(***************************************************************************)
(* The statements of a Roxy function as the parser hands them on (ast.hpp).*)
(* A statement is a record: its kind, the variable it is about, where the  *)
(* value comes from, the bodies it contains and the clauses it has.        *)
(* Expressions are down to what ownership needs: a fresh `uniq T {}` or    *)
(* the name of a variable.  Conditions are opaque, but for `while (true)`. *)
(***************************************************************************)
EXTENDS Sequences

NoName == "none"
Fresh  == "fresh"        \* the expression `uniq T {}`
Caught == "e"            \* the variable of a catch clause

Simple(kind, name, source) ==
    [kind |-> kind, name |-> name, source |-> source, arms |-> <<>>, has |-> {}]
Compound(kind, arms, has) ==
    [kind |-> kind, name |-> NoName, source |-> NoName, arms |-> arms, has |-> has]

Declare(v, from) == Simple("declare", v, from)      \* var v: uniq T = from;
Assign(v, from)  == Simple("assign", v, from)       \* v = from;
Use(v)           == Simple("use", v, NoName)        \* show(v);   a `ref` parameter
Eat(v)           == Simple("eat", v, NoName)        \* take(v);   a `uniq` parameter
Delete(v)        == Simple("delete", v, NoName)
Return           == Simple("return", NoName, NoName)
Break            == Simple("break", NoName, NoName)
Continue         == Simple("continue", NoName, NoName)
Throw            == Simple("throw", NoName, NoName)
Yield            == Simple("yield", NoName, NoName) \* yield 0;   a function with one is a coroutine

Block(body)            == Compound("block", <<body>>, {})
If(then)               == Compound("if", <<then>>, {})
IfElse(then, else)     == Compound("if", <<then, else>>, {"else"})
\* if (..) {..} else if (..) {..} [else {..}]
Chain(arms)            == Compound("chain", arms, {})
ChainElse(arms, else)  == Compound("chain", Append(arms, else), {"else"})
\* `when` over an enumeration: its cases leave a value out, cover all, or are followed by `else`.
When(arms)             == Compound("when", arms, {})
WhenAll(arms)          == Compound("when", arms, {"exhaustive"})
WhenElse(arms, else)   == Compound("when", Append(arms, else), {"else"})
While(body)            == Compound("while", <<body>>, {})
Forever(body)          == Compound("while", <<body>>, {"true"})
For(start, body)       == Compound("for", <<start, body>>, {})
TryCatch(body, catch)  == Compound("try", <<body, catch>>, {"catch"})
TryFinally(body, last) == Compound("try", <<body, last>>, {"finally"})
TryCatchFinally(body, catch, last) ==
    Compound("try", <<body, catch, last>>, {"catch", "finally"})

\* The statements of a body and of the bodies in it.
RECURSIVE Within(_)
Within(body) == UNION {{body[i]} \cup UNION {Within(body[i].arms[j]) : j \in DOMAIN body[i].arms} : i \in DOMAIN body}

Yields(body) == \E s \in Within(body) : s.kind = "yield"        \* stmt_contains_yield
=============================================================================
