---------------------------- MODULE MCCompilation -----------------------------
(* Graphs of imports among three modules; and, where c imports a and b,      *)
(* programs with generic functions f and g and a struct s, and an abstract   *)
(* instance h that f's body names.                                           *)
EXTENDS Compilation

SourcesValue == <<"a", "b", "c">>

Lists(names) == {<<>>} \cup {<<m>> : m \in names} \cup {<<m, n>> : m, n \in names}

NoGenerics(graphs) ==
    [imports : graphs, owner : {[i \in Instance |-> "a"]}, uses : {[b \in Body |-> {}]}]

\* The imports of c are in either order, and b may import a.
Libraries == [a : {<<>>}, b : {<<>>, <<"a">>}, c : {<<"a", "b">>, <<"b", "a">>}]
Owners == {[f |-> o, h |-> o, g |-> p, s |-> "a"] : o, p \in {"a", "b"}}
Uses   == [a : {{}, {"f"}}, b : {{}, {"f"}, {"s"}}, c : {{"f"}, {"g"}, {"f", "g"}, {"s"}, {"f", "s"}},
           f : SUBSET {"g", "s", "h"}, g : {{}, {"f"}}, h : {{}}, s : {{}, {"f"}, {"g"}}]

\* A body names templates of its own module and of those that it imports.
Home(p, b) == IF b \in Module THEN b ELSE p.owner[b]
Named(p) ==
    \A b \in Body : \A i \in p.uses[b] :
        p.owner[i] = Home(p, b) \/ \E n \in DOMAIN p.imports[Home(p, b)] : p.imports[Home(p, b)][n] = p.owner[i]
Generic == {p \in [imports : Libraries, owner : Owners, uses : Uses] : Named(p)}

ProgramsValue == NoGenerics([Module -> Lists({"a", "b", "c"}) \cup {<<"native", "a">>}]) \cup Generic
=============================================================================
