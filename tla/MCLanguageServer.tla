--------------------------- MODULE MCLanguageServer ---------------------------
EXTENDS LanguageServer

Function(name, params)  == Declaration("function", "none", name, params)
Struct(name, fields)    == Declaration("struct", "none", name, fields)
Method(owner, name)     == Declaration("method", owner, name, 0)
Global(name)            == Declaration("global", "none", name, 0)

\* `main` and `limit` may be defined by several files, all else by one; c is not in the workspace.
TextsOfValue ==
    [a |-> {<<Global("limit")>>, <<Function("main", 0), Struct("Point", 1), Method("Point", "len")>>,
            <<Struct("Point", 2), Method("Point", "sum"), Method("Point", "len")>>},
     b |-> {<<Function("main", 0), Struct("Line", 1), Method("Line", "len")>>,
            <<Function("main", 0), Struct("Edge", 1), Method("Edge", "len"), Global("limit")>>},
     c |-> {<<Function("main", 0)>>}]
=============================================================================
