----------------------------- MODULE ImportOrder ------------------------------
(***************************************************************************)
(* The order in which the driver compiles the modules of a program         *)
(* (compiler/driver/compiler.cpp, topological_sort and detect_cycle): a    *)
(* depth-first walk over the imports that either lists every module behind *)
(* those it imports, or refuses the program for a cycle.                   *)
(*                                                                         *)
(* The recursion of detect_cycle is an explicit stack: a frame is a module *)
(* and the position in its imports.                                        *)
(***************************************************************************)
EXTENDS Naturals, Sequences

CONSTANTS Module,       \* the script modules
          Name,         \* what an import may name: native modules, too
          Sources,      \* m_sources: the script modules as they were added
          Programs      \* the programs: what each module imports, and more that Compilation reads

ASSUME SourcesAssumption ==
    /\ Module \subseteq Name
    /\ Sources \in Seq(Module)
    /\ \A m \in Module : \E i \in DOMAIN Sources : Sources[i] = m
ASSUME ImportsAssumption == \A p \in Programs : p.imports \in [Module -> Seq(Name)]

VARIABLES program,      \* what is compiled
          state,        \* [Module -> how far the walk is with it]
          stack,        \* the calls of detect_cycle that have not returned
          compileOrder, \* m_compile_order
          sorting       \* "running", "sorted" or "refused"
sortVars == <<program, state, stack, compileOrder, sorting>>

Imports(m) == program.imports[m]
ScriptImports(m) == {Imports(m)[i] : i \in DOMAIN Imports(m)} \cap Module

SortInit ==
    /\ program \in Programs
    /\ state = [m \in Module |-> "unvisited"]
    /\ stack = <<>> /\ compileOrder = <<>> /\ sorting = "running"

-----------------------------------------------------------------------------
Top == stack[Len(stack)]
InCall == sorting = "running" /\ stack # <<>>

Enter(m, calls) ==
    /\ state' = [state EXCEPT ![m] = "visiting"]
    /\ stack' = Append(calls, [module |-> m, next |-> 1])

\* The import that the innermost call has come to is done with.
Advanced == [stack EXCEPT ![Len(stack)].next = @ + 1]

AtImport == InCall /\ Top.next <= Len(Imports(Top.module))
Import   == Imports(Top.module)[Top.next]

\* A module whose call has not returned imports, directly or not, the one that is looked at.
NothingCloses(m) == FALSE
ClosesACycle(m) == state[m] = "visiting"

\* topological_sort: the next module that no walk has come to.
VisitSource ==
    /\ sorting = "running" /\ stack = <<>>
    /\ \E i \in DOMAIN Sources :
           /\ state[Sources[i]] = "unvisited"
           /\ \A j \in 1 .. (i - 1) : state[Sources[j]] # "unvisited"
           /\ Enter(Sources[i], stack)
    /\ UNCHANGED <<program, compileOrder, sorting>>

FinishSort ==
    /\ sorting = "running" /\ stack = <<>>
    /\ \A i \in DOMAIN Sources : state[Sources[i]] # "unvisited"
    /\ sorting' = "sorted"
    /\ UNCHANGED <<program, state, stack, compileOrder>>

\* A native module, or one that is in the order already.
SkipImport ==
    /\ AtImport
    /\ Import \in Module => state[Import] # "unvisited" /\ ~ClosesACycle(Import)
    /\ stack' = Advanced
    /\ UNCHANGED <<program, state, compileOrder, sorting>>

\* Every call returns false: the compilation ends with an error.
RefuseCycle ==
    /\ AtImport /\ Import \in Module /\ ClosesACycle(Import)
    /\ sorting' = "refused"
    /\ UNCHANGED <<program, state, stack, compileOrder>>

FollowImport ==
    /\ AtImport /\ Import \in Module /\ state[Import] = "unvisited"
    /\ Enter(Import, Advanced)
    /\ UNCHANGED <<program, compileOrder, sorting>>

ReturnFromModule ==
    /\ InCall /\ Top.next > Len(Imports(Top.module))
    /\ state' = [state EXCEPT ![Top.module] = "visited"]
    /\ compileOrder' = Append(compileOrder, Top.module)
    /\ stack' = SubSeq(stack, 1, Len(stack) - 1)
    /\ UNCHANGED <<program, sorting>>

SortNext ==
    \/ VisitSource \/ FinishSort
    \/ SkipImport \/ RefuseCycle \/ FollowImport \/ ReturnFromModule

-----------------------------------------------------------------------------
SortTypeOK ==
    /\ program \in Programs
    /\ state \in [Module -> {"unvisited", "visiting", "visited"}]
    /\ stack \in Seq([module : Module, next : Nat \ {0}])
    /\ compileOrder \in Seq(Module)
    /\ sorting \in {"running", "sorted", "refused"}

\* Each module is listed once, and behind all that it imports.
ImportsFirst ==
    /\ \A i, j \in DOMAIN compileOrder : compileOrder[i] = compileOrder[j] => i = j
    /\ \A i \in DOMAIN compileOrder : \A m \in ScriptImports(compileOrder[i]) :
           \E j \in 1 .. (i - 1) : compileOrder[j] = m

\* Modules of which none can be compiled first.
Cyclic(modules) == modules # {} /\ \A m \in modules : ScriptImports(m) \cap modules # {}

\* "Analyze in topological order (dependencies first)": a module is analysed with the exports of
\* all that it imports known, so whatever the order of the sources and of the imports, a program
\* that is not refused lists every module, and one is refused only for a cycle.
SortedOrCyclic ==
    /\ ImportsFirst
    /\ sorting = "sorted" => \A m \in Module : \E i \in DOMAIN compileOrder : compileOrder[i] = m
    /\ sorting = "refused" => \E modules \in SUBSET Module : Cyclic(modules)
=============================================================================
