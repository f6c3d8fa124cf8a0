----------------------------- MODULE Compilation ------------------------------
(***************************************************************************)
(* The analysis of a program of several modules (compiler/driver/          *)
(* compiler.cpp, analyze_all) and the instances of generic functions and   *)
(* structs that it comes upon (compiler/types/generics.cpp, the worklist   *)
(* of compiler/sema/semantic.cpp): a body that names an instance creates   *)
(* it and queues it, and the instance's own body is analysed later, a      *)
(* function's with the names of the module that its template is from.      *)
(*                                                                         *)
(* Of a body only the instances that it names count, with those that the   *)
(* fields of structs among them name, which are resolved on the spot.      *)
(* Templates of the same name in two modules, which share the instances,   *)
(* and programs with errors in a body are left out.                        *)
(***************************************************************************)
EXTENDS ImportOrder, FiniteSets

CONSTANTS FunInstance,      \* the instances of generic functions that bodies may name
          StructInstance,   \* and of generic structs
          Abstract          \* those with a type parameter among the arguments

Instance == FunInstance \cup StructInstance
Body     == Module \cup Instance

ASSUME InstancesAssumption ==
    /\ FunInstance \cap StructInstance = {}
    /\ \A p \in Programs : p.owner \in [Instance -> Module] /\ p.uses \in [Body -> SUBSET Instance]

VARIABLES stage,            \* where in analyze_all the driver is
          at,               \* the position of the analysed module in the order
          instances,        \* the two caches of instances
          pendingFuns,      \* m_pending_funs
          pendingStructs,   \* m_pending_structs
          sidelined,        \* m_cross_module_funs
          taken,            \* what was taken out of a queue to be worked off
          analysed,         \* [Instance -> the modules whose analyzers went over its body]
          progress          \* total_drained # 0
analysisVars == <<stage, at, instances, pendingFuns, pendingStructs, sidelined, taken, analysed, progress>>
vars == <<sortVars, analysisVars>>

Owner(i)   == program.owner[i]
Analyzer   == compileOrder[at]
Concrete   == instances \ Abstract
InOrder    == at <= Len(compileOrder)

Init ==
    /\ SortInit
    /\ stage = "sort" /\ at = 1
    /\ instances = {} /\ pendingFuns = {} /\ pendingStructs = {} /\ sidelined = {} /\ taken = {}
    /\ analysed = [i \in Instance |-> <<>>]
    /\ progress = FALSE

-----------------------------------------------------------------------------
\* The worklist

\* instantiate_fun and instantiate_struct: what is in a cache is not queued again.
New(named) == named \ instances

Instantiate(body) ==
    LET new == New(program.uses[body])
    IN  /\ instances' = instances \cup new
        /\ pendingFuns' = pendingFuns \cup (new \cap FunInstance)
        /\ pendingStructs' = pendingStructs \cup (new \cap StructInstance)

AnalyzeBody(i) ==
    /\ analysed' = [analysed EXCEPT ![i] = Append(@, Analyzer)]
    /\ Instantiate(i)

SkipBody == UNCHANGED <<analysed, instances, pendingFuns, pendingStructs>>

\* What another module's template made waits for that module's analyzer.
Forget(f) == sidelined
Sideline(f) == sidelined \cup {f}

Uncounted == progress
Counted == TRUE

\* drain_pending_fun_instance
DrainInstance(f) ==
    /\ stage \in {"funs", "drain"} /\ f \in taken
    /\ taken' = taken \ {f}
    /\ IF f \in Abstract THEN SkipBody /\ UNCHANGED <<sidelined, progress>>
       ELSE IF Owner(f) = Analyzer
       THEN AnalyzeBody(f) /\ progress' = Counted /\ UNCHANGED sidelined
       ELSE SkipBody /\ sidelined' = Sideline(f) /\ UNCHANGED progress
    /\ UNCHANGED <<sortVars, stage, at>>

\* Structs are analysed by whoever has come upon them.
AnalyzeStruct(s) ==
    /\ stage = "structs" /\ s \in taken
    /\ taken' = taken \ {s}
    /\ IF s \in Abstract THEN SkipBody ELSE AnalyzeBody(s)
    /\ UNCHANGED <<sortVars, stage, at, sidelined, progress>>

-----------------------------------------------------------------------------
\* analyze_all: first each module by itself

Sort == SortNext /\ UNCHANGED analysisVars

BeginAnalysis ==
    /\ stage = "sort" /\ sorting = "sorted"
    /\ stage' = "bodies"
    /\ UNCHANGED <<sortVars, at, instances, pendingFuns, pendingStructs, sidelined, taken, analysed, progress>>

AnalyzeModule ==
    /\ stage = "bodies" /\ InOrder
    /\ Instantiate(Analyzer)
    /\ stage' = "worklist"
    /\ UNCHANGED <<sortVars, at, sidelined, taken, analysed, progress>>

TakeStructs ==
    /\ stage = "worklist" /\ pendingStructs \cup pendingFuns # {}
    /\ taken' = pendingStructs /\ pendingStructs' = {}
    /\ stage' = "structs"
    /\ UNCHANGED <<sortVars, at, instances, pendingFuns, sidelined, analysed, progress>>

TakeFuns ==
    /\ stage = "structs" /\ taken = {}
    /\ taken' = pendingFuns /\ pendingFuns' = {}
    /\ stage' = "funs"
    /\ UNCHANGED <<sortVars, at, instances, pendingStructs, sidelined, analysed, progress>>

RepeatWorklist ==
    /\ stage = "funs" /\ taken = {}
    /\ stage' = "worklist"
    /\ UNCHANGED <<sortVars, at, instances, pendingFuns, pendingStructs, sidelined, taken, analysed, progress>>

FinishModule ==
    /\ stage = "worklist" /\ pendingStructs \cup pendingFuns = {}
    /\ stage' = "bodies" /\ at' = at + 1
    /\ UNCHANGED <<sortVars, instances, pendingFuns, pendingStructs, sidelined, taken, analysed, progress>>

-----------------------------------------------------------------------------
\* and then, round after round, the functions that modules have made of other modules' templates.

FinishModules ==
    /\ stage = "bodies" /\ ~InOrder
    /\ stage' = "rounds"
    /\ UNCHANGED <<sortVars, at, instances, pendingFuns, pendingStructs, sidelined, taken, analysed, progress>>

Waiting == sidelined \cup pendingFuns # {}

BeginRound ==
    /\ stage = "rounds" /\ Waiting
    /\ pendingFuns' = pendingFuns \cup sidelined /\ sidelined' = {}
    /\ progress' = FALSE
    /\ stage' = "round" /\ at' = 1
    /\ UNCHANGED <<sortVars, instances, pendingStructs, taken, analysed>>

\* A module takes all that is pending, whoever owns it; the next one finds what has come since.
TakeForModule ==
    /\ stage = "round" /\ InOrder /\ pendingFuns # {}
    /\ taken' = pendingFuns /\ pendingFuns' = {}
    /\ stage' = "drain"
    /\ UNCHANGED <<sortVars, at, instances, pendingStructs, sidelined, analysed, progress>>

NextModule ==
    /\ stage = "drain" /\ taken = {}
    /\ stage' = "round" /\ at' = at + 1
    /\ UNCHANGED <<sortVars, instances, pendingFuns, pendingStructs, sidelined, taken, analysed, progress>>

AlwaysAnother == TRUE
AnotherRound == progress

EndRound ==
    /\ stage = "round" /\ (~InOrder \/ pendingFuns = {})
    /\ stage' = IF AnotherRound THEN "rounds" ELSE "done"
    /\ UNCHANGED <<sortVars, at, instances, pendingFuns, pendingStructs, sidelined, taken, analysed, progress>>

FinishRounds ==
    /\ stage = "rounds" /\ ~Waiting
    /\ stage' = "done"
    /\ UNCHANGED <<sortVars, at, instances, pendingFuns, pendingStructs, sidelined, taken, analysed, progress>>

Next ==
    \/ Sort \/ BeginAnalysis
    \/ AnalyzeModule \/ TakeStructs \/ TakeFuns \/ RepeatWorklist \/ FinishModule
    \/ \E i \in Instance : AnalyzeStruct(i) \/ DrainInstance(i)
    \/ FinishModules \/ BeginRound \/ TakeForModule \/ NextModule \/ EndRound \/ FinishRounds

\* The compiler is one thread that goes on until it is done.
Spec == Init /\ [][Next]_vars /\ WF_vars(Next)

-----------------------------------------------------------------------------
Stages == {"sort", "bodies", "worklist", "structs", "funs", "rounds", "round", "drain", "done"}

TypeOK ==
    /\ SortTypeOK
    /\ stage \in Stages
    /\ at \in Nat \ {0}
    /\ instances \subseteq Instance
    /\ pendingFuns \subseteq FunInstance /\ pendingStructs \subseteq StructInstance
    /\ sidelined \subseteq FunInstance /\ taken \subseteq Instance
    /\ analysed \in [Instance -> Seq(Module)]
    /\ progress \in BOOLEAN

Pending  == pendingFuns \cup pendingStructs
Analysed == {i \in Instance : analysed[i] # <<>>}

\* An instance that is made is in one place, through all that is taken, queued again and put
\* aside: it waits to be analysed, or it has been, once; a function by its template's module,
\* which alone has the names that the body means.
OnePlaceEach ==
    /\ TypeOK
    /\ Concrete \subseteq Pending \cup taken \cup sidelined \cup Analysed
    /\ Pending \cap taken = {} /\ (Pending \cup taken) \cap sidelined = {}
    /\ Analysed \cap (Pending \cup taken \cup sidelined \cup Abstract) = {}
    /\ \A i \in Analysed : Len(analysed[i]) = 1
    /\ \A f \in Analysed \cap FunInstance : analysed[f] = <<Owner(f)>>

\* build_generic_fun_instances: what the builder makes functions of.
BuiltBy(m) == {f \in Concrete \cap FunInstance : analysed[f] # <<>> /\ Owner(f) = m}

\* Templates that other modules' bodies use are all of the module that is compiled first.  With
\* a second such module, which of the functions are made depends on the order of the imports.
Lends(i) == compileOrder # <<>> /\ Owner(i) = compileOrder[1]
OnlyTheFirstLends ==
    /\ \A m \in Module : \A i \in program.uses[m] \cap FunInstance : Owner(i) = m \/ Lends(i)
    /\ \A f \in FunInstance : \A i \in program.uses[f] \cap FunInstance : Owner(i) = Owner(f) \/ Lends(i)
    /\ \A s \in StructInstance : \A i \in program.uses[s] \cap FunInstance : Lends(i)

\* "Iterate to a fixed point: an A-owned instance's body might instantiate a B-owned template":
\* every function that is called is there to be called, however instances lead to instances.
LentInstancesAreBuilt ==
    stage = "done" /\ OnlyTheFirstLends =>
        Concrete \cap FunInstance \subseteq UNION {BuiltBy(m) : m \in Module}

\* "break to avoid infinite loop": the driver gets done or refuses the program, as long as
\* instances do not make ever new ones.
AnalysisEnds == <>(stage = "done" \/ sorting = "refused")
=============================================================================
