--------------------------- MODULE CompilationProofs --------------------------
(***************************************************************************)
(* Proofs about ImportOrder and Compilation: for any modules, imports and  *)
(* generic instances, a program is ordered with imports first or refused   *)
(* for a cycle, and an instance is never lost from the queues, nor         *)
(* analysed twice, nor a function's body by another module's analyzer.     *)
(***************************************************************************)
EXTENDS Compilation, SequenceTheorems, TLAPS

-----------------------------------------------------------------------------
(***************************************************************************)
(* The walk's invariant.  A module is being visited exactly while a call   *)
(* for it is open, each call was made for an import of the one before it,  *)
(* and of the imports that an open call has passed all are in the order    *)
(* but the one that the next call is for.                                  *)
(***************************************************************************)
Frame == [module : Module, next : Nat \ {0}]

Listed == \A m \in Module : state[m] = "visited" <=> \E i \in DOMAIN compileOrder : compileOrder[i] = m

OpenCalls ==
    /\ \A k \in DOMAIN stack : state[stack[k].module] = "visiting"
    /\ \A m \in Module : state[m] = "visiting" => \E k \in DOMAIN stack : stack[k].module = m
    /\ \A j, k \in DOMAIN stack : stack[j].module = stack[k].module => j = k

Chain == \A k \in DOMAIN stack : k + 1 \in DOMAIN stack => stack[k + 1].module \in ScriptImports(stack[k].module)

Passed(k, n) ==
    LET m == Imports(stack[k].module)[n]
    IN  m \in Module => state[m] = "visited" \/ (k + 1 \in DOMAIN stack /\ stack[k + 1].module = m)
Through ==
    \A k \in DOMAIN stack : \A n \in DOMAIN Imports(stack[k].module) : n < stack[k].next => Passed(k, n)

Ended ==
    /\ sorting = "sorted" => \A m \in Module : state[m] = "visited"
    /\ sorting = "refused" => \E modules \in SUBSET Module : Cyclic(modules)

SortInv == SortTypeOK /\ Listed /\ ImportsFirst /\ OpenCalls /\ Chain /\ Through /\ Ended

-----------------------------------------------------------------------------
\* What an import list and the stack hold.
LEMMA ImportLists ==
    ASSUME SortTypeOK, NEW m \in Module
    PROVE  /\ Imports(m) \in Seq(Name)
           /\ Len(Imports(m)) \in Nat /\ DOMAIN Imports(m) = 1 .. Len(Imports(m))
           /\ \A n \in DOMAIN Imports(m) : Imports(m)[n] \in Module => Imports(m)[n] \in ScriptImports(m)
BY ImportsAssumption DEF SortTypeOK, Imports, ScriptImports

LEMMA StackIsSequence ==
    ASSUME SortTypeOK
    PROVE  /\ stack \in Seq(Frame) /\ Len(stack) \in Nat /\ DOMAIN stack = 1 .. Len(stack)
           /\ \A k \in 1 .. Len(stack) : stack[k].module \in Module /\ stack[k].next \in Nat \ {0} /\ stack[k] \in Frame
           /\ stack # <<>> => Len(stack) \in DOMAIN stack
<1>1. stack \in Seq(Frame)
  BY DEF SortTypeOK, Frame
<1>2. Len(stack) \in Nat /\ DOMAIN stack = 1 .. Len(stack)
  BY <1>1, LenProperties
<1>3. ASSUME NEW k \in 1 .. Len(stack)
      PROVE  stack[k].module \in Module /\ stack[k].next \in Nat \ {0} /\ stack[k] \in Frame
  <2>1. stack[k] \in Frame
    BY <1>1, <1>3, ElementOfSeq
  <2> QED  BY <2>1 DEF Frame
<1>4. stack # <<>> => Len(stack) \in Nat \ {0}
  BY <1>1, EmptySeq
<1> QED  BY <1>1, <1>2, <1>3, <1>4

LEMMA AdvanceStack ==
    ASSUME SortTypeOK, stack # <<>>
    PROVE  /\ Advanced \in Seq(Frame) /\ Len(Advanced) = Len(stack) /\ DOMAIN Advanced = 1 .. Len(stack)
           /\ \A k \in 1 .. Len(stack) : Advanced[k].module = stack[k].module
           /\ \A k \in 1 .. Len(stack) - 1 : Advanced[k].next = stack[k].next
           /\ Advanced[Len(stack)].next = stack[Len(stack)].next + 1
<1> DEFINE n == Len(stack)
           frame == [stack[n] EXCEPT !.next = @ + 1]
<1>1. stack \in Seq(Frame) /\ n \in 1 .. Len(stack) /\ stack[n] \in Frame /\ n \in Nat
  BY StackIsSequence
<1>2. frame \in Frame /\ frame.module = stack[n].module /\ frame.next = stack[n].next + 1
  BY <1>1 DEF Frame
<1>3. Advanced = [stack EXCEPT ![n] = frame]
  BY DEF Advanced
<1>4. /\ Advanced \in Seq(Frame) /\ Len(Advanced) = n
      /\ \A k \in 1 .. n : Advanced[k] = IF k = n THEN frame ELSE stack[k]
  <2> HIDE DEF n, frame
  <2> QED  BY <1>1, <1>2, <1>3, ExceptSeq DEF n
<1>5. DOMAIN Advanced = 1 .. n
  BY <1>4, LenProperties
<1> HIDE DEF frame
<1>6. ASSUME NEW k \in 1 .. n
      PROVE  Advanced[k].module = stack[k].module /\ (k # n => Advanced[k].next = stack[k].next)
  BY <1>2, <1>4, <1>6
<1>7. Advanced[n].next = stack[n].next + 1
  BY <1>1, <1>2, <1>4
<1>8. \A k \in 1 .. n - 1 : k \in 1 .. n /\ k # n
  BY <1>1
<1> QED  BY <1>4, <1>5, <1>6, <1>7, <1>8

\* A new call on top of those that are open.
LEMMA EnterStack ==
    ASSUME SortTypeOK, NEW m \in Module, NEW calls \in Seq(Frame), Enter(m, calls)
    PROVE  /\ stack' \in Seq(Frame) /\ Len(stack') = Len(calls) + 1 /\ DOMAIN stack' = 1 .. Len(calls) + 1
           /\ \A k \in 1 .. Len(calls) : stack'[k] = calls[k]
           /\ stack'[Len(calls) + 1].module = m /\ stack'[Len(calls) + 1].next = 1
           /\ state' \in [Module -> {"unvisited", "visiting", "visited"}]
           /\ state'[m] = "visiting" /\ \A o \in Module \ {m} : state'[o] = state[o]
<1> DEFINE frame == [module |-> m, next |-> 1]
<1>1. frame \in Frame /\ frame.module = m /\ frame.next = 1
  BY DEF Frame
<1>2. stack' = Append(calls, frame)
  BY DEF Enter
<1>3. /\ stack' \in Seq(Frame) /\ Len(stack') = Len(calls) + 1
      /\ \A k \in 1 .. Len(calls) : stack'[k] = calls[k]
      /\ stack'[Len(calls) + 1] = frame
  <2> HIDE DEF frame
  <2> QED  BY <1>1, <1>2, AppendProperties
<1>4. DOMAIN stack' = 1 .. Len(calls) + 1
  BY <1>3, LenProperties
<1>5. /\ state' \in [Module -> {"unvisited", "visiting", "visited"}]
      /\ state'[m] = "visiting" /\ \A o \in Module \ {m} : state'[o] = state[o]
  BY DEF Enter, SortTypeOK
<1> QED  BY <1>1, <1>3, <1>4, <1>5

LEMMA SortInitInv == SortInit => SortInv
<1> SUFFICES ASSUME SortInit PROVE SortInv
  OBVIOUS
<1>1. SortTypeOK
  BY EmptySeq DEF SortInit, SortTypeOK
<1>2. DOMAIN stack = {} /\ DOMAIN compileOrder = {}
  BY DEF SortInit
<1> QED  BY <1>1, <1>2 DEF SortInit, SortInv, Listed, ImportsFirst, OpenCalls, Chain, Through, Ended

-----------------------------------------------------------------------------
\* A module that the walk enters is new to it.  The frames below are those of before, but that the
\* last of them may have moved on to the import that is entered.
LEMMA EnterInv ==
    ASSUME SortInv, NEW m \in Module, state[m] = "unvisited", NEW calls \in Seq(Frame), Enter(m, calls),
           Len(calls) = Len(stack),
           \A k \in 1 .. Len(stack) : calls[k].module = stack[k].module,
           \A k \in 1 .. Len(stack) - 1 : calls[k].next = stack[k].next,
           stack # <<>> =>
               LET last == Len(stack)
                   i    == stack[last].next
               IN  /\ calls[last].next = i + 1
                   /\ i \in DOMAIN Imports(stack[last].module) /\ Imports(stack[last].module)[i] = m,
           UNCHANGED <<program, compileOrder, sorting>>, sorting = "running"
    PROVE  SortInv'
<1> DEFINE n == Len(stack)
<1>1. /\ n \in Nat /\ DOMAIN stack = 1 .. n /\ n # 0 => stack # <<>> 
      /\ \A k \in 1 .. n : stack[k].module \in Module /\ stack[k].next \in Nat \ {0}
  BY StackIsSequence, EmptySeq DEF SortInv
<1>2. /\ stack' \in Seq(Frame) /\ DOMAIN stack' = 1 .. n + 1
      /\ \A k \in 1 .. n : stack'[k] = calls[k]
      /\ stack'[n + 1].module = m /\ stack'[n + 1].next = 1
  BY EnterStack DEF SortInv
<1>3. /\ state' \in [Module -> {"unvisited", "visiting", "visited"}]
      /\ state'[m] = "visiting" /\ \A o \in Module \ {m} : state'[o] = state[o]
  BY EnterStack DEF SortInv
<1>4. \A k \in 1 .. n : stack'[k].module = stack[k].module /\ stack[k].module # m
  BY <1>1, <1>2 DEF SortInv, OpenCalls
<1>5. SortTypeOK'
  BY <1>2, <1>3 DEF SortInv, SortTypeOK, Frame
<1>6. Listed' /\ ImportsFirst'
  BY <1>3 DEF SortInv, Listed, ImportsFirst, ScriptImports, Imports
<1>7. OpenCalls'
  <2>1. \A k \in DOMAIN stack' : state'[stack'[k].module] = "visiting"
    BY <1>1, <1>2, <1>3, <1>4 DEF SortInv, OpenCalls
  <2>2. \A o \in Module : state'[o] = "visiting" => \E k \in DOMAIN stack' : stack'[k].module = o
    BY <1>1, <1>2, <1>3, <1>4 DEF SortInv, OpenCalls
  <2>3. \A j, k \in DOMAIN stack' : stack'[j].module = stack'[k].module => j = k
    BY <1>1, <1>2, <1>4 DEF SortInv, OpenCalls
  <2> QED  BY <2>1, <2>2, <2>3 DEF OpenCalls
<1>8. Chain'
  <2> SUFFICES ASSUME NEW k \in 1 .. n
               PROVE  stack'[k + 1].module \in ScriptImports(stack[k].module)'
    BY <1>1, <1>2 DEF Chain
  <2>1. ScriptImports(stack[k].module)' = ScriptImports(stack[k].module)
    BY <1>4 DEF ScriptImports, Imports
  <2>2. CASE k = n
    BY <1>1, <1>2, <2>1, <2>2, ImportLists DEF SortInv
  <2>3. CASE k # n
    <3>1. k \in DOMAIN stack /\ k + 1 \in DOMAIN stack /\ k + 1 \in 1 .. n
      BY <1>1, <2>3
    <3>2. stack[k + 1].module \in ScriptImports(stack[k].module)
      BY <3>1 DEF SortInv, Chain
    <3> QED  BY <1>4, <2>1, <3>1, <3>2
  <2> QED  BY <2>2, <2>3
<1>9. Through'
  <2> SUFFICES ASSUME NEW k \in 1 .. n + 1, NEW i \in DOMAIN Imports(stack[k].module)', i < stack'[k].next
               PROVE  Passed(k, i)'
    BY <1>2 DEF Through
  <2>1. k \in 1 .. n
    <3>1. k = n + 1 => Imports(stack[k].module)' = Imports(m) /\ i < 1
      BY <1>2 DEF Imports
    <3>2. k # n + 1
      BY <3>1, ImportLists DEF SortInv
    <3> QED  BY <1>1, <3>2
  <2>2. Imports(stack[k].module)' = Imports(stack[k].module)
    BY <1>4, <2>1 DEF Imports
  <2>3. i \in Nat
    BY <1>1, <2>1, <2>2, ImportLists DEF SortInv
  <2>4. CASE k = n /\ i = stack[n].next
    BY <1>1, <1>2, <2>1, <2>2, <2>4 DEF Passed
  <2>5. CASE ~(k = n /\ i = stack[n].next)
    <3>1. i < stack[k].next
      <4>1. CASE k = n
        <5>1. stack # <<>> /\ calls[n].next = stack[n].next + 1
          BY <1>1, <2>1, <4>1
        <5> QED  BY <1>1, <1>2, <2>1, <2>3, <2>5, <4>1, <5>1
      <4>2. CASE k # n
        <5>1. k \in 1 .. Len(stack) - 1
          BY <1>1, <2>1, <4>2
        <5> QED  BY <1>2, <2>1, <5>1
      <4> QED  BY <4>1, <4>2
    <3>2. Passed(k, i)
      BY <1>1, <2>1, <2>2, <3>1 DEF SortInv, Through
    <3> QED  BY <1>1, <1>2, <1>3, <1>4, <2>1, <2>2, <3>2 DEF Passed
  <2> QED  BY <2>4, <2>5
<1>10. Ended'
  BY DEF Ended
<1> QED  BY <1>5, <1>6, <1>7, <1>8, <1>9, <1>10 DEF SortInv

LEMMA VisitSourceInv == SortInv /\ VisitSource => SortInv'
<1> SUFFICES ASSUME SortInv, VisitSource PROVE SortInv'
  OBVIOUS
<1>1. PICK i \in DOMAIN Sources : state[Sources[i]] = "unvisited" /\ Enter(Sources[i], stack)
  BY DEF VisitSource
<1>2. Sources[i] \in Module
  BY <1>1, SourcesAssumption
<1> QED  BY <1>1, <1>2, EnterInv, StackIsSequence DEF VisitSource, SortInv

LEMMA FollowImportInv == SortInv /\ FollowImport => SortInv'
<1> SUFFICES ASSUME SortInv, FollowImport PROVE SortInv'
  OBVIOUS
<1>1. /\ stack # <<>> /\ Import \in Module /\ state[Import] = "unvisited" /\ Enter(Import, Advanced)
      /\ Import = Imports(stack[Len(stack)].module)[stack[Len(stack)].next]
      /\ stack[Len(stack)].next <= Len(Imports(stack[Len(stack)].module))
  BY DEF FollowImport, AtImport, InCall, Import, Top
<1>2. stack[Len(stack)].next \in DOMAIN Imports(stack[Len(stack)].module)
  BY <1>1, StackIsSequence, ImportLists DEF SortInv
<1>3. SortTypeOK
  BY DEF SortInv
<1> QED  BY <1>1, <1>2, <1>3, EnterInv, AdvanceStack DEF FollowImport, AtImport, InCall

LEMMA FinishSortInv == SortInv /\ FinishSort => SortInv'
<1> SUFFICES ASSUME SortInv, FinishSort PROVE SortInv'
  OBVIOUS
<1>1. DOMAIN stack = {}
  BY DEF FinishSort
<1>2. \A m \in Module : state[m] = "visited"
  <2> SUFFICES ASSUME NEW m \in Module PROVE state[m] = "visited"
    OBVIOUS
  <2>1. state[m] # "unvisited"
    BY SourcesAssumption DEF FinishSort
  <2>2. state[m] # "visiting"
    BY <1>1 DEF SortInv, OpenCalls
  <2> QED  BY <2>1, <2>2 DEF SortInv, SortTypeOK
<1>3. SortTypeOK' /\ Listed' /\ ImportsFirst'
  BY DEF FinishSort, SortInv, SortTypeOK, Listed, ImportsFirst, ScriptImports, Imports
<1>4. OpenCalls' /\ Chain' /\ Through'
  BY <1>1 DEF FinishSort, SortInv, OpenCalls, Chain, Through
<1>5. Ended'
  BY <1>2 DEF FinishSort, SortInv, Ended
<1> QED  BY <1>3, <1>4, <1>5 DEF SortInv

LEMMA SkipImportInv == SortInv /\ SkipImport => SortInv'
<1> SUFFICES ASSUME SortInv, SkipImport PROVE SortInv'
  OBVIOUS
<1> DEFINE n == Len(stack)
<1>1. /\ n \in Nat /\ DOMAIN stack = 1 .. n /\ stack # <<>> /\ n \in 1 .. n
      /\ \A k \in 1 .. n : stack[k].module \in Module /\ stack[k].next \in Nat \ {0}
  BY StackIsSequence DEF SortInv, SkipImport, AtImport, InCall
<1>2. /\ stack' \in Seq(Frame) /\ DOMAIN stack' = 1 .. n
      /\ \A k \in 1 .. n : stack'[k].module = stack[k].module
      /\ \A k \in 1 .. n - 1 : stack'[k].next = stack[k].next
      /\ stack'[n].next = stack[n].next + 1
  BY <1>1, AdvanceStack DEF SkipImport, SortInv
<1>3. UNCHANGED <<program, state, compileOrder, sorting>>
  BY DEF SkipImport
<1>4. SortTypeOK' /\ Listed' /\ ImportsFirst' /\ Ended'
  <2>1. SortTypeOK'
    BY <1>2, <1>3 DEF SortInv, SortTypeOK, Frame
  <2>2. Listed' /\ ImportsFirst'
    BY <1>3 DEF SortInv, Listed, ImportsFirst, ScriptImports, Imports
  <2>3. Ended'
    BY DEF SkipImport, AtImport, InCall, Ended
  <2> QED  BY <2>1, <2>2, <2>3
<1>5. OpenCalls'
  <2>1. \A k \in DOMAIN stack' : state'[stack'[k].module] = "visiting"
    BY <1>1, <1>2, <1>3 DEF SortInv, OpenCalls
  <2>2. \A m \in Module : state'[m] = "visiting" => \E k \in DOMAIN stack' : stack'[k].module = m
    BY <1>1, <1>2, <1>3 DEF SortInv, OpenCalls
  <2>3. \A j, k \in DOMAIN stack' : stack'[j].module = stack'[k].module => j = k
    BY <1>1, <1>2 DEF SortInv, OpenCalls
  <2> QED  BY <2>1, <2>2, <2>3 DEF OpenCalls
<1>6. Chain'
  <2> SUFFICES ASSUME NEW k \in 1 .. n, k + 1 \in 1 .. n
               PROVE  stack'[k + 1].module \in ScriptImports(stack[k].module)'
    BY <1>2 DEF Chain
  <2>1. ScriptImports(stack[k].module)' = ScriptImports(stack[k].module)
    BY <1>2, <1>3 DEF ScriptImports, Imports
  <2> QED  BY <1>1, <1>2, <2>1 DEF SortInv, Chain
<1>7. Through'
  <2> SUFFICES ASSUME NEW k \in 1 .. n, NEW i \in DOMAIN Imports(stack[k].module)', i < stack'[k].next
               PROVE  Passed(k, i)'
    BY <1>2 DEF Through
  <2>1. Imports(stack[k].module)' = Imports(stack[k].module)
    BY <1>2, <1>3 DEF Imports
  <2>2. i \in Nat /\ i \in DOMAIN Imports(stack[k].module)
    BY <1>1, <2>1, ImportLists DEF SortInv
  <2>3. Passed(k, i)
    <3>1. CASE k = n /\ i = stack[n].next
      <4>1. Import = Imports(stack[k].module)[i]
        BY <3>1 DEF Import, Top
      <4>2. Import \in Module => state[Import] = "visited"
        BY DEF SkipImport, ClosesACycle, SortInv, SortTypeOK
      <4> QED  BY <4>1, <4>2 DEF Passed
    <3>2. CASE ~(k = n /\ i = stack[n].next)
      <4>1. i < stack[k].next
        <5>1. CASE k = n
          BY <1>1, <1>2, <2>2, <3>2, <5>1
        <5>2. CASE k # n
          <6>1. k \in 1 .. n - 1
            BY <1>1, <5>2
          <6> QED  BY <1>2, <6>1
        <5> QED  BY <5>1, <5>2
      <4> QED  BY <1>1, <2>2, <4>1 DEF SortInv, Through
    <3> QED  BY <3>1, <3>2
  <2> QED  BY <1>1, <1>2, <1>3, <2>1, <2>3 DEF Passed
<1> QED  BY <1>4, <1>5, <1>6, <1>7 DEF SortInv

\* The module that closes the cycle is one of the open calls', and from there on each imports the next.
LEMMA RefuseCycleInv == SortInv /\ RefuseCycle => SortInv'
<1> SUFFICES ASSUME SortInv, RefuseCycle PROVE SortInv'
  OBVIOUS
<1> DEFINE n == Len(stack)
<1>1. /\ n \in Nat /\ DOMAIN stack = 1 .. n /\ n \in 1 .. n
      /\ \A k \in 1 .. n : stack[k].module \in Module /\ stack[k].next \in Nat \ {0}
  BY StackIsSequence DEF SortInv, RefuseCycle, AtImport, InCall
<1>2. PICK first \in 1 .. n : stack[first].module = Import
  BY <1>1 DEF SortInv, OpenCalls, RefuseCycle, ClosesACycle
<1> DEFINE modules == {stack[k].module : k \in first .. n}
<1>3. modules \in SUBSET Module /\ modules # {}
  BY <1>1, <1>2
<1>4. Import \in ScriptImports(stack[n].module)
  <2>1. stack[n].next \in DOMAIN Imports(stack[n].module)
    BY <1>1, ImportLists DEF SortInv, RefuseCycle, AtImport, Top
  <2>2. Import = Imports(stack[n].module)[stack[n].next] /\ Import \in Module
    BY DEF RefuseCycle, Import, Top
  <2> QED  BY <1>1, <2>1, <2>2, ImportLists DEF SortInv
<1>5. ASSUME NEW k \in first .. n
      PROVE  ScriptImports(stack[k].module) \cap modules # {}
  <2>1. CASE k = n
    <3>1. Import \in modules
      BY <1>1, <1>2
    <3> QED  BY <1>4, <2>1, <3>1
  <2>2. CASE k # n
    <3>1. k \in DOMAIN stack /\ k + 1 \in DOMAIN stack /\ k + 1 \in first .. n
      <4>1. n \in Nat /\ first \in 1 .. n /\ k \in first .. n /\ k # n
        BY <1>1, <1>2, <1>5, <2>2
      <4> HIDE DEF n
      <4>2. k \in 1 .. n /\ k + 1 \in 1 .. n /\ k + 1 \in first .. n
        BY <4>1
      <4> QED  BY <1>1, <4>2 DEF n
    <3>2. stack[k + 1].module \in ScriptImports(stack[k].module)
      BY <3>1 DEF SortInv, Chain
    <3>3. stack[k + 1].module \in modules
      BY <3>1
    <3> QED  BY <3>2, <3>3
  <2> QED  BY <2>1, <2>2
<1>6. Cyclic(modules)
  BY <1>3, <1>5 DEF Cyclic
<1>7. Ended'
  <2>1. \A s : Cyclic(s)' <=> Cyclic(s)
    BY DEF Cyclic, RefuseCycle, ScriptImports, Imports
  <2>2. \E s \in SUBSET Module : Cyclic(s)'
    BY <1>3, <1>6, <2>1
  <2> QED  BY <2>2 DEF Ended, RefuseCycle
<1>8. SortTypeOK' /\ Listed' /\ ImportsFirst'
  BY DEF RefuseCycle, SortInv, SortTypeOK, Listed, ImportsFirst, ScriptImports, Imports
<1>9. OpenCalls' /\ Chain' /\ Through'
  BY DEF RefuseCycle, SortInv, OpenCalls, Chain, Through, Passed, ScriptImports, Imports
<1> QED  BY <1>7, <1>8, <1>9 DEF SortInv

\* The module that the innermost call is for goes behind the order, which has all of its imports.
LEMMA ReturnFromModuleInv == SortInv /\ ReturnFromModule => SortInv'
<1> SUFFICES ASSUME SortInv, ReturnFromModule PROVE SortInv'
  OBVIOUS
<1> DEFINE n == Len(stack)
           o == Len(compileOrder)
           m == stack[n].module
<1>1. /\ n \in Nat /\ DOMAIN stack = 1 .. n /\ n \in 1 .. n /\ stack \in Seq(Frame)
      /\ \A k \in 1 .. n : stack[k].module \in Module /\ stack[k].next \in Nat \ {0} /\ stack[k] \in Frame
  BY StackIsSequence DEF SortInv, ReturnFromModule, InCall
<1>2. /\ stack' \in Seq(Frame) /\ DOMAIN stack' = 1 .. n - 1
      /\ \A k \in 1 .. n - 1 : stack'[k] = stack[k] /\ k \in 1 .. n /\ k # n
  <2>1. stack' = SubSeq(stack, 1, n - 1)
    BY DEF ReturnFromModule
  <2>2. \A k \in 1 .. n - 1 : stack[k] \in Frame /\ k \in 1 .. n /\ k # n
    <3>1. n \in Nat /\ \A k \in 1 .. n : stack[k] \in Frame
      BY <1>1
    <3> HIDE DEF n
    <3>2. \A k \in 1 .. n - 1 : k \in 1 .. n /\ k # n
      BY <3>1
    <3> QED  BY <3>1, <3>2
  <2>3. /\ stack' \in Seq(Frame) /\ Len(stack') = n - 1
        /\ \A k \in 1 .. n - 1 : stack'[k] = stack[k]
    <3> HIDE DEF n
    <3>1. n - 1 \in Int /\ 1 \in Int /\ (n - 1) - 1 + 1 = n - 1 /\ \A k \in 1 .. n - 1 : 1 + k - 1 = k
      BY <1>1
    <3>2. /\ SubSeq(stack, 1, n - 1) \in Seq(Frame)
          /\ Len(SubSeq(stack, 1, n - 1)) = IF 1 <= n - 1 THEN (n - 1) - 1 + 1 ELSE 0
          /\ \A k \in 1 .. (n - 1) - 1 + 1 : SubSeq(stack, 1, n - 1)[k] = stack[1 + k - 1]
      BY <2>2, <3>1, SubSeqProperties
    <3> QED  BY <1>1, <2>1, <3>1, <3>2
  <2>4. DOMAIN stack' = 1 .. n - 1
    BY <2>3, LenProperties
  <2> QED  BY <2>2, <2>3, <2>4
<1>3. m \in Module /\ state[m] = "visiting"
  BY <1>1 DEF SortInv, OpenCalls
<1>4. /\ state' \in [Module -> {"unvisited", "visiting", "visited"}]
      /\ state'[m] = "visited" /\ \A p \in Module \ {m} : state'[p] = state[p]
  BY <1>3 DEF ReturnFromModule, Top, SortInv, SortTypeOK
<1>5. compileOrder \in Seq(Module) /\ o \in Nat /\ DOMAIN compileOrder = 1 .. o
  BY LenProperties DEF SortInv, SortTypeOK
<1>6. /\ compileOrder' \in Seq(Module) /\ DOMAIN compileOrder' = 1 .. o + 1
      /\ \A i \in 1 .. o : compileOrder'[i] = compileOrder[i] /\ i # o + 1
      /\ compileOrder'[o + 1] = m
  <2>1. compileOrder' = Append(compileOrder, m)
    BY DEF ReturnFromModule, Top
  <2>2. /\ compileOrder' \in Seq(Module) /\ Len(compileOrder') = o + 1
        /\ \A i \in 1 .. o : compileOrder'[i] = compileOrder[i]
        /\ compileOrder'[o + 1] = m
    <3> HIDE DEF m
    <3> QED  BY <1>3, <1>5, <2>1, AppendProperties
  <2> QED  BY <1>5, <2>2, LenProperties
<1>7. SortTypeOK'
  BY <1>2, <1>4, <1>6 DEF ReturnFromModule, SortInv, SortTypeOK, Frame
<1> HIDE DEF n, o, m
<1>8. Listed'
  <2> SUFFICES ASSUME NEW p \in Module
               PROVE  state'[p] = "visited" <=> \E i \in DOMAIN compileOrder' : compileOrder'[i] = p
    BY DEF Listed
  <2>1. CASE p = m
    BY <1>4, <1>5, <1>6, <2>1
  <2>2. CASE p # m
    <3>1. state[p] = "visited" <=> \E i \in DOMAIN compileOrder : compileOrder[i] = p
      BY DEF SortInv, Listed
    <3> QED  BY <1>4, <1>5, <1>6, <2>2, <3>1
  <2> QED  BY <2>1, <2>2
<1>9. \A d \in ScriptImports(m) : state[d] = "visited"
  <2> SUFFICES ASSUME NEW d \in ScriptImports(m) PROVE state[d] = "visited"
    OBVIOUS
  <2>1. PICK i \in DOMAIN Imports(m) : Imports(m)[i] = d /\ d \in Module
    BY DEF ScriptImports
  <2>2. i < stack[n].next
    <3>1. stack[n].next > Len(Imports(m))
      BY DEF ReturnFromModule, Top, n, m
    <3>2. i \in 1 .. Len(Imports(m)) /\ Len(Imports(m)) \in Nat
      BY <1>3, <2>1, ImportLists DEF SortInv
    <3> QED  BY <1>1, <3>1, <3>2
  <2>3. Passed(n, i)
    BY <1>1, <2>1, <2>2 DEF SortInv, Through, m
  <2>4. n + 1 \notin DOMAIN stack
    BY <1>1
  <2> QED  BY <2>1, <2>3, <2>4 DEF Passed, m
<1>10. ImportsFirst'
  <2>1. \A p \in Module : ScriptImports(p)' = ScriptImports(p)
    BY DEF ReturnFromModule, ScriptImports, Imports
  <2>2. \A i \in 1 .. o : compileOrder[i] # m
    BY <1>3, <1>5 DEF SortInv, Listed
  <2>3. \A i, j \in DOMAIN compileOrder' : compileOrder'[i] = compileOrder'[j] => i = j
    BY <1>5, <1>6, <2>2 DEF SortInv, ImportsFirst
  <2>4. ASSUME NEW i \in 1 .. o + 1, NEW d \in ScriptImports(compileOrder[i])'
        PROVE  \E j \in 1 .. (i - 1) : compileOrder'[j] = d
    <3>1. CASE i = o + 1
      <4>1. d \in ScriptImports(m)
        BY <1>3, <1>6, <2>1, <2>4, <3>1 DEF ScriptImports, Imports, ReturnFromModule
      <4>2. PICK j \in DOMAIN compileOrder : compileOrder[j] = d
        BY <1>9, <4>1 DEF SortInv, Listed, ScriptImports
      <4> QED  BY <1>5, <1>6, <3>1, <4>2
    <3>2. CASE i # o + 1
      <4>1. i \in 1 .. o
        BY <1>5, <2>4, <3>2
      <4>2. d \in ScriptImports(compileOrder[i])
        BY <1>6, <2>4, <4>1 DEF ScriptImports, Imports, ReturnFromModule
      <4>3. PICK j \in 1 .. (i - 1) : compileOrder[j] = d
        BY <1>5, <4>1, <4>2 DEF SortInv, ImportsFirst
      <4>4. j \in 1 .. o
        BY <1>5, <4>1, <4>3
      <4> QED  BY <1>6, <4>3, <4>4
    <3> QED  BY <3>1, <3>2
  <2> QED  BY <1>6, <2>3, <2>4 DEF ImportsFirst
<1>11. \A k \in 1 .. n - 1 : stack[k].module # m /\ stack[k].module \in Module
  BY <1>1, <1>2 DEF SortInv, OpenCalls, m
<1>12. OpenCalls'
  <2>1. \A k \in DOMAIN stack' : state'[stack'[k].module] = "visiting"
    BY <1>1, <1>2, <1>4, <1>11 DEF SortInv, OpenCalls
  <2>2. ASSUME NEW p \in Module, state'[p] = "visiting"
        PROVE  \E k \in DOMAIN stack' : stack'[k].module = p
    <3>1. p # m /\ state[p] = "visiting"
      BY <1>4, <2>2
    <3>2. PICK k \in 1 .. n : stack[k].module = p
      BY <1>1, <3>1 DEF SortInv, OpenCalls
    <3>3. k \in 1 .. n - 1
      BY <1>1, <3>1, <3>2 DEF m
    <3> QED  BY <1>2, <3>2, <3>3
  <2>3. \A j, k \in DOMAIN stack' : stack'[j].module = stack'[k].module => j = k
    BY <1>1, <1>2 DEF SortInv, OpenCalls
  <2> QED  BY <2>1, <2>2, <2>3 DEF OpenCalls
<1>13. Chain'
  <2> SUFFICES ASSUME NEW k \in 1 .. n - 1, k + 1 \in 1 .. n - 1
               PROVE  stack'[k + 1].module \in ScriptImports(stack[k].module)'
    BY <1>2 DEF Chain
  <2>1. ScriptImports(stack[k].module)' = ScriptImports(stack[k].module)
    BY <1>2 DEF ReturnFromModule, ScriptImports, Imports
  <2>2. k \in DOMAIN stack /\ k + 1 \in DOMAIN stack
    BY <1>1, <1>2
  <2> QED  BY <1>2, <2>1, <2>2 DEF SortInv, Chain
<1>14. Through'
  <2> SUFFICES ASSUME NEW k \in 1 .. n - 1, NEW i \in DOMAIN Imports(stack[k].module)', i < stack'[k].next
               PROVE  Passed(k, i)'
    BY <1>2 DEF Through
  <2>1. Imports(stack[k].module)' = Imports(stack[k].module)
    BY <1>2 DEF ReturnFromModule, Imports
  <2>2. Passed(k, i)
    BY <1>1, <1>2, <2>1 DEF SortInv, Through
  <2> DEFINE d == Imports(stack[k].module)[i]
  <2>3. CASE d \in Module /\ state[d] = "visited"
    BY <1>4, <2>1, <2>3 DEF Passed
  <2>4. CASE d \in Module /\ k + 1 \in DOMAIN stack /\ stack[k + 1].module = d
    <3>1. CASE k + 1 = n
      BY <1>4, <2>1, <2>4, <3>1 DEF Passed, m
    <3>2. CASE k + 1 # n
      <4>1. k + 1 \in 1 .. n - 1
        BY <1>1, <2>4, <3>2
      <4> QED  BY <1>2, <2>1, <2>4, <4>1 DEF Passed
    <3> QED  BY <3>1, <3>2
  <2>5. CASE d \notin Module
    BY <2>1, <2>5 DEF Passed
  <2> QED  BY <2>2, <2>3, <2>4, <2>5 DEF Passed
<1>15. Ended'
  BY DEF Ended, ReturnFromModule, InCall
<1> QED  BY <1>7, <1>8, <1>10, <1>12, <1>13, <1>14, <1>15 DEF SortInv

LEMMA SortNextInv == SortInv /\ (SortNext \/ UNCHANGED sortVars) => SortInv'
<1>1. ASSUME SortInv, UNCHANGED sortVars
      PROVE  SortInv'
  <2>1. SortTypeOK' /\ Listed' /\ ImportsFirst' /\ OpenCalls' /\ Chain'
    BY <1>1 DEF sortVars, SortInv, SortTypeOK, Listed, ImportsFirst, OpenCalls, Chain, ScriptImports, Imports
  <2>2. Through'
    BY <1>1 DEF sortVars, SortInv, Through, Passed, Imports
  <2>3. \A s : Cyclic(s)' <=> Cyclic(s)
    BY <1>1 DEF sortVars, Cyclic, ScriptImports, Imports
  <2>4. Ended'
    BY <1>1, <2>3 DEF sortVars, SortInv, Ended
  <2> QED  BY <2>1, <2>2, <2>4 DEF SortInv
<1> QED
  BY <1>1, VisitSourceInv, FinishSortInv, SkipImportInv, RefuseCycleInv, FollowImportInv, ReturnFromModuleInv
     DEF SortNext

LEMMA SortInvSound == SortInv => SortedOrCyclic
BY DEF SortInv, Listed, Ended, SortedOrCyclic

-----------------------------------------------------------------------------
(***************************************************************************)
(* The invariant of the analysis: what was taken out of a queue is of the  *)
(* kind that the stage works off, there is a module whose analyzer does    *)
(* it, and only what is in a cache is in a queue or was analysed.          *)
(***************************************************************************)
Staged ==
    /\ stage # "sort" => sorting = "sorted"
    /\ stage \in {"worklist", "structs", "funs", "drain"} => at \in DOMAIN compileOrder
    /\ taken # {} => stage \in {"structs", "funs", "drain"}
    /\ stage = "structs" => taken \subseteq StructInstance
    /\ stage \in {"funs", "drain"} => taken \subseteq FunInstance

Cached == Pending \cup taken \cup sidelined \cup Analysed \subseteq instances

AnalysisInv == SortInv /\ Staged /\ OnePlaceEach /\ Cached

LEMMA ProgramTypes ==
    ASSUME TypeOK
    PROVE  /\ \A i \in Instance : Owner(i) \in Module
           /\ \A b \in Body : program.uses[b] \subseteq Instance
BY InstancesAssumption DEF TypeOK, SortTypeOK, Owner

LEMMA AnalyzerIsModule ==
    ASSUME TypeOK, at \in DOMAIN compileOrder
    PROVE  Analyzer \in Module
<1>1. compileOrder \in Seq(Module)
  BY DEF TypeOK, SortTypeOK
<1> QED  BY <1>1, ElementOfSeq, LenProperties DEF Analyzer

LEMMA AnalysisInitInv == Init => AnalysisInv
<1> SUFFICES ASSUME Init PROVE AnalysisInv
  OBVIOUS
<1>1. SortInv
  BY SortInitInv DEF Init
<1>2. analysed \in [Instance -> Seq(Module)] /\ Analysed = {}
  BY EmptySeq DEF Init, Analysed
<1>3. TypeOK
  <2>1. SortTypeOK /\ stage \in Stages /\ at \in Nat \ {0}
    BY <1>1 DEF Init, SortInv, Stages
  <2>2. progress \in BOOLEAN /\ instances = {} /\ pendingFuns = {} /\ pendingStructs = {} /\ sidelined = {} /\ taken = {}
    BY DEF Init
  <2> QED  BY <1>2, <2>1, <2>2 DEF TypeOK
<1> QED  BY <1>1, <1>2, <1>3 DEF Init, AnalysisInv, Staged, OnePlaceEach, Cached, Concrete, Pending

\* A step that analyses no body and only moves instances about keeps each in one place.
LEMMA MoveInv ==
    ASSUME AnalysisInv, TypeOK', UNCHANGED <<program, instances, analysed>>,
           (Pending \cup taken \cup sidelined)' = Pending \cup taken \cup sidelined,
           (Pending \cap taken)' = {}, ((Pending \cup taken) \cap sidelined)' = {}
    PROVE  OnePlaceEach' /\ Cached'
<1>1. Analysed' = Analysed /\ Concrete' = Concrete
  BY DEF Analysed, Concrete
<1>2. \A f : Owner(f)' = Owner(f)
  BY DEF Owner
<1>3. (Analysed \cap (Pending \cup taken \cup sidelined \cup Abstract))' = {}
  BY <1>1 DEF AnalysisInv, OnePlaceEach
<1>4. (Concrete \subseteq Pending \cup taken \cup sidelined \cup Analysed)'
  BY <1>1 DEF AnalysisInv, OnePlaceEach
<1>5. \A i \in Analysed' : Len(analysed'[i]) = 1
  BY <1>1 DEF AnalysisInv, OnePlaceEach
<1>6. \A f \in Analysed' \cap FunInstance : analysed'[f] = <<Owner(f)'>>
  BY <1>1, <1>2 DEF AnalysisInv, OnePlaceEach
<1>7. Cached'
  BY <1>1 DEF AnalysisInv, Cached
<1> QED  BY <1>3, <1>4, <1>5, <1>6, <1>7 DEF OnePlaceEach

\* An instance that a body names first is new to every queue.
LEMMA InstantiateEffect ==
    ASSUME AnalysisInv, NEW body \in Body, Instantiate(body)
    PROVE  \E new \in SUBSET Instance :
               /\ instances' = instances \cup new /\ new \cap instances = {}
               /\ pendingFuns' = pendingFuns \cup (new \cap FunInstance)
               /\ pendingStructs' = pendingStructs \cup (new \cap StructInstance)
               /\ Pending' = Pending \cup new
               /\ new \cap (Pending \cup taken \cup sidelined \cup Analysed) = {}
<1> DEFINE new == New(program.uses[body])
<1>1. new \in SUBSET Instance /\ new \cap instances = {}
  BY ProgramTypes DEF AnalysisInv, OnePlaceEach, New
<1>2. /\ instances' = instances \cup new
      /\ pendingFuns' = pendingFuns \cup (new \cap FunInstance)
      /\ pendingStructs' = pendingStructs \cup (new \cap StructInstance)
  BY DEF Instantiate
<1> HIDE DEF new
<1>3. Pending' = Pending \cup new
  BY <1>1, <1>2 DEF Pending, Instance
<1>4. new \cap (Pending \cup taken \cup sidelined \cup Analysed) = {}
  BY <1>1 DEF AnalysisInv, Cached
<1> QED  BY <1>1, <1>2, <1>3, <1>4

\* Whoever analyses what was taken keeps it in its place, if for a function it is the owner.
LEMMA AnalyzeBodyInv ==
    ASSUME AnalysisInv, NEW i \in taken, i \notin Abstract, at \in DOMAIN compileOrder,
           i \in FunInstance => Owner(i) = Analyzer,
           AnalyzeBody(i), taken' = taken \ {i},
           UNCHANGED <<sortVars, stage, at, sidelined>>, progress' \in BOOLEAN
    PROVE  OnePlaceEach' /\ Cached'
<1>1. TypeOK /\ i \in Instance /\ i \in Body /\ Analyzer \in Module
  BY AnalyzerIsModule DEF AnalysisInv, OnePlaceEach, TypeOK, Body
<1>2. PICK new \in SUBSET Instance :
          /\ instances' = instances \cup new /\ new \cap instances = {}
          /\ pendingFuns' = pendingFuns \cup (new \cap FunInstance)
          /\ pendingStructs' = pendingStructs \cup (new \cap StructInstance)
          /\ Pending' = Pending \cup new
          /\ new \cap (Pending \cup taken \cup sidelined \cup Analysed) = {}
  BY <1>1, InstantiateEffect DEF AnalyzeBody
<1>3. analysed[i] = <<>>
  BY <1>1 DEF AnalysisInv, OnePlaceEach, Analysed
<1>4. analysed' = [analysed EXCEPT ![i] = <<Analyzer>>]
  BY <1>1, <1>3 DEF AnalyzeBody
<1>5. /\ analysed' \in [Instance -> Seq(Module)]
      /\ analysed'[i] = <<Analyzer>> /\ \A j \in Instance \ {i} : analysed'[j] = analysed[j]
  <2>1. <<Analyzer>> \in Seq(Module)
    BY <1>1
  <2> QED  BY <1>1, <1>4, <2>1 DEF TypeOK
<1>6. <<Analyzer>> # <<>> /\ Len(<<Analyzer>>) = 1
  OBVIOUS
<1>7. Analysed' = Analysed \cup {i}
  BY <1>1, <1>5, <1>6 DEF Analysed
<1>8. TypeOK'
  BY <1>1, <1>2, <1>5 DEF TypeOK, SortTypeOK, sortVars
<1>9. i \in instances
  BY DEF AnalysisInv, Cached
<1>10. (Concrete \subseteq Pending \cup taken \cup sidelined \cup Analysed)'
  BY <1>2, <1>7 DEF AnalysisInv, OnePlaceEach, Concrete
<1>11. (Pending \cap taken)' = {} /\ ((Pending \cup taken) \cap sidelined)' = {}
  BY <1>2 DEF AnalysisInv, OnePlaceEach
<1>12. (Analysed \cap (Pending \cup taken \cup sidelined \cup Abstract))' = {}
  <2>1. i \notin Pending /\ i \notin sidelined /\ i \notin new
    BY <1>2 DEF AnalysisInv, OnePlaceEach
  <2> QED  BY <1>2, <1>7, <2>1 DEF AnalysisInv, OnePlaceEach
<1>13. \A j \in Analysed' : Len(analysed'[j]) = 1
  <2>1. \A j \in Analysed : j \in Instance /\ Len(analysed[j]) = 1
    BY DEF AnalysisInv, OnePlaceEach, Analysed
  <2> QED  BY <1>5, <1>6, <1>7, <2>1
<1>14. \A f \in Analysed' \cap FunInstance : analysed'[f] = <<Owner(f)'>>
  <2>1. \A f : Owner(f)' = Owner(f)
    BY DEF Owner, sortVars
  <2>2. \A f \in Analysed \cap FunInstance : f \in Instance /\ analysed[f] = <<Owner(f)>>
    BY DEF AnalysisInv, OnePlaceEach, Analysed
  <2> QED  BY <1>5, <1>7, <2>1, <2>2
<1>15. Cached'
  BY <1>2, <1>7, <1>9 DEF AnalysisInv, Cached
<1> QED  BY <1>8, <1>10, <1>11, <1>12, <1>13, <1>14, <1>15 DEF OnePlaceEach

\* An abstract instance is dropped: there is no place that it has to be in.
LEMMA DropInv ==
    ASSUME AnalysisInv, NEW i \in taken, i \in Abstract, SkipBody, taken' = taken \ {i},
           UNCHANGED <<sortVars, stage, at, sidelined, progress>>
    PROVE  OnePlaceEach' /\ Cached'
<1>1. Analysed' = Analysed /\ Concrete' = Concrete /\ Pending' = Pending /\ \A f : Owner(f)' = Owner(f)
  BY DEF Analysed, Concrete, Pending, Owner, SkipBody, sortVars
<1>2. TypeOK'
  BY DEF AnalysisInv, OnePlaceEach, TypeOK, SortTypeOK, SkipBody, sortVars
<1>3. i \notin Concrete
  BY DEF Concrete
<1>4. Cached'
  BY <1>1 DEF AnalysisInv, Cached, SkipBody
<1> QED  BY <1>1, <1>2, <1>3, <1>4 DEF AnalysisInv, OnePlaceEach, SkipBody

LEMMA DrainInstanceInv == ASSUME NEW f \in Instance PROVE AnalysisInv /\ DrainInstance(f) => AnalysisInv'
<1> SUFFICES ASSUME AnalysisInv, DrainInstance(f) PROVE AnalysisInv'
  OBVIOUS
<1>1. SortInv' /\ Staged'
  BY SortNextInv DEF DrainInstance, AnalysisInv, Staged, sortVars
<1>2. f \in FunInstance /\ f \in taken /\ at \in DOMAIN compileOrder /\ TypeOK
  BY DEF DrainInstance, AnalysisInv, Staged, OnePlaceEach
<1>3. CASE f \in Abstract
  BY <1>1, <1>2, <1>3, DropInv DEF DrainInstance, AnalysisInv
<1>4. CASE f \notin Abstract /\ Owner(f) = Analyzer
  BY <1>1, <1>2, <1>4, AnalyzeBodyInv DEF DrainInstance, AnalysisInv, Counted
<1>5. CASE f \notin Abstract /\ Owner(f) # Analyzer
  <2>1. sidelined' = sidelined \cup {f} /\ taken' = taken \ {f} /\ SkipBody /\ UNCHANGED <<sortVars, stage, at, progress>>
    BY <1>5 DEF DrainInstance, Sideline
  <2>2. TypeOK'
    BY <1>2, <2>1 DEF TypeOK, SortTypeOK, SkipBody, sortVars
  <2>3. Pending' = Pending /\ UNCHANGED <<program, instances, analysed>>
    BY <2>1 DEF Pending, SkipBody, sortVars
  <2>4. /\ (Pending \cup taken \cup sidelined)' = Pending \cup taken \cup sidelined
        /\ (Pending \cap taken)' = {} /\ ((Pending \cup taken) \cap sidelined)' = {}
    BY <1>2, <2>1, <2>3 DEF AnalysisInv, OnePlaceEach
  <2> QED  BY <1>1, <2>2, <2>3, <2>4, MoveInv DEF AnalysisInv
<1> QED  BY <1>3, <1>4, <1>5

LEMMA AnalyzeStructInv == ASSUME NEW s \in Instance PROVE AnalysisInv /\ AnalyzeStruct(s) => AnalysisInv'
<1> SUFFICES ASSUME AnalysisInv, AnalyzeStruct(s) PROVE AnalysisInv'
  OBVIOUS
<1>1. SortInv' /\ Staged'
  BY SortNextInv DEF AnalyzeStruct, AnalysisInv, Staged, sortVars
<1>2. s \notin FunInstance /\ s \in taken /\ at \in DOMAIN compileOrder /\ TypeOK
  BY InstancesAssumption DEF AnalyzeStruct, AnalysisInv, Staged, OnePlaceEach
<1>3. CASE s \in Abstract
  BY <1>1, <1>2, <1>3, DropInv DEF AnalyzeStruct, AnalysisInv
<1>4. CASE s \notin Abstract
  BY <1>1, <1>2, <1>4, AnalyzeBodyInv DEF AnalyzeStruct, AnalysisInv, TypeOK
<1> QED  BY <1>3, <1>4

LEMMA AnalyzeModuleInv == AnalysisInv /\ AnalyzeModule => AnalysisInv'
<1> SUFFICES ASSUME AnalysisInv, AnalyzeModule PROVE AnalysisInv'
  OBVIOUS
<1>1. TypeOK /\ taken = {} /\ UNCHANGED sortVars
  BY DEF AnalyzeModule, AnalysisInv, Staged, OnePlaceEach
<1>2. at \in DOMAIN compileOrder
  <2>1. compileOrder \in Seq(Module) /\ at \in Nat \ {0} /\ at <= Len(compileOrder)
    BY <1>1 DEF AnalyzeModule, InOrder, TypeOK, SortTypeOK
  <2> QED  BY <2>1, LenProperties
<1>3. Analyzer \in Body
  BY <1>1, <1>2, AnalyzerIsModule DEF Body
<1>4. PICK new \in SUBSET Instance :
          /\ instances' = instances \cup new /\ new \cap instances = {}
          /\ pendingFuns' = pendingFuns \cup (new \cap FunInstance)
          /\ pendingStructs' = pendingStructs \cup (new \cap StructInstance)
          /\ Pending' = Pending \cup new
          /\ new \cap (Pending \cup taken \cup sidelined \cup Analysed) = {}
  BY <1>3, InstantiateEffect DEF AnalyzeModule
<1>5. SortInv' /\ Staged'
  BY <1>1, <1>2, SortNextInv DEF AnalyzeModule, AnalysisInv, Staged, sortVars
<1>6. TypeOK'
  BY <1>1, <1>4 DEF AnalyzeModule, TypeOK, SortTypeOK, sortVars, Stages
<1>7. Analysed' = Analysed /\ taken' = {} /\ sidelined' = sidelined /\ \A f : Owner(f)' = Owner(f)
  BY <1>1 DEF AnalyzeModule, Analysed, Owner, sortVars
<1>8. Cached'
  BY <1>4, <1>7 DEF AnalysisInv, Cached
<1>9. OnePlaceEach'
  <2>1. (Concrete \subseteq Pending \cup taken \cup sidelined \cup Analysed)'
    BY <1>1, <1>4, <1>7 DEF AnalysisInv, OnePlaceEach, Concrete
  <2>2. (Analysed \cap (Pending \cup taken \cup sidelined \cup Abstract))' = {}
    BY <1>4, <1>7 DEF AnalysisInv, OnePlaceEach
  <2>3. (Pending \cap taken)' = {} /\ ((Pending \cup taken) \cap sidelined)' = {}
    BY <1>4, <1>7 DEF AnalysisInv, OnePlaceEach
  <2>4. analysed' = analysed
    BY DEF AnalyzeModule
  <2> QED  BY <1>6, <1>7, <2>1, <2>2, <2>3, <2>4 DEF AnalysisInv, OnePlaceEach
<1> QED  BY <1>5, <1>8, <1>9 DEF AnalysisInv

\* The steps that queue and analyse nothing.
Shuffle == TakeStructs \/ TakeFuns \/ BeginRound \/ TakeForModule
March   == BeginAnalysis \/ RepeatWorklist \/ FinishModule \/ FinishModules \/ NextModule \/ EndRound \/ FinishRounds

LEMMA ShuffleInv == AnalysisInv /\ Shuffle => AnalysisInv'
<1> SUFFICES ASSUME AnalysisInv, Shuffle PROVE AnalysisInv'
  OBVIOUS
<1>1. TypeOK /\ UNCHANGED <<sortVars, instances, analysed>> /\ UNCHANGED program
  BY DEF Shuffle, TakeStructs, TakeFuns, BeginRound, TakeForModule, AnalysisInv, OnePlaceEach, sortVars
<1>2. TypeOK'
  <2>1. stage' \in Stages /\ at' \in Nat \ {0} /\ progress' \in BOOLEAN
    <3>1. CASE BeginRound
      <4>1. stage' = "round" /\ at' = 1 /\ progress' = FALSE
        BY <3>1 DEF BeginRound
      <4>2. stage' \in Stages
        BY <4>1 DEF Stages
      <4>3. progress' \in BOOLEAN
        BY <4>1, Zenon
      <4>4. at' \in Nat \ {0}
        BY <4>1
      <4> QED  BY <4>2, <4>3, <4>4
    <3>2. CASE TakeStructs \/ TakeFuns \/ TakeForModule
      BY <1>1, <3>2 DEF TakeStructs, TakeFuns, TakeForModule, TypeOK, Stages
    <3> QED  BY <3>1, <3>2 DEF Shuffle
  <2>2. /\ pendingFuns' \subseteq FunInstance /\ pendingStructs' \subseteq StructInstance
        /\ sidelined' \subseteq FunInstance /\ taken' \subseteq Instance
    BY <1>1 DEF Shuffle, TakeStructs, TakeFuns, BeginRound, TakeForModule, TypeOK, Instance
  <2> QED  BY <1>1, <2>1, <2>2 DEF TypeOK, SortTypeOK, sortVars
<1>3. SortInv'
  BY <1>1, SortNextInv DEF AnalysisInv
<1>4. taken = {}
  BY DEF Shuffle, TakeStructs, TakeFuns, BeginRound, TakeForModule, AnalysisInv, Staged
<1>5. Staged'
  <2>1. TakeForModule => at \in DOMAIN compileOrder
    BY <1>1, LenProperties DEF TakeForModule, InOrder, TypeOK, SortTypeOK
  <2> QED
    BY <1>1, <1>4, <2>1
       DEF Shuffle, TakeStructs, TakeFuns, BeginRound, TakeForModule, AnalysisInv, Staged, TypeOK, sortVars
<1>6. /\ (Pending \cup taken \cup sidelined)' = Pending \cup taken \cup sidelined
      /\ (Pending \cap taken)' = {} /\ ((Pending \cup taken) \cap sidelined)' = {}
  <2>1. CASE TakeStructs
    BY <1>1, <1>4, <2>1, InstancesAssumption DEF TakeStructs, AnalysisInv, OnePlaceEach, Pending, TypeOK
  <2>2. CASE TakeFuns
    BY <1>1, <1>4, <2>2, InstancesAssumption DEF TakeFuns, AnalysisInv, OnePlaceEach, Pending, TypeOK
  <2>3. CASE BeginRound
    BY <1>4, <2>3 DEF BeginRound, Pending
  <2>4. CASE TakeForModule
    BY <1>1, <1>4, <2>4, InstancesAssumption DEF TakeForModule, AnalysisInv, OnePlaceEach, Pending, TypeOK
  <2> QED  BY <2>1, <2>2, <2>3, <2>4 DEF Shuffle
<1> QED  BY <1>1, <1>2, <1>3, <1>5, <1>6, MoveInv DEF AnalysisInv

LEMMA MarchInv == AnalysisInv /\ March => AnalysisInv'
<1> SUFFICES ASSUME AnalysisInv, March PROVE AnalysisInv'
  OBVIOUS
<1>1. /\ TypeOK
      /\ UNCHANGED <<sortVars, instances, analysed, pendingFuns, pendingStructs, sidelined, taken, progress>>
      /\ UNCHANGED program
  BY DEF March, BeginAnalysis, RepeatWorklist, FinishModule, FinishModules, NextModule, EndRound, FinishRounds,
         AnalysisInv, OnePlaceEach, sortVars
<1>2. stage' \in Stages /\ at' \in Nat \ {0}
  BY <1>1 DEF March, BeginAnalysis, RepeatWorklist, FinishModule, FinishModules, NextModule, EndRound, FinishRounds,
              Stages, TypeOK
<1>3. TypeOK'
  BY <1>1, <1>2 DEF TypeOK, SortTypeOK, sortVars
<1>4. SortInv'
  BY <1>1, SortNextInv DEF AnalysisInv
<1>5. Staged'
  BY <1>1 DEF March, BeginAnalysis, RepeatWorklist, FinishModule, FinishModules, NextModule, EndRound, FinishRounds,
              AnalysisInv, Staged, sortVars
<1>6. /\ (Pending \cup taken \cup sidelined)' = Pending \cup taken \cup sidelined
      /\ (Pending \cap taken)' = {} /\ ((Pending \cup taken) \cap sidelined)' = {}
  BY <1>1 DEF AnalysisInv, OnePlaceEach, Pending
<1> QED  BY <1>1, <1>3, <1>4, <1>5, <1>6, MoveInv DEF AnalysisInv

LEMMA SortStepInv == AnalysisInv /\ Sort => AnalysisInv'
<1> SUFFICES ASSUME AnalysisInv, Sort PROVE AnalysisInv'
  OBVIOUS
<1>1. SortInv' /\ SortTypeOK'
  BY SortNextInv DEF Sort, AnalysisInv, SortInv
<1>2. stage = "sort" /\ taken = {} /\ UNCHANGED program
  BY DEF Sort, SortNext, VisitSource, FinishSort, SkipImport, RefuseCycle, FollowImport, ReturnFromModule,
         AtImport, InCall, AnalysisInv, Staged
<1>3. TypeOK'
  BY <1>1 DEF Sort, analysisVars, AnalysisInv, OnePlaceEach, TypeOK
<1>4. Staged'
  BY <1>2 DEF Sort, analysisVars, AnalysisInv, Staged
<1>5. /\ UNCHANGED <<instances, analysed>>
      /\ (Pending \cup taken \cup sidelined)' = Pending \cup taken \cup sidelined
      /\ (Pending \cap taken)' = {} /\ ((Pending \cup taken) \cap sidelined)' = {}
  BY DEF Sort, analysisVars, AnalysisInv, OnePlaceEach, Pending
<1> QED  BY <1>1, <1>2, <1>3, <1>4, <1>5, MoveInv DEF AnalysisInv

LEMMA AnalysisNextInv == AnalysisInv /\ [Next]_vars => AnalysisInv'
<1> SUFFICES ASSUME AnalysisInv, [Next]_vars PROVE AnalysisInv'
  OBVIOUS
<1>1. CASE Next
  BY <1>1, SortStepInv, AnalyzeModuleInv, AnalyzeStructInv, DrainInstanceInv, ShuffleInv, MarchInv
     DEF Next, Shuffle, March
<1>2. CASE UNCHANGED vars
  <2>1. SortInv' /\ Staged' /\ TypeOK'
    BY <1>2, SortNextInv
       DEF vars, sortVars, analysisVars, AnalysisInv, Staged, OnePlaceEach, TypeOK, SortTypeOK
  <2>2. /\ UNCHANGED <<program, instances, analysed>>
        /\ (Pending \cup taken \cup sidelined)' = Pending \cup taken \cup sidelined
        /\ (Pending \cap taken)' = {} /\ ((Pending \cup taken) \cap sidelined)' = {}
    BY <1>2 DEF vars, sortVars, analysisVars, AnalysisInv, OnePlaceEach, Pending
  <2> QED  BY <2>1, <2>2, MoveInv DEF AnalysisInv
<1> QED  BY <1>1, <1>2

LEMMA AnalysisInvAlways == Spec => []AnalysisInv
<1> QED  BY AnalysisInitInv, AnalysisNextInv, PTL DEF Spec

-----------------------------------------------------------------------------
\* Whatever the modules and their imports, the walk lists each behind all that it imports, and leaves
\* none out, or it has found modules of which none can come first (topological_sort, detect_cycle).
THEOREM SortIsSound == Spec => []SortedOrCyclic
<1>1. AnalysisInv => SortedOrCyclic
  BY SortInvSound DEF AnalysisInv
<1> QED  BY <1>1, AnalysisInvAlways, PTL

\* Through the worklist of a module and the rounds over all modules no instance is lost or analysed
\* twice, and no function but by its template's module (drain_pending_fun_instance, analyze_all).
THEOREM NoInstanceIsLost == Spec => []OnePlaceEach
<1>1. AnalysisInv => OnePlaceEach
  BY DEF AnalysisInv
<1> QED  BY <1>1, AnalysisInvAlways, PTL

-----------------------------------------------------------------------------
(***************************************************************************)
(* Where every template that is lent is of the first module: what is put   *)
(* aside is that module's, so the one that comes first in each round is    *)
(* the one that can work it off.  A round in which nothing was analysed is *)
(* one in which nothing had to be.                                         *)
(***************************************************************************)
OfTheFirst(f) == f \notin Abstract => Lends(f)

QueuesEmpty ==
    /\ stage \in {"sort", "bodies"} => pendingFuns = {}
    /\ stage = "sort" => sidelined = {}

AsideAreLent == \A f \in sidelined : OfTheFirst(f)

OwnOrLent ==
    stage \in {"worklist", "structs", "funs"} =>
        \A f \in pendingFuns \cup (taken \cap FunInstance) : f \notin Abstract => Owner(f) = Analyzer \/ Lends(f)

RoundsAreLent == stage \in {"rounds", "round", "drain"} => \A f \in pendingFuns \cup taken : OfTheFirst(f)

NothingPassedOver ==
    /\ stage \in {"round", "drain"} /\ ~progress => sidelined = {}
    /\ stage = "round" /\ ~progress /\ at # 1 => pendingFuns = {}
    /\ stage = "drain" /\ ~progress => pendingFuns = {} /\ at = 1
    /\ stage = "done" => \A f \in pendingFuns \cup sidelined : f \in Abstract

LentInv ==
    /\ QueuesEmpty
    /\ OnlyTheFirstLends => AsideAreLent /\ OwnOrLent /\ RoundsAreLent /\ NothingPassedOver

LEMMA LentInitInv == Init => LentInv
BY DEF Init, LentInv, QueuesEmpty, AsideAreLent, OwnOrLent, RoundsAreLent, NothingPassedOver

\* Who lends is settled once the modules are in order.
LEMMA LendingIsSettled ==
    ASSUME UNCHANGED <<program, compileOrder>>
    PROVE  /\ OnlyTheFirstLends' <=> OnlyTheFirstLends
           /\ \A f : (Lends(f)' <=> Lends(f)) /\ (OfTheFirst(f)' <=> OfTheFirst(f)) /\ Owner(f)' = Owner(f)
BY DEF OnlyTheFirstLends, Lends, OfTheFirst, Owner

LEMMA LentSort == AnalysisInv /\ LentInv /\ Sort => LentInv'
<1> SUFFICES ASSUME AnalysisInv, LentInv, Sort PROVE LentInv'
  OBVIOUS
<1>1. stage = "sort" /\ taken = {}
  BY DEF Sort, SortNext, VisitSource, FinishSort, SkipImport, RefuseCycle, FollowImport, ReturnFromModule,
         AtImport, InCall, AnalysisInv, Staged
<1>2. stage' = "sort" /\ pendingFuns' = {} /\ sidelined' = {} /\ taken' = {}
  BY <1>1 DEF Sort, analysisVars, LentInv, QueuesEmpty
<1> QED  BY <1>2 DEF LentInv, QueuesEmpty, AsideAreLent, OwnOrLent, RoundsAreLent, NothingPassedOver

\* What a function's body names is of its own module or of the first.
LEMMA LentNames ==
    ASSUME AnalysisInv, OnlyTheFirstLends, NEW body \in Body, NEW m \in Module,
           body \in Module => body = m,
           body \in FunInstance => Owner(body) = m \/ Lends(body),
           NEW f \in program.uses[body] \cap FunInstance
    PROVE  Owner(f) = m \/ Lends(f)
<1>1. CASE body \in Module
  BY <1>1 DEF OnlyTheFirstLends
<1>2. CASE body \in StructInstance
  BY <1>2 DEF OnlyTheFirstLends
<1>3. CASE body \in FunInstance
  <2>1. Owner(f) = Owner(body) \/ Lends(f)
    BY <1>3 DEF OnlyTheFirstLends
  <2>2. CASE Owner(body) = m
    BY <2>1, <2>2
  <2>3. CASE Lends(body)
    BY <2>1, <2>3 DEF Lends
  <2> QED  BY <1>3, <2>2, <2>3
<1> QED  BY <1>1, <1>2, <1>3 DEF Body, Instance

LEMMA LentAnalyzeModule == AnalysisInv /\ LentInv /\ AnalyzeModule => LentInv'
<1> SUFFICES ASSUME AnalysisInv, LentInv, AnalyzeModule PROVE LentInv'
  OBVIOUS
<1>1. /\ UNCHANGED <<program, compileOrder, at, sidelined, taken>> /\ stage = "bodies" /\ stage' = "worklist"
      /\ taken = {} /\ pendingFuns = {} /\ TypeOK
  BY DEF AnalyzeModule, sortVars, AnalysisInv, Staged, OnePlaceEach, LentInv, QueuesEmpty
<1>2. at \in DOMAIN compileOrder
  <2>1. compileOrder \in Seq(Module) /\ at \in Nat \ {0} /\ at <= Len(compileOrder)
    BY <1>1 DEF AnalyzeModule, InOrder, TypeOK, SortTypeOK
  <2> QED  BY <2>1, LenProperties
<1>3. Analyzer \in Module /\ Analyzer \in Body /\ Analyzer' = Analyzer
  BY <1>1, <1>2, AnalyzerIsModule DEF Body, Analyzer
<1>4. pendingFuns' = New(program.uses[Analyzer]) \cap FunInstance
  BY <1>1 DEF AnalyzeModule, Instantiate
<1>5. SUFFICES ASSUME OnlyTheFirstLends
               PROVE  AsideAreLent' /\ OwnOrLent'
  BY <1>1, LendingIsSettled DEF LentInv, QueuesEmpty, RoundsAreLent, NothingPassedOver
<1>6. AsideAreLent'
  BY <1>1, <1>5, LendingIsSettled DEF LentInv, AsideAreLent
<1>7. \A f \in pendingFuns' : Owner(f) = Analyzer \/ Lends(f)
  <2> SUFFICES ASSUME NEW f \in pendingFuns' PROVE Owner(f) = Analyzer \/ Lends(f)
    OBVIOUS
  <2>1. f \in program.uses[Analyzer] \cap FunInstance
    BY <1>4 DEF New
  <2>2. CASE Analyzer \notin FunInstance
    BY <1>3, <1>5, <2>1, <2>2, LentNames
  <2>3. CASE Analyzer \in FunInstance
    BY <1>3, <1>5, <2>1, <2>3 DEF OnlyTheFirstLends
  <2> QED  BY <2>2, <2>3
<1>8. OwnOrLent'
  BY <1>1, <1>3, <1>7, LendingIsSettled DEF OwnOrLent
<1> QED  BY <1>6, <1>8

LEMMA LentAnalyzeStruct == ASSUME NEW s \in Instance PROVE AnalysisInv /\ LentInv /\ AnalyzeStruct(s) => LentInv'
<1> SUFFICES ASSUME AnalysisInv, LentInv, AnalyzeStruct(s) PROVE LentInv'
  OBVIOUS
<1>1. /\ UNCHANGED <<program, compileOrder, at, sidelined>> /\ stage = "structs" /\ stage' = "structs"
      /\ taken' \subseteq taken /\ s \in StructInstance
  BY DEF AnalyzeStruct, sortVars, AnalysisInv, Staged
<1>2. Analyzer' = Analyzer
  BY <1>1 DEF Analyzer
<1>3. SUFFICES ASSUME OnlyTheFirstLends
               PROVE  AsideAreLent' /\ OwnOrLent'
  BY <1>1, LendingIsSettled DEF LentInv, QueuesEmpty, RoundsAreLent, NothingPassedOver
<1>4. AsideAreLent'
  BY <1>1, <1>3, LendingIsSettled DEF LentInv, AsideAreLent
<1>5. \A f \in pendingFuns' : f \in pendingFuns \/ Lends(f)
  <2>1. pendingFuns' \subseteq pendingFuns \cup (program.uses[s] \cap FunInstance)
    BY DEF AnalyzeStruct, SkipBody, AnalyzeBody, Instantiate, New
  <2> QED  BY <1>1, <1>3, <2>1 DEF OnlyTheFirstLends
<1>6. OwnOrLent'
  BY <1>1, <1>2, <1>3, <1>5, LendingIsSettled DEF LentInv, OwnOrLent
<1> QED  BY <1>4, <1>6

LEMMA LentDrainInstance == ASSUME NEW f \in Instance PROVE AnalysisInv /\ LentInv /\ DrainInstance(f) => LentInv'
<1> SUFFICES ASSUME AnalysisInv, LentInv, DrainInstance(f) PROVE LentInv'
  OBVIOUS
<1>1. /\ UNCHANGED <<program, compileOrder, at, stage>> /\ stage \in {"funs", "drain"}
      /\ taken' \subseteq taken /\ f \in taken /\ f \in FunInstance
      /\ taken \subseteq FunInstance /\ TypeOK
  BY DEF DrainInstance, sortVars, AnalysisInv, Staged, OnePlaceEach
<1>2. Analyzer' = Analyzer /\ Analyzer \in Module
  BY <1>1, AnalyzerIsModule DEF Analyzer, AnalysisInv, Staged
<1>3. SUFFICES ASSUME OnlyTheFirstLends
               PROVE  AsideAreLent' /\ OwnOrLent' /\ RoundsAreLent' /\ NothingPassedOver'
  BY <1>1, LendingIsSettled DEF LentInv, QueuesEmpty
<1>4. AsideAreLent /\ OwnOrLent /\ RoundsAreLent /\ NothingPassedOver
  BY <1>3 DEF LentInv
<1>5. \A g : (Lends(g)' <=> Lends(g)) /\ (OfTheFirst(g)' <=> OfTheFirst(g)) /\ Owner(g)' = Owner(g)
  BY <1>1, LendingIsSettled
<1>6. CASE f \in Abstract
  <2>1. UNCHANGED <<pendingFuns, sidelined, progress>>
    BY <1>6 DEF DrainInstance, SkipBody
  <2> QED
    BY <1>1, <1>2, <1>4, <1>5, <2>1 DEF AsideAreLent, OwnOrLent, RoundsAreLent, NothingPassedOver
<1>7. CASE f \notin Abstract /\ Owner(f) = Analyzer
  <2>1. /\ sidelined' = sidelined /\ progress' = TRUE
        /\ pendingFuns' \subseteq pendingFuns \cup (program.uses[f] \cap FunInstance)
    BY <1>7 DEF DrainInstance, AnalyzeBody, Instantiate, New, Counted
  <2>2. \A g \in program.uses[f] \cap FunInstance : Owner(g) = Owner(f) \/ Lends(g)
    BY <1>1, <1>3 DEF OnlyTheFirstLends
  <2>3. AsideAreLent' /\ NothingPassedOver'
    BY <1>1, <1>4, <1>5, <2>1 DEF AsideAreLent, NothingPassedOver
  <2>4. OwnOrLent'
    BY <1>1, <1>2, <1>4, <1>5, <1>7, <2>1, <2>2 DEF OwnOrLent
  <2>5. RoundsAreLent'
    <3> SUFFICES ASSUME stage = "drain", NEW g \in pendingFuns' \cup taken' PROVE OfTheFirst(g)
      BY <1>1, <1>5 DEF RoundsAreLent
    <3>1. Lends(f)
      BY <1>1, <1>4, <1>7 DEF RoundsAreLent, OfTheFirst
    <3>2. CASE g \in pendingFuns \cup taken
      BY <1>4, <3>2 DEF RoundsAreLent
    <3>3. CASE g \in program.uses[f] \cap FunInstance
      BY <2>2, <3>1, <3>3 DEF OfTheFirst, Lends
    <3> QED  BY <1>1, <2>1, <3>2, <3>3
  <2> QED  BY <2>3, <2>4, <2>5
<1>8. CASE f \notin Abstract /\ Owner(f) # Analyzer
  <2>1. sidelined' = sidelined \cup {f} /\ UNCHANGED <<pendingFuns, progress>>
    BY <1>8 DEF DrainInstance, Sideline, SkipBody
  <2>2. Lends(f)
    BY <1>1, <1>4, <1>8 DEF OwnOrLent, RoundsAreLent, OfTheFirst
  <2>3. AsideAreLent' /\ OwnOrLent' /\ RoundsAreLent'
    BY <1>1, <1>2, <1>4, <1>5, <2>1, <2>2 DEF AsideAreLent, OwnOrLent, RoundsAreLent, OfTheFirst
  <2>4. stage = "drain" => progress
    <3>1. Owner(f) = compileOrder[1]
      BY <2>2 DEF Lends
    <3>2. at # 1
      BY <1>8, <3>1 DEF Analyzer
    <3> QED  BY <1>4, <3>2 DEF NothingPassedOver
  <2>5. NothingPassedOver'
    BY <1>1, <2>1, <2>4 DEF NothingPassedOver
  <2> QED  BY <2>3, <2>5
<1> QED  BY <1>6, <1>7, <1>8

LEMMA LentShuffle == AnalysisInv /\ LentInv /\ Shuffle => LentInv'
<1> SUFFICES ASSUME AnalysisInv, LentInv, Shuffle PROVE LentInv'
  OBVIOUS
<1>1. UNCHANGED <<program, compileOrder>> /\ taken = {} /\ TypeOK
  BY DEF Shuffle, TakeStructs, TakeFuns, BeginRound, TakeForModule, sortVars, AnalysisInv, Staged, OnePlaceEach
<1>2. QueuesEmpty'
  BY DEF Shuffle, TakeStructs, TakeFuns, BeginRound, TakeForModule, QueuesEmpty
<1>3. SUFFICES ASSUME OnlyTheFirstLends
               PROVE  AsideAreLent' /\ OwnOrLent' /\ RoundsAreLent' /\ NothingPassedOver'
  BY <1>1, <1>2, LendingIsSettled DEF LentInv
<1>4. AsideAreLent /\ OwnOrLent /\ RoundsAreLent /\ NothingPassedOver
  BY <1>3 DEF LentInv
<1>5. \A g : (Lends(g)' <=> Lends(g)) /\ (OfTheFirst(g)' <=> OfTheFirst(g)) /\ Owner(g)' = Owner(g)
  BY <1>1, LendingIsSettled
<1>6. AsideAreLent'
  BY <1>4, <1>5 DEF Shuffle, TakeStructs, TakeFuns, BeginRound, TakeForModule, AsideAreLent
<1>7. CASE TakeStructs
  <2>1. /\ stage = "worklist" /\ stage' = "structs" /\ UNCHANGED <<pendingFuns, at>>
        /\ taken' \cap FunInstance = {} /\ Analyzer' = Analyzer
    BY <1>1, <1>7, InstancesAssumption DEF TakeStructs, TypeOK, Analyzer
  <2> QED  BY <1>4, <1>5, <1>6, <2>1 DEF OwnOrLent, RoundsAreLent, NothingPassedOver
<1>8. CASE TakeFuns
  <2>1. /\ stage = "structs" /\ stage' = "funs" /\ taken' = pendingFuns /\ pendingFuns' = {}
        /\ Analyzer' = Analyzer
    BY <1>1, <1>8 DEF TakeFuns, Analyzer
  <2> QED  BY <1>4, <1>5, <1>6, <2>1 DEF OwnOrLent, RoundsAreLent, NothingPassedOver
<1>9. CASE BeginRound
  BY <1>1, <1>4, <1>5, <1>6, <1>9 DEF BeginRound, AsideAreLent, OwnOrLent, RoundsAreLent, NothingPassedOver
<1>10. CASE TakeForModule
  BY <1>1, <1>4, <1>5, <1>6, <1>10 DEF TakeForModule, AsideAreLent, OwnOrLent, RoundsAreLent, NothingPassedOver
<1> QED  BY <1>7, <1>8, <1>9, <1>10 DEF Shuffle

LEMMA LentMarch == AnalysisInv /\ LentInv /\ March => LentInv'
<1> SUFFICES ASSUME AnalysisInv, LentInv, March PROVE LentInv'
  OBVIOUS
<1>1. UNCHANGED <<program, compileOrder, pendingFuns, sidelined, taken, progress>> /\ taken = {} /\ TypeOK
  BY DEF March, BeginAnalysis, RepeatWorklist, FinishModule, FinishModules, NextModule, EndRound, FinishRounds,
         sortVars, AnalysisInv, Staged, OnePlaceEach
<1>2. QueuesEmpty'
  BY DEF March, BeginAnalysis, RepeatWorklist, FinishModule, FinishModules, NextModule, EndRound, FinishRounds,
         QueuesEmpty, LentInv
<1>3. SUFFICES ASSUME OnlyTheFirstLends
               PROVE  AsideAreLent' /\ OwnOrLent' /\ RoundsAreLent' /\ NothingPassedOver'
  BY <1>1, <1>2, LendingIsSettled DEF LentInv
<1>4. QueuesEmpty /\ AsideAreLent /\ OwnOrLent /\ RoundsAreLent /\ NothingPassedOver
  BY <1>3 DEF LentInv
<1>5. \A g : (Lends(g)' <=> Lends(g)) /\ (OfTheFirst(g)' <=> OfTheFirst(g)) /\ Owner(g)' = Owner(g)
  BY <1>1, LendingIsSettled
<1>6. AsideAreLent'
  BY <1>1, <1>4, <1>5 DEF AsideAreLent
<1>7. CASE RepeatWorklist
  <2>1. stage = "funs" /\ stage' = "worklist" /\ Analyzer' = Analyzer
    BY <1>1, <1>7 DEF RepeatWorklist, Analyzer
  <2> QED  BY <1>1, <1>4, <1>5, <1>6, <2>1 DEF OwnOrLent, RoundsAreLent, NothingPassedOver
<1>8. CASE BeginAnalysis \/ FinishModule \/ FinishModules
  BY <1>1, <1>4, <1>6, <1>8
     DEF BeginAnalysis, FinishModule, FinishModules, QueuesEmpty, OwnOrLent, RoundsAreLent, NothingPassedOver
<1>9. CASE NextModule
  BY <1>1, <1>4, <1>5, <1>6, <1>9 DEF NextModule, TypeOK, OwnOrLent, RoundsAreLent, NothingPassedOver
<1>10. CASE FinishRounds
  BY <1>1, <1>4, <1>6, <1>10 DEF FinishRounds, Waiting, OwnOrLent, RoundsAreLent, NothingPassedOver
<1>11. CASE EndRound
  <2>1. CASE progress
    BY <1>1, <1>4, <1>5, <1>6, <1>11, <2>1
       DEF EndRound, AnotherRound, OwnOrLent, RoundsAreLent, NothingPassedOver
  <2>2. CASE ~progress
    <3>1. stage = "round" /\ stage' = "done" /\ sidelined = {}
      BY <1>4, <1>11, <2>2 DEF EndRound, AnotherRound, NothingPassedOver
    <3>2. \A f \in pendingFuns : f \in Abstract
      <4>1. CASE pendingFuns = {}
        BY <4>1
      <4>2. CASE pendingFuns # {}
        <5>1. at = 1 /\ ~(at <= Len(compileOrder)) /\ compileOrder \in Seq(Module)
          BY <1>1, <1>4, <1>11, <2>2, <3>1, <4>2 DEF EndRound, InOrder, NothingPassedOver, TypeOK, SortTypeOK
        <5>2. compileOrder = <<>>
          BY <5>1, EmptySeq, LenProperties
        <5> QED  BY <1>4, <3>1, <5>2 DEF RoundsAreLent, OfTheFirst, Lends
      <4> QED  BY <4>1, <4>2
    <3> QED  BY <1>1, <1>6, <3>1, <3>2 DEF OwnOrLent, RoundsAreLent, NothingPassedOver
  <2> QED  BY <2>1, <2>2
<1> QED  BY <1>7, <1>8, <1>9, <1>10, <1>11 DEF March

LEMMA LentNextInv == AnalysisInv /\ LentInv /\ [Next]_vars => LentInv'
<1> SUFFICES ASSUME AnalysisInv, LentInv, [Next]_vars PROVE LentInv'
  OBVIOUS
<1>1. CASE Next
  BY <1>1, LentSort, LentAnalyzeModule, LentAnalyzeStruct, LentDrainInstance, LentShuffle, LentMarch
     DEF Next, Shuffle, March
<1>2. CASE UNCHANGED vars
  <2>1. UNCHANGED <<program, compileOrder, stage, at, pendingFuns, sidelined, taken, progress>> /\ Analyzer' = Analyzer
    BY <1>2 DEF vars, sortVars, analysisVars, Analyzer
  <2> QED
    BY <2>1, LendingIsSettled DEF LentInv, QueuesEmpty, AsideAreLent, OwnOrLent, RoundsAreLent, NothingPassedOver
<1> QED  BY <1>1, <1>2

LEMMA LentInvBuilds == AnalysisInv /\ LentInv => LentInstancesAreBuilt
<1> SUFFICES ASSUME AnalysisInv, LentInv, stage = "done", OnlyTheFirstLends, NEW f \in Concrete \cap FunInstance
             PROVE  f \in UNION {BuiltBy(m) : m \in Module}
  BY DEF LentInstancesAreBuilt
<1>1. taken = {} /\ f \notin pendingFuns /\ f \notin sidelined
  BY DEF AnalysisInv, Staged, LentInv, NothingPassedOver, Concrete
<1>2. f \notin pendingStructs
  BY InstancesAssumption DEF AnalysisInv, OnePlaceEach, TypeOK
<1>3. analysed[f] # <<>>
  BY <1>1, <1>2 DEF AnalysisInv, OnePlaceEach, Pending, Analysed
<1>4. Owner(f) \in Module
  BY ProgramTypes DEF AnalysisInv, OnePlaceEach, Instance
<1> QED  BY <1>3, <1>4 DEF BuiltBy

\* For any modules and instances, if what modules lend each other is all of the module that comes
\* first, every generic function that is called is there when the code is built (analyze_all,
\* build_generic_fun_instances).
THEOREM LentAreBuilt == Spec => []LentInstancesAreBuilt
<1>1. AnalysisInv /\ LentInv => LentInstancesAreBuilt
  BY LentInvBuilds
<1>2. Spec => []LentInv
  BY AnalysisInvAlways, LentInitInv, LentNextInv, PTL DEF Spec
<1> QED  BY <1>1, <1>2, AnalysisInvAlways, PTL
=============================================================================
