------------------------------ MODULE Ownership ------------------------------
(***************************************************************************)
(* The front end and the IR builder together: a function that the lifetime *)
(* checker accepts is built, and what was built is run on every path.      *)
(*                                                                         *)
(* The two keep their own account of who owns what, one by the text and    *)
(* one by the blocks it emits, and no drop flag at run time settles a      *)
(* difference.  What is run is the SSA form as it has been laid out;       *)
(* unwinding follows the cleanup records that the bytecode builder makes   *)
(* of it, which are a third account, by the places in the code.  Of the    *)
(* optimiser's passes between the two there is the one that the records    *)
(* hang on (see IrOptimize for the others), and every value keeps its      *)
(* register (see Lowering).                                                *)
(***************************************************************************)
EXTENDS Integers, Sequences, FiniteSets, SequencesExt

CONSTANTS Names,        \* the variables
          Params,       \* a sequence of names: the parameters, all of type `uniq T`
          Programs,     \* the bodies that are compiled
          Zeroed,       \* whether registers start out as null: the code was built without NDEBUG
          MaxObjects    \* bound: a run that has made this many objects is not followed further

ASSUME ParamsAssumption == ToSet(Params) \subseteq Names
ASSUME BoundAssumption == MaxObjects \in Nat \ {0} /\ Zeroed \in BOOLEAN

Checker == INSTANCE LifetimeChecker
Builder == INSTANCE CoroutineLowering
Layout  == INSTANCE BlockOrder
Passes  == INSTANCE TrivialArguments
Records == INSTANCE CleanupRecords

VARIABLES program, phase, ir, at, pc, env, heap, holds, due,
          fields, resumeAt     \* of a coroutine: its variables, and its state
vars == <<program, phase, ir, at, pc, env, heap, holds, due, fields, resumeAt>>
coroutine == <<fields, resumeAt>>

None      == 0          \* the object of a null pointer
Undefined == 1000       \* a value not computed on this path
Done      == -1         \* the state of a coroutine that has come to its end

TypeOK ==
    /\ phase \in {"source", "rejected", "accepted", "running", "suspended", "failed", "returned", "dropped", "cut"}
    /\ heap \in Seq({"alive", "dead", "given"}) /\ Len(heap) <= MaxObjects
    /\ \A v \in DOMAIN env : env[v] \in (0 .. Len(heap)) \cup {Undefined}
    /\ \A v \in DOMAIN holds : holds[v] \in (0 .. Len(heap)) \cup {Undefined}
    /\ phase = "running" => at \in DOMAIN ir.blocks /\ pc \in 1 .. Len(ir.blocks[at].code) + 1
    /\ due \in BOOLEAN
    /\ \A v \in DOMAIN fields : fields[v] \in (0 .. Len(heap)) \cup {Undefined}
    /\ resumeAt \in {Done, 0} \cup DOMAIN ir.blocks

Init ==
    /\ program \in Programs
    /\ phase = "source"
    /\ ir = [blocks |-> <<>>, handlers |-> <<>>, offsets |-> <<>>, cleanups |-> {}]
    /\ at = 0 /\ pc = 0
    /\ env = <<>> /\ heap = <<>> /\ holds = <<>>
    /\ due = FALSE
    /\ fields = <<>> /\ resumeAt = 0

Analyze ==
    /\ phase = "source"
    /\ phase' = IF Checker!Accepts(program, ToSet(Params)) THEN "accepted" ELSE "rejected"
    /\ UNCHANGED <<program, ir, at, pc, env, heap, holds, due, fields, resumeAt>>

\* What the registers of a frame hold as it starts: the parameters of a function, nothing of a coroutine.
Registers(next, params) ==
    [v \in 0 .. next - 1 |-> CASE v = Builder!Null -> None [] v \in params -> v [] OTHER -> Undefined]

\* Where the blocks start is needed only while the records are made and for the throws.
Emitted(built, offsets, params) ==
    [blocks |-> built.blocks, handlers |-> built.handlers, next |-> built.next, offsets |-> offsets,
     cleanups |-> Records!Cleanups(built, offsets, params)]

Called(built, params) ==
    /\ \E offsets \in {Records!Offsets(built)} : ir' = Emitted(built, offsets, params)
    /\ heap' = [k \in DOMAIN Params |-> "alive"]
    /\ holds' = [v \in Builder!Bound |-> Undefined]
    /\ at' = 1 /\ pc' = 1
    /\ resumeAt' = 0
    /\ UNCHANGED <<program, due>>

\* One pass after the other.  (Quantified variables, as TLC evaluates them before it goes on.)
LaidOut(make)  == {Layout!ReorderBlocksRpo(f) : f \in {make}}
Optimized(fs)  == {Layout!ReorderBlocksRpo(g) : g \in {Passes!RunTrivialBlockArgElim(f) : f \in fs}}

\* The function is built, and called with one object for each parameter.
Build ==
    /\ phase = "accepted" /\ ~Builder!Yields(program)
    /\ \E built \in Optimized(LaidOut(Builder!Build(program, Params))) :
           Called(built, DOMAIN Params) /\ env' = Registers(built.next, DOMAIN Params)
    /\ phase' = "running"
    /\ fields' = <<>>

\* Calling a coroutine only makes its object.
BuildCoroutine ==
    /\ phase = "accepted" /\ Builder!Yields(program)
    /\ \E built \in LaidOut(Builder!Build(program, Params)) :
           /\ \E lowered \in Optimized({Builder!LowerCoroutine(built, Params)}) : Called(lowered, {})
           /\ fields' = [v \in ToSet(Params) \cup Builder!Promoted(built) |->
                            IF v \in ToSet(Params) THEN CHOOSE k \in DOMAIN Params : Params[k] = v ELSE None]
    /\ phase' = "suspended"
    /\ env' = <<>>

IsCoroutine == fields # <<>>

-----------------------------------------------------------------------------
InCode == phase = "running" /\ pc <= Len(ir.blocks[at].code)
Instr  == ir.blocks[at].code[pc]
AtEnd  == phase = "running" /\ pc > Len(ir.blocks[at].code)
Ending == ir.blocks[at].end
Object(value) == env[value]

With(objects, state) == [o \in DOMAIN heap |-> IF o \in objects THEN state ELSE heap[o]]

Step(op) == InCode /\ Instr.op = op
Onward   == pc' = pc + 1 /\ UNCHANGED <<program, phase, ir, at>>

NewObject ==
    /\ Step("new")
    /\ IF Len(heap) < MaxObjects
       THEN /\ heap' = Append(heap, "alive")
            /\ env' = [env EXCEPT ![Instr.value] = Len(heap) + 1]
            /\ UNCHANGED <<holds, due, coroutine>>
            /\ Onward
       ELSE phase' = "cut" /\ UNCHANGED <<program, ir, at, pc, env, heap, holds, due, fields, resumeAt>>

\* The variable's new value, as the source means it.
BindName ==
    /\ Step("bind")
    /\ holds' = [holds EXCEPT ![Instr.name] = Object(Instr.value)]
    /\ Onward /\ UNCHANGED <<env, heap, due, coroutine>>

UseIt == Step("use") /\ Onward /\ UNCHANGED <<env, heap, holds, due, coroutine>>

\* A mark for the records only
NullifyIt == Step("nullify") /\ Onward /\ UNCHANGED <<env, heap, holds, due, coroutine>>

\* A call that takes ownership destroys its argument; null is left alone, here and below.
EatIt ==
    /\ Step("eat")
    /\ heap' = With({Object(Instr.value)}, "dead")
    /\ Onward /\ UNCHANGED <<env, holds, due, coroutine>>

\* DELETE and DEL_OBJ clear the register of what they have freed.
DeleteIt ==
    /\ Step("delete")
    /\ heap' = With({Object(Instr.value)}, "dead")
    /\ env' = [env EXCEPT ![Instr.value] = None]
    /\ Onward /\ UNCHANGED <<holds, due, coroutine>>

TryOrFinally ==
    /\ InCode /\ Instr.op \in {"try", "finally"}
    /\ due' = (Instr.op = "try")
    /\ Onward /\ UNCHANGED <<env, heap, holds, coroutine>>

Covering == SelectSeq(ir.handlers, LAMBDA h : at \in h.body)

\* A catch may be for another type of exception, a finally is for all.
Tried(k) == \A j \in 1 .. k - 1 : Covering[j].kind = "catch"
Escapes  == Tried(Len(Covering) + 1)

\* What is destroyed on the way to a handler, or out of the function; the registers are cleared.
Unwound(handlers) ==
    Records!Unwound(ir.cleanups, Records!Pc(ir, ir.offsets, at, pc) + 1, {ir.offsets[h.handler] : h \in handlers})

CatchIt ==
    /\ Step("throw")
    /\ \E k \in DOMAIN Covering :
        /\ Tried(k)
        /\ LET h == Covering[k]
           IN  /\ \E gone \in {Unwound({h})} :
                      /\ heap' = With({Object(v) : v \in gone}, "dead")
                      /\ env' = [v \in DOMAIN env |-> CASE v = h.value -> Object(Instr.value)
                                                        [] v \in gone  -> None
                                                        [] OTHER       -> env[v]]
               /\ at' = h.handler /\ pc' = 1
    /\ UNCHANGED <<program, phase, ir, holds, due, coroutine>>

\* Out of the function: the exception is the caller's.  A
\* coroutine stays as it was when it was resumed; its caller may still drop it.
Escape ==
    /\ Step("throw")
    /\ Escapes
    /\ heap' = [With({Object(v) : v \in Unwound({})}, "dead") EXCEPT ![Object(Instr.value)] = "given"]
    /\ phase' = IF IsCoroutine THEN "failed" ELSE "returned"
    /\ UNCHANGED <<program, ir, at, pc, env, holds, due, coroutine>>

\* A condition may come out either way, but for the tests of a coroutine's state.
Jump ==
    /\ AtEnd /\ Ending.kind \in {"goto", "branch", "state"}
    /\ \E k \in DOMAIN Ending.to :
        /\ Ending.kind = "state" => (k = 1) = (Ending.state = resumeAt)
        /\ LET to     == Ending.to[k]
               params == ir.blocks[to.block].params
               Sets(v) == {n \in DOMAIN to.args : params[n] = v}
           IN  /\ at' = to.block /\ pc' = 1
               /\ env' = [v \in DOMAIN env |-> IF Sets(v) = {} THEN env[v]
                                               ELSE Object(to.args[CHOOSE n \in Sets(v) : TRUE])]
    /\ UNCHANGED <<program, phase, ir, heap, holds, due, coroutine>>

ReturnIt ==
    /\ AtEnd /\ Ending.kind = "return"
    /\ phase' = IF IsCoroutine THEN "suspended" ELSE "returned"
    /\ resumeAt' = IF IsCoroutine THEN Done ELSE resumeAt
    /\ UNCHANGED <<program, ir, at, pc, env, heap, holds, due, fields>>

-----------------------------------------------------------------------------
\* Coroutines: the instructions on their fields, and what their caller does.

Load ==
    /\ Step("load")
    /\ env' = [env EXCEPT ![Instr.value] = fields[Instr.name]]
    /\ Onward /\ UNCHANGED <<heap, holds, due, coroutine>>

Store ==
    /\ Step("store")
    /\ fields' = [fields EXCEPT ![Instr.name] = Object(Instr.value)]
    /\ Onward /\ UNCHANGED <<env, heap, holds, due, resumeAt>>

Clear ==
    /\ Step("clear")
    /\ fields' = [fields EXCEPT ![Instr.name] = None]
    /\ Onward /\ UNCHANGED <<env, heap, holds, due, resumeAt>>

Suspend ==
    /\ AtEnd /\ Ending.kind = "yield"
    /\ resumeAt' = Ending.state
    /\ phase' = "suspended"
    /\ UNCHANGED <<program, ir, at, pc, env, heap, holds, due, fields>>

\* A new frame, which the tests of the state take on.  A coroutine that is done is not resumed.
Resume ==
    /\ phase = "suspended" /\ resumeAt # Done
    /\ env' = Registers(ir.next, {})
    /\ at' = 1 /\ pc' = 1
    /\ phase' = "running"
    /\ UNCHANGED <<program, ir, heap, holds, due, coroutine>>

\* The destructor of the coroutine's object: of what its fields hold.
Drop ==
    /\ phase \in {"suspended", "failed"}
    /\ heap' = With({fields[v] : v \in DOMAIN fields}, "dead")
    /\ phase' = "dropped"
    /\ UNCHANGED <<program, ir, at, pc, env, holds, due, coroutine>>

Finished == phase \in {"rejected", "returned", "dropped", "cut"} /\ UNCHANGED vars

Next ==
    \/ Analyze \/ Build \/ BuildCoroutine
    \/ NewObject \/ BindName \/ UseIt \/ NullifyIt \/ EatIt \/ DeleteIt \/ TryOrFinally
    \/ CatchIt \/ Escape \/ Jump \/ ReturnIt
    \/ Load \/ Store \/ Clear \/ Suspend \/ Resume \/ Drop
    \/ Finished

Spec == Init /\ [][Next]_vars

-----------------------------------------------------------------------------
\* SSA form: an operand, or an argument of a jump, has been computed on the path that got here.
\* A jump out of the middle of a body must not pass on what the rest of the body would compute,
\* and a coroutine that is resumed must not use what was computed before it was suspended.  Control
\* stays in the code meanwhile: no jump leads to a block that was never made (TypeOK).
OperandsAreComputed ==
    /\ TypeOK
    /\ InCode /\ Instr.op \notin {"new", "load", "nullify"} => Object(Instr.value) # Undefined
    /\ AtEnd => \A k \in DOMAIN Ending.to : \A n \in DOMAIN Ending.to[k].args :
                    Object(Ending.to[k].args[n]) # Undefined

\* Whoever reads a variable gets the object last stored in it, and gets it alive: the checker
\* accepted no use of a moved value, and the builder's bindings follow every path, those that
\* leave a coroutine and come back to it among them.
UsesReadTheLatestValue ==
    InCode /\ Instr.op \in {"use", "eat"} =>
        /\ Object(Instr.value) = holds[Instr.name]
        /\ Object(Instr.value) \in DOMAIN heap /\ heap[Object(Instr.value)] = "alive"

\* What is destroyed at the end of a scope, by an assignment, by the unwinder or by the destructor
\* of a coroutine is alive or null; and no two fields of a coroutine own the same object.  Whoever
\* may handle an exception, no record names an object that is gone, and no two are about the same
\* one; where registers are not zeroed, none names a register that was never set on this path.
NothingDestroyedTwice ==
    LET AliveOrNull(o) == o = None \/ (o \in DOMAIN heap /\ heap[o] = "alive")
        Unset(o) == Zeroed /\ o = Undefined
        Apart(names, map) == \A v, w \in names : v # w /\ map[v] = map[w] => map[v] \in {None, Undefined}
        Ways == {{Covering[k]} : k \in {j \in DOMAIN Covering : Tried(j)}} \cup {w \in {{}} : Escapes}
    IN  /\ InCode /\ Instr.op = "delete" => AliveOrNull(Object(Instr.value))
        /\ InCode /\ Instr.op = "throw"  =>
               \A way \in Ways : \A gone \in {Unwound(way)} :
                   (\A v \in gone : AliveOrNull(Object(v)) \/ Unset(Object(v))) /\ Apart(gone, env)
        /\ phase \in {"suspended", "failed"} =>
               (\A v \in DOMAIN fields : AliveOrNull(fields[v])) /\ Apart(DOMAIN fields, fields)

\* Whatever way a function is left by, all it owned is gone; and so it is with a coroutine that
\* is dropped, wherever it was suspended.
NothingLeaks == phase \in {"returned", "dropped"} => \A o \in DOMAIN heap : heap[o] # "alive"

\* A finally runs when its body or its catch falls off the end, and when an exception leaves the
\* body, wherever the try stands.  This says nothing of a try that is jumped out of: for a return,
\* break or continue in it, and for an exception of the catch, the code builds no finally, although
\* docs say that it always executes.  The programs have none of those (LeftPastFinally).
FinallyRunsUnlessJumpedOver ==
    phase = "returned" \/ (phase = "suspended" /\ resumeAt = Done) => ~due
=============================================================================
