----------------------------- MODULE Interpreter -----------------------------
(***************************************************************************)
(* The bytecode interpreter (src/roxy/vm/interpreter.cpp, vm/vm.cpp and    *)
(* vm/object.cpp): calls and returns over a shared register file and local *)
(* stack, exceptions that unwind frames and run the cleanup records of the *)
(* functions they leave, and destructors, which are bytecode run by a      *)
(* second interpret() inside the opcode or the unwinding that needs them.  *)
(*                                                                         *)
(* `native' is the C++ stack: one entry for each activation of interpret,  *)
(* execute_cleanup and delete_value under way, the last one running.  One  *)
(* action is one bytecode instruction, or one stretch of C++ between two   *)
(* of its calls.                                                           *)
(*                                                                         *)
(* Programs are compiled functions, with the offsets, registers, handlers, *)
(* cleanup records and delete descriptors the compiler gives them.  Their  *)
(* data is abstracted: a number is Word and a branch on one goes either    *)
(* way.  Strings, maps, closures, struct fields that own something and     *)
(* multi-register results are left out.                                    *)
(***************************************************************************)
EXTENDS Integers, Sequences

CONSTANTS
    Programs,       \* the compiled modules, by name, one of which is loaded
    Obj,            \* heap objects, numbered in the order of allocation
    None,
    Word,           \* any value that is not a pointer
    RegisterFile,   \* vm->register_file_size
    LocalStack,     \* vm->local_stack_size
    MaxDepth,       \* vm->call_stack_capacity
    Zeroed,         \* whether CALL zeroes registers: built without NDEBUG
    Cleared,        \* the errors the embedding program clears to go on
    MaxCalls        \* bound: calls from the embedding program

ASSUME SizesAssumption ==
    /\ RegisterFile \in Nat \ {0} /\ LocalStack \in Nat /\ MaxDepth \in Nat \ {0}
    /\ Zeroed \in BOOLEAN /\ MaxCalls \in Nat /\ Obj \subseteq Nat

Unwound == "Unhandled exception"
Borrowed == "Cannot delete: object has active borrows"
DoubleThrow == "exception thrown during exception unwinding (destructor threw)"
Underflow == "ref_dec: reference count already zero"

\* What vm->error says, a null pointer when there is no error.
Errors == {Unwound, Borrowed, DoubleThrow, Underflow, "Division by zero", "Register file overflow",
           "Call stack overflow", "Local stack overflow", "Memory allocation failed",
           "List index out of bounds", "throw: null exception",
           "cannot structurally mutate a List while an element of it is borrowed (inout/out)",
           "cannot delete a List while an element of it is borrowed (inout/out)"}

ASSUME NoneAssumption == None \notin Errors

\* What is called and what is destroyed is in the module, and so is its main function.
ASSUME ProgramsAssumption ==
    \A p \in DOMAIN Programs :
        /\ "main" \in DOMAIN Programs[p]
        /\ \A f \in DOMAIN Programs[p] :
              LET fn == Programs[p][f] IN
              /\ fn.registers \in Nat /\ fn.locals \in Nat /\ Len(fn.records) \in Nat
              /\ \A q \in DOMAIN fn.code :
                    /\ fn.code[q].op = "call" => fn.code[q].fn \in DOMAIN Programs[p]
                    /\ fn.code[q].op = "delete" => fn.code[q].desc \in DOMAIN fn.descs
              /\ \A i \in 1 .. Len(fn.records) :
                    fn.records[i].kind = "Delete" => fn.records[i].desc \in DOMAIN fn.descs
              /\ \A d \in DOMAIN fn.descs :
                    /\ fn.descs[d].cleanup = "dtor" => fn.descs[d].fn \in DOMAIN Programs[p]
                    /\ fn.descs[d].elem # None => fn.descs[d].elem \in DOMAIN fn.descs

VARIABLES
    program,        \* vm->module
    frames,         \* vm->call_stack: popped entries stay as they were
    depth,          \* vm->call_stack_size
    register_top,   \* vm->register_top
    local_top,      \* vm->local_stack_top
    regs,           \* vm->register_file
    native,         \* the C++ stack
    error,          \* vm->error
    in_flight,      \* vm->in_flight_exception
    heap,           \* the objects and lists
    calls           \* how many calls the embedding program has made

stacks == <<frames, depth, register_top, local_top>>
vars == <<program, stacks, regs, native, error, in_flight, heap, calls>>

Fn(f) == Programs[program][f]
Unborn == [life |-> "unborn", type |-> None, count |-> 0, pins |-> 0, slots |-> <<>>, runs |-> 0]
NoFrame == [fn |-> None, pc |-> 0, base |-> 0, local |-> 0, ret |-> 0]

Init ==
    /\ program \in DOMAIN Programs
    /\ frames = [k \in 1 .. MaxDepth |-> NoFrame]
    /\ depth = 0 /\ register_top = 0 /\ local_top = 0
    /\ regs = [r \in 0 .. RegisterFile - 1 |-> None]
    /\ native = <<>>
    /\ error = None
    /\ in_flight = None
    /\ heap = [o \in Obj |-> Unborn]
    /\ calls = 0

-----------------------------------------------------------------------------
(* The C++ stack. *)

Top == native[Len(native)]
Return == SubSeq(native, 1, Len(native) - 1)
Becoming(item) == [native EXCEPT ![Len(native)] = item]
Calling(item, callee) == Append(Becoming(item), callee)
Running(kind) == native # <<>> /\ Top.kind = kind

\* An activation of interpret: its cached frame, func, registers and pc, and
\* what the instruction under way is doing.
Interpret(stop, frame, f, base) ==
    [kind |-> "interpret", stop |-> stop, frame |-> frame, fn |-> f, base |-> base,
     pc |-> 0, doing |-> <<>>, exc |-> None]
DeleteValue(o, f, desc) ==
    [kind |-> "delete", ptr |-> o, fn |-> f, desc |-> desc, at |-> "start", i |-> 0]
ExecuteCleanup(t, handler_pc) ==
    [kind |-> "cleanup", fn |-> t.fn, base |-> t.base, at |-> frames[t.frame].pc,
     to |-> handler_pc, i |-> Len(Fn(t.fn).records), reg |-> None]

\* An error: interpret returns false, and the frames stay where they are.
Fail(e) ==
    /\ error' = e
    /\ native' = Return
    /\ UNCHANGED <<program, stacks, regs, in_flight, heap, calls>>

-----------------------------------------------------------------------------
(* Instructions. *)

Code == Fn(Top.fn).code

\* The instruction at pc; those that change nothing here are not in Code.
At == CHOOSE q \in DOMAIN Code :
          q >= Top.pc /\ \A r \in DOMAIN Code : r >= Top.pc => q <= r
Fetch == Code[At]
Next_pc == At + (IF Fetch.op = "call" THEN 2 ELSE 1)
Executing(op) == Running("interpret") /\ Top.doing = <<>> /\ At \in DOMAIN Code /\ Fetch.op = op

R(r) == regs[Top.base + r]
Set(r, v) == [regs EXCEPT ![Top.base + r] = v]
Ptr(o) == <<o>>
Target(v) == v[1]
Goto(pc) == Becoming([Top EXCEPT !.pc = pc])
Advance == Goto(Next_pc)

Step ==
    /\ native' = Advance
    /\ UNCHANGED <<program, stacks, error, in_flight, calls>>

Load ==
    /\ Executing("load")
    /\ Step
    /\ regs' = Set(Fetch.a, Word)
    /\ UNCHANGED heap

Move ==
    /\ Executing("mov")
    /\ Step
    /\ regs' = Set(Fetch.a, R(Fetch.b))
    /\ UNCHANGED heap

Jump ==
    /\ Executing("jmp")
    /\ native' = Goto(Fetch.to)
    /\ UNCHANGED <<program, stacks, regs, error, in_flight, heap, calls>>

\* A comparison of numbers, and the jump on its outcome.
Branch ==
    /\ Executing("branch")
    /\ native' \in {Advance, Goto(Fetch.to)}
    /\ UNCHANGED <<program, stacks, regs, error, in_flight, heap, calls>>

Divide ==
    /\ Executing("div")
    /\ \/ /\ Step
          /\ regs' = Set(Fetch.a, Word)
          /\ UNCHANGED heap
       \/ Fail("Division by zero")

-----------------------------------------------------------------------------
(* Calls and returns. *)

Align(n) == ((n + 3) \div 4) * 4

\* The registers of a call: arguments first, then zeros or what was there.
Window(base, callee, args, zeroed) ==
    [r \in DOMAIN regs |->
        IF r \in base .. base + callee.registers - 1
        THEN IF r - base < Len(args) THEN args[r - base + 1]
             ELSE IF zeroed THEN None ELSE regs[r]
        ELSE regs[r]]

RegistersFit(callee) == register_top + callee.registers <= RegisterFile

Frame(f, base, local, ret) == [fn |-> f, pc |-> 0, base |-> base, local |-> local, ret |-> ret]
SavedPc == [frames EXCEPT ![Top.frame].pc = Next_pc]

Call ==
    /\ Executing("call")
    /\ LET f == Fetch.fn
           callee == Fn(f)
           base == register_top
           local == Align(local_top)
           args == [k \in 1 .. callee.params |-> R(Fetch.a + k)]
       IN
       \/ /\ ~RegistersFit(callee)
          /\ Fail("Register file overflow")
       \/ /\ RegistersFit(callee)
          /\ depth >= MaxDepth
          /\ Fail("Call stack overflow")
       \/ /\ RegistersFit(callee)
          /\ depth < MaxDepth
          /\ register_top' = base + callee.registers
          /\ regs' = Window(base, callee, args, Zeroed)
          /\ \/ /\ local + callee.locals > LocalStack
                /\ error' = "Local stack overflow"
                /\ native' = Return
                /\ frames' = SavedPc
                /\ UNCHANGED <<depth, local_top>>
             \/ /\ local + callee.locals <= LocalStack
                /\ local_top' = local + callee.locals
                /\ depth' = depth + 1
                /\ frames' = [SavedPc EXCEPT ![depth + 1] = Frame(f, base, local, Fetch.a)]
                /\ native' = Becoming([Top EXCEPT !.frame = depth + 1, !.fn = f, !.base = base, !.pc = 0])
                /\ UNCHANGED error
          /\ UNCHANGED <<program, in_flight, heap, calls>>

TopsAfter ==
    /\ register_top' = register_top - Fn(Top.fn).registers
    /\ local_top' = frames[Top.frame].local

\* Defect: a nested interpret goes on into the frame it was called from.
LastFrameRanPast(stop) == depth - 1 = 0

\* Whether the frame that returns is the last one of this interpret.
LastFrameRan(stop) == depth - 1 = 0 \/ (stop > 0 /\ depth - 1 <= stop)

Returning(result, is_void) ==
    /\ depth' = depth - 1
    /\ TopsAfter
    /\ \/ /\ LastFrameRan(Top.stop)
          /\ regs' = [regs EXCEPT ![IF depth' = 0 THEN 0 ELSE register_top'] = result]
          /\ native' = Return
       \/ /\ ~LastFrameRan(Top.stop)
          /\ LET caller == frames[depth'] IN
             /\ regs' = IF is_void THEN regs
                        ELSE [regs EXCEPT ![caller.base + frames[Top.frame].ret] = result]
             /\ native' = Becoming([Top EXCEPT !.frame = depth', !.fn = caller.fn,
                                               !.base = caller.base, !.pc = caller.pc])
    /\ UNCHANGED <<program, frames, error, in_flight, heap, calls>>

Ret == Executing("ret") /\ Returning(R(Fetch.a), FALSE)
RetVoid == Executing("ret_void") /\ Returning(None, TRUE)

-----------------------------------------------------------------------------
(* Objects. *)

Unused == {o \in Obj : heap[o].life = "unborn"}
Oldest(S) == CHOOSE o \in S : \A p \in S : o <= p

\* NEW_OBJ and native_list_alloc.
New ==
    /\ Executing("new")
    /\ \/ /\ Unused = {}
          /\ Fail("Memory allocation failed")
       \/ /\ Unused # {}
          /\ LET o == Oldest(Unused) IN
             /\ heap' = [heap EXCEPT ![o].life = "live", ![o].type = Fetch.type]
             /\ regs' = Set(Fetch.a, Ptr(o))
             /\ Step

\* Defect: the free that does not look at the borrows.
FreeRefusedNever(o) == FALSE

\* Defect: the exception being unwound goes like any other object.
NeverInFlight(o) == FALSE

\* What object_free leaves alone: the exception being unwound, and an object
\* with a borrow.
InFlight(o) == in_flight # None /\ in_flight = o

FreeRefused(o) == heap[o].count # 0

\* object_free
Freed(o) ==
    IF InFlight(o) \/ FreeRefused(o) THEN heap ELSE [heap EXCEPT ![o].life = "freed"]
FreeError(o) == IF ~InFlight(o) /\ FreeRefused(o) THEN Borrowed ELSE error

\* DEL_OBJ
DelObj ==
    /\ Executing("del_obj")
    /\ \/ /\ R(Fetch.a) = None
          /\ Step
          /\ UNCHANGED <<regs, heap>>
       \/ /\ R(Fetch.a) # None
          /\ LET o == Target(R(Fetch.a)) IN
             \/ /\ ~InFlight(o) /\ FreeRefused(o)
                /\ Fail(Borrowed)
             \/ /\ InFlight(o) \/ ~FreeRefused(o)
                /\ heap' = Freed(o)
                /\ regs' = Set(Fetch.a, None)
                /\ Step

RefInc ==
    /\ Executing("ref_inc")
    /\ heap' = IF R(Fetch.a) = None THEN heap
               ELSE [heap EXCEPT ![Target(R(Fetch.a))].count = @ + 1]
    /\ Step
    /\ UNCHANGED regs

\* ref_dec
Decremented(o) == IF heap[o].count = 0 THEN heap ELSE [heap EXCEPT ![o].count = @ - 1]

RefDec ==
    /\ Executing("ref_dec")
    /\ \/ /\ R(Fetch.a) # None /\ heap[Target(R(Fetch.a))].count = 0
          /\ Fail(Underflow)
       \/ /\ R(Fetch.a) # None => heap[Target(R(Fetch.a))].count # 0
          /\ heap' = IF R(Fetch.a) = None THEN heap ELSE Decremented(Target(R(Fetch.a)))
          /\ Step
          /\ UNCHANGED regs

Pin ==
    /\ Executing("pin")
    /\ heap' = [heap EXCEPT ![Target(R(Fetch.a))].pins = @ + 1]
    /\ Step
    /\ UNCHANGED regs

\* roxy_container_unpin
Unpinned(o) == [heap EXCEPT ![o].pins = IF @ > 0 THEN @ - 1 ELSE @]

Unpin ==
    /\ Executing("unpin")
    /\ heap' = Unpinned(Target(R(Fetch.a)))
    /\ Step
    /\ UNCHANGED regs

-----------------------------------------------------------------------------
(* Lists of pointers.  An element pointer is the list and the position. *)

SlotOf(v) == heap[v[1]].slots[v[2]]
WithSlot(o, i, v) == [heap EXCEPT ![o].slots[i] = v]

\* native_list_push, and the error that CALL_NATIVE makes of its refusal.
Push ==
    /\ Executing("push")
    /\ LET o == Target(R(Fetch.a + 1)) IN
       \/ /\ heap[o].pins # 0
          /\ error' = "cannot structurally mutate a List while an element of it is borrowed (inout/out)"
          /\ regs' = Set(Fetch.a, None)
          /\ native' = Return
          /\ UNCHANGED <<program, stacks, in_flight, heap, calls>>
       \/ /\ heap[o].pins = 0
          /\ heap' = [heap EXCEPT ![o].slots = Append(@, R(Fetch.a + 2))]
          /\ regs' = Set(Fetch.a, None)
          /\ Step

Access == {"index_addr", "index_get", "index_set"}

\* INDEX_ADDR_LIST, INDEX_GET_LIST, INDEX_SET_LIST, at one of the positions
\* the program may ask for.
Index ==
    /\ \E op \in Access : Executing(op)
    /\ \E i \in Fetch.at :
        LET o == Target(R(Fetch.b)) IN
        \/ /\ i > Len(heap[o].slots)
           /\ Fail("List index out of bounds")
        \/ /\ i <= Len(heap[o].slots)
           /\ heap' = IF Fetch.op = "index_set" THEN WithSlot(o, i, R(Fetch.a)) ELSE heap
           /\ regs' = CASE Fetch.op = "index_addr" -> Set(Fetch.a, <<o, i>>)
                        [] Fetch.op = "index_get" -> Set(Fetch.a, heap[o].slots[i])
                        [] OTHER -> regs
           /\ Step

\* GET_FIELD and SET_FIELD of two slots through an element pointer.
GetSlot ==
    /\ Executing("get_slot")
    /\ regs' = Set(Fetch.a, SlotOf(R(Fetch.b)))
    /\ Step
    /\ UNCHANGED heap

SetSlot ==
    /\ Executing("set_slot")
    /\ heap' = WithSlot(R(Fetch.b)[1], R(Fetch.b)[2], R(Fetch.a))
    /\ Step
    /\ UNCHANGED regs

-----------------------------------------------------------------------------
(* delete_value. *)

Desc == Fn(Top.fn).descs[Top.desc]

\* DELETE: the register is nulled when what it points to is gone.
Delete ==
    /\ Executing("delete")
    /\ \/ /\ R(Fetch.a) = None
          /\ Step
       \/ /\ R(Fetch.a) # None
          /\ native' = Calling([Top EXCEPT !.pc = Next_pc, !.doing = <<"delete", Fetch.a, Fn(Top.fn).descs[Fetch.desc].free>>],
                               DeleteValue(Target(R(Fetch.a)), Top.fn, Fetch.desc))
          /\ UNCHANGED <<program, stacks, error, in_flight, calls>>
    /\ UNCHANGED <<regs, heap>>

Deleted ==
    /\ Running("interpret") /\ Top.doing # <<>> /\ Top.doing[1] = "delete"
    /\ \/ /\ error # None
          /\ Fail(error)
       \/ /\ error = None
          /\ regs' = IF Top.doing[3] THEN Set(Top.doing[2], None) ELSE regs
          /\ native' = Becoming([Top EXCEPT !.doing = <<>>])
          /\ UNCHANGED <<program, stacks, error, in_flight, heap, calls>>

\* The early returns of delete_value.
NothingToDelete == error # None \/ InFlight(Top.ptr)

Stage(stage) == [Top EXCEPT !.at = stage]

DeleteNothing ==
    /\ Running("delete") /\ Top.at = "start"
    /\ NothingToDelete
    /\ native' = Return
    /\ UNCHANGED <<program, stacks, regs, error, in_flight, heap, calls>>

\* call_cleanup_destructor: with no frame or registers left, it does nothing.
Room(callee) ==
    depth < MaxDepth /\ RegistersFit(callee)

Destroy ==
    /\ Running("delete") /\ Top.at = "start" /\ ~NothingToDelete
    /\ Desc.cleanup = "dtor"
    /\ LET callee == Fn(Desc.fn) IN
       \/ /\ ~Room(callee)
          /\ native' = Becoming(Stage("end"))
          /\ UNCHANGED <<stacks, regs, heap>>
       \/ /\ Room(callee)
          /\ regs' = Window(register_top, callee, <<Ptr(Top.ptr)>>, TRUE)
          /\ register_top' = register_top + callee.registers
          /\ local_top' = local_top + callee.locals
          /\ frames' = [frames EXCEPT ![depth + 1] = Frame(Desc.fn, register_top, local_top, 0)]
          /\ depth' = depth + 1
          /\ native' = Calling(Stage("end"), Interpret(depth, depth + 1, Desc.fn, register_top))
          /\ heap' = [heap EXCEPT ![Top.ptr].runs = @ + 1]
    /\ UNCHANGED <<program, error, in_flight, calls>>

DestroyNothing ==
    /\ Running("delete") /\ Top.at = "start" /\ ~NothingToDelete
    /\ Desc.cleanup = "none"
    /\ native' = Becoming(Stage("end"))
    /\ UNCHANGED <<program, stacks, regs, error, in_flight, heap, calls>>

\* A list: refused while an element is lent, else its elements and its buffer.
DestroyList ==
    /\ Running("delete") /\ Top.at = "start" /\ ~NothingToDelete
    /\ Desc.cleanup = "list"
    /\ \/ /\ heap[Top.ptr].pins # 0
          /\ Fail("cannot delete a List while an element of it is borrowed (inout/out)")
       \/ /\ heap[Top.ptr].pins = 0
          /\ native' = Becoming(Stage("elements"))
          /\ UNCHANGED <<program, stacks, regs, error, in_flight, heap, calls>>

\* Defect: the walk stays at the first element.
FirstElement == heap[Top.ptr].slots[1]

Element == heap[Top.ptr].slots[Top.i + 1]

DestroyElement ==
    /\ Running("delete") /\ Top.at = "elements"
    /\ \/ /\ Desc.elem # None /\ Top.i < Len(heap[Top.ptr].slots)
          /\ LET next == [Top EXCEPT !.i = @ + 1] IN
             native' = IF Element = None THEN Becoming(next)
                       ELSE Calling(next, DeleteValue(Target(Element), Top.fn, Desc.elem))
          /\ UNCHANGED heap
       \/ /\ Desc.elem = None \/ Top.i = Len(heap[Top.ptr].slots)
          /\ native' = Becoming(Stage("end"))
          /\ heap' = [heap EXCEPT ![Top.ptr].slots = <<>>]
    /\ UNCHANGED <<program, stacks, regs, error, in_flight, calls>>

Frees(e) == e = None /\ Desc.free

DeleteEnds ==
    /\ Running("delete") /\ Top.at = "end"
    /\ heap' = IF Frees(error) THEN Freed(Top.ptr) ELSE heap
    /\ error' = IF Frees(error) THEN FreeError(Top.ptr) ELSE error
    /\ native' = Return
    /\ UNCHANGED <<program, stacks, regs, in_flight, calls>>

-----------------------------------------------------------------------------
(* Exceptions. *)

Throw ==
    /\ Executing("throw")
    /\ \/ /\ R(Fetch.a) = None
          /\ Fail("throw: null exception")
       \/ /\ R(Fetch.a) # None /\ in_flight # None
          /\ heap' = Freed(Target(R(Fetch.a)))
          /\ error' = DoubleThrow
          /\ native' = Return
          /\ UNCHANGED <<program, stacks, regs, in_flight, calls>>
       \/ /\ R(Fetch.a) # None /\ in_flight = None
          /\ in_flight' = Target(R(Fetch.a))
          /\ frames' = SavedPc
          /\ native' = Becoming([Top EXCEPT !.pc = Next_pc, !.doing = <<"search">>,
                                            !.exc = Target(R(Fetch.a))])
          /\ UNCHANGED <<program, depth, register_top, local_top, regs, error, heap, calls>>

Unwinding(stage) == Running("interpret") /\ Top.doing # <<>> /\ Top.doing[1] = stage

Catches(h, pc, type) == h.from <= pc /\ pc < h.to /\ h.type \in {None, type}

\* The handlers of this frame, in order, and the cleanup of what the jump to
\* the first that catches leaves, or of what leaving the frame does.
SearchHandler ==
    /\ Unwinding("search")
    /\ LET handlers == Fn(Top.fn).handlers
           catching == {k \in 1 .. Len(handlers) :
                           Catches(handlers[k], frames[Top.frame].pc, heap[Top.exc].type)}
       IN
       native' = IF catching = {}
                 THEN Calling([Top EXCEPT !.doing = <<"leave">>], ExecuteCleanup(Top, None))
                 ELSE LET h == handlers[Oldest(catching)] IN
                      Calling([Top EXCEPT !.doing = <<"land", h>>], ExecuteCleanup(Top, h.at))
    /\ UNCHANGED <<program, stacks, regs, error, in_flight, heap, calls>>

CleanupFailed ==
    /\ Unwinding("land") \/ Unwinding("leave")
    /\ error # None
    /\ in_flight' = None
    /\ native' = Return
    /\ UNCHANGED <<program, stacks, regs, error, heap, calls>>

Land ==
    /\ Unwinding("land") /\ error = None
    /\ LET h == Top.doing[2] IN
       /\ regs' = Set(h.reg, Ptr(Top.exc))
       /\ native' = Becoming([Top EXCEPT !.frame = depth, !.doing = <<>>, !.pc = h.at])
    /\ in_flight' = None
    /\ UNCHANGED <<program, stacks, error, heap, calls>>

\* The end of THROW's loop: the frame is popped; the last one ends the run.
Leave ==
    /\ Unwinding("leave") /\ error = None
    /\ depth' = depth - 1
    /\ register_top' = register_top - Fn(Top.fn).registers
    /\ local_top' = frames[depth].local
    /\ \/ /\ depth' = 0
          /\ in_flight' = None
          /\ heap' = IF FreeRefused(Top.exc) THEN heap ELSE [heap EXCEPT ![Top.exc].life = "freed"]
          /\ error' = Unwound
          /\ native' = Return
       \/ /\ depth' # 0
          /\ native' = Becoming([Top EXCEPT !.frame = depth', !.fn = frames[depth'].fn,
                                            !.base = frames[depth'].base, !.doing = <<"search">>])
          /\ UNCHANGED <<error, in_flight, heap>>
    /\ UNCHANGED <<program, frames, regs, calls>>

-----------------------------------------------------------------------------
(* execute_cleanup: the records of a function from the last to the first,  *)
(* a head and the extensions after it as one.                              *)

Records == Fn(Top.fn).records
HeadOf(i) == CHOOSE h \in 1 .. i :
              /\ h = 1 \/ ~Records[h].extends
              /\ \A k \in h + 1 .. i : Records[k].extends
Group == {Records[k] : k \in HeadOf(Top.i) .. Top.i}

\* Defects: a record counts before its register is written; its extensions
\* are not looked at.
ThrownInsideEarly == \E r \in Group : Top.at >= r.from /\ Top.at < r.end
ThrownInsideHead ==
    LET r == Records[HeadOf(Top.i)] IN Top.at >= r.live /\ Top.at < r.end

ThrownInside == \E r \in Group : Top.at >= r.live /\ Top.at < r.end

StillInScope == Top.to # None /\ \E r \in Group : Top.to >= r.from /\ Top.to < r.end

Cleaning == Running("cleanup") /\ Top.i > 0 /\ Top.reg = None /\ error = None
Applies == ThrownInside /\ ~StillInScope /\ R(Records[HeadOf(Top.i)].reg) # None

PastGroup == [Top EXCEPT !.i = HeadOf(@) - 1]

\* Defect: the step is taken only after the test of whether to skip it.
ContinuedAt == Top

Continued == PastGroup

CleanupSkips ==
    /\ Cleaning /\ ~Applies
    /\ native' = Becoming(Continued)
    /\ UNCHANGED <<program, stacks, regs, error, in_flight, heap, calls>>

\* A borrow: the count is released, and the register is left as it is.
CleanupReleases ==
    /\ Cleaning /\ Applies
    /\ LET record == Records[HeadOf(Top.i)]
           o == Target(R(record.reg)) IN
       /\ record.kind = "RefDec"
       /\ heap' = Decremented(o)
       /\ error' = IF heap[o].count = 0 THEN Underflow ELSE error
    /\ native' = Becoming(PastGroup)
    /\ UNCHANGED <<program, stacks, regs, in_flight, calls>>

CleanupUnpins ==
    /\ Cleaning /\ Applies
    /\ LET record == Records[HeadOf(Top.i)] IN
       /\ record.kind = "Unpin"
       /\ heap' = Unpinned(Target(R(record.reg)))
       /\ regs' = Set(record.reg, None)
    /\ native' = Becoming(PastGroup)
    /\ UNCHANGED <<program, stacks, error, in_flight, calls>>

CleanupDeletes ==
    /\ Cleaning /\ Applies
    /\ LET record == Records[HeadOf(Top.i)] IN
       /\ record.kind = "Delete"
       /\ native' = Calling([PastGroup EXCEPT !.reg = record.reg],
                            DeleteValue(Target(R(record.reg)), Top.fn, record.desc))
    /\ UNCHANGED <<program, stacks, regs, error, in_flight, heap, calls>>

CleanupDeleted ==
    /\ Running("cleanup") /\ Top.reg # None
    /\ regs' = Set(Top.reg, None)
    /\ native' = Becoming([Top EXCEPT !.reg = None])
    /\ UNCHANGED <<program, stacks, error, in_flight, heap, calls>>

CleanupEnds ==
    /\ Running("cleanup") /\ Top.reg = None
    /\ Top.i = 0 \/ error # None
    /\ native' = Return
    /\ UNCHANGED <<program, stacks, regs, error, in_flight, heap, calls>>

-----------------------------------------------------------------------------
(* The embedding program. *)

\* vm_call_index, with numbers for arguments.
VmCall ==
    /\ native = <<>> /\ error = None /\ calls < MaxCalls
    /\ calls' = calls + 1
    /\ LET callee == Fn("main")
           local == Align(local_top)
           args == [k \in 1 .. callee.params |-> Word]
       IN
       \/ /\ ~RegistersFit(callee)
          /\ error' = "Register file overflow"
          /\ UNCHANGED <<stacks, regs, native>>
       \/ /\ RegistersFit(callee)
          /\ register_top' = register_top + callee.registers
          /\ regs' = Window(register_top, callee, args, Zeroed)
          /\ \/ /\ local + callee.locals > LocalStack
                /\ error' = "Local stack overflow"
                /\ UNCHANGED <<frames, depth, local_top, native>>
             \/ /\ local + callee.locals <= LocalStack
                /\ local_top' = local + callee.locals
                /\ \/ /\ depth >= MaxDepth
                      /\ error' = "Call stack overflow"
                      /\ UNCHANGED <<frames, depth, native>>
                   \/ /\ depth < MaxDepth
                      /\ depth' = depth + 1
                      /\ frames' = [frames EXCEPT ![depth + 1] = Frame("main", register_top, local, 0)]
                      /\ native' = <<Interpret(0, depth + 1, "main", register_top)>>
                      /\ UNCHANGED error
    /\ UNCHANGED <<program, in_flight, heap>>

\* vm_clear_error
ClearError ==
    /\ native = <<>> /\ error \in Cleared
    /\ error' = None
    /\ UNCHANGED <<program, stacks, regs, native, in_flight, heap, calls>>

\* The embedding program may always stop calling.
Idle == native = <<>> /\ UNCHANGED vars

Interpreting ==
    \/ Load \/ Move \/ Jump \/ Branch \/ Divide
    \/ Call \/ Ret \/ RetVoid
    \/ New \/ DelObj \/ RefInc \/ RefDec \/ Pin \/ Unpin
    \/ Push \/ Index \/ GetSlot \/ SetSlot
    \/ Delete \/ Deleted \/ DeleteNothing \/ Destroy \/ DestroyNothing
    \/ DestroyList \/ DestroyElement \/ DeleteEnds
    \/ Throw \/ SearchHandler \/ CleanupFailed \/ Land \/ Leave
    \/ CleanupSkips \/ CleanupReleases \/ CleanupUnpins \/ CleanupDeletes
    \/ CleanupDeleted \/ CleanupEnds

Next == Interpreting \/ VmCall \/ ClearError \/ Idle

Spec == Init /\ [][Next]_vars

\* The thread that runs the interpreter keeps running it.
FairSpec == Spec /\ WF_vars(Interpreting)

-----------------------------------------------------------------------------
Stages == {"start", "elements", "end"}
Values == {None, Word} \cup {Ptr(o) : o \in Obj} \cup (Obj \X (Nat \ {0}))

\* The state stays within its types: registers that hold numbers, objects and elements, and a
\* C++ stack of activations (part of RecordsFindTheirValue).
TypeOK ==
    /\ \A r \in DOMAIN regs : regs[r] \in Values
    /\ in_flight \in Obj \cup {None}
    /\ \A o \in Obj : /\ heap[o].life \in {"unborn", "live", "freed"}
                      /\ heap[o].count \in Nat /\ heap[o].pins \in Nat
    /\ \A k \in 1 .. Len(native) :
          CASE native[k].kind = "interpret" -> native[k].frame \in 1 .. MaxDepth
            [] native[k].kind = "delete" -> native[k].ptr \in Obj /\ native[k].at \in Stages
            [] native[k].kind = "cleanup" -> native[k].i \in Nat

WindowEnd(k) == frames[k].base + Fn(frames[k].fn).registers
LocalsEnd(k) == frames[k].local + Fn(frames[k].fn).locals

\* What follows the locals of a frame: aligned by a call, and left so when it returns.
Behind(k) == {LocalsEnd(k), Align(LocalsEnd(k))}

\* The windows of the frames lie end to end in the register file, and their
\* locals one after the other, whatever calls, returns, destructors and
\* unwinding came before.
FramesTile ==
    error = None =>
        /\ \A k \in 2 .. depth : frames[k].base = WindowEnd(k - 1) /\ frames[k].local \in Behind(k - 1)
        /\ register_top = IF depth = 0 THEN 0 ELSE WindowEnd(depth)
        /\ local_top \in IF depth = 0 THEN {0} ELSE Behind(depth)

\* Each interpret() under way executes the top of its own part of the call
\* stack, from where it was called to where the next one was: a nested one
\* neither returns nor unwinds into the frames below it.
InterpretersNest ==
    LET Active == {k \in 1 .. Len(native) : native[k].kind = "interpret"} IN
    error = None => \A k \in Active :
        LET above == {j \in Active : j > k}
            top == IF above = {} THEN depth ELSE native[Oldest(above)].stop
        IN /\ native[k].frame = top /\ top > native[k].stop
           /\ native[k].fn = frames[top].fn /\ native[k].base = frames[top].base

\* What a scope exit, an unwinding or a container destroys is alive, or is
\* the exception on its way; no destructor runs twice, and no object that has
\* one is freed without it.  So no path destroys a value that another path,
\* or its new owner, has destroyed (lifetimes.md: "null-ified variables never
\* double-free").
DestroysLiveObjects ==
    /\ Running("delete") /\ Top.at = "start" /\ error = None /\ ~InFlight(Top.ptr) =>
          heap[Top.ptr].life = "live"
    /\ \A o \in Obj : /\ heap[o].runs <= 1
                      /\ heap[o].life = "freed" /\ heap[o].type = "R" => heap[o].runs = 1

\* A cleanup record applies only while its register holds what the record is
\* about: an owner of a live object, a borrow that is counted, a pin.  Never
\* a number, and never what an earlier call left there; and everything keeps its shape.
RecordsFindTheirValue ==
    /\ TypeOK
    /\ Cleaning /\ Applies =>
        LET record == Records[HeadOf(Top.i)]
            v == R(record.reg)
        IN /\ v \in {Ptr(o) : o \in Obj}
           /\ heap[Target(v)].life = "live"
           /\ record.kind = "RefDec" => heap[Target(v)].count > 0
           /\ record.kind = "Unpin" => heap[Target(v)].pins > 0

\* A borrowed object is not freed before the borrow is over, and neither is
\* a list with an element lent.
BorrowedStayAlive ==
    \A o \in Obj : heap[o].count > 0 \/ heap[o].pins > 0 => heap[o].life = "live"

\* The exception being unwound is alive until the handler has it.
ExceptionSurvives == in_flight # None => heap[in_flight].life = "live"

Finished == native = <<>> /\ error \in {None, Unwound}

\* Nothing is given a place past the end of the call stack, the register file
\* or the local stack, also after errors that left their frames behind.
WithinLimits ==
    /\ depth \in 0 .. MaxDepth
    /\ register_top \in 0 .. RegisterFile /\ local_top \in 0 .. LocalStack
    /\ \A k \in 1 .. depth : WindowEnd(k) <= register_top

\* The stacks are in order whatever calls, returns, nested interpreters, errors
\* and unwinding came before.
StacksInOrder == FramesTile /\ InterpretersNest /\ WithinLimits

\* When a call is over, by a return or by an exception nobody caught, every
\* object is freed, every borrow and pin released, and the stacks are empty.
NothingIsLeft ==
    Finished =>
        /\ depth = 0 /\ register_top = 0 /\ local_top = 0 /\ in_flight = None
        /\ \A o \in Obj : heap[o].life # "live" /\ heap[o].count = 0 /\ heap[o].pins = 0

\* An exception that was thrown is caught, or ends the call, or its cleanup
\* fails: unwinding comes to an end.
UnwindingEnds == (in_flight # None) ~> (in_flight = None)

-----------------------------------------------------------------------------
(* What the documentation and the comments say, and the code does not.     *)

\* Cleanup is LIFO, so that a borrow declared after its owner is released
\* before the owner is freed (lifetimes.md, "no spurious trap").
NoSpuriousTrap == error # Borrowed

=============================================================================
