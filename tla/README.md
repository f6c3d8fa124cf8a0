# Roxy: a TLA+ verification project

Roxy is a statically typed embeddable language without a garbage collector.
A program is lexed, parsed, checked (types, move and borrow rules), lowered to
an SSA IR, and then either to bytecode run by a register VM or to C. Memory is
managed by ownership: `uniq` owners, counted `ref` borrows that a delete
refuses to pull the object from under, `weak` references checked against a
random generation, reference-counted strings, and lists and maps that refuse
to be mutated while an element of them is borrowed. This directory holds TLA+
models of that system, TLC runs that check them on small instances, and TLAPS
proofs about the parts that carry the most weight.

## 1. Inventory

### Runtime

| component | state | operations | what makes it hard | what makes it correct |
|---|---|---|---|---|
| slab allocator (`rt/slab_allocator`) | slabs per size class, intrusive free lists, live counts, large blocks, generation generator, totals | `alloc`, `free`, `reclaim_tombstoned`, `live_object_stats`, `resolve_header` | memory is recycled while weak references to its old occupant exist; reclaimed pages are read-only for ever | free list = FREE slots; counters exact; generations unique; a weak reference is valid iff its object lives |
| object heap (`vm/object`, first part of `rt/roxy_rt`) | per object header: generation, borrow count, type | `object_alloc`, `object_free`, `ref_inc`, `ref_dec`, weak create/check | a free can be refused; an object in flight as an exception must not be freed by cleanup | nothing is freed while borrowed; every refusal is reported |
| strings (`rt/roxy_rt`, `rt/string_intern`) | count, immortal sentinel, intern table | retain, release, literal, concat | sentinel shares the counter's range | a literal never dies; a dynamic string dies with its last holder |
| lists (`rt/roxy_rt`, `vm/list`) | length, capacity, buffer, pin count | push, pop, get, set, copy, delete, pin/unpin | push moves the buffer; a pinned list refuses | a borrowed element pointer never dangles |
| maps (`rt/roxy_rt`, `vm/map`, `vm/map_dispatch`) | Robin Hood table: distances, keys, values, length, capacity, pin count | insert, remove, get, contains, clear, grow, keys, values, copy, iterate | displacement on insert, backward shift on removal, growth in the middle; counted keys and values; user `hash`/`eq` run nested | the table is the map of what was inserted; counts of keys and values balance |
| VM (`vm/interpreter`, `vm/vm`) | call frames, register file, local stack, in-flight exception, error | CALL/RET, natives, THROW and unwinding, cleanup records, `delete_value`, nested `interpret` for destructors and callbacks | unwinding from nested interpreters; cleanup in the middle of construction | frames and stacks balance; every owned value is destroyed exactly once |

### Compiler

| component | state | operations | hard behaviour | correctness |
|---|---|---|---|---|
| lexer (`shared/lexer`) | position, f-string nesting stack | next token | f-strings nest expressions with braces and strings | braces and nesting balance, always progresses |
| parser (`compiler/parse`) | token window, panic flag | recursive descent | error recovery | progress |
| semantic analysis (`compiler/sema`) | scopes, type environment, moved/live facts per variable | declare, resolve, check; move state merged over branches and loops | conditional moves, loops, captures, early exits | no use after move; every owner is consumed or dropped on each path |
| generics (`compiler/types/generics`, `sema/generic_call_resolver`, `sema/trait_system`) | instances, queues, those put aside for another module | instantiate, infer, resolve pending | instantiation while a queue is worked off, recursion, bodies that mean another module's names | each instance is analysed once, with the names of its template, and none is lost |
| IR builder (`compiler/ir/ir_builder*`, `ownership_tracker`) | blocks, scopes, owned locals, loop and finally stacks | statement and expression lowering, scope cleanup | break/continue/return/throw through scopes and `finally` | cleanup of each owned local exactly once on every exit |
| IR passes (`ir_fold`, `ir_optimize`, `ir_validator`) | functions, blocks, values | folding, copy propagation, DCE, branch folding, block merging, CSE, layout | wrapping arithmetic, division traps, handlers and cleanup records that name blocks by number | meaning is preserved, the passes settle |
| coroutine lowering (`coroutine_lowering`) | promoted variables, fields, states | split at yields, loads and stores, resume dispatch, destructor | a coroutine is dropped at any yield | each owner destroyed once, by the body or by the destructor |
| bytecode lowering (`compiler/codegen/lowering`) | register map, patches, handler and cleanup tables | allocate registers, linearise, emit | parallel moves at block ends, live ranges in exception tables | moves read before they are overwritten; tables cover what is live |
| C backend (`compiler/codegen/c_emitter`) | emitted text | as lowering, with checked returns | exceptions without unwinder | as the VM |
| driver and modules (`driver/compiler`, `driver/module_registry`) | module graph, order, rounds over the modules | add, order, analyse, link, global init | import cycles, modules that lend each other templates | dependencies first; a program is refused only for a cycle; what is called is built |

### Tools

| component | state | operations | hard behaviour | correctness |
|---|---|---|---|---|
| language server (`lsp/*`) | open documents, syntax trees, global index, diagnostics | open/change/close, definition, rename, completion | several files define one name, stale index entries and declarations, error-tolerant parse | an entry of the index is one of the text its file has now; bodies are checked against present declarations |
| core (`core/json`, `core/string`, `core/file`, ...) | none | parsing, containers | | |
| CLI (`roxy.cpp`) | none | run, emit, heap statistics | | |

Interaction. The compiler drives the IR builder, which asks the ownership
tracker what each scope owns and emits explicit `Delete`, `RefDec`, `Unpin` and
release instructions on the normal exits and cleanup records for the exceptional
ones. The interpreter executes both. All heap objects, lists, maps and strings
carry the same header and go through the allocator vtable; destructors, map
`hash`/`eq` and native callbacks re-enter the interpreter.

## 2. Plan

Order: memory first, because every other part rests on it; then what executes
programs; then what the compiler promises to the executor; then the front end
and the tools.

| step | modules | composes / refines | state |
|---|---|---|---|
| 1 | `SlabAllocator`, abstract `WeakHeap` | implements `WeakHeap` | done, proved |
| 2 | `RoxyMap`, abstract `RoxyMapContract` | implements `RoxyMapContract` | done, proved |
| 3 | `RoxyList`, abstract `RoxyListContract` | implements `RoxyListContract` | done, proved |
| 4 | `Interpreter` | frames + unwinding + destructors + heap counts + lists | done for the instructions listed below; stacks, exceptions and borrow counts proved |
| 5 | `Lowering` | allocation + emission + tables + the run of the result | done for values of one register and weak references; the allocator proved |
| 6 | `RoxySyntax`, `LifetimeChecker`, `IrBuilder`, `CleanupRecords`, `TrivialArguments`, composed by `Ownership` | what the checker accepts is what the builder cleans up, on every path of what it built, and what its cleanup records say on every throw | done for statements; temporaries of larger expressions to do |
| 7 | `CoroutineLowering`, composed by `Ownership` as well | a coroutine resumed and dropped anywhere | done for owners |
| 8 | `BlockOrder`, `SsaForm`, `IrOptimize` | the optimised function does what the source does | done for integers |
| 9 | `LanguageServer` | documents, files, the index and the declarations | done for the messages that change them, proved |
| 10 | `RoxyString` | counts, the immortal sentinel, the intern table | to do |
| 11 | `ImportOrder`, `Compilation` | the order of the modules, then their analysis with the generic instances that they lend each other | done for what decides the order and the queues, proved |
| 12 | Linking and the initialisation of globals; `Lexer` (f-string nesting) | | to do |
| 13 | Proofs: `LoopLemmas`, the free list and the census of the slab allocator, the map's order, counts, borrows and refinement | | done |
| 14 | Proofs: the stacks of the interpreter, the exception on its way, counted borrows | | done |
| 15 | Proofs: `DefinitionsAreFound` of the language server, with the loop that lists the methods | | done |
| 16 | Proofs: `LiveRegistersAreApart` of the allocator | | done |

Bounds of the runs are given in section 4. The theorems are invariants, action
properties, refinements, and what the loops of the runtime compute.

## 3. The modules

### `WeakHeap`, `SlabAllocator`, `MCSlabAllocator`, `SlabAllocatorProofs`

`WeakHeap` says what the heap promises: an allocation gives an object that never
existed before, a free ends it for good, and a weak reference answers "alive"
exactly while its own object is alive.

`SlabAllocator` is `rt/slab_allocator.cpp` with the four header operations of weak
references that live above it.

| model | code |
|---|---|
| `slabs[c]`, a sequence of records `free_head`, `live_count`, `remapped`, `state`, `gen`, `link` | `m_size_classes[c].slabs`, `Slab`; `gen` and `link` are the first two words of a slot |
| `large` | `m_large_objects` |
| `AllocFromSlab`, `AllocFromNewSlab`, `AllocLarge` | `alloc`, `find_or_create_slab`, `alloc_from_slab`, `alloc_large` |
| `FreeInSlab`, `FreeLarge` | `free`, `free_in_slab`, `free_large` |
| `ReclaimTombstoned` | `reclaim_tombstoned` |
| `Census` | `live_object_stats` |
| `WeakCreate`, `WeakCheck` | `weak_ref_create`, `weak_ref_valid` |

A slot is one unit and an address is a slot: byte sizes, page sizes and the
sorted range index of `resolve_header` are left out. A generation is the next
number the generator has not given, where the code draws 64 random bits (the
redraw of zero is kept).

### `RoxyMapContract`, `RoxyMap`, `MCRoxyMap`, `RoxyMapProofs`

`RoxyMapContract` is a finite function whose mutation is refused while one of its
values is borrowed. `RoxyMap` is the Robin Hood table of `roxy_rt.cpp` as the VM's
natives and opcodes call it: `table` is the bucket array, `InsertInternal` the
displacement loop, `Find` the search that stops early, `ShiftBack` the backward shift,
`Grow` the rebuild, `Insert`, `Remove`, `Clear`,
`Keys`, `Values`, `Copy`, `Create`, `Destroy` the operations, `Borrow` and
`Unborrow` the two halves of `inout m[k]`. A loop is a function from the number of its
rounds to the state it has come to (`Placing` repeats `PlaceRound`, `Shifting` repeats
`ShiftRound`, `Moving` goes through the old buckets), and a round after the last changes
nothing; `PlaceKeeps` and `ShiftBackKeeps` prove that the last round comes within a tour of
the table. Distances wrap as `uint8_t` does
(`DistanceValues`). String keys and `ref` values carry their counts; `product` is
the list or map last made from this one, whose destruction gives its share back.
`hash` and `eq` are functions of the key (user-written ones may run any code;
that is left out).

### `RoxyListContract`, `RoxyList`, `RoxyListProofs`

`RoxyListContract` is a sequence whose length does not change under a borrow, and of which
`pop` traps when it is empty (`list.md:70-72`). The code answers such a pop with zeros
(`list.cpp:77`): `PopsEmpty` says whether programs do it. In the run they do not, because
the contract does not hold then (section 5).
`RoxyList` has the header and the buffer apart: growth moves the buffer, a borrow
remembers which buffer its pointer goes into. `PushOwn` is `xs.push(xs[i])`, whose
argument is, for a list of structs (`ByPointer`), a pointer into the buffer.

### `Interpreter`, `MCInterpreter`, `InterpreterProofs`

One action is one bytecode instruction, or one stretch of C++ between two of its
calls. `frames`, `depth`, `regs`, `register_top` and `local_top` are the VM's stacks;
popped frames stay as they were, and so do registers when `CALL` does not zero
them (`Zeroed` is FALSE: the code zeroes them only without `NDEBUG`). `native` is the C++
stack: `interpret`, `execute_cleanup` and `delete_value` call one another, and an
activation is a record in it. `heap` has, for each object, its life, type, borrow
count, pins, elements, and how often its destructor ran.

| model | code |
|---|---|
| `VmCall`, `ClearError` | `vm_call`, `vm_clear_error` |
| `Call`, `Ret`, `RetVoid` | `OP(CALL)`, `OP(RET)`, `OP(RET_VOID)` |
| `New`, `DelObj`, `RefInc`, `RefDec`, `Pin`, `Unpin`, `Push`, `Index`, `GetSlot`, `SetSlot` | the opcodes and natives of those names |
| `Delete`, `Destroy`, `DestroyList`, `DestroyElement`, `DeleteEnds` | `OP(DELETE)` and `delete_value` |
| `Throw`, `SearchHandler`, `Land`, `Leave` | `OP(THROW)` |
| `CleanupSkips`, `CleanupReleases`, `CleanupUnpins`, `CleanupDeletes`, `CleanupDeleted`, `CleanupEnds` | `execute_cleanup` |

Programs are data: `MCInterpreter` holds what the compiler emits for ten small
programs, instructions on numbers left out, so that offsets have gaps. Numbers are
`Word` and a branch on one goes either way. What `ProgramsAssumption` says of a module is
that what it calls and destroys is in it.

`StacksInOrder` says how frames lie: each begins where the one below it ends in the register
file, and in the local stack there or at the next multiple of four, since a call aligns. A
return leaves `local_stack_top` where the callee's locals began, so that the frame that goes
on may have a few words behind its own locals. Strings, maps, closures, fields that
own something, results of several registers and `CALL_INDIRECT` are left out.

### `Lowering`, `MCLowering`, `LoweringProofs`

`BytecodeBuilder`, from a function in SSA to code, and the run of the code.
`Analyse` (which instructions own which value), `ComputeLiveness`, `Precolor`, one
`Allocate...` action per program point (registers, call windows, spill slots),
`Emit` (layout order, program counters, constants that become operands, jumps
that read a comparison directly), `BuildCleanupRecords`. Then `Enter`, `Execute`,
`Call`, `CallThrows`, `Throw`, `Jump`, `Return`, `Catch` and `Leave` run what was
emitted, on what each register *holds*: the set of the SSA values whose present
value it contains. An instruction that reads a register which does not hold the
value it names is a misread, whatever the data would have been. `owed` counts, for
each value and each kind of release, what the frame still has to do.

Functions are data again: block and value numbers as the compiler's front end
gives them for small sources, and some written directly, for spilling and for the
constant pool. `WellFormed` is what lowering takes for granted of a function: that what it
names is there, and that each value is defined once (`IRValidator` looks at the blocks, the
handlers and the definitions), and that the parameters fit a frame, which nobody looks at.
Loops of the allocator are functions from the number of their rounds, as in `RoxyMap`. Structs in registers, closures, casts, jump distances and delete
descriptors are left out.

### `RoxySyntax`, `LifetimeChecker`, `IrBuilder`, `CoroutineLowering`, `BlockOrder`, `TrivialArguments`, `CleanupRecords`, `Ownership`, `MCOwnership`

The front end's account of `uniq` variables and the builder's are two: one follows
the text, the other the blocks it emits, and no flag at run time settles a
difference. What unwinding goes by is a third, the cleanup records: places in the code between
which a value counts as owned, whichever path was taken. `Ownership` puts the three together. Its
state is one program on its way: `Analyze` (the checker accepts or rejects), `Build` (the
builder, the layout, for a body with a yield the coroutine lowering, the optimiser's pass on
block arguments and the records), then the run of what was built.

| model | code |
|---|---|
| `RoxySyntax`: a statement is a record; `Simple` and `Compound` make all kinds | `ast.hpp` |
| `LifetimeChecker`: `moves`, `ends`, `rejected`; `Analyze...` per statement, `MergeMoves`, `MovedAcrossIterations` | `m_move_states` and the functions of `semantic.cpp` and `lifetime_checker.cpp` |
| `IrBuilder`: a record `b` with blocks, names, the tracker's entries and marks, loops, finallys; `Gen...` per statement | `IRBuilder`, `OwnershipTracker` |
| `ReconcileDivergentMoves`, `WithParams`, `BindParams`, `EmitScopeCleanup`, `LeaveTry` | the functions of those names; `gen_try_stmt` |
| `RecordScopeCleanup`, `BindMerge`, `Nullify` | `record_scope_cleanup_records`, `rebind_owned_local_to_merge_param`, `emit_nullify`: where a record begins, ends, is closed at a merge, and is cut |
| `CoroutineLowering`: `Promoted`, `LowerBlock`, `ClearedAtTheEnd`, `NotPromoted`, `Dispatch` | `phase1_promote`, `clear_owned_state_field`, the filter on cleanup records, `phase2_split` |
| `BlockOrder`: `ReorderBlocksRpo` | `reorder_blocks_rpo`, which also drops and renumbers |
| `TrivialArguments`: `RunTrivialBlockArgElim` | the pass of that name: a parameter that is gone takes its record with it |
| `CleanupRecords`: `Stretch`, `Covered`, `Extensions`, `Cleanups` | `build_cleanup_records`, `compute_cleanup_coverage`, by block offsets and program counters |
| `CleanupRecords`: `Unwound` | `execute_cleanup`: the records that hold where the exception left and do not hold at the handler |
| `NewObject`, `DeleteIt`, `Jump`, `ReturnIt`, `CatchIt`, `Escape` | the run of the SSA form, a value to a register; a `throw` destroys what the records name |
| `Called`, `Suspend`, `Resume`, `Drop`, `Load`, `Store`, `Clear` | a coroutine's constructor, yields, `resume` and `$$delete` |

`holds` and `due` are for the properties alone: the object last stored in each
variable, and whether a `finally` has still to run. Types, expressions other than
a fresh object, a name, an assignment and a call that borrows or takes, fields,
elements and captures are left out. A program counter counts the instructions of the model,
of which a `new` is one where the bytecode has several: what is compared is their order. Of the
optimiser's passes there is only the one that records hang on; merging of blocks keeps
the order of the code, and the others are in `IrOptimize`. Values have registers of their own
(that they share them is in `Lowering`), and `Zeroed` says that a register starts out as null,
as in a build without `NDEBUG`.

### `SsaForm`, `IrOptimize`, `MCIrOptimize`

`SsaForm` has a function (parameters, blocks, handlers, cleanup records; its layout is
`BlockOrder`), what the validator asks of it (`Valid`) and what it does when it runs (`Meaning`: the calls with their arguments, what its code
releases, which handler takes an exception, the result). `IrOptimize` takes a function
as the builder is asked for it through `Emit` (`emit_binary` with folding and
simplification), `LayOut` (the end of `end_function_body`) and `optimize_function`, one
action per pass: `Copies`, `Dead`, `Branches`, `Merging`, `Arguments`, `Common`, until
none changes anything, then `Reorder` and `Orphans`. Integers have `Width` bits. Floats,
bit operations, unary operators, casts, copies that keep their identity
(`no_copy_prop`) and `finally` metadata are left out. What unwinding releases is not in
`Meaning`: it is decided by the lowering's coverage (see `Lowering`); here a record must
still begin in the block that makes its value.

### `LanguageServer`, `MCLanguageServer`, `LanguageServerProofs`

`open` is `m_open_documents`, `workspace` `m_workspace_files`; `index`, `methodLists` and
`recorded` are the maps of `GlobalIndex`, `context` the files that the analysis context
was last built from, and `disk` what the editor and other programs write. `ScanFile` and
`FinishScan` are the two halves of `initialize`, `DidOpen`, `DidChange` and `DidClose` the
notifications, each with all that it calls (`UpdateFile`, `DeclarationsChanged`,
`Verdicts`, `Sources`). A text is the sequence of its top-level declarations. Requests
only read this state; the parser's recovery, the transport and the shutdown handshake
are left out.

### `ImportOrder`, `Compilation`, `MCCompilation`, `CompilationProofs`

`ImportOrder` is `topological_sort`: the recursion of `detect_cycle` is the sequence `stack`, a
frame being a module and the import it has come to; `state` and `compileOrder` are the
code's. `Compilation` goes on with `analyze_all`.

| model | code |
|---|---|
| `instances` | the two instance caches of `GenericInstantiator` |
| `pendingFuns`, `pendingStructs`, `sidelined` | `m_pending_funs`, `m_pending_structs`, `m_cross_module_funs` |
| `taken` | the local vector that a queue is swapped into |
| `AnalyzeModule`, `TakeStructs`, `AnalyzeStruct`, `TakeFuns`, `DrainInstance`, `FinishModule` | `analyze` of one module with the worklist of `analyze_function_bodies` |
| `BeginRound`, `TakeForModule`, `DrainInstance`, `NextModule`, `EndRound` | the `while` behind it, `analyze_owned_pending_fun_instances` |
| `BuiltBy` | `build_generic_fun_instances` |

A program is what each module imports, the module that each template is from, and which
instances each body names. Queues are sets: the order within one decides nothing here.
Templates with the same name in two modules, and errors in a body, which end the
compilation, are left out; substitution, inference and exports as well.

## 4. What the runs check

| run | instance and bounds | what it shows |
|---|---|---|
| `slab_allocator` | two classes, of 3 slots and of 1; two slabs, one large object, four generations | every interleaving of allocation, free, reclamation and weak checks keeps the free lists exact, the counters exact, generations unique, dead words zero, reclaimed slabs untouched, weak references truthful; the heap implements `WeakHeap` |
| `map` | four keys, two of one hash, one next to it, one NaN; capacity 2 growing to 4; two borrows | the order searches rely on survives every sequence of insertions, removals and rebuilds; borrowed values stay in place; the table implements `RoxyMapContract` |
| `map_counts` | three string keys, two of them equal at two addresses, all of one hash; `ref` values | keys and borrowed objects are counted once for each map, list and copy that holds them |
| `list` | two elements, capacity 2 growing to 4, lists reserved at 0, 1 and 3, two borrows; an empty list is not popped | no element is read from memory never written, borrowed pointers stay in the live buffer, the list implements `RoxyListContract` |
| `interpreter` | ten programs, two calls from the embedding program, 40 registers, 8 words of locals, 7 frames | frames tile, nested interpreters never run each other's frames and limits hold, after errors too (`StacksInOrder`); cleanup finds what it names, nothing is destroyed twice or left behind, unwinding ends |
| `lowering` | fifteen functions; 13 registers, and 2 to 5 and 8 to 12 for the two about scarcity; a constant pool of two | operands are read where they are, everything owned is released exactly once on every path and every throw, live values have registers of their own |
| `ownership` | 12323 programs over two variables, at most four objects in a run, registers that start out as null | what the checker accepts uses no value that is dead, old or not computed, destroys every object once on every path, those of exceptions included, which go by the cleanup records; a `finally` runs when its `try` is not jumped out of (`FinallyRunsUnlessJumpedOver`); coroutines resumed and dropped at every yield |
| `ir_optimize` | 1993 functions; integers of 3 bits, 12 inputs each, of which some make a call throw; runs followed for 40 steps | after each pass the function does what the source does, is valid, and its records are in place; the passes settle |
| `language_server` | three files, two in the workspace, texts with clashing names | an entry of the index is in its file's present text, definitions are found, declarations that bodies are checked against agree with the documents |
| `compilation` | 2744 graphs of three modules with at most two imports each, and a native module; 6160 programs with two generic functions, a struct and an abstract instance, the modules' import order both ways | the order has imports first, or there is a cycle; no instance is lost, analysed twice or by a function's wrong module; lent functions are built; the analysis ends |
| `swap_in_a_loop`, `coroutine_scope_ended` | one or two programs each | violations, section 5 |

Why the bounds are enough. The slab bounds allow a slot to be reused, a second
slab to be opened, drained and given back while the other is in use, and a class
with one slot whose slab is full after one allocation. The map's let an entry be
displaced, shifted back over the end of the table and rehashed: a table of two
holds one entry and one of four three, so that the second key forces a growth and
all of the table wraps around. The list's let a buffer be outgrown twice.
Two calls are enough for the interpreter, because what the first leaves in the
registers is what the second may misread; the stack sizes are such that each of
the three recursions ends at another limit, and all others fit. Thirteen
registers make every function of the lowering run compile without a spill but one;
`Spilled` is run with every limit between the first at which it compiles and the one
at which nothing spills, `PoolFull` with every limit at which constants compete for
registers. The programs of `ownership` put every act on an owner (use, give away,
delete, assign, declare from it) into every place of each kind of statement, alone, nested
once, and followed by another act, which shows the state the first has left; section 5 names
the shapes that are known to fail and are taken out; four objects are one for the parameter and one for each act. Loops are entered, left and repeated
until the objects run out. Three bits have a least integer whose negation overflows, a
product that wraps and every identity of the simplifier; the functions of `ir_optimize`
have one `if`, loop or `try` each, because no pass looks further than a block and its
predecessors, and every run of a source ends before the bound of 40 steps. Three files are enough for the
index: a name with two owners, and one file to be opened that the scan did not see.
Three modules make a cycle
of any length up to the walk's end, a module that two import, and one that imports
itself; of the instances two functions lead to each other and back through a struct. The
counts run uses the symmetry of values and
of the two equal strings; no property there is temporal.

Deadlock is checked except in `slab_allocator` (the bounds on slabs and
generations end a run), in the lowering runs (a function that has returned has
returned) and in `compilation` (a compiler that is done stops).

Fairness. `UnwindingEnds` needs weak fairness of the interpreter's own
steps (`Interpreting`), `PassesEnd` that of the optimiser's and `AnalysisEnds` that of the compiler's,
each a loop of one thread. The thread that called `vm_call` does not stop in the
middle of it; the embedding program owes nothing (`Idle` is a step). All other
properties hold without fairness.

## 5. Where the code disagrees with its documents

Two runs end in a violation, each of one property that a comment or a page of
`docs/internals` states; each was confirmed by running the program.

| run | property | what happens |
|---|---|---|
| `swap_in_a_loop` | `OperandsHold` | block arguments are moved one after the other: exchanging two variables in a loop loses one |
| `coroutine_scope_ended` | `NothingDestroyedTwice` | an owner of an inner scope is destroyed as the scope ends, and again when the coroutine is dropped at a later yield: its field is not cleared |

The rest was met while modelling. Everything marked (c) was confirmed by running a
program. The passing runs keep away from all of it, or the model has it as the code does.

Seen by giving the models other constants:

- `xs.push(xs[i])` on a full list of structs copies from the buffer the growth has freed:
  `ByPointer = TRUE` in `RoxyList.cfg`, property `PushedValueIsStored`. (c)
- `pop` of an empty list answers zeros in the VM (`list.cpp:77`), where `list.md:70-72` says
  that it traps: `PopsEmpty = TRUE` in `RoxyList.cfg`, property `ImplementsContract`.
- Registers that were never set are deleted by an unwinder that thinks them owned (the
  comment at `interpreter.cpp:1740`, "SSA guarantees write-before-read", is about code, and
  records are none): `Zeroed = FALSE` in `MCOwnership.cfg`, property `NothingDestroyedTwice`. For
  `try { if (c) { throw E; } } finally { p = make(); }` the record of the merge's `p` is
  extended over the handler, whose rethrow finds whatever an earlier call left in the register.
  A build with `NDEBUG` deletes a live object of the caller there. (c)
- Records come in the order in which scopes end, so unwinding frees an owner before it
  releases a borrow of it in an inner scope: `Programs <- Only_inner_scope`,
  `NoSpuriousTrap`. (c)
- A call that lends an element and moves an argument: when the callee throws, both sides
  destroy the argument: `Programs <- Only_lent_and_moved`, `DestroysLiveObjects`. (c)
- An owned local whose scope is laid out end before start gets no record, and an exception
  leaks it: `Function <- LosesALocal`, `NothingLeaks`. (c)
- A record covers its block from the start, so a call that throws before the borrow is
  counted makes the unwinder release it: `Function <- BorrowsLate`, `NothingReleasedTwice`. (c)
- Four ways in which a function with more than 250 values at once goes wrong; the last three
  read something else without an error.
  - A call with a result of two registers notes the value's name at the first one only
    (`lowering.cpp:941-955`). The other keeps the name of a value that was there before, and
    an eviction takes that register from under the live pair, which the comment at
    `lowering.cpp:1063-1067` says cannot happen; a weak reference then looks dead:
    `Function <- LosesAHalf`, `LiveRegistersAreApart`. (c)
  - The two registers for reloading are chosen at the first spill (`lowering.cpp:1100`), but
    code for *earlier* points reloads into them as well (`lowering.cpp:1146`, `1161`), where
    other values still live: `Function <- ReloadsTooEarly`, `OperandsHold`. (c)
  - Parameters of a block get registers at the first jump to it. If they are spilled before
    the block comes, they get others there (`lowering.cpp:267`), and the jump's moves, made
    for the first ones, write over arguments not yet read: `Function <- PassesTwice`,
    `OperandsHold`. (c)
  - A parameter of the function that is spilled is never stored to its slot
    (`lowering.cpp:394`; `ssa-ir.md:141`), and a reload reads what the slot held:
    `Function <- LosesAParameter`, `OperandsHold`. (c)

Ownership in functions. In parentheses, the predicate of `MCOwnership` that leaves the
programs out; without it the run `ownership` shows the violation.

- A variable assigned in a loop before a `break` has its old value behind the loop:
  `gen_while_stmt` binds the names to the header's parameters
  (`ir_builder_stmt.cpp:711`: "use header params as final values"); a `for` loses what was
  assigned before a `continue` (984-996). A value moved on the way to a `break` or
  `continue` is deleted twice (`lifetimes.md:813`). (`JumpAmongChanges`, c)
- A `return` at the top of a loop's body, a `try` or a `catch` marks the outer owners as
  given up for what follows as well, and they leak. (`ReturnAtTop`, c)
- The owners after a `when`, or an `else if` chain without `else`, are as its last arm left
  them, even when that arm has ended: a leak or a double delete. (`LastArmEnds`, c)
- `while (c) { p = make(); if (d) { eat(p); } }` does not destroy the old `p` when the loop
  runs no round. (`RevivedInLoop`, c)
- A handler, and what follows it, goes on with the names of before the `try`: an outer owner
  assigned in the `try` is, in the `catch`, the object that the assignment destroyed.
  (`ChangedForHandlers`, c)
- `catch { eat(p); }` leaks `p` where nothing was thrown; `finally { eat(p); }` with an
  exception destroys it twice. (The handlers of the families give nothing up; c)
- No `finally` is built for a `return`, `break` or `continue` in the `try` or the `catch`, nor for
  an exception of the `catch` (`exceptions.md:56`: "`finally` always executes"). This is what
  `FinallyRunsUnlessJumpedOver` leaves out; a property that said "always" would fail on each of
  them. (`LeftPastFinally`, c)
- An owner declared in the initialiser of a `for` is destroyed by the first increment.
  (`OwnerInForStart`, c)
- Statements behind a `break`, `continue` or `return` are built, and run in its place. (The
  families have none; c)
- The `finally` of the normal exit is built into the last block of the `try`: an exception
  in it is taken by the `try`'s own `catch`, after which the `finally` runs again
  (`ir_builder_stmt.cpp:1427-1434`; c). In the runs a `finally` does not throw.

Cleanup records and exceptions (`lifetimes.md:812-813` promises that nothing is deleted
twice). A record is one stretch of code for a value, with extensions block by block:

- An owner given up in two arms of which one then throws: one program counter is kept for
  each value (`lowering.cpp:663`, `2656`), that of the arm laid out last, so the record covers the
  other arm to its throw. `if (c) { eat(p); } else { eat(p); throw E; }` deletes `p` twice, unless
  the exception has got its memory meanwhile, which no cleanup frees. So does a value moved in
  a `try` before the throw that its `catch` takes. (`GivenUpInAnotherArm`,
  `GivenUpWhereCaught`, c)
- `var q = p;` before a throw: both variables have records of one value, and giving up `p` cuts
  both. The object leaks. (`TakenOverThenThrown`, c)
- A record is closed at a merge only if its owner is still there
  (`ir_builder_stmt.cpp:241`). When one arm throws, another assigns and none that arrives still
  owns, the throwing arm has no record: `if (c) { throw E; } else { p = make(); return; }`
  leaks. (`AssignedThenGone`, c)
- In a loop, a block may be laid out before the one in which its record begins. The record of a
  local declared in the body in front of a `try` ends before it starts, and is not made: a throw
  leaks the local. `while (c) { try { throw E; } catch { p = make(); } }` deletes an object
  twice. (`HandledInLoop`, c)

Ownership in coroutines, likewise:

- Promoted locals leak when a throw goes to a `catch` of the coroutine; those that are not
  promoted, or not stored yet, leak when it leaves the coroutine: the records are filtered
  by type (`coroutine_lowering.cpp:1478`). `yield; eat(p); throw` and a drop delete twice.
  (`ThrowsInCoroutine`, c)
- The blocks of a resume function are renumbered, with its jumps and handlers and without
  the records that are left (`coroutine_lowering.cpp:538-567`): each names a block that lies
  elsewhere. The model does the same.
- `ScopeEndsBeforeYield` is the run `coroutine_scope_ended`.
- A yield in one branch only: the other goes on with a field that was never stored; and
  `var b = a;` behind a yield reads the value `a` has later. (`StoredInOneArm`, c)
- An owner given up in one branch before a yield is deleted again by a drop.
  (`GivenUpInOneArm`, c)

Optimiser:

- Block merging asks whether handlers name the second block, not the first
  (`ir_optimize.cpp:387`): when every `catch` ends, the block behind a `try` is merged into
  the last block of the body, and a throw behind the `try` is caught by it. (c)
- A block of a `try` that is dropped is renumbered to the entry block
  (`ssa_ir.cpp:860`), which the handler covers from then on; the comment at 870 says that
  such a reference "never matters". (c)
- A division by zero whose result nothing uses is removed and the program goes on
  (`ir_optimize.cpp:12`; `optimization.md:41`, `vm.md:71`). `SameRun` allows for it. To keep
  divisions is not enough: the mutant of `PassesEnd` shows that then the loop of passes
  would not end on two equal divisions. (c)
- An `i32` is computed with 64 bits: `2147483647 + 1` prints as negative and compares as
  positive. The model has one width. (c)

Modules and generic instances (two of these are shut out of the property by
`OnlyTheFirstLends`, the rest from the programs of the run):

- The rounds stop early. The first module of the order takes all that is pending and puts
  aside what is not its own, so no later one finds anything (`compiler.cpp:301`); if it owned
  nothing, the round has drained nothing and was the last (333), though the comment at 286
  says "Iterate to a fixed point". A program whose second library lends a template fails
  with "function not found during bytecode lowering", and compiles when two import lines
  are exchanged. (c)
- The bodies of a generic struct are analysed with the names of the module that uses it
  (`semantic.cpp:1293`): only functions are put aside. A method that calls a private function
  of its own module is an undefined identifier elsewhere. (c)
- The rounds look at functions only: a struct instance that is first named in one of them has
  its fields and no bodies, and the validator stops the program that compiles in one
  file. (c)
- Templates are known by their bare name (`generics.cpp:26`): of two modules' generic functions
  of one name the second takes the place of the first, and public ones are called for each
  other without an error. (c)
- A function that names an instance of itself at a larger type is instantiated without end,
  until the compiler crashes. (c)

Language server:

- A file that is changed or closed takes a name out of the index that another file defines
  as well (`global_index.cpp:222`; `lsp-server.md:110`); `DefinitionsAreFound` asks only for
  names with one definition.
- A struct with methods in two files loses its list when the first changes, and each change
  of the second makes it longer. No text of the run has one.
- The context is not rebuilt when a field's type, a constructor or a global changes, nor on
  close (`lsp-server.md:43`, `:117`), and a document with nothing but globals is not added to
  it; `ContextKnowsTheDocuments` speaks of the outline that is compared.
- `declarations_changed` compares names that lie in a text already freed: the model lets the
  comparison come out either way.
- A file deleted while it is open keeps the entries its document had.

Runtime and lowering:

- A destructor that throws outside any unwinding: `THROW` looks for handlers in the
  frames of the interpreter that called the destructor as well
  (`interpreter.cpp:2518`; the comment at 2429 says it stops at its own). `DELETE` runs a
  destructor without saving the frame's program counter (`interpreter.cpp:2404`).
- An error that `vm_clear_error` clears leaves the frames of the failed call on the
  stacks (`vm.cpp:277`; `interpreter.cpp:1780` calls it recoverable). The limits
  hold all the same.
- A borrow of an owner (a `ref` local with the owner's SSA value) ends the owner's
  coverage (`lowering.cpp:1390-1427`): a throw behind it leaks the owner
  (`lifetimes.md:1175-1177`).
- `take(make(), risky())`: the temporary is given up before the argument that throws
  is evaluated, and leaks.
- A second string local bound to the string of a first, behind a call that throws: as
  with the borrow that is not yet counted, for the string's count.
- A destructor's locals are not counted against the local stack: `call_cleanup_destructor`
  moves `local_stack_top` with no test against its size, which the other two places that
  push a frame have (`interpreter.cpp:264`, `212`). `Destroy` has it as the code does; the
  destructors of the run's programs need no locals.
- A destructor at the depth limit: the object is freed without it
  (`interpreter.cpp:246`; `lifetimes.md:810`).
- A free that a borrow refuses comes after the destructor has run
  (`interpreter.cpp:325`, `object.cpp:139`).
- Inserting into a map a value that points into its own buckets, when the insertion
  grows the table (`roxy_rt.cpp:1286`); storing into a pinned map by index is dropped
  without an error (`interpreter.cpp:2003-2021`); replacing an owned element while it is
  lent `inout` deletes it twice.
- The probe distance of a map is bounded by an assertion alone (`roxy_rt.cpp:1064`).
- The offset of a parameter's register is a `u8` that wraps (`lowering.cpp:222-260`): the last
  of 258 parameters is read in `R1` of a frame of two registers. No call of such a function
  compiles, so it takes the embedding program to run it. (c)
- The index operations reload two spilled operands into
  the same scratch register (`lowering.cpp:2340-2373`); an owned value that is spilled gets no
  cleanup record (`lowering.cpp:722`); a constant beyond the pool's index is materialised in
  one branch and used in another (`lowering.cpp:1193-1200`). They need more than 250
  values live at once, or 255 constants.

## 6. What is proved

`LoopLemmas` holds what the proofs about loops need. The library's induction theorems take
an operator, which the provers cannot instantiate; its theorem that a well-founded relation
has minimal elements (`WFMin`) takes sets. From it follow, for sets and functions,
`LeastNumber`, `Induction` over the naturals, and `Recursion`: repeating a function is a
function. So a loop that is written as a recursive function can be proved about, by induction
on its rounds; `Rounds` does the same for a loop whose rounds know their number.

`SlabAllocatorProofs`, for every set of size classes, every slot count and every bound.
The assumptions are those named in `SlabAllocator`: slot counts are positive
(`SlotCountAssumption`), the code for large objects is not a class (`LARGEAssumption`),
the end of a free list is not an index (`NILAssumption`), the bounds are naturals
(`BoundsAssumption`).

The invariant. None of the safety properties is inductive on its own: that a
weak reference tells the truth needs that dead words read zero and that no later
object draws an earlier generation; that dead words read zero needs that the free
list holds free slots only; and that needs the link of every free slot to stay
within the free slots. `Inv` is the conjunction: every slab is a `GoodSlab` (its links,
its zero words, its count, and nothing left in it once it is remapped), every large
block likewise, generations of live objects are distinct and drawn, a weak
reference's generation was drawn and belongs, if to anybody, to its own object.

The argument has two floors. Four lemmas say that the four steps of a slab (`NewSlab`,
`SlabAlloc`, `SlabFree`, `SlabReclaim`) keep `GoodSlab`. Above, an action is only what it
does to addresses: `AllocAt` puts a new generation where nothing lived, `FreeAt` zeroes
the word of a live object, `SameObjects` changes neither; one lemma per action shows
which of the three it is, and the heap's invariants and the refinement of `WeakHeap`
follow from the three.

| theorem | property |
|---|---|
| `Invariance` | `Spec => []Inv` |
| `FreeListCorrect` | `FreeListIsExactlyTheFreeSlots`, by `AllOrdered`, below |
| `CensusCorrect` | `CensusBalances`, by the invariant that the live objects are as many as the totals say: an allocation adds an address, a free takes one away, anything else none |
| `GenerationsCorrect`, `WeakRefsCorrect`, `RemappedCorrect` | properties of the run, for all parameters |
| `TypeCorrect`, `FreeListSafe`, `LiveCountCorrect`, `DeadWordsCorrect` | the parts they rest on, which the run therefore does not list |
| `Refinement` | the allocator implements `WeakHeap` |

That the free list holds *all* FREE slots is about where it leads, which no link tells by
itself. `AllOrdered` says that the FREE slots of a slab have an order that starts with the
head and that the links follow: a step of the slab takes the first away or puts one before
it. `WalkRounds` shows that the walk of the property goes through that order, round by
round.

`RoxyMapProofs`, for every set of keys, contents, hashes and values,
every initial capacity and bound, both kinds of keys and of values. The order of a table
(`InOrder`) is: the bucket of each entry is as far behind its home as it says, and no bucket
is more than one step farther than the bucket before it. The first part of the module has, for any
table, what the loops do to it:

| lemma | what it says |
|---|---|
| `PlaceRoundKeeps`, `PlaceKeeps` | the entry in hand fits the next bucket after any round; the loop ends within a tour, in order, with one entry more |
| `ShiftRoundKeeps`, `ShiftBackKeeps` | only the bucket of the gap breaks the order while entries shift back; the loop ends within a tour, in order, with one entry less |
| `MovingKeeps`, `GrowKeeps` | the rebuilt table holds what the old one held, and has room |
| `FindKey` | in a table in order that has an empty bucket, the search finds a key if and only if it is there, though it stops early |

What a table holds is counted: `Count(t, P)` is the number of entries whose key and value are
in `P`, so that one lemma for each loop serves the length, the counts of each key and of
each value, and the contents. `Inv`, of the second part, adds to a sound table that keys of
equal content share an entry, that each borrow's bucket holds the key and value it was
lent for and is counted by the pin, and that counts are what is held.

| theorem | property |
|---|---|
| `Invariance` | `[]Inv` |
| `OrderKept`, `RoomCorrect`, `BorrowsCorrect`, `HoldingsCorrect` | `RobinHoodOrder`, `RoomForAProbeToEnd`, `BorrowedValuesStay`, `HoldingsAreCounted` |
| `EntriesCorrect` | `EqualKeysShareAnEntry` and `LengthExact`: what the contract's run sees only from outside |
| `Refinement` | `ImplementsContract`; with the hypothesis `~ByPointer`, as for lists (section 5) |

One hypothesis is the code's own, and its theorems are of the form
`Spec /\ [][DistancesHold]_vars => ...`: a distance is a `uint8_t`, and nothing but
`assert(dist < 255)` (`roxy_rt.cpp:1064`) keeps it from wrapping when hundreds of keys share a
hash. `DistancesHold` says that tables are smaller than the distances reach, or that every
round of every insertion and rebuilding passes that assertion. `SmallTables` shows that in the
first case, which is that of the runs, it is no restriction; a map of more buckets needs
hashes that spread. Without either the order is lost, and with it
the keys. The other assumptions are `CapacityAssumption` (the first capacity is 2 or more;
in the code, 8), `DistanceAssumption` (a byte counts beyond 2), and what keys and values are.

`RoxyListProofs`, for every set of elements, initial capacity, reserve and bound, from
`JunkAssumption` (uninitialised memory is no element) and `CapacityAssumption` (capacities
are naturals, the first is not zero). The invariant is the run's three invariants and
that a destroyed list is empty, without which `Create` could not show its elements
written. One lemma shows that storing an element keeps it whether or not the buffer
moves; the others, that an operation changes the elements or the borrows and not the
other. `TypeCorrect`, `ElementsCorrect` and `BorrowsCorrect` follow, for all lists. `Refinement`
has two hypotheses, `~ByPointer` and `~PopsEmpty`: for lists of structs, and for programs that
pop an empty list, the contract does not hold (section 5).

`LanguageServerProofs`, for all files, texts and numbers of open documents, from
`WorkspaceAssumption` and `TextsAssumption` (the absence of a file is no text). That a
location fits the present text of its file is not inductive: closing a document takes
out what the file has *recorded*, and the rest must not be its own. `IndexInv` adds that
whatever is indexed under a name is recorded by the file it is in, that a document is open
once and its text stands for its file, and that nothing is indexed before the scan.

| theorem | property |
|---|---|
| `IndexIsKept` | `Spec => []IndexInv` |
| `EntriesAlwaysFit` | `EntriesFitTheText` |
| `FindingIsKept` | `Spec => []FindInv`, below |
| `DefinitionsAlwaysFound` | `DefinitionsAreFound` |
| `ContextAlwaysKnows` | `ContextKnowsTheDocuments`, by an invariant of its own: each open document has the outline of a file in the context, or an empty one; having the same outline is an equivalence, and a message after which it differs rebuilds |

`DefinitionsAreFound` is not inductive either: another file that had *recorded* the name
would take it out when it changes, and a struct's list that its file had not recorded would
be continued, not begun anew, the next time. `FindInv` adds that a file has recorded only
names that one of its texts has (`NamesInv`), so a name of one file alone is recorded by no
other, and that the list of a struct of one file alone is recorded by that file. What the
loop over a text does to the lists, `AddMethods`, is proved by its rounds: a struct whose list was
taken out ends with the names of its methods, in their order, also when `didOpen` indexes a
file twice; and no other list changes.

`CompilationProofs`, for all modules, imports and instances, from `SourcesAssumption` (every
module is among the sources), `ImportsAssumption` and `InstancesAssumption` (what a program
is; a function is no struct). `SortedOrCyclic` says nothing of a walk that has not come to
its end, so `SortInv` has the walk: a module is being visited exactly while a call for it is
open, each open call is for an import of the one below, and of the imports that a call has
passed all are listed but the one that the next call is for. Then a module that returns has
all its imports listed, and one that is found open again closes a cycle with the calls
above it. `AnalysisInv` adds to `OnePlaceEach` that what was taken is of the kind that the
stage works off, and that queues hold nothing that is not in a cache: a body's new
instances are new to every place.

| theorem | property |
|---|---|
| `SortIsSound` | `SortedOrCyclic` |
| `NoInstanceIsLost` | `OnePlaceEach` |
| `LentAreBuilt` | `LentInstancesAreBuilt`, by `LentInv`: what is put aside is the first module's, so the module that takes it first in a round owns it, and a round that analysed nothing had nothing but abstract instances |

`InterpreterProofs`, for any module of bytecode, any sizes of the stacks, any number of
calls and objects, with or without zeroed registers, from `ProgramsAssumption`,
`SizesAssumption` (sizes are naturals, objects are numbers) and `NoneAssumption` (no error is not an error). The
properties of the stacks are about three things that must agree: the VM's frames, the tops
of its stacks, and the activations of `interpret`, `execute_cleanup` and `delete_value` on
the C++ stack. None is inductive alone: that `RET` gives back the right frame needs that the
activation that runs is in the top frame; that a destructor's `RET` ends its own interpreter
and not the one below needs that each interpreter's `stop` lies just under its own frames;
and after an error that is not an exception, frames are left on the stacks which no
interpreter runs, and must still not overlap. `IInv` is five parts:

| part | what it says |
|---|---|
| `StackInv` | the tops are within the stacks, and each frame's window is behind those of all frames below it, also after an error |
| `TileInv` | without an error the frames tile, from the bottom of both stacks |
| `NativeInv` | an activation is that of an `interpret`, an `execute_cleanup` or a `delete_value`, for a function, a descriptor and a record of the module |
| `NestInv` | the interpreters share the call stack out, in the order in which they call each other, and the last has the top frame |
| `EndInv` | with no activation and no error the stacks are empty |

The steps fall into a few kinds, each with a lemma: an activation goes on, calls, returns,
fails, or moves to another frame; a frame is put on top (`PushStacks`) or taken off
(`PopStacks`). An action is then only shown to be of its kind.

| theorem | property |
|---|---|
| `Invariance` | `[]IInv` |
| `StacksCorrect` | `StacksInOrder` |
| `StacksEmptied` | the stacks' part of `NothingIsLeft` |
| `ExceptionKept` | `ExceptionSurvives`: an object that is not the exception is freed with no count, one that is is not freed by a record or a destructor |
| `CountedStayAlive` | the counted part of `BorrowedStayAlive` |

They have hypotheses, each about what the interpreter does not test, in the form
`Spec /\ [][...]_vars => ...`. The programs of the run keep to all of them.

- `Contained`: a destructor does not throw out of itself while nothing is unwound, and the
  locals of a destructor fit. Both are holes that section 5 lists (`interpreter.cpp:2518`,
  `264`): without the first an interpreter goes on in the frames of another, without the
  second the local stack overflows.
- `Cleared \subseteq {Unwound}`, of the first three: the embedding program clears no error
  but that of an exception nobody caught. After any other the frames of the failed call
  stay on the stacks (section 5), and later ones do not start from the bottom.
- `ThrowsLive`, `BorrowsLive`: what is thrown, and what is borrowed, is alive. Neither opcode
  asks; that the compiler emits no other is what the lifetime checker is for.

The first correction that a proof made was to `StacksInOrder`: it said that `local_stack_top`
is where the locals of the last frame end, and the proof of `RET` failed. The program
`padded` shows a `RET` after which it is past that.

`LoweringProofs`, for every set of functions, each with its number of registers, and every
size of the constant pool, from `NoneAssumption` (`None` is not an integer) and
`FunctionsAssumption` (every function is `WellFormed`). `LiveRegistersAreApart` speaks of the
values that have registers; that giving one to the next value, freeing what has expired,
evicting one, or opening a call window keeps them apart depends on lists that must agree:

| part | what it says |
|---|---|
| `Shape` | points, blocks, parameters, jumps, handlers and records are within the function |
| `Sound` | no register is in use twice, or in use and free, or in use and set aside for reloading; none in use, free or owned lies above those handed out |
| `Secure` | the registers of a value that is still needed are in the list of those in use, with its last use (so it is not freed early), are no other such value's, and know it as their owner (so an eviction takes the right value out of its home) |
| `Unspilled` | with nothing spilled, values that are in place at a common point share no register, also those whose point has passed, for emission reads the final map |
| `Seen` | with nothing spilled, what comes into place before the present point has been given a register, so no register is given to a value behind the walk |

Each operation `Works`: from an allocator that is `Sound`, `Secure` and `Unspilled` it comes
to one that is, or it fails. The lemmas for expiry, taking a free register, taking
fresh ones, evicting, the first spill with its two scratch registers, and the call window say
so one by one; the loops (a window that spills until it fits, the parameters that a jump passes
values to, the blocks of a layout) go by `LoopLemmas`. That a window lies above everything in use, and so
above the values that are needed, is what makes the value of a call fit in it.

| theorem | property |
|---|---|
| `AllocatorInvariant` | `[](Shape /\ AllocInv)` |
| `RegistersAreApart` | `LiveRegistersAreApart`, while nothing is spilled (`alloc.scratch = <<>>`) or if no call of the function returns two registers (`OneRegisterResults`) |

The last condition is not one of the proof: without it the property is false. The step that
evicts a register needs that the owner noted there is the value that lives there, and for the
second register of a call's result that fails: `LosesAHalf` (section 5) is a function on
which it does. Once something is spilled, the theorem speaks of the walk alone, not of the code
emitted afterwards from the final map: `ReloadsTooEarly` and `PassesTwice` are what is left
out.

Model-checked only. Of the interpreter,
`DestroysLiveObjects`, `RecordsFindTheirValue`, the pins of `BorrowedStayAlive` and the
objects of `NothingIsLeft`: they are not true of any bytecode, but of what the compiler emits
(its records, and a delete and an unpin on every path). Of the lowering,
`OperandsHold`, `NothingReleasedTwice` and `NothingLeaks`: they follow a run through loops and
handlers and are not true of every function (section 5), only of those that the run has. Every
property of ownership and the optimiser; `UnwindingEnds`, `PassesEnd` and
`AnalysisEnds` (liveness, like `ENABLED`, is out of the prover's reach). `RoxySyntax`,
`LifetimeChecker` and `IrBuilder` (statements within statements), `SsaForm` and `IrOptimize`
(passes to a fixed point, runs) use RECURSIVE operators, and so no module that reaches them
holds a theorem.

## 7. What is not modelled

- Lexer, parser, traits, lambda lifting, types and symbols; of semantic analysis
  everything but the flow of owners (type inference, overloads, borrow conflicts among the
  arguments of a call, captures, partial moves out of fields). They compute once, from a
  tree, with little state; the trees the models start from are what they hand on.
- Of the IR builder: expressions beyond a name, a fresh object, an assignment and a call;
  pattern variables, fields, elements, captures, temporaries.
- Of the driver and of generics: exports and visibility, linking, the initialisation of
  globals; substitution, inference, bounds, templates that share a name.
- The C backend, which emits text; the command line; the core library.
- Of the runtime: virtual memory, the intern table, user-written `hash` and `eq`, natives
  other than those of lists and maps.
- Of the language server: requests, the error-tolerant parser, the transport.

`PROJECT.json` gives the reason for each component.
