------------------------------ MODULE Lowering ------------------------------
(* BytecodeBuilder (compiler/codegen/lowering.cpp): from one function in SSA  *)
(* form to register code, and the run of that code.                           *)
(*                                                                            *)
(* The builder gives every SSA value a register or a spill slot in one walk   *)
(* over the program points (liveness, call windows, spilling), emits the      *)
(* blocks in layout order, and derives from the layout the ranges of code in  *)
(* which an exception finds a handler and in which the unwinder releases a    *)
(* value.  The interpreter then runs the code: here it runs it on what each   *)
(* register HOLDS, the set of the SSA values whose present value it contains, *)
(* so that reading the wrong register, or a stale one, is visible whatever    *)
(* the data.  Branches, and whether a callee throws, are left open.           *)
(*                                                                            *)
(* A register is one u64; weak references take two.  Structs returned or      *)
(* passed in registers, closures and the constant loads are left out.         *)
EXTENDS Integers, Sequences, FiniteSets, SequencesExt, FiniteSetsExt

CONSTANTS
    Function,   \* the functions compiled, each with a number of registers
    PoolLimit,  \* the constants an RK operand can name (256)
    None

VARIABLES
    fn,         \* the function: params, wide, blocks, cleanup, handlers
    limit,      \* how many registers a frame may have (255)
    phase,      \* what build_function, or the frame, is doing
    points,     \* the program points of fn, in layout order
    at,         \* the point reached
    cover,      \* cleanup record -> the blocks in which its value is owned
    skipped,    \* the constants that no instruction loads
    live,       \* value -> the last point at which it must be in place
    alloc,      \* the register allocator
    code,       \* what emission decided for each point, and where the point is
    records,    \* the cleanup records of the function emitted
    regs,       \* register -> the values it holds
    stack,      \* spill slot -> the values it holds
    owed,       \* release -> value -> how many the frame still has to do
    misread     \* the points that read something else than the value they name

built == <<fn, limit, points, cover, skipped, live>>
emitted == <<alloc, code, records>>
frame == <<regs, stack, owed, misread>>
vars == <<fn, limit, phase, points, at, cover, skipped, live, alloc, code, records,
          regs, stack, owed, misread>>

-----------------------------------------------------------------------------
(* The function as a list of points                                          *)

\* The points of a block: its parameters, its instructions, its terminator.
PointsOf(blocks, b) ==
    [i \in DOMAIN blocks[b].params |->
        [b |-> b, op |-> "param", def |-> blocks[b].params[i], uses |-> <<>>,
         takes |-> {}, to |-> <<>>]]
    \o [i \in DOMAIN blocks[b].insts |-> [blocks[b].insts[i] EXCEPT !.b = b]]
    \o <<[blocks[b].term EXCEPT !.b = b]>>

Flatten(blocks) ==
    LET upto[n \in 0 .. Len(blocks)] ==
            IF n = 0 THEN <<>> ELSE upto[n - 1] \o PointsOf(blocks, n)
    IN  upto[Len(blocks)]

Callish == {"call", "native"}

\* The registers of a sequence of values, one behind the other.
Room(vs, wide) == Len(vs) + Cardinality({i \in DOMAIN vs : vs[i] \in wide})

IsList(s) == s \in Seq(Range(s))

\* An instruction or a terminator.
IsPoint(i) ==
    /\ i = [b |-> i.b, op |-> i.op, def |-> i.def, uses |-> i.uses, takes |-> i.takes,
            to |-> i.to]
    /\ IsList(i.uses) /\ IsList(i.to)
    /\ i.op # "param" /\ (i.op \in Callish => i.def # None)

\* What lowering is given: what a block, a jump, a handler or a record refers to
\* is there, and every value is defined in one place (the IR validator looks at
\* instructions, jumps and handlers); and a frame has room for the parameters of
\* its function, which nothing checks (param_reg_offset is a u8 that wraps).
WellFormed(f) ==
    LET g == f.fn
        all == Flatten(g.blocks)
        defined == {all[p].def : p \in DOMAIN all} \ {None}
        targets == DOMAIN g.blocks
    IN  /\ f.limit \in Nat
        /\ IsList(g.params) /\ None \notin Range(g.params) /\ Room(g.params, g.wide) <= f.limit
        /\ IsList(g.blocks) /\ g.blocks # <<>>
        /\ \A b \in targets :
              /\ IsList(g.blocks[b].params) /\ None \notin Range(g.blocks[b].params)
              /\ IsList(g.blocks[b].insts)
              /\ \A i \in DOMAIN g.blocks[b].insts :
                    IsPoint(g.blocks[b].insts[i]) /\ g.blocks[b].insts[i].to = <<>>
              /\ IsPoint(g.blocks[b].term) /\ g.blocks[b].term.def = None
              /\ \A t \in Range(g.blocks[b].term.to) : t.block \in targets
        /\ \A i \in DOMAIN g.cleanup : {g.cleanup[i].start, g.cleanup[i].end} \subseteq targets
        /\ IsList(g.handlers) /\ \A h \in Range(g.handlers) : h.block \in targets
        /\ \A p, q \in DOMAIN all : all[p].def = all[q].def => p = q \/ all[p].def = None
        /\ Range(g.params) \cap defined = {}
        /\ \A p \in DOMAIN all :
              all[p].op \in {"rk", "rkl"} =>
                 /\ Len(all[p].uses) = 2
                 /\ Range(all[p].uses) \subseteq (Range(g.params) \union defined) \ g.wide

ASSUME NoneAssumption == None \notin Int
ASSUME FunctionsAssumption == \A f \in Function : WellFormed(f)

Points == DOMAIN points
Blocks == DOMAIN fn.blocks
InBlock(b) == {p \in Points : points[p].b = b}
First(b) == Min(InBlock(b))
Term(b) == Max(InBlock(b))
Body(b) == First(b) + Len(fn.blocks[b].params)
Successors(b) == {t.block : t \in Range(points[Term(b)].to)}

Value == Range(fn.params) \union ({points[p].def : p \in Points} \ {None})
Width(v) == IF v \in fn.wide THEN 2 ELSE 1
DefinedAt(v) == {p \in Points : points[p].def = v}
DefPoint(v) == IF DefinedAt(v) = {} THEN 0 ELSE Min(DefinedAt(v))
IsParam(v) == \E b \in Blocks : v \in Range(fn.blocks[b].params)
IsCallResult(v) == \E p \in DefinedAt(v) : points[p].op \in Callish
Reads(p) ==
    Range(points[p].uses) \union UNION {Range(t.args) : t \in Range(points[p].to)}

\* What S reaches by next, with as many rounds as there are blocks.
Closure(S, next) ==
    LET upto[n \in 0 .. Len(fn.blocks)] ==
            IF n = 0 THEN S
            ELSE LET reached == upto[n - 1]
                 IN  reached \union UNION {next[b] : b \in reached}
    IN  upto[Len(fn.blocks)]

Edges == [b \in Blocks |-> Successors(b)]

-----------------------------------------------------------------------------
(* compute_cleanup_coverage: the blocks in which a value is owned            *)

Releases == {"delete", "dec", "release"}
KillsIn(v, b) ==
    {p \in InBlock(b) : points[p].op \in Releases \union {"nullify"} /\ v \in Reads(p)}

Eligible(c) == ~c.whole /\ ~c.borrow

\* Defect: a handler is taken to clean up wherever the value dies.
HandlerCoveredAlways(h, v) == TRUE

HandlerCovered(h, v) ==
    LET reached == Closure({h.block}, Edges)
    IN  /\ \A b \in h.body : KillsIn(v, b) = {}
        /\ \/ \E b \in reached : KillsIn(v, b) # {}
           \/ \A b \in reached : points[Term(b)].op # "return"

\* Defect: the coverage does not stop where the value was given up.
CoverageThroughKills(c) ==
    IF ~Eligible(c) THEN {} ELSE Closure({c.start}, Edges)

Covered(c) ==
    LET stop == IF c.before THEN {c.end} ELSE {}
        next == [b \in Blocks |->
            IF KillsIn(c.value, b) # {} THEN {}
            ELSE (Successors(b)
                  \union {h.block : h \in {g \in Range(fn.handlers) :
                                              b \in g.body /\ HandlerCovered(g, c.value)}})
                 \ stop]
    IN  IF ~Eligible(c) THEN {} ELSE Closure({c.start} \ stop, next)

-----------------------------------------------------------------------------
(* compute_liveness                                                          *)

\* Passes 1 to 3: definition, uses, and the jumps that pass it a value.
OwnLastUse(v) ==
    Max({DefPoint(v)}
        \union {p \in Points : v \in Reads(p)}
        \union {p \in Points : \E t \in Range(points[p].to) :
                                   t.args # <<>> /\ v \in Range(fn.blocks[t.block].params)})

\* Defect: values that outlive a loop are not kept through it.
NotLooped(last, b) == last

\* Pass 4, one block: what is defined before a loop and read in it is kept to
\* the jump that closes the loop.
Looped(last, b) ==
    LET starts == {First(s) : s \in {t \in Successors(b) : t < b}}
    IN  [v \in Value |->
            IF \E s \in starts : DefPoint(v) < s /\ last[v] >= s /\ last[v] < Term(b)
            THEN Term(b) ELSE last[v]]

\* Defect: nothing keeps the register of an owned value for the unwinder.
NotPinned(last) == last

\* Passes 5 and 5b: a value with a cleanup record is kept to the end of its
\* scope, and over every block the record covers.
Pinned(last) ==
    [v \in Value |->
        Max({last[v]} \union UNION
            {{Term(IF fn.cleanup[i].whole THEN Len(fn.blocks) ELSE fn.cleanup[i].end)}
             \union {Term(b) : b \in cover[i]}
                : i \in {j \in DOMAIN fn.cleanup : fn.cleanup[j].value = v}})]

LastUse ==
    LET upto[b \in 0 .. Len(fn.blocks)] ==
            IF b = 0 THEN [v \in Value |-> OwnLastUse(v)]
            ELSE LET last == upto[b - 1] IN Looped(last, b)
    IN  Pinned(upto[Len(fn.blocks)])

BlockOf(p) == IF p = 0 THEN 1 ELSE points[p].b

\* Only a value that lives and dies in one block may reuse a register.
SameBlock(v) == ~IsParam(v) /\ live[v] <= Term(BlockOf(DefPoint(v)))

-----------------------------------------------------------------------------
(* compute_const_use_modes                                                   *)

\* The operand positions that must be registers; an RK operation takes a
\* constant on its right, and on its left too when it commutes.
MustBeRegister(v) ==
    \E p \in Points :
        IF points[p].op = "rk" THEN FALSE
        ELSE IF points[p].op = "rkl" THEN points[p].uses[1] = v
        ELSE v \in Reads(p)

IsConst(v) == \E p \in DefinedAt(v) : points[p].op = "const"
SkipLoad(v) == v \in skipped

-----------------------------------------------------------------------------
(* The register allocator                                                    *)

EmptyAllocator ==
    [home |-> [v \in Value |-> None], slot |-> [v \in Value |-> None],
     owner |-> [r \in 0 .. limit |-> None], active |-> <<>>, free |-> {},
     scratch |-> <<>>, next |-> 0, slots |-> 0, ok |-> TRUE]

\* insert_active: sorted by last use, after the entries with the same.
InsertActive(a, r, last) ==
    LET n == Cardinality({i \in DOMAIN a.active : a.active[i].last <= last})
    IN  [a EXCEPT !.active = InsertAt(a.active, n + 1, [reg |-> r, last |-> last])]

\* Defect: only the first register of a wide value is kept.
ActivateFirst(a, v, r) == InsertActive(a, r, live[v])

Activate(a, v, r) ==
    LET b == InsertActive(a, r, live[v])
    IN  IF Width(v) = 1 THEN b ELSE InsertActive(b, r + 1, live[v])

Failed(a) == [a EXCEPT !.ok = FALSE]

\* Defect: a register is free from the point that reads it last.
ExpireAt(a, p) ==
    LET dead == {i \in DOMAIN a.active : a.active[i].last <= p}
    IN  [a EXCEPT !.active = SubSeq(a.active, Cardinality(dead) + 1, Len(a.active)),
                  !.free = @ \union ({a.active[i].reg : i \in dead} \ Range(a.scratch))]

\* expire_before
ExpireBefore(a, p) ==
    LET dead == {i \in DOMAIN a.active : a.active[i].last < p}
    IN  [a EXCEPT !.active = SubSeq(a.active, Cardinality(dead) + 1, Len(a.active)),
                  !.free = @ \union ({a.active[i].reg : i \in dead} \ Range(a.scratch))]

\* bump_register, n times, for v.
Bumped(a, v, n) ==
    IF a.next + n > limit THEN Failed(a)
    ELSE [a EXCEPT !.home[v] = a.next,
                   !.owner = [r \in DOMAIN @ |-> IF r \in a.next .. a.next + n - 1
                                                 THEN v ELSE @[r]],
                   !.next = @ + n]

\* take_furthest_spillable: neither call results nor wide values.
Spillable(a) ==
    {i \in DOMAIN a.active :
        LET v == a.owner[a.active[i].reg]
        IN  v # None /\ ~IsCallResult(v) /\ Width(v) = 1}

Evict(a) ==
    LET i == Max(Spillable(a))
        r == a.active[i].reg
        v == a.owner[r]
    IN  [a EXCEPT !.active = RemoveAt(@, i), !.slot[v] = a.slots, !.slots = @ + 1,
                  !.home[v] = None, !.owner[r] = None]

EvictedRegister(a) == a.active[Max(Spillable(a))].reg

\* The first spill also takes two registers to reload into.
WithScratch(a) ==
    IF a.scratch # <<>> THEN a
    ELSE IF Cardinality(Spillable(a)) < 3 THEN Failed(a)
    ELSE LET b == Evict(a)
             taken == {EvictedRegister(a), EvictedRegister(b)}
         IN  [Evict(b) EXCEPT !.scratch = <<Min(taken), Max(taken)>>]

\* spill_furthest
SpillFurthest(a) ==
    LET b == WithScratch(a)
    IN  IF ~b.ok \/ Spillable(b) = {} THEN Failed(b)
        ELSE [Evict(b) EXCEPT !.free = @ \union {EvictedRegister(b)}]

TakeFree(a, v) ==
    LET r == Min(a.free)
    IN  Activate([a EXCEPT !.free = @ \ {r}, !.home[v] = r, !.owner[r] = v], v, r)

\* Defect: a value used in another block reuses a register too.
CanReuseAny(v) == TRUE

CanReuse(v) == SameBlock(v)

\* allocate_register, and allocate_multi_register_value for a wide value.
AllocateRegister(a, v) ==
    LET top == IF a.scratch = <<>> THEN limit ELSE a.scratch[1]
        Fresh(b) == LET c == Bumped(b, v, Width(v))
                    IN  IF c.ok THEN Activate(c, v, c.home[v]) ELSE c
    IN  IF a.home[v] # None THEN a
        ELSE IF Width(v) > 1 THEN Fresh(a)
        ELSE IF CanReuse(v) /\ a.free # {} THEN TakeFree(a, v)
        ELSE IF a.next < top THEN Fresh(a)
        ELSE IF a.free # {} THEN TakeFree(a, v)
        ELSE LET b == SpillFurthest(a) IN IF b.ok THEN TakeFree(b, v) ELSE b

\* The lowest register above everything live, and above the scratch registers.
Floor(a) ==
    Max({0} \union {a.active[i].reg + 1 : i \in DOMAIN a.active}
        \union {r + 1 : r \in Range(a.scratch)})

WindowSize(p) == Width(points[p].def) + Room(points[p].uses, fn.wide)

\* Defect: a window over free registers leaves them on the free list.
WindowStaysFree(a, p) ==
    LET v == points[p].def
        base == Floor(a)
    IN  IF base + WindowSize(p) > limit THEN Failed(a)
        ELSE Activate([a EXCEPT !.home[v] = base, !.owner[base] = v,
                                !.next = Max({@, base + WindowSize(p)})],
                      v, base)

\* reserve_call_window: the result, then the arguments, in one block.
ReserveCallWindow(a, p) ==
    LET v == points[p].def
        Fits(b) == Floor(b) + WindowSize(p) <= limit
        upto[n \in 0 .. limit] ==
            IF n = 0 THEN a
            ELSE LET c == upto[n - 1] IN IF Fits(c) \/ ~c.ok THEN c ELSE SpillFurthest(c)
        b == upto[limit]
        base == Floor(b)
    IN  IF ~b.ok \/ ~Fits(b) THEN Failed(b)
        ELSE Activate([b EXCEPT !.home[v] = base, !.owner[base] = v,
                                !.free = @ \ (base .. base + Width(v) - 1),
                                !.next = Max({@, base + WindowSize(p)})],
                      v, base)

\* The parameters of the blocks a jump goes to get their registers at the
\* jump, which writes them; the function is refused whatever follows a failure.
AllocateAll(a, vs) ==
    LET upto[n \in 0 .. Len(vs)] ==
            IF n = 0 THEN a
            ELSE LET b == upto[n - 1] IN IF b.ok THEN AllocateRegister(b, vs[n]) ELSE b
    IN  upto[Len(vs)]

PreallocateTargets(a, p) ==
    LET to == points[p].to
        upto[n \in 0 .. Len(to)] ==
            IF n = 0 THEN a
            ELSE LET b == upto[n - 1] IN AllocateAll(b, fn.blocks[to[n].block].params)
    IN  upto[Len(to)]

\* precolor_parameters
Mapped(a, v) ==
    Activate([a EXCEPT !.home[v] = a.next, !.owner[a.next] = v, !.next = @ + Width(v)],
             v, a.next)

Precolored(a) ==
    LET upto[n \in 0 .. Len(fn.params)] ==
            IF n = 0 THEN a ELSE LET b == upto[n - 1] IN Mapped(b, fn.params[n])
    IN  upto[Len(fn.params)]

-----------------------------------------------------------------------------
(* Emission                                                                  *)

\* What an instruction leaves in its operands' place in the code: the
\* constants it reads from the pool, and those it first loads into registers.
NoDecision == [pooled |-> {}, loaded |-> <<>>]

\* get_or_add_*_constant
Pooled(pool, v) == IF v \in Range(pool) THEN pool ELSE Append(pool, v)
PoolIndex(pool, v) == Min({i \in DOMAIN pool : pool[i] = v})

\* try_emit_rk_binary: the operand that goes to the pool, if there is one.
PoolOperand(p) ==
    LET l == points[p].uses[1]
        r == points[p].uses[2]
    IN  IF points[p].op = "rk" /\ IsConst(l) /\ ~IsConst(r) THEN {l}
        ELSE IF points[p].op \in {"rk", "rkl"} /\ IsConst(r) THEN {r}
        ELSE {}

IsRk(p) == points[p].op \in {"rk", "rkl"}
InPool(p) == {v \in PoolOperand(p) : PoolIndex(Pooled(code.pool, v), v) <= PoolLimit}

\* ensure_in_register on a constant nothing loaded: a new register, from here on.
EnsureInRegister(a, p, v) ==
    IF ~a.ok \/ v \in InPool(p) \/ a.home[v] # None \/ a.slot[v] # None THEN a
    ELSE Bumped(a, v, 1)

WithOperands(a, p) ==
    IF ~IsRk(p) THEN a
    ELSE LET b == EnsureInRegister(a, p, points[p].uses[1])
         IN  EnsureInRegister(b, p, points[p].uses[2])

\* The words of a point: none for a parameter, an annotation, a constant that
\* is only read from the pool.
Words(p) ==
    IF points[p].op \in {"param", "nullify"} THEN 0
    ELSE IF SkipLoad(points[p].def) THEN 0
    ELSE 1

\* Code offsets.
PcOf(p) == code.pc[p]
PcAfter(p) == code.pc[p + 1]
Offset(b) == PcOf(First(b))
OffsetAfter(b) == PcAfter(Term(b))
CodeSize == PcAfter(Len(points))

\* fuse_compare_branch: a comparison whose result only its own branch reads is
\* folded into the branch and not written.
Fused(p) ==
    LET v == points[p].def
    IN  /\ points[p].op = "compare"
        /\ SameBlock(v)
        /\ alloc.slot[v] = None
        /\ \E q \in Points : /\ points[q].op = "branch" /\ points[q].uses = <<v>>
                             /\ PcOf(q) = PcAfter(p)

-----------------------------------------------------------------------------
(* build_cleanup_records                                                     *)

NullifyPoints(v) == {p \in Points : points[p].op = "nullify" /\ v \in Reads(p)}

\* A call that the value is passed to ends its ownership where it returns.
CallUsePc(v, b, p) ==
    Max({0} \union {PcAfter(q) : q \in {i \in InBlock(b) :
                        i < p /\ points[i].op \in Callish /\ v \in Reads(i)}})

\* record_cleanup_kill_pc, and the anchor of a Nullify.
KillPc(v, p) ==
    LET b == points[p].b
        released == {PcAfter(q) : q \in {i \in KillsIn(v, b) :
                        i < p /\ points[i].op \in Releases}}
        anchor == Max({CallUsePc(v, b, p)} \union released)
    IN  IF points[p].op # "nullify" THEN PcAfter(p)
        ELSE IF anchor # 0 THEN Min({anchor, PcOf(p)})
        ELSE PcOf(p)

KillPcs(v) == {KillPc(v, p) : p \in UNION {KillsIn(v, b) : b \in Blocks}}

ScopeStart(c) ==
    LET incs == {p \in Points : points[p].op = "inc" /\ c.value \in Reads(p)}
    IN  IF c.whole THEN 0
        ELSE IF c.borrow /\ incs # {} THEN Max({Offset(c.start), PcOf(Max(incs))})
        ELSE Offset(c.start)

\* Defect: the record runs to the end of its last block, whoever has the value.
ScopeEndOfBlock(c) ==
    IF c.before THEN Offset(c.end) ELSE OffsetAfter(c.end)

\* The end of the scope's last block, or the annotation that gives the value up:
\* the one emitted last, as one program counter is kept per value.
ScopeEnd(c) ==
    LET end == IF c.before THEN Offset(c.end) ELSE OffsetAfter(c.end)
        given == IF NullifyPoints(c.value) = {} THEN end
                 ELSE PcOf(Max(NullifyPoints(c.value)))
    IN  IF c.whole THEN CodeSize
        ELSE IF given >= Offset(c.start) /\ given < end THEN given
        ELSE end

\* Defect: a record holds from the start of its scope.
LiveFromScope(c) == ScopeStart(c)

\* Nothing is in the register before the instruction that defines the value
\* has run; a throw out of a call finds the program counter just behind it.
LiveStart(c) ==
    LET ready == {PcAfter(p) + (IF points[p].op \in Callish \union {"new"} THEN 1 ELSE 0)
                    : p \in {q \in DefinedAt(c.value) : points[q].op # "param"}}
    IN  IF c.whole THEN 0 ELSE Max({ScopeStart(c)} \union ready)

\* Defect: blocks behind the scope's normal exit are forgotten.
NoExtensions(i) == {}

\* The covered code behind the main range, each block up to its first kill.
Extensions(i) ==
    LET c == fn.cleanup[i]
    IN  {[from |-> Max({Offset(b), ScopeEnd(c)}),
          to |-> Min({OffsetAfter(b)}
                     \union {k \in KillPcs(c.value) : k \in Offset(b) .. OffsetAfter(b)})]
            : b \in cover[i]}

\* A record is made only for a value that has a register, and not if the
\* value is ready only when the scope is over.
Records ==
    [i \in DOMAIN fn.cleanup |->
        LET c == fn.cleanup[i]
            ready == LiveStart(c)
            scope == [from |-> ScopeStart(c), to |-> ScopeEnd(c)]
        IN  [value |-> c.value, kind |-> c.kind, reg |-> alloc.home[c.value],
             scope |-> scope, live |-> [scope EXCEPT !.from = ready],
             extensions |-> Extensions(i),
             made |-> /\ alloc.home[c.value] # None
                      /\ c.whole \/ ready <= scope.from \/ ready < scope.to]]

Between(pc, r) == pc >= r.from /\ pc < r.to

\* execute_cleanup's two tests.
Throwing(r, pc) ==
    r.made /\ \E e \in {r.live} \union r.extensions : Between(pc, e)

HandlerInScope(r, pc) == \E e \in {r.scope} \union r.extensions : Between(pc, e)

\* build_exception_handler_table
Guards(h, pc) ==
    \E b \in h.body : Between(pc, [from |-> Offset(b), to |-> OffsetAfter(b)])

-----------------------------------------------------------------------------
(* build_function                                                            *)

NothingOwed == [k \in Releases |-> [v \in Value |-> 0]]

Init ==
    /\ \E f \in Function : fn = f.fn /\ limit = f.limit
    /\ phase = "analysing"
    /\ points = Flatten(fn.blocks)
    /\ at = 1
    /\ cover = <<>>
    /\ skipped = {}
    /\ live = [v \in Value |-> 0]
    /\ alloc = EmptyAllocator
    /\ code = [pool |-> <<>>, point |-> [p \in Points |-> NoDecision],
               pc |-> [p \in 1 .. Len(points) + 1 |-> 0]]
    /\ records = <<>>
    /\ regs = [r \in 0 .. limit |-> {}]
    /\ stack = [s \in 0 .. Cardinality(Value) |-> {}]
    /\ owed = NothingOwed
    /\ misread = {}

\* compute_const_use_modes, compute_cleanup_coverage.
Analyse ==
    /\ phase = "analysing"
    /\ skipped' = {v \in Value : IsConst(v) /\ ~MustBeRegister(v)}
    /\ cover' = [i \in DOMAIN fn.cleanup |-> Covered(fn.cleanup[i])]
    /\ phase' = "measuring"
    /\ UNCHANGED <<fn, limit, points, at, live, emitted, frame>>

ComputeLiveness ==
    /\ phase = "measuring"
    /\ live' = LastUse
    /\ phase' = "precoloring"
    /\ UNCHANGED <<fn, limit, points, at, cover, skipped, emitted, frame>>

Precolor ==
    /\ phase = "precoloring"
    /\ alloc' = Precolored(alloc)
    /\ phase' = "allocating"
    /\ UNCHANGED <<built, at, code, records, frame>>

\* One point of the walk; at the last one, emission starts.
Allocated(a) ==
    /\ phase = "allocating"
    /\ alloc' = a
    /\ at' = IF at = Len(points) THEN 1 ELSE at + 1
    /\ phase' = IF ~a.ok THEN "refused"
                ELSE IF at = Len(points) THEN "emitting" ELSE phase
    /\ UNCHANGED <<built, code, records, frame>>

AllocateBlockParam ==
    /\ points[at].op = "param"
    /\ Allocated(AllocateRegister(ExpireBefore(alloc, at), points[at].def))

AllocateResult ==
    /\ points[at].op \notin Callish \union {"param"} /\ points[at].to = <<>>
    /\ Allocated(LET a == ExpireBefore(alloc, at)
                 IN  IF points[at].def = None \/ SkipLoad(points[at].def) THEN a
                     ELSE AllocateRegister(a, points[at].def))

AllocateCall ==
    /\ points[at].op \in Callish
    /\ Allocated(ReserveCallWindow(ExpireBefore(alloc, at), at))

AllocateTargets ==
    /\ points[at].to # <<>>
    /\ Allocated(PreallocateTargets(ExpireBefore(alloc, at), at))

\* lower_instruction: only an RK operation decides anything that is not
\* already decided.
Emit ==
    /\ phase = "emitting"
    /\ LET a == WithOperands(alloc, at)
           loads == SelectSeq(points[at].uses, LAMBDA v : a.home[v] # alloc.home[v])
       IN  /\ alloc' = a
           /\ code' =
                [pool |-> FoldLeft(Pooled, code.pool, SetToSeq(PoolOperand(at))),
                 point |-> [code.point EXCEPT ![at] =
                                [pooled |-> InPool(at), loaded |-> loads]],
                 pc |-> [code.pc EXCEPT ![at + 1] = PcOf(at) + Words(at)]]
           /\ at' = IF at = Len(points) THEN Body(1) ELSE at + 1
           /\ phase' = IF ~a.ok THEN "refused"
                       ELSE IF at = Len(points) THEN "recording" ELSE phase
    /\ UNCHANGED <<built, records, frame>>

BuildCleanupRecords ==
    /\ phase = "recording"
    /\ records' = Records
    /\ phase' = "entering"
    /\ UNCHANGED <<built, at, alloc, code, frame>>

-----------------------------------------------------------------------------
(* The run of the code                                                       *)

Machine == [regs |-> regs, stack |-> stack, misread |-> misread]

Become(m) ==
    /\ regs' = m.regs
    /\ stack' = m.stack
    /\ misread' = m.misread

\* Where an operand is read: its register, or the scratch register it is
\* reloaded into.  One-operand instructions use the second, the container
\* instructions the first for each of their operands.
ScratchOf(p, i) ==
    IF points[p].op = "index" THEN 1 ELSE IF points[p].op = "load" THEN 2 ELSE i

Source(v, s) == IF alloc.home[v] # None THEN alloc.home[v] ELSE alloc.scratch[s]

Reload(m, v, s) ==
    IF alloc.home[v] # None THEN m
    ELSE [m EXCEPT !.regs[alloc.scratch[s]] = m.stack[alloc.slot[v]]]

Holds(m, v, r) == \A q \in r .. r + Width(v) - 1 : v \in m.regs[q]

Check(m, p, v, r) == IF Holds(m, v, r) THEN m ELSE [m EXCEPT !.misread = @ \union {p}]

\* v gets a new value, in its register (or by way of a scratch register) and in
\* its slot; what else held the old one no longer does.
Place(m, v, r) ==
    [m EXCEPT
        !.regs = [q \in DOMAIN @ |->
                    IF q \in r .. r + Width(v) - 1 THEN {v} ELSE @[q] \ {v}],
        !.stack = [s \in DOMAIN @ |-> IF s = alloc.slot[v] THEN {v} ELSE @[s] \ {v}]]

Target(v) == IF alloc.home[v] # None THEN alloc.home[v] ELSE alloc.scratch[1]

\* MOV, of both registers of a wide value.
Move(m, p, v, s, to) ==
    LET n == Check(Reload(m, v, s), p, v, Source(v, s))
        from == Source(v, s)
    IN  [n EXCEPT !.regs = [q \in DOMAIN @ |->
                                IF q \in to .. to + Width(v) - 1 THEN @[from + q - to]
                                ELSE @[q]]]

\* The operands of an instruction, loaded and then read.
ReadOperands(m, p) ==
    LET uses == {i \in DOMAIN points[p].uses :
                    points[p].uses[i] \notin code.point[p].pooled}
        order == SetToSortSeq(uses, LAMBDA i, j : i < j)
        ready == FoldLeft(LAMBDA n, v : Place(n, v, alloc.home[v]), m, code.point[p].loaded)
        loaded == FoldLeft(LAMBDA n, i : Reload(n, points[p].uses[i], ScratchOf(p, i)),
                           ready, order)
    IN  FoldLeft(LAMBDA n, i : Check(n, p, points[p].uses[i],
                                     Source(points[p].uses[i], ScratchOf(p, i))),
                 loaded, order)

\* emit_call_args: the arguments, in order, behind the result.
PassArguments(m, p) ==
    LET uses == points[p].uses
        Behind(i) == FoldLeft(LAMBDA n, j : n + Width(uses[j]),
                              alloc.home[points[p].def] + Width(points[p].def),
                              [j \in 1 .. i - 1 |-> j])
    IN  FoldLeft(LAMBDA n, i : Move(n, p, uses[i], 1, Behind(i)), m,
                 [i \in DOMAIN uses |-> i])

\* What the frame owes for a value that is defined here.
Tracks(k, v) == \E c \in Range(fn.cleanup) : c.kind = k /\ c.value = v

Acquired(o, v) ==
    [k \in Releases |->
        IF k # "dec" /\ Tracks(k, v) THEN [o[k] EXCEPT ![v] = @ + 1] ELSE o[k]]

Given(o, vs) ==
    [k \in Releases |-> [v \in Value |-> IF v \in vs /\ k # "dec" THEN 0 ELSE o[k][v]]]

Counted(o, k, v, n) == [o EXCEPT ![k][v] = @ + n]

\* The instructions that write no result.
Silent == {"store", "nullify", "inc", "retain", "param"} \union Releases

Define(m, p) ==
    LET v == points[p].def
    IN  IF v = None \/ points[p].op \in Silent \/ SkipLoad(v) THEN m
        ELSE IF Fused(p) THEN m
        ELSE Place(m, v, Target(v))

Owing(p) ==
    LET v == points[p].uses[1]
        o == Given(owed, points[p].takes)
    IN  CASE points[p].op = "inc" -> Counted(o, "dec", v, 1)
          [] points[p].op = "retain" -> Counted(o, "release", v, 1)
          [] points[p].op \in Releases -> Counted(o, points[p].op, v, -1)
          [] points[p].op \notin Silent /\ points[p].def # None -> Acquired(o, points[p].def)
          [] OTHER -> o

\* The interpreter's CALL of the function: the arguments are in place.
Enter ==
    /\ phase = "entering"
    /\ LET first(i) == FoldLeft(LAMBDA n, j : n + Width(fn.params[j]), 0,
                                [j \in 1 .. i - 1 |-> j])
       IN  regs' = [r \in DOMAIN regs |->
                        {fn.params[i] : i \in {j \in DOMAIN fn.params :
                            r \in first(j) .. first(j) + Width(fn.params[j]) - 1}}]
    /\ owed' = FoldLeft(Acquired, owed, fn.params)
    /\ phase' = "running"
    /\ UNCHANGED <<built, at, emitted, stack, misread>>

Execute ==
    /\ phase = "running"
    /\ points[at].op \notin Callish \union {"throw"} /\ points[at].to = <<>>
    /\ points[at].op \notin {"return", "stop"}
    /\ Become(IF points[at].op = "nullify" THEN Machine
              ELSE Define(ReadOperands(Machine, at), at))
    /\ owed' = Owing(at)
    /\ at' = at + 1
    /\ UNCHANGED <<built, phase, emitted>>

Call ==
    /\ phase = "running"
    /\ points[at].op \in Callish
    /\ Become(Define(PassArguments(Machine, at), at))
    /\ owed' = Owing(at)
    /\ at' = at + 1
    /\ UNCHANGED <<built, phase, emitted>>

\* The callee throws: what it was given is its own, the result never comes.
CallThrows ==
    /\ phase = "running"
    /\ points[at].op = "call"
    /\ Become(PassArguments(Machine, at))
    /\ owed' = Given(owed, points[at].takes)
    /\ phase' = "unwinding"
    /\ UNCHANGED <<built, at, emitted>>

Throw ==
    /\ phase = "running"
    /\ points[at].op = "throw"
    /\ Become(ReadOperands(Machine, at))
    /\ phase' = "unwinding"
    /\ UNCHANGED <<built, at, emitted, owed>>

\* Defect: all the arguments are read before a parameter is written.
InParallel(m, t, p) ==
    LET params == fn.blocks[t.block].params
    IN  [m EXCEPT !.regs = [r \in DOMAIN @ |->
            IF \E i \in DOMAIN params : alloc.home[params[i]] = r
            THEN @[Source(t.args[CHOOSE i \in DOMAIN params : alloc.home[params[i]] = r], 1)]
            ELSE @[r]]]

\* emit_block_args: one MOV after the other.
PassBlockArguments(m, t, p) ==
    LET params == fn.blocks[t.block].params
        Pass(n, i) ==
            LET moved == IF Source(t.args[i], 1) = Target(params[i])
                         THEN Check(Reload(n, t.args[i], 1), p, t.args[i], Source(t.args[i], 1))
                         ELSE Move(n, p, t.args[i], 1, Target(params[i]))
            IN  IF alloc.slot[params[i]] = None THEN moved
                ELSE [moved EXCEPT !.stack[alloc.slot[params[i]]] =
                                       moved.regs[Target(params[i])]]
    IN  FoldLeft(Pass, m, [i \in DOMAIN params |-> i])

\* The parameters now stand for what their arguments stood for.
Renamed(held, t) ==
    LET params == fn.blocks[t.block].params
    IN  (held \ Range(params))
        \union {params[i] : i \in {j \in DOMAIN params : t.args[j] \in held}}

Handed(o, t) ==
    LET params == fn.blocks[t.block].params
        handed == [k \in Releases |-> {i \in DOMAIN params : Tracks(k, params[i])}]
    IN  [k \in Releases |-> [v \in Value |->
            IF \E i \in handed[k] : params[i] = v
            THEN o[k][t.args[CHOOSE i \in handed[k] : params[i] = v]]
            ELSE IF \E i \in handed[k] : t.args[i] = v THEN 0
            ELSE o[k][v]]]

\* A goto, or either side of a branch.
Jump(t) ==
    /\ phase = "running"
    /\ LET tested == points[at].op = "branch"
                     /\ ~\E q \in DefinedAt(points[at].uses[1]) : Fused(q)
           m == PassBlockArguments(IF tested THEN ReadOperands(Machine, at) ELSE Machine,
                                   t, at)
       IN  /\ regs' = [r \in DOMAIN m.regs |-> Renamed(m.regs[r], t)]
           /\ stack' = [s \in DOMAIN m.stack |-> Renamed(m.stack[s], t)]
           /\ misread' = m.misread
    /\ owed' = Handed(owed, t)
    /\ at' = Body(t.block)
    /\ UNCHANGED <<built, phase, emitted>>

Return ==
    /\ phase = "running"
    /\ points[at].op \in {"return", "stop"}
    /\ Become(ReadOperands(Machine, at))
    /\ owed' = Given(owed, points[at].takes)
    /\ phase' = "returned"
    /\ UNCHANGED <<built, at, emitted>>

\* execute_cleanup: each record once, a Delete whose register an earlier
\* Delete has nulled not at all.
Unwound(h) ==
    LET pc == PcAfter(at)
        fires == {i \in DOMAIN records :
                    /\ Throwing(records[i], pc)
                    /\ h = None
                       \/ ~HandlerInScope(records[i], Offset(fn.handlers[h].block))}
        fired(k, v) ==
            LET n == Cardinality({i \in fires : records[i].kind = k /\ records[i].value = v})
            IN  IF k = "delete" /\ n > 1 THEN 1 ELSE n
        wrong == {i \in fires : ~Holds(Machine, records[i].value, records[i].reg)}
        nulled == {records[i].reg : i \in {j \in fires : records[j].kind = "delete"}}
    IN  [owed |-> [k \in Releases |-> [v \in Value |-> owed[k][v] - fired(k, v)]],
         misread |-> IF wrong = {} THEN misread ELSE misread \union {at},
         regs |-> [r \in DOMAIN regs |-> IF r \in nulled THEN {} ELSE regs[r]]]

\* THROW's search: the first handler of the table that covers the counter and
\* matches; a finally matches everything.
Matches(h) ==
    /\ Guards(fn.handlers[h], PcAfter(at))
    /\ \A g \in 1 .. h - 1 : ~(fn.handlers[g].all /\ Guards(fn.handlers[g], PcAfter(at)))

Catch(h) ==
    /\ phase = "unwinding"
    /\ Matches(h)
    /\ LET b == fn.handlers[h].block
           u == Unwound(h)
           caught == fn.blocks[b].params
       IN  /\ regs' = IF caught = <<>> THEN u.regs
                      ELSE [u.regs EXCEPT ![Target(caught[1])] = {caught[1]}]
           /\ misread' = u.misread
           /\ owed' = FoldLeft(Acquired, u.owed, caught)
           /\ at' = Body(b)
    /\ phase' = "running"
    /\ UNCHANGED <<built, emitted, stack>>

Leave ==
    /\ phase = "unwinding"
    /\ \A h \in DOMAIN fn.handlers :
           ~(fn.handlers[h].all /\ Guards(fn.handlers[h], PcAfter(at)))
    /\ LET u == Unwound(None)
       IN  regs' = u.regs /\ misread' = u.misread /\ owed' = u.owed
    /\ phase' = "thrown"
    /\ UNCHANGED <<built, at, emitted, stack>>

Next ==
    \/ Analyse \/ ComputeLiveness \/ Precolor
    \/ AllocateBlockParam \/ AllocateResult \/ AllocateCall \/ AllocateTargets
    \/ Emit \/ BuildCleanupRecords \/ Enter
    \/ Execute \/ Call \/ CallThrows \/ Throw \/ Return \/ Leave
    \/ \E i \in DOMAIN points[at].to : Jump(points[at].to[i])
    \/ \E h \in DOMAIN fn.handlers : Catch(h)

Spec == Init /\ [][Next]_vars

-----------------------------------------------------------------------------
(* Properties                                                                *)

TypeOK ==
    /\ phase \in {"analysing", "measuring", "precoloring", "allocating", "emitting",
                  "recording", "entering", "refused", "running", "unwinding",
                  "returned", "thrown"}
    /\ at \in Points
    /\ live \in [Value -> Nat]
    /\ alloc.home \in [Value -> 0 .. limit - 1 \union {None}]
    /\ alloc.next \in 0 .. limit
    /\ alloc.free \subseteq 0 .. limit - 1
    /\ regs \in [0 .. limit -> SUBSET Value]
    /\ misread \subseteq Points

\* The values that have a register, and which ones.
Held == {v \in Value : alloc.home[v] # None}
Registers(v) == alloc.home[v] .. alloc.home[v] + Width(v) - 1
StillNeeded == {v \in Held : live[v] >= at - 1}

\* The point from which a value is in place: the first jump that passes it, or
\* the point that computes it.
Appears(v) ==
    IF v \in Range(fn.params) THEN 0
    ELSE Min(DefinedAt(v) \union
             {p \in Points : \E t \in Range(points[p].to) : v \in Range(fn.blocks[t.block].params)})

\* Every instruction, jump and cleanup record reads, from the register or the
\* slot it names, the present value of the SSA value it stands for: over every
\* path through the code, around every loop, with values spilled, with call
\* windows over dead registers, and in a handler.
OperandsHold == misread = {}

\* Nobody releases what the frame has already released or given away: not the
\* code, not the unwinder, not the one after the other (and every variable keeps
\* its shape).
NothingReleasedTwice ==
    /\ TypeOK
    /\ \A k \in Releases, v \in Value : owed[k][v] >= 0

\* However the frame is left, what it owned has been released or given away.
NothingLeaks ==
    phase \in {"returned", "thrown"} => \A k \in Releases, v \in Value : owed[k][v] <= 0

\* No two values that are both needed have a register in common: at each point
\* of the walk that gives the registers out, of the values needed there or later,
\* none of which is on the free list or reserved for reloads either; and, as long
\* as nothing had to be spilled, in the function as emitted, wherever two values
\* are in place at the same point.  All registers lie below the frame's top.  A
\* function that is refused has no code.
Apart(S) == \A v, w \in S : v # w => Registers(v) \cap Registers(w) = {}

NothingOverlaps ==
    alloc.scratch = <<>> =>
        \A v, w \in Held :
           Appears(v) <= live[w] /\ Appears(w) <= live[v] => Apart({v, w})

LiveRegistersAreApart ==
    phase # "refused" =>
        /\ alloc.next <= limit
        /\ \A v \in Held : Registers(v) \subseteq 0 .. alloc.next - 1
        /\ phase = "allocating" =>
               /\ Apart(StillNeeded)
               /\ \A v \in StillNeeded :
                      Registers(v) \cap (alloc.free \union Range(alloc.scratch)) = {}
        /\ NothingOverlaps

=============================================================================
