-------------------------- MODULE InterpreterProofs --------------------------
(***************************************************************************)
(* Proofs about Interpreter: for any compiled module, any sizes of the     *)
(* stacks and any number of calls, the frames tile the register file and   *)
(* the local stack, and the interpreters under way, one called from the    *)
(* destructors of another, share the call stack out among them.  At the    *)
(* end, what no free takes: an exception on its way, what a borrow counts. *)
(***************************************************************************)
EXTENDS Interpreter, SequenceTheorems, LoopLemmas

\* What the theorems assume of every step.  The unwinder looks for a handler in every frame, also
\* below those of its own interpreter; the destructors of a module must not throw out of
\* themselves while nothing is unwound.  Nor does call_cleanup_destructor look at the end of the
\* local stack, so their locals must fit.
Contained ==
    /\ Leave => Top.stop = 0 \/ depth - 1 > Top.stop
    /\ Destroy => local_top' <= LocalStack

-----------------------------------------------------------------------------
(* The stacks of the VM.                                                   *)

Fns == DOMAIN Programs[program]

IsFrame(x) == x = [fn |-> x.fn, pc |-> x.pc, base |-> x.base, local |-> x.local, ret |-> x.ret]

\* Frames within the stacks, each behind all those below it, also after an error.
StackInv ==
    /\ program \in DOMAIN Programs
    /\ depth \in 0 .. MaxDepth /\ register_top \in 0 .. RegisterFile /\ local_top \in 0 .. LocalStack
    /\ frames = [k \in 1 .. MaxDepth |-> frames[k]]
    /\ \A k \in 1 .. MaxDepth : IsFrame(frames[k])
    /\ \A k \in 1 .. depth :
          /\ frames[k].fn \in Fns /\ frames[k].base \in Nat /\ frames[k].local \in Nat
          /\ WindowEnd(k) <= register_top
    /\ \A j, k \in 1 .. depth : j < k => WindowEnd(j) <= frames[k].base

\* The frames tile, from the bottom of both stacks.
TileInv == FramesTile /\ (error = None /\ depth # 0 => frames[1].base = 0 /\ frames[1].local = 0)

\* A step that leaves the stacks alone but for the program counters that are saved.
StacksSame ==
    /\ UNCHANGED <<program, depth, register_top, local_top>>
    /\ frames' = [k \in 1 .. MaxDepth |-> frames'[k]]
    /\ \A k \in 1 .. MaxDepth :
          /\ IsFrame(frames'[k]) /\ frames'[k].fn = frames[k].fn
          /\ frames'[k].base = frames[k].base /\ frames'[k].local = frames[k].local

\* What ProgramsAssumption says of the module that runs.
LEMMA FnTypes ==
    ASSUME StackInv, NEW f \in Fns
    PROVE  /\ Fn(f).registers \in Nat /\ Fn(f).locals \in Nat /\ Len(Fn(f).records) \in Nat
           /\ \A q \in DOMAIN Fn(f).code :
                 /\ Fn(f).code[q].op = "call" => Fn(f).code[q].fn \in Fns
                 /\ Fn(f).code[q].op = "delete" => Fn(f).code[q].desc \in DOMAIN Fn(f).descs
           /\ \A i \in 1 .. Len(Fn(f).records) :
                 Fn(f).records[i].kind = "Delete" => Fn(f).records[i].desc \in DOMAIN Fn(f).descs
           /\ \A d \in DOMAIN Fn(f).descs :
                 /\ Fn(f).descs[d].cleanup = "dtor" => Fn(f).descs[d].fn \in Fns
                 /\ Fn(f).descs[d].elem # None => Fn(f).descs[d].elem \in DOMAIN Fn(f).descs
BY ProgramsAssumption DEF StackInv, Fns, Fn

\* The stacks stay in order when nothing of them changes but saved program counters.
LEMMA SameStacks ==
    ASSUME StackInv, StacksSame
    PROVE  /\ StackInv'
           /\ TileInv /\ (error' = None => error = None) => TileInv'
<1>1. /\ Fns' = Fns /\ \A f : Fn(f)' = Fn(f)
      /\ depth' = depth /\ register_top' = register_top /\ local_top' = local_top
    BY DEF StacksSame, Fns, Fn
<1>2. depth \in Nat /\ depth <= MaxDepth /\ MaxDepth \in Nat
    BY SizesAssumption DEF StackInv
<1>3. \A k \in 1 .. depth : WindowEnd(k)' = WindowEnd(k) /\ LocalsEnd(k)' = LocalsEnd(k) /\ Behind(k)' = Behind(k)
    BY <1>1, <1>2 DEF StacksSame, WindowEnd, LocalsEnd, Behind
<1>4. StackInv'
    <2>1. \A k \in 1 .. depth : k \in 1 .. MaxDepth
        BY <1>2
    <2>2. \A k \in 1 .. depth :
             /\ frames'[k].fn \in Fns' /\ frames'[k].base \in Nat /\ frames'[k].local \in Nat
             /\ WindowEnd(k)' <= register_top'
        BY <1>1, <1>3, <2>1 DEF StackInv, StacksSame
    <2>3. \A j, k \in 1 .. depth : j < k => WindowEnd(j)' <= frames'[k].base
        BY <1>3, <2>1 DEF StackInv, StacksSame
    <2>4. /\ program' \in DOMAIN Programs
          /\ depth' \in 0 .. MaxDepth /\ register_top' \in 0 .. RegisterFile /\ local_top' \in 0 .. LocalStack
        BY DEF StackInv, StacksSame
    <2> QED
        BY <1>1, <2>2, <2>3, <2>4 DEF StackInv, StacksSame
<1>5. ASSUME TileInv, error' = None => error = None
      PROVE  TileInv'
    <2>1. FramesTile'
        <3> SUFFICES ASSUME error' = None
                     PROVE  FramesTile'
            BY DEF FramesTile
        <3>1. /\ \A k \in 2 .. depth : frames[k].base = WindowEnd(k - 1) /\ frames[k].local \in Behind(k - 1)
              /\ register_top = IF depth = 0 THEN 0 ELSE WindowEnd(depth)
              /\ local_top \in IF depth = 0 THEN {0} ELSE Behind(depth)
            BY <1>5 DEF TileInv, FramesTile
        <3>2. ASSUME NEW k \in 2 .. depth
              PROVE  frames'[k].base = WindowEnd(k - 1)' /\ frames'[k].local \in Behind(k - 1)'
            <4>1. k \in 1 .. MaxDepth /\ k - 1 \in 1 .. depth
                BY <1>2
            <4> QED
                BY <1>3, <3>1, <4>1 DEF StacksSame
        <3>3. depth # 0 => depth \in 1 .. depth
            BY <1>2
        <3> QED
            BY <1>1, <1>3, <3>1, <3>2, <3>3 DEF FramesTile
    <2>2. 1 \in 1 .. MaxDepth
        BY SizesAssumption
    <2> QED
        BY <1>1, <1>5, <2>1, <2>2 DEF TileInv, StacksSame
<1> QED
    BY <1>4, <1>5

\* Saving the program counter of a frame.
LEMMA SavedPcSame ==
    ASSUME StackInv, NEW n \in 1 .. MaxDepth, NEW pc,
           frames' = [frames EXCEPT ![n].pc = pc],
           UNCHANGED <<program, depth, register_top, local_top>>
    PROVE  StacksSame
<1> DEFINE saved == [frames[n] EXCEPT !.pc = pc]
<1>1. IsFrame(saved) /\ saved.fn = frames[n].fn /\ saved.base = frames[n].base /\ saved.local = frames[n].local
    BY DEF StackInv, IsFrame
<1>2. frames' = [k \in 1 .. MaxDepth |-> IF k = n THEN saved ELSE frames[k]]
    BY DEF StackInv
<1> HIDE DEF saved
<1> QED
    BY <1>1, <1>2 DEF StackInv, StacksSame

\* As nothing of the stacks changes, they stay.
LEMMA StacksStay ==
    ASSUME StackInv, UNCHANGED <<program, stacks>>
    PROVE  StacksSame
BY DEF StackInv, StacksSame, stacks

-----------------------------------------------------------------------------
(* The C++ stack.                                                          *)

\* A sequence, of whatever.
IsStack(s) == s \in Seq({s[k] : k \in 1 .. Len(s)})

\* A stack is numbered from one.
LEMMA StackShape ==
    ASSUME NEW s, IsStack(s)
    PROVE  Len(s) \in Nat /\ DOMAIN s = 1 .. Len(s) /\ (s # <<>> <=> Len(s) # 0)
<1> DEFINE S == {s[k] : k \in 1 .. Len(s)}
<1>1. s \in Seq(S)
    BY DEF IsStack
<1> HIDE DEF S
<1> QED
    BY <1>1, EmptySeq, LenProperties

\* What makes a sequence a stack.
LEMMA StackOf ==
    ASSUME NEW n \in Nat, NEW F, NEW s, s = [k \in 1 .. n |-> F[k]]
    PROVE  IsStack(s) /\ Len(s) = n
<1> DEFINE S == {F[k] : k \in 1 .. n}
<1>1. s \in [1 .. n -> S]
    OBVIOUS
<1>2. s \in Seq(S) /\ Len(s) = n
    <2> HIDE DEF S
    <2> QED
        BY <1>1
<1>3. S = {s[k] : k \in 1 .. Len(s)}
    BY <1>2
<1> QED
    BY <1>2, <1>3 DEF IsStack

\* A step of a stack: its top is replaced, or taken off, or something is put on it.
LEMMA Replaced ==
    ASSUME NEW s, IsStack(s), s # <<>>, NEW item, NEW t,
           t = [k \in 1 .. Len(s) |-> IF k = Len(s) THEN item ELSE s[k]]
    PROVE  /\ IsStack(t) /\ Len(t) = Len(s) /\ t[Len(s)] = item
           /\ \A k \in 1 .. Len(s) - 1 : t[k] = s[k]
<1> DEFINE n == Len(s)
           F == [k \in 1 .. n |-> IF k = n THEN item ELSE s[k]]
<1>1. n \in Nat \ {0} /\ t = F
    BY StackShape
<1>2. F = [k \in 1 .. n |-> F[k]] /\ F[n] = item /\ \A k \in 1 .. n - 1 : F[k] = s[k]
    BY <1>1
<1> HIDE DEF F
<1>3. IsStack(F) /\ Len(F) = n
    <2> HIDE DEF n
    <2> QED
        BY <1>1, <1>2, StackOf
<1> QED
    BY <1>1, <1>2, <1>3

\* Its top is taken off.
LEMMA TakenOff ==
    ASSUME NEW s, IsStack(s), s # <<>>
    PROVE  /\ IsStack(SubSeq(s, 1, Len(s) - 1)) /\ Len(SubSeq(s, 1, Len(s) - 1)) = Len(s) - 1
           /\ \A k \in 1 .. Len(s) - 1 : SubSeq(s, 1, Len(s) - 1)[k] = s[k]
<1> DEFINE n == Len(s)
           S == {s[k] : k \in 1 .. Len(s)}
           t == SubSeq(s, 1, n - 1)
<1>1. n \in Nat \ {0}
    BY StackShape
<1>2. s \in Seq(S)
    BY DEF IsStack
<1>6. \A k \in 1 .. n : s[k] \in S
    OBVIOUS
<1> HIDE DEF S, n
<1>3. t \in Seq(S) /\ Len(t) = n - 1 /\ \A k \in 1 .. n - 1 : t[k] = s[k]
    <2>1. \A k \in 1 .. n - 1 : s[k] \in S
        BY <1>1, <1>6
    <2>2. 1 \in Int /\ n - 1 \in Int /\ (1 <= n - 1 \/ n - 1 = 0)
        BY <1>1
    <2>3. /\ t \in Seq(S) /\ Len(t) = IF 1 <= n - 1 THEN n - 1 - 1 + 1 ELSE 0
          /\ \A k \in 1 .. n - 1 - 1 + 1 : t[k] = s[1 + k - 1]
        BY <2>1, <2>2, SubSeqProperties
    <2> QED
        BY <1>1, <2>3
<1> HIDE DEF t
<1>4. t = [k \in 1 .. n - 1 |-> t[k]] /\ n - 1 \in Nat
    BY <1>1, <1>3
<1>5. IsStack(t)
    BY <1>4, StackOf
<1> QED
    BY <1>3, <1>5 DEF t, n

\* Something is put on it.
LEMMA PutOn ==
    ASSUME NEW s, IsStack(s), NEW item
    PROVE  /\ IsStack(Append(s, item)) /\ Len(Append(s, item)) = Len(s) + 1
           /\ Append(s, item)[Len(s) + 1] = item
           /\ \A k \in 1 .. Len(s) : Append(s, item)[k] = s[k]
<1> DEFINE n == Len(s)
           S == {s[k] : k \in 1 .. Len(s)} \cup {item}
           t == Append(s, item)
<1>1. n \in Nat
    BY StackShape
<1>2. s \in Seq(S) /\ item \in S
    <2>1. s \in Seq({s[k] : k \in 1 .. Len(s)})
        BY DEF IsStack
    <2> QED
        BY <2>1
<1> HIDE DEF S
<1>3. t \in Seq(S) /\ Len(t) = n + 1 /\ t[n + 1] = item /\ \A k \in 1 .. n : t[k] = s[k]
    BY <1>1, <1>2, AppendProperties
<1> HIDE DEF t
<1>4. t = [k \in 1 .. n + 1 |-> t[k]] /\ n + 1 \in Nat
    BY <1>1, <1>3
<1>5. IsStack(t)
    <2> HIDE DEF n
    <2> QED
        BY <1>4, StackOf
<1> QED
    BY <1>3, <1>5 DEF t

\* What the three do to the C++ stack.
Became(item) ==
    /\ Len(native) \in Nat \ {0} /\ IsStack(native') /\ Len(native') = Len(native)
    /\ native'[Len(native)] = item
    /\ \A k \in 1 .. Len(native) - 1 : native'[k] = native[k]

Called(item, callee) ==
    /\ Len(native) \in Nat \ {0} /\ IsStack(native') /\ Len(native') = Len(native) + 1
    /\ native'[Len(native)] = item /\ native'[Len(native) + 1] = callee
    /\ \A k \in 1 .. Len(native) - 1 : native'[k] = native[k]

Returned ==
    /\ Len(native) \in Nat \ {0} /\ IsStack(native') /\ Len(native') = Len(native) - 1
    /\ \A k \in 1 .. Len(native) - 1 : native'[k] = native[k]

\* The three things a step does to the C++ stack.
LEMMA NativeSteps ==
    ASSUME IsStack(native), native # <<>>
    PROVE  /\ \A item : native' = Becoming(item) => Became(item)
           /\ \A item, callee : native' = Calling(item, callee) => Called(item, callee)
           /\ native' = Return => Returned
<1>1. Len(native) \in Nat \ {0}
    BY StackShape
<1>2. ASSUME NEW item
      PROVE  /\ IsStack(Becoming(item)) /\ Len(Becoming(item)) = Len(native)
             /\ Becoming(item)[Len(native)] = item
             /\ \A k \in 1 .. Len(native) - 1 : Becoming(item)[k] = native[k]
    <2> DEFINE u == Becoming(item)
    <2>1. u = [k \in 1 .. Len(native) |-> IF k = Len(native) THEN item ELSE native[k]]
        BY StackShape DEF Becoming
    <2> HIDE DEF u
    <2>2. /\ IsStack(u) /\ Len(u) = Len(native) /\ u[Len(native)] = item
          /\ \A k \in 1 .. Len(native) - 1 : u[k] = native[k]
        BY <2>1, Replaced
    <2> QED
        BY <2>2 DEF u
<1>3. ASSUME NEW item, NEW callee, native' = Calling(item, callee)
      PROVE  Called(item, callee)
    <2> DEFINE u == Becoming(item)
    <2>1. native' = Append(u, callee)
        BY <1>3 DEF Calling
    <2>2. IsStack(u) /\ Len(u) = Len(native) /\ u[Len(native)] = item
          /\ \A k \in 1 .. Len(native) - 1 : u[k] = native[k]
        BY <1>2
    <2> HIDE DEF u
    <2>3. /\ IsStack(Append(u, callee)) /\ Len(Append(u, callee)) = Len(u) + 1
          /\ Append(u, callee)[Len(u) + 1] = callee
          /\ \A k \in 1 .. Len(u) : Append(u, callee)[k] = u[k]
        BY <2>2, PutOn
    <2> QED
        BY <1>1, <2>1, <2>2, <2>3 DEF Called
<1>4. native' = Return => Returned
    <2>1. Return = SubSeq(native, 1, Len(native) - 1)
        BY DEF Return
    <2> QED
        BY <1>1, <2>1, TakenOff DEF Returned
<1>5. \A item : native' = Becoming(item) => Became(item)
    BY <1>1, <1>2 DEF Became
<1> QED
    BY <1>3, <1>4, <1>5

-----------------------------------------------------------------------------
(* What a step does to the stacks of the VM.                               *)

\* Aligning goes up, by less than a slot of four, and stays when repeated.
LEMMA Aligned ==
    ASSUME NEW n \in Nat
    PROVE  Align(n) \in Nat /\ n <= Align(n) /\ Align(Align(n)) = Align(n) /\ Align(0) = 0
<1>1. (n + 3) \div 4 \in Nat /\ ((n + 3) \div 4) * 4 <= n + 3 /\ n + 3 < ((n + 3) \div 4) * 4 + 4
    OBVIOUS
<1>2. \A q \in Nat : (q * 4 + 3) \div 4 = q
    OBVIOUS
<1>3. ((((n + 3) \div 4) * 4 + 3) \div 4) * 4 = ((n + 3) \div 4) * 4
    BY <1>1, <1>2
<1> QED
    BY <1>1, <1>3 DEF Align

\* A frame in order ends behind where it begins.
LEMMA FrameShape ==
    ASSUME StackInv, NEW k \in 1 .. depth
    PROVE  /\ k \in 1 .. MaxDepth /\ Fn(frames[k].fn).registers \in Nat /\ Fn(frames[k].fn).locals \in Nat
           /\ frames[k].base \in Nat /\ frames[k].base <= WindowEnd(k) /\ WindowEnd(k) \in Nat
           /\ LocalsEnd(k) \in Nat /\ frames[k].local <= LocalsEnd(k)
           /\ \A n \in Behind(k) : n \in Nat /\ LocalsEnd(k) <= n
<1>1. k \in 1 .. MaxDepth
    BY SizesAssumption DEF StackInv
<1>2. /\ frames[k].fn \in Fns /\ frames[k].base \in Nat /\ frames[k].local \in Nat
    BY DEF StackInv
<1>3. Fn(frames[k].fn).registers \in Nat /\ Fn(frames[k].fn).locals \in Nat
    BY <1>2, FnTypes
<1>4. LocalsEnd(k) \in Nat /\ frames[k].local <= LocalsEnd(k)
    BY <1>2, <1>3 DEF LocalsEnd
<1>5. \A n \in Behind(k) : n \in Nat /\ LocalsEnd(k) <= n
    BY <1>4, Aligned DEF Behind
<1> QED
    BY <1>1, <1>2, <1>3, <1>4, <1>5 DEF WindowEnd

\* The frames below are as they were, but for the program counters that are saved.
FramesSame(n) ==
    /\ program' = program
    /\ frames' = [k \in 1 .. MaxDepth |-> frames'[k]]
    /\ \A k \in 1 .. MaxDepth : IsFrame(frames'[k])
    /\ \A k \in 1 .. n :
          /\ frames'[k].fn = frames[k].fn /\ frames'[k].base = frames[k].base
          /\ frames'[k].local = frames[k].local

\* Frames that stay keep their windows and their locals.
LEMMA SameFrames ==
    ASSUME StackInv, NEW n \in 0 .. depth, FramesSame(n)
    PROVE  /\ Fns' = Fns /\ \A f : Fn(f)' = Fn(f)
           /\ \A k \in 1 .. n :
                 /\ WindowEnd(k)' = WindowEnd(k) /\ LocalsEnd(k)' = LocalsEnd(k)
                 /\ Behind(k)' = Behind(k)
BY DEF FramesSame, Fns, Fn, WindowEnd, LocalsEnd, Behind

\* Errors may leave registers and locals that no frame has.
LEMMA GrowTops ==
    ASSUME StackInv, FramesSame(depth), depth' = depth,
           register_top' \in register_top .. RegisterFile, local_top' \in 0 .. LocalStack
    PROVE  StackInv'
<1>1. depth \in 0 .. depth /\ \A k \in 1 .. depth : k \in 1 .. MaxDepth
    BY SizesAssumption DEF StackInv
<1>2. Fns' = Fns /\ \A k \in 1 .. depth : WindowEnd(k)' = WindowEnd(k)
    BY <1>1, SameFrames
<1>3. register_top \in Nat /\ RegisterFile \in Nat /\ \A k \in 1 .. depth : WindowEnd(k) \in Nat /\ WindowEnd(k) <= register_top
    <2>1. \A k \in 1 .. depth : WindowEnd(k) \in Nat
        BY FrameShape
    <2>2. \A k \in 1 .. depth : WindowEnd(k) <= register_top
        BY DEF StackInv
    <2>3. register_top \in Nat /\ RegisterFile \in Nat
        BY SizesAssumption DEF StackInv
    <2> QED
        BY <2>1, <2>2, <2>3
<1>4. \A k \in 1 .. depth :
         /\ frames'[k].fn \in Fns' /\ frames'[k].base \in Nat /\ frames'[k].local \in Nat
         /\ WindowEnd(k)' <= register_top'
    <2> SUFFICES ASSUME NEW k \in 1 .. depth
                 PROVE  /\ frames'[k].fn \in Fns' /\ frames'[k].base \in Nat /\ frames'[k].local \in Nat
                        /\ WindowEnd(k)' <= register_top'
        OBVIOUS
    <2>1. /\ frames'[k].fn \in Fns' /\ frames'[k].base \in Nat /\ frames'[k].local \in Nat
        BY <1>2 DEF StackInv, FramesSame
    <2> QED
        BY <1>2, <1>3, <2>1
<1>5. \A j, k \in 1 .. depth : j < k => WindowEnd(j)' <= frames'[k].base
    BY <1>2 DEF StackInv, FramesSame
<1>6. /\ program' \in DOMAIN Programs
      /\ depth' \in 0 .. MaxDepth /\ register_top' \in 0 .. RegisterFile /\ local_top' \in 0 .. LocalStack
    BY SizesAssumption DEF StackInv, FramesSame
<1> QED
    BY <1>4, <1>5, <1>6 DEF StackInv, FramesSame

\* A frame is put on top.
LEMMA PushStacks ==
    ASSUME StackInv, TileInv, error = None, FramesSame(depth), NEW f \in Fns, NEW local,
           depth < MaxDepth, depth' = depth + 1, local \in {local_top, Align(local_top)},
           register_top + Fn(f).registers <= RegisterFile, register_top' = register_top + Fn(f).registers,
           local + Fn(f).locals <= LocalStack, local_top' = local + Fn(f).locals,
           frames'[depth + 1].fn = f, frames'[depth + 1].base = register_top,
           frames'[depth + 1].local = local
    PROVE  StackInv' /\ TileInv'
<1>0. PICK d : d = depth + 1
    OBVIOUS
<1>1. /\ d = depth + 1 /\ depth \in Nat /\ d \in Nat /\ depth \in 0 .. depth /\ register_top \in Nat /\ local_top \in Nat
      /\ depth <= MaxDepth /\ d <= MaxDepth /\ MaxDepth \in Nat /\ RegisterFile \in Nat /\ LocalStack \in Nat
      /\ \A k \in 1 .. depth : k \in 1 .. MaxDepth
    BY <1>0, SizesAssumption DEF StackInv
<1>2. Fns' = Fns /\ Fn(f)' = Fn(f) /\ Fn(f).registers \in Nat /\ Fn(f).locals \in Nat
    BY <1>1, SameFrames, FnTypes
<1>3. \A k \in 1 .. depth : WindowEnd(k)' = WindowEnd(k) /\ LocalsEnd(k)' = LocalsEnd(k) /\ Behind(k)' = Behind(k)
    BY <1>1, SameFrames
<1>4. local \in Nat
    BY <1>1, Aligned
<1>5. WindowEnd(d)' = register_top' /\ LocalsEnd(d)' = local_top' /\ local_top' \in Behind(d)'
    BY <1>0, <1>2 DEF WindowEnd, LocalsEnd, Behind
<1>6. \A k \in 1 .. depth : WindowEnd(k) \in Nat /\ WindowEnd(k) <= register_top
    BY FrameShape DEF StackInv
<1>7. StackInv'
    <2>1. \A k \in 1 .. d :
             /\ frames'[k].fn \in Fns' /\ frames'[k].base \in Nat /\ frames'[k].local \in Nat
             /\ WindowEnd(k)' <= register_top'
        <3> SUFFICES ASSUME NEW k \in 1 .. d
                     PROVE  /\ frames'[k].fn \in Fns' /\ frames'[k].base \in Nat /\ frames'[k].local \in Nat
                            /\ WindowEnd(k)' <= register_top'
            OBVIOUS
        <3>1. CASE k = d
            BY <1>0, <1>1, <1>2, <1>4, <1>5, <3>1
        <3>2. CASE k # d
            <4>1. k \in 1 .. depth
                BY <1>1, <3>2
            <4>2. /\ frames'[k].fn \in Fns' /\ frames'[k].base \in Nat /\ frames'[k].local \in Nat
                BY <1>2, <4>1 DEF StackInv, FramesSame
            <4> QED
                BY <1>1, <1>2, <1>3, <1>6, <4>1, <4>2
        <3> QED
            BY <3>1, <3>2
    <2>2. \A j, k \in 1 .. d : j < k => WindowEnd(j)' <= frames'[k].base
        <3> SUFFICES ASSUME NEW j \in 1 .. d, NEW k \in 1 .. d, j < k
                     PROVE  WindowEnd(j)' <= frames'[k].base
            OBVIOUS
        <3>1. j \in 1 .. depth /\ (k = d \/ k \in 1 .. depth)
            BY <1>1
        <3>2. WindowEnd(j)' = WindowEnd(j) /\ WindowEnd(j) <= register_top
            BY <1>3, <1>6, <3>1
        <3>3. k \in 1 .. depth => WindowEnd(j) <= frames'[k].base
            BY <3>1 DEF StackInv, FramesSame
        <3> QED
            BY <1>1, <3>1, <3>2, <3>3
    <2>3. /\ program' \in DOMAIN Programs
          /\ depth' \in 0 .. MaxDepth /\ register_top' \in 0 .. RegisterFile /\ local_top' \in 0 .. LocalStack
        BY <1>1, <1>2, <1>4 DEF StackInv, FramesSame
    <2> QED
        BY <1>1, <2>1, <2>2, <2>3 DEF StackInv, FramesSame
<1>8. TileInv'
    <2>1. /\ \A k \in 2 .. depth : frames[k].base = WindowEnd(k - 1) /\ frames[k].local \in Behind(k - 1)
          /\ register_top = IF depth = 0 THEN 0 ELSE WindowEnd(depth)
          /\ local_top \in IF depth = 0 THEN {0} ELSE Behind(depth)
          /\ depth # 0 => frames[1].base = 0 /\ frames[1].local = 0
        BY DEF TileInv, FramesTile
    <2>2. ASSUME NEW k \in 2 .. d
          PROVE  frames'[k].base = WindowEnd(k - 1)' /\ frames'[k].local \in Behind(k - 1)'
        <3>1. k - 1 \in 1 .. depth /\ (k = d \/ k \in 2 .. depth)
            BY <1>1
        <3>2. CASE k = d
            <4>1. depth # 0 /\ depth \in 1 .. depth /\ k - 1 = depth
                BY <1>1, <3>1, <3>2
            <4>2. local_top \in Behind(depth) /\ Align(local_top) \in Behind(depth)
                <5>1. local_top \in {LocalsEnd(depth), Align(LocalsEnd(depth))} /\ LocalsEnd(depth) \in Nat
                    BY <2>1, <4>1, FrameShape DEF Behind
                <5> QED
                    BY <5>1, Aligned DEF Behind
            <4> QED
                BY <1>3, <2>1, <3>2, <4>1, <4>2
        <3>3. CASE k \in 2 .. depth
            <4>1. k \in 1 .. depth
                BY <3>3
            <4>2. frames'[k].base = frames[k].base /\ frames'[k].local = frames[k].local
                BY <4>1 DEF FramesSame
            <4> QED
                BY <1>3, <2>1, <3>1, <3>3, <4>2
        <3> QED
            BY <3>1, <3>2, <3>3
    <2>3. frames'[1].base = 0 /\ frames'[1].local = 0
        <3>1. CASE depth = 0
            <4>1. register_top = 0 /\ local_top = 0 /\ Align(0) = 0
                BY <2>1, <3>1, Aligned
            <4> QED
                BY <3>1, <4>1
        <3>2. CASE depth # 0
            <4>1. 1 \in 1 .. depth
                BY <1>1, <3>2
            <4> QED
                BY <2>1, <3>2, <4>1 DEF FramesSame
        <3> QED
            BY <3>1, <3>2
    <2>4. d # 0 /\ depth' = d
        BY <1>0, <1>1
    <2>5. FramesTile'
        <3>1. /\ \A k \in 2 .. depth' : frames'[k].base = WindowEnd(k - 1)' /\ frames'[k].local \in Behind(k - 1)'
              /\ depth' # 0 /\ register_top' = WindowEnd(depth)' /\ local_top' \in Behind(depth)'
            BY <1>5, <2>2, <2>4
        <3> QED
            BY <3>1 DEF FramesTile
    <2> QED
        BY <2>3, <2>5 DEF TileInv
<1> QED
    BY <1>7, <1>8

\* The frame on top is taken off.
LEMMA PopStacks ==
    ASSUME StackInv, TileInv, error = None, depth # 0, UNCHANGED <<program, frames>>,
           depth' = depth - 1, register_top' = register_top - Fn(frames[depth].fn).registers,
           local_top' = frames[depth].local
    PROVE  /\ StackInv' /\ TileInv' /\ depth - 1 \in Nat
           /\ depth' = 0 => register_top' = 0 /\ local_top' = 0
<1>0. PICK d : d = depth - 1
    OBVIOUS
<1>1. /\ d = depth - 1 /\ depth \in Nat /\ d \in Nat /\ depth \in 1 .. depth /\ d \in 0 .. depth /\ d <= MaxDepth /\ d < depth
      /\ register_top \in Nat /\ local_top \in Nat /\ register_top <= RegisterFile /\ local_top <= LocalStack
      /\ MaxDepth \in Nat /\ RegisterFile \in Nat /\ LocalStack \in Nat
      /\ \A k \in 1 .. d : k \in 1 .. depth /\ k < depth
    BY <1>0, SizesAssumption DEF StackInv
<1>2. FramesSame(d)
    BY DEF StackInv, FramesSame
<1>3. Fns' = Fns /\ \A k \in 1 .. d : WindowEnd(k)' = WindowEnd(k) /\ Behind(k)' = Behind(k)
    BY <1>1, <1>2, SameFrames
<1>4. /\ \A k \in 2 .. depth : frames[k].base = WindowEnd(k - 1) /\ frames[k].local \in Behind(k - 1)
      /\ register_top = WindowEnd(depth) /\ local_top \in Behind(depth)
      /\ frames[1].base = 0 /\ frames[1].local = 0
    BY DEF TileInv, FramesTile
<1>5. register_top' = frames[depth].base /\ frames[depth].base \in Nat /\ frames[depth].base <= register_top
    <2>1. frames[depth].base \in Nat /\ Fn(frames[depth].fn).registers \in Nat
        BY <1>1, FrameShape
    <2> QED
        BY <1>4, <2>1 DEF WindowEnd
<1>6. local_top' \in Nat /\ local_top' <= local_top
    <2>1. frames[depth].local <= LocalsEnd(depth) /\ LocalsEnd(depth) <= local_top /\ LocalsEnd(depth) \in Nat
        BY <1>1, <1>4, FrameShape
    <2>2. frames[depth].local \in Nat
        BY <1>1 DEF StackInv
    <2> QED
        BY <1>1, <2>1, <2>2
<1>7. StackInv'
    <2>1. \A k \in 1 .. d :
             /\ frames[k].fn \in Fns' /\ frames[k].base \in Nat /\ frames[k].local \in Nat
             /\ WindowEnd(k)' <= register_top'
        <3> SUFFICES ASSUME NEW k \in 1 .. d
                     PROVE  /\ frames[k].fn \in Fns' /\ frames[k].base \in Nat /\ frames[k].local \in Nat
                            /\ WindowEnd(k)' <= register_top'
            OBVIOUS
        <3>1. k \in 1 .. depth /\ k < depth
            BY <1>1
        <3>2. WindowEnd(k) <= frames[depth].base
            BY <1>1, <3>1 DEF StackInv
        <3> QED
            BY <1>3, <1>5, <3>1, <3>2 DEF StackInv
    <2>2. \A j, k \in 1 .. d : j < k => WindowEnd(j)' <= frames[k].base
        BY <1>1, <1>3 DEF StackInv
    <2>3. /\ program' \in DOMAIN Programs
          /\ depth' \in 0 .. MaxDepth /\ register_top' \in 0 .. RegisterFile /\ local_top' \in 0 .. LocalStack
        BY <1>1, <1>5, <1>6 DEF StackInv
    <2>4. depth' = d /\ frames' = frames
        BY <1>0
    <2>5. frames = [k \in 1 .. MaxDepth |-> frames[k]] /\ \A k \in 1 .. MaxDepth : IsFrame(frames[k])
        BY DEF StackInv
    <2> QED
        BY <2>1, <2>2, <2>3, <2>4, <2>5 DEF StackInv
<1>8. d = 0 => register_top' = 0 /\ local_top' = 0
    BY <1>1, <1>4, <1>5
<1>9. TileInv'
    <2>1. ASSUME NEW k \in 2 .. d
          PROVE  frames[k].base = WindowEnd(k - 1)' /\ frames[k].local \in Behind(k - 1)'
        <3>1. k - 1 \in 1 .. d /\ k \in 2 .. depth
            BY <1>1
        <3> QED
            BY <1>3, <1>4, <3>1
    <2>2. d # 0 => register_top' = WindowEnd(d)' /\ local_top' \in Behind(d)'
        <3> SUFFICES ASSUME d # 0
                     PROVE  register_top' = WindowEnd(d)' /\ local_top' \in Behind(d)'
            OBVIOUS
        <3>1. d \in 1 .. d /\ depth \in 2 .. depth /\ depth - 1 = d
            BY <1>0, <1>1
        <3> QED
            BY <1>3, <1>4, <1>5, <3>1
    <2>3. depth' = d /\ frames' = frames
        BY <1>0
    <2>4. FramesTile'
        BY <1>8, <2>1, <2>2, <2>3 DEF FramesTile
    <2> QED
        BY <1>4, <2>3, <2>4 DEF TileInv
<1> QED
    BY <1>1, <1>7, <1>8, <1>9

-----------------------------------------------------------------------------
(* The interpreters under way.                                             *)

Active(s) == {k \in 1 .. Len(s) : s[k].kind = "interpret"}

\* Their parts of d frames fr: each goes up to where the next one was called, the last to the top.
Nest(s, fr, d) ==
    /\ \A k \in Active(s) : /\ s[k].stop < s[k].frame /\ s[k].frame <= d
                            /\ s[k].fn = fr[s[k].frame].fn /\ s[k].base = fr[s[k].frame].base
    /\ \A j, k \in Active(s) : j < k => s[j].frame <= s[k].stop
    /\ \A j, k \in Active(s) :
          j < k /\ (\A i \in Active(s) : i <= j \/ k <= i) => s[j].frame = s[k].stop
    /\ \A k \in Active(s) : (\A i \in Active(s) : i <= k) => s[k].frame = d

\* Two stacks agree on an interpreter, and two call stacks on their first d frames.
Agree(s, t, k) ==
    t[k].stop = s[k].stop /\ t[k].frame = s[k].frame /\ t[k].fn = s[k].fn /\ t[k].base = s[k].base
Alike(fr, gr, d) == \A k \in 1 .. d : gr[k].fn = fr[k].fn /\ gr[k].base = fr[k].base

Numbered(s) ==
    /\ Len(s) \in Nat
    /\ \A k \in Active(s) : s[k].stop \in Nat /\ s[k].frame \in Nat

\* The interpreters stay.
LEMMA NestKept ==
    ASSUME NEW s, NEW t, NEW fr, NEW gr, NEW d \in Nat, Numbered(s), Nest(s, fr, d), Active(t) = Active(s),
           \A k \in Active(s) : Agree(s, t, k), Alike(fr, gr, d)
    PROVE  Nest(t, gr, d)
<1> DEFINE A == Active(s)
<1>1. /\ \A k \in A : /\ s[k].stop < s[k].frame /\ s[k].frame <= d
                      /\ s[k].fn = fr[s[k].frame].fn /\ s[k].base = fr[s[k].frame].base
      /\ \A j, k \in A : j < k => s[j].frame <= s[k].stop
      /\ \A j, k \in A : j < k /\ (\A i \in A : i <= j \/ k <= i) => s[j].frame = s[k].stop
      /\ \A k \in A : (\A i \in A : i <= k) => s[k].frame = d
    BY DEF Nest
<1>2. \A k \in A : s[k].stop \in Nat /\ s[k].frame \in Nat
    BY DEF Numbered
<1>3. \A k \in A : Agree(s, t, k)
    OBVIOUS
<1> HIDE DEF A
<1>4. \A k \in A : s[k].frame \in 1 .. d
    BY <1>1, <1>2
<1>5. \A k \in A : /\ t[k].stop < t[k].frame /\ t[k].frame <= d
                   /\ t[k].fn = gr[t[k].frame].fn /\ t[k].base = gr[t[k].frame].base
    BY <1>1, <1>3, <1>4 DEF Agree, Alike
<1>6. \A j, k \in A : j < k => t[j].frame <= t[k].stop
    BY <1>1, <1>3 DEF Agree
<1>7. \A j, k \in A : j < k /\ (\A i \in A : i <= j \/ k <= i) => t[j].frame = t[k].stop
    BY <1>1, <1>3 DEF Agree
<1>8. \A k \in A : (\A i \in A : i <= k) => t[k].frame = d
    BY <1>1, <1>3 DEF Agree
<1>9. Active(t) = A
    BY DEF A
<1> QED
    BY <1>5, <1>6, <1>7, <1>8, <1>9 DEF Nest

\* The last interpreter goes on in frame e.
LEMMA NestMoved ==
    ASSUME NEW s, NEW t, NEW fr, NEW gr, NEW d \in Nat, NEW e \in Nat, Numbered(s), Nest(s, fr, d),
           Active(t) = Active(s), NEW n \in Active(s), \A k \in Active(s) : k <= n,
           \A k \in Active(s) \ {n} : Agree(s, t, k), Alike(fr, gr, s[n].stop),
           t[n].stop = s[n].stop, t[n].frame = e, s[n].stop < e,
           t[n].fn = gr[e].fn, t[n].base = gr[e].base
    PROVE  Nest(t, gr, e)
<1> DEFINE A == Active(s)
<1>1. /\ \A k \in A : /\ s[k].stop < s[k].frame /\ s[k].frame <= d
                      /\ s[k].fn = fr[s[k].frame].fn /\ s[k].base = fr[s[k].frame].base
      /\ \A j, k \in A : j < k => s[j].frame <= s[k].stop
      /\ \A j, k \in A : j < k /\ (\A i \in A : i <= j \/ k <= i) => s[j].frame = s[k].stop
      /\ \A k \in A : (\A i \in A : i <= k) => s[k].frame = d
    BY DEF Nest
<1>2. n \in A /\ \A k \in A : s[k].stop \in Nat /\ s[k].frame \in Nat /\ k \in Nat /\ k <= n
    BY DEF Numbered, Active
<1>3. \A k \in A \ {n} : Agree(s, t, k)
    OBVIOUS
<1>10. Active(t) = A
    BY DEF A
<1> HIDE DEF A
<1>4. \A k \in A \ {n} : k < n /\ s[k].frame <= s[n].stop /\ s[k].frame \in 1 .. s[n].stop
    BY <1>1, <1>2
<1>5. \A k \in A \ {n} : /\ t[k].stop < t[k].frame /\ t[k].frame <= e
                         /\ t[k].fn = gr[t[k].frame].fn /\ t[k].base = gr[t[k].frame].base
    BY <1>1, <1>2, <1>3, <1>4 DEF Agree, Alike
<1>6. \A j, k \in A : j < k => t[j].frame <= t[k].stop
    BY <1>1, <1>2, <1>3 DEF Agree
<1>7. \A j, k \in A : j < k /\ (\A i \in A : i <= j \/ k <= i) => t[j].frame = t[k].stop
    BY <1>1, <1>2, <1>3 DEF Agree
<1>8. \A k \in A : (\A i \in A : i <= k) => t[k].frame = e
    BY <1>2, <1>4
<1>9. \A k \in A : /\ t[k].stop < t[k].frame /\ t[k].frame <= e
                   /\ t[k].fn = gr[t[k].frame].fn /\ t[k].base = gr[t[k].frame].base
    BY <1>2, <1>5
<1> QED
    BY <1>6, <1>7, <1>8, <1>9, <1>10 DEF Nest

\* An interpreter is called, in the first frame after those there are.
LEMMA NestEntered ==
    ASSUME NEW s, NEW t, NEW fr, NEW gr, NEW d \in Nat, Numbered(s), Nest(s, fr, d),
           NEW m \in Nat, Active(t) = Active(s) \cup {m}, \A k \in Active(s) : k < m,
           \A k \in Active(s) : Agree(s, t, k), Alike(fr, gr, d),
           t[m].stop = d, t[m].frame = d + 1, t[m].fn = gr[d + 1].fn, t[m].base = gr[d + 1].base
    PROVE  Nest(t, gr, d + 1)
<1> DEFINE A == Active(s)
           B == Active(t)
<1>1. /\ \A k \in A : /\ s[k].stop < s[k].frame /\ s[k].frame <= d
                      /\ s[k].fn = fr[s[k].frame].fn /\ s[k].base = fr[s[k].frame].base
      /\ \A j, k \in A : j < k => s[j].frame <= s[k].stop
      /\ \A j, k \in A : j < k /\ (\A i \in A : i <= j \/ k <= i) => s[j].frame = s[k].stop
      /\ \A k \in A : (\A i \in A : i <= k) => s[k].frame = d
    BY DEF Nest
<1>2. \A k \in A : s[k].stop \in Nat /\ s[k].frame \in Nat /\ k \in Nat /\ k < m
    BY DEF Numbered, Active
<1>3. \A k \in A : Agree(s, t, k)
    OBVIOUS
<1>4. B = A \cup {m}
    OBVIOUS
<1>12. B = Active(t)
    OBVIOUS
<1> HIDE DEF A, B
<1>5. \A k \in A : s[k].frame \in 1 .. d
    BY <1>1, <1>2
<1>6. \A k \in A : /\ t[k].stop < t[k].frame /\ t[k].frame <= d + 1
                   /\ t[k].fn = gr[t[k].frame].fn /\ t[k].base = gr[t[k].frame].base
    BY <1>1, <1>2, <1>3, <1>5 DEF Agree, Alike
<1>7. \A k \in B : /\ t[k].stop < t[k].frame /\ t[k].frame <= d + 1
                   /\ t[k].fn = gr[t[k].frame].fn /\ t[k].base = gr[t[k].frame].base
    BY <1>4, <1>6
<1>8. \A j, k \in B : j < k => t[j].frame <= t[k].stop
    BY <1>1, <1>2, <1>3, <1>4 DEF Agree
<1>9. ASSUME NEW j \in B, NEW k \in B, j < k, \A i \in B : i <= j \/ k <= i
      PROVE  t[j].frame = t[k].stop
    <2>1. j \in A
        BY <1>2, <1>4, <1>9
    <2>2. CASE k = m
        <3>1. \A i \in A : i <= j
            BY <1>2, <1>4, <1>9, <2>2
        <3> QED
            BY <1>1, <1>3, <2>1, <2>2, <3>1 DEF Agree
    <2>3. CASE k # m
        <3>1. k \in A /\ \A i \in A : i <= j \/ k <= i
            BY <1>4, <1>9, <2>3
        <3>2. s[j].frame = s[k].stop
            BY <1>1, <1>9, <2>1, <3>1
        <3> QED
            BY <1>3, <2>1, <3>1, <3>2 DEF Agree
    <2> QED
        BY <2>2, <2>3
<1>10. ASSUME NEW k \in B, \A i \in B : i <= k
       PROVE  t[k].frame = d + 1
    <2>1. m \in B /\ m <= k
        BY <1>4, <1>10
    <2>2. k = m
        BY <1>2, <1>4, <2>1
    <2> QED
        BY <2>2
<1>13. \A k \in B : (\A i \in B : i <= k) => t[k].frame = d + 1
    BY <1>10
<1>11. \A j, k \in B : j < k /\ (\A i \in B : i <= j \/ k <= i) => t[j].frame = t[k].stop
    BY <1>9
<1> QED
    BY <1>7, <1>8, <1>11, <1>12, <1>13 DEF Nest

\* The last interpreter returns, its frames taken off.
LEMMA NestLeft ==
    ASSUME NEW s, NEW t, NEW fr, NEW d \in Nat, Numbered(s), Nest(s, fr, d),
           NEW n \in Active(s), \A k \in Active(s) : k <= n, Active(t) = Active(s) \ {n},
           \A k \in Active(s) \ {n} : Agree(s, t, k)
    PROVE  Nest(t, fr, s[n].stop)
<1> DEFINE A == Active(s)
           B == Active(t)
<1>1. /\ \A k \in A : /\ s[k].stop < s[k].frame /\ s[k].frame <= d
                      /\ s[k].fn = fr[s[k].frame].fn /\ s[k].base = fr[s[k].frame].base
      /\ \A j, k \in A : j < k => s[j].frame <= s[k].stop
      /\ \A j, k \in A : j < k /\ (\A i \in A : i <= j \/ k <= i) => s[j].frame = s[k].stop
      /\ \A k \in A : (\A i \in A : i <= k) => s[k].frame = d
    BY DEF Nest
<1>2. n \in A /\ \A k \in A : s[k].stop \in Nat /\ s[k].frame \in Nat /\ k \in Nat /\ k <= n
    BY DEF Numbered, Active
<1>3. \A k \in A \ {n} : Agree(s, t, k)
    OBVIOUS
<1>4. B = A \ {n}
    OBVIOUS
<1>12. B = Active(t)
    OBVIOUS
<1> HIDE DEF A, B
<1>5. \A k \in B : k < n /\ s[k].frame <= s[n].stop /\ Agree(s, t, k)
    BY <1>1, <1>2, <1>3, <1>4
<1>6. \A k \in B : /\ t[k].stop < t[k].frame /\ t[k].frame <= s[n].stop
                   /\ t[k].fn = fr[t[k].frame].fn /\ t[k].base = fr[t[k].frame].base
    BY <1>1, <1>4, <1>5 DEF Agree
<1>7. \A j, k \in B : j < k => t[j].frame <= t[k].stop
    BY <1>1, <1>4, <1>5 DEF Agree
<1>8. ASSUME NEW j \in B, NEW k \in B, j < k, \A i \in B : i <= j \/ k <= i
      PROVE  t[j].frame = t[k].stop
    <2>1. \A i \in A : i <= j \/ k <= i
        BY <1>2, <1>4, <1>5, <1>8
    <2>2. s[j].frame = s[k].stop
        BY <1>1, <1>4, <1>8, <2>1
    <2> QED
        BY <1>5, <2>2 DEF Agree
<1>9. ASSUME NEW k \in B, \A i \in B : i <= k
      PROVE  t[k].frame = s[n].stop
    <2>1. k \in A /\ k < n /\ \A i \in A : i <= k \/ n <= i
        BY <1>2, <1>4, <1>5, <1>9
    <2>2. s[k].frame = s[n].stop
        BY <1>1, <1>2, <2>1
    <2> QED
        BY <1>5, <2>2 DEF Agree
<1>10. \A j, k \in B : j < k /\ (\A i \in B : i <= j \/ k <= i) => t[j].frame = t[k].stop
    BY <1>8
<1>11. \A k \in B : (\A i \in B : i <= k) => t[k].frame = s[n].stop
    BY <1>9
<1> QED
    BY <1>6, <1>7, <1>10, <1>11, <1>12 DEF Nest

\* The next interpreter of those above is the oldest.
LEMMA NestIsOrder ==
    ASSUME Numbered(native), error = None => Nest(native, frames, depth)
    PROVE  InterpretersNest
<1> DEFINE A == Active(native)
<1>1. ASSUME error = None, NEW k \in A
      PROVE  LET above == {j \in A : j > k}
                 top == IF above = {} THEN depth ELSE native[Oldest(above)].stop
             IN /\ native[k].frame = top /\ top > native[k].stop
                /\ native[k].fn = frames[top].fn /\ native[k].base = frames[top].base
    <2> DEFINE above == {j \in A : j > k}
    <2>1. /\ native[k].stop < native[k].frame /\ native[k].stop \in Nat /\ native[k].frame \in Nat
          /\ native[k].fn = frames[native[k].frame].fn /\ native[k].base = frames[native[k].frame].base
        BY <1>1 DEF Nest, Numbered
    <2>2. A \subseteq Nat /\ k \in A /\ above \in SUBSET Nat
        BY DEF Active, Numbered
    <2>3. above = {} => native[k].frame = depth
        <3> SUFFICES ASSUME above = {}
                     PROVE  native[k].frame = depth
            OBVIOUS
        <3>1. \A i \in A : i <= k
            BY <2>2
        <3> QED
            BY <1>1, <3>1 DEF Nest
    <2>4. above # {} => native[k].frame = native[Oldest(above)].stop
        <3> SUFFICES ASSUME above # {}
                     PROVE  native[k].frame = native[Oldest(above)].stop
            OBVIOUS
        <3>1. \E o \in above : \A p \in above : o <= p
            BY <2>2, LeastNumber
        <3>2. Oldest(above) \in above /\ \A p \in above : Oldest(above) <= p
            BY <3>1 DEF Oldest
        <3>3. PICK o : o = Oldest(above)
            OBVIOUS
        <3>4. o \in A /\ k < o /\ \A i \in A : i <= k \/ o <= i
            BY <2>2, <3>2, <3>3
        <3>5. native[k].frame = native[o].stop
            BY <1>1, <3>4 DEF Nest
        <3> QED
            BY <3>3, <3>5
    <2> QED
        BY <2>1, <2>3, <2>4
<1> QED
    BY <1>1 DEF InterpretersNest, Active

-----------------------------------------------------------------------------
(* The inductive invariant.                                                *)

IsInterpret(x, p) ==
    /\ x = [kind |-> "interpret", stop |-> x.stop, frame |-> x.frame, fn |-> x.fn, base |-> x.base,
            pc |-> x.pc, doing |-> x.doing, exc |-> x.exc]
    /\ x.stop \in Nat /\ x.frame \in Nat /\ x.fn \in DOMAIN Programs[p]

IsDelete(x, p) ==
    /\ x = [kind |-> "delete", ptr |-> x.ptr, fn |-> x.fn, desc |-> x.desc, at |-> x.at, i |-> x.i]
    /\ x.fn \in DOMAIN Programs[p] /\ x.desc \in DOMAIN Programs[p][x.fn].descs

IsCleanup(x, p) ==
    /\ x = [kind |-> "cleanup", fn |-> x.fn, base |-> x.base, at |-> x.at, to |-> x.to, i |-> x.i,
            reg |-> x.reg]
    /\ x.fn \in DOMAIN Programs[p] /\ x.i \in 0 .. Len(Programs[p][x.fn].records)

IsActivation(x, p) == IsInterpret(x, p) \/ IsDelete(x, p) \/ IsCleanup(x, p)

\* The embedding program called the first interpreter; the others wait for what they called, and
\* after an error none executes an instruction.
NativeInv ==
    /\ IsStack(native)
    /\ \A k \in 1 .. Len(native) : IsActivation(native[k], program)
    /\ Len(native) # 0 => native[1].kind = "interpret" /\ native[1].stop = 0
    /\ \A k \in 1 .. Len(native) : native[k].kind = "interpret" =>
          (k = Len(native) /\ error = None) \/ native[k].doing # <<>>

NestInv == error = None => Nest(native, frames, depth)

\* An exception that nobody caught has left every frame, and so has a call that is over.
EndInv ==
    /\ error = Unwound => native = <<>>
    /\ Finished => depth = 0 /\ register_top = 0 /\ local_top = 0

IInv == StackInv /\ TileInv /\ NativeInv /\ NestInv /\ EndInv

\* The activations are numbered, so that the lemmas on who nests in whom apply.
LEMMA NativeNumbered ==
    ASSUME NativeInv
    PROVE  Numbered(native) /\ (native # <<>> <=> Len(native) # 0)
<1>1. Len(native) \in Nat /\ (native # <<>> <=> Len(native) # 0)
    BY StackShape DEF NativeInv
<1>2. \A x : x.kind = "interpret" /\ IsActivation(x, program) => x.stop \in Nat /\ x.frame \in Nat
    BY DEF IsActivation, IsInterpret, IsDelete, IsCleanup
<1>3. \A k \in 1 .. Len(native) : IsActivation(native[k], program)
    BY DEF NativeInv
<1> QED
    BY <1>1, <1>2, <1>3 DEF Numbered, Active

\* The running activation goes on.
LEMMA NativeBecame ==
    ASSUME NativeInv, program' = program, NEW item, Became(item), IsActivation(item, program),
           item.kind = Top.kind, item.kind = "interpret" => item.stop = Top.stop,
           item.kind = "interpret" => error' = None \/ item.doing # <<>>
    PROVE  /\ NativeInv' /\ Active(native') = Active(native) /\ native' # <<>>
           /\ \A k \in Active(native) \ {Len(native)} : Agree(native, native', k)
<1> DEFINE n == Len(native)
<1>1. /\ n \in Nat \ {0} /\ IsStack(native') /\ Len(native') = n /\ native'[n] = item
      /\ \A k \in 1 .. n - 1 : native'[k] = native[k]
    BY DEF Became
<1>2. \A k \in 1 .. n : k = n \/ k \in 1 .. n - 1
    BY <1>1
<1>3. native' # <<>>
    BY <1>1, StackShape
<1>4. Active(native') = Active(native)
    BY <1>1, <1>2 DEF Active, Top
<1>5. \A k \in 1 .. n : IsActivation(native'[k], program')
    BY <1>1, <1>2 DEF NativeInv
<1>6. native'[1].kind = "interpret" /\ native'[1].stop = 0
    <2>1. native[1].kind = "interpret" /\ native[1].stop = 0
        BY <1>1 DEF NativeInv
    <2>2. n = 1 \/ 1 \in 1 .. n - 1
        <3>1. n \in Nat \ {0}
            BY <1>1
        <3> HIDE DEF n
        <3> QED
            BY <3>1
    <2>3. CASE n = 1
        BY <1>1, <2>1, <2>3 DEF Top
    <2>4. CASE 1 \in 1 .. n - 1
        BY <1>1, <2>1, <2>4
    <2> QED
        BY <2>2, <2>3, <2>4
<1>7. \A k \in 1 .. n : native'[k].kind = "interpret" =>
         (k = n /\ error' = None) \/ native'[k].doing # <<>>
    BY <1>1, <1>2 DEF NativeInv, Top
<1> HIDE DEF n
<1>8. NativeInv'
    BY <1>1, <1>5, <1>6, <1>7 DEF NativeInv
<1>9. \A k \in Active(native) \ {n} : Agree(native, native', k)
    BY <1>1, <1>2 DEF Active, Agree, n
<1> QED
    BY <1>3, <1>4, <1>8, <1>9 DEF n

\* The running activation calls another.
LEMMA NativeCalled ==
    ASSUME NativeInv, program' = program, NEW item, NEW callee, Called(item, callee), IsActivation(item, program),
           IsActivation(callee, program), item.kind = Top.kind, item.kind = "interpret" => item.stop = Top.stop,
           item.kind = "interpret" => item.doing # <<>>,
           callee.kind = "interpret" => error' = None \/ callee.doing # <<>>
    PROVE  /\ NativeInv' /\ native' # <<>>
           /\ Active(native') = Active(native) \cup
                 (IF callee.kind = "interpret" THEN {Len(native) + 1} ELSE {})
           /\ \A k \in Active(native) \ {Len(native)} : Agree(native, native', k)
<1> DEFINE n == Len(native)
<1>1. /\ n \in Nat \ {0} /\ IsStack(native') /\ Len(native') = n + 1 /\ native'[n] = item
      /\ native'[n + 1] = callee /\ \A k \in 1 .. n - 1 : native'[k] = native[k]
    BY DEF Called
<1>2. \A k \in 1 .. n + 1 : k = n + 1 \/ k = n \/ k \in 1 .. n - 1
    BY <1>1
<1>3. native' # <<>>
    BY <1>1, StackShape
<1>4. Active(native') = Active(native) \cup (IF callee.kind = "interpret" THEN {n + 1} ELSE {})
    BY <1>1, <1>2 DEF Active, Top
<1>5. \A k \in 1 .. n + 1 : IsActivation(native'[k], program')
    BY <1>1, <1>2 DEF NativeInv
<1>6. native'[1].kind = "interpret" /\ native'[1].stop = 0
    <2>1. native[1].kind = "interpret" /\ native[1].stop = 0
        BY <1>1 DEF NativeInv
    <2>2. n = 1 \/ 1 \in 1 .. n - 1
        <3>1. n \in Nat \ {0}
            BY <1>1
        <3> HIDE DEF n
        <3> QED
            BY <3>1
    <2>3. CASE n = 1
        BY <1>1, <2>1, <2>3 DEF Top
    <2>4. CASE 1 \in 1 .. n - 1
        BY <1>1, <2>1, <2>4
    <2> QED
        BY <2>2, <2>3, <2>4
<1>7. \A k \in 1 .. n + 1 : native'[k].kind = "interpret" =>
         (k = n + 1 /\ error' = None) \/ native'[k].doing # <<>>
    BY <1>1, <1>2 DEF NativeInv, Top
<1> HIDE DEF n
<1>8. NativeInv'
    BY <1>1, <1>5, <1>6, <1>7 DEF NativeInv
<1>9. \A k \in Active(native) \ {n} : Agree(native, native', k)
    BY <1>1, <1>2 DEF Active, Agree, n
<1> QED
    BY <1>3, <1>4, <1>8, <1>9 DEF n

\* The running activation returns to the one that called it.
LEMMA NativeReturned ==
    ASSUME NativeInv, program' = program, Returned
    PROVE  /\ NativeInv' /\ Active(native') = Active(native) \ {Len(native)}
           /\ native' = <<>> <=> Len(native) = 1
           /\ \A k \in Active(native) \ {Len(native)} : Agree(native, native', k)
<1> DEFINE n == Len(native)
<1>1. /\ n \in Nat \ {0} /\ IsStack(native') /\ Len(native') = n - 1
      /\ \A k \in 1 .. n - 1 : native'[k] = native[k]
    BY DEF Returned
<1>2. \A k \in 1 .. n : k = n \/ k \in 1 .. n - 1
    BY <1>1
<1>3. native' = <<>> <=> n = 1
    BY <1>1, StackShape
<1>4. Active(native') = Active(native) \ {n}
    BY <1>1, <1>2 DEF Active
<1>5. \A k \in 1 .. n - 1 : IsActivation(native'[k], program')
    BY <1>1 DEF NativeInv
<1>6. n - 1 # 0 => native'[1].kind = "interpret" /\ native'[1].stop = 0
    BY <1>1 DEF NativeInv
<1>7. \A k \in 1 .. n - 1 : native'[k].kind = "interpret" => native'[k].doing # <<>>
    BY <1>1 DEF NativeInv
<1> HIDE DEF n
<1>8. NativeInv'
    BY <1>1, <1>5, <1>6, <1>7 DEF NativeInv
<1>9. \A k \in Active(native) \ {n} : Agree(native, native', k)
    BY <1>1, <1>2 DEF Active, Agree, n
<1> QED
    BY <1>3, <1>4, <1>8, <1>9 DEF n

-----------------------------------------------------------------------------
(* The steps, by what they do to the stacks.                               *)

\* What running an interpreter says of the stacks.
LEMMA TopInterpreter ==
    ASSUME IInv, native # <<>>, Top.kind = "interpret"
    PROVE  /\ Len(native) \in Active(native) /\ \A k \in Active(native) : k <= Len(native)
           /\ IsInterpret(Top, program)
           /\ error = None =>
                 /\ Top.frame = depth /\ Top.stop < depth /\ depth \in 1 .. MaxDepth
                 /\ Top.fn = frames[depth].fn /\ Top.base = frames[depth].base
<1>1. Numbered(native) /\ Len(native) # 0
    BY NativeNumbered DEF IInv
<1>2. Len(native) \in Nat \ {0} /\ Len(native) \in 1 .. Len(native)
    BY <1>1 DEF Numbered
<1>3. Len(native) \in Active(native) /\ \A k \in Active(native) : k <= Len(native)
    BY <1>2 DEF Active, Top
<1>4. IsInterpret(Top, program)
    <2>1. IsActivation(Top, program)
        BY <1>2 DEF IInv, NativeInv, Top
    <2>2. ~IsDelete(Top, program) /\ ~IsCleanup(Top, program)
        BY DEF IsDelete, IsCleanup
    <2> QED
        BY <2>1, <2>2 DEF IsActivation
<1>5. ASSUME error = None
      PROVE  /\ Top.frame = depth /\ Top.stop < depth /\ depth \in 1 .. MaxDepth
             /\ Top.fn = frames[depth].fn /\ Top.base = frames[depth].base
    <2>1. Nest(native, frames, depth)
        BY <1>5 DEF IInv, NestInv
    <2>2. Top.frame = depth /\ Top.stop < Top.frame /\ Top.stop \in Nat
          /\ Top.fn = frames[Top.frame].fn /\ Top.base = frames[Top.frame].base
        BY <1>1, <1>3, <2>1 DEF Nest, Numbered, Top
    <2>3. depth \in 0 .. MaxDepth /\ MaxDepth \in Nat
        BY SizesAssumption DEF IInv, StackInv
    <2> QED
        BY <2>2, <2>3
<1> QED
    BY <1>3, <1>4, <1>5

\* Within an activation, with the stacks as they are.
LEMMA GoesOn ==
    ASSUME IInv, StacksSame, NEW item, Became(item), IsActivation(item, program), item.kind = Top.kind,
           item.kind = "interpret" => /\ item.stop = Top.stop /\ item.frame = Top.frame
                                      /\ item.fn = Top.fn /\ item.base = Top.base
                                      /\ error' = None \/ item.doing # <<>>,
           error' = error \/ error' \notin {None, Unwound}
    PROVE  IInv'
<1>1. StackInv' /\ TileInv'
    BY SameStacks DEF IInv
<1>2. /\ NativeInv' /\ Active(native') = Active(native) /\ native' # <<>>
      /\ \A k \in Active(native) \ {Len(native)} : Agree(native, native', k)
    BY NativeBecame DEF IInv, StacksSame
<1>3. \A k \in Active(native) : Agree(native, native', k)
    <2>1. Len(native) \in Active(native) => Agree(native, native', Len(native))
        BY DEF Active, Agree, Became, Top
    <2> QED
        BY <1>2, <2>1
<1>4. native # <<>>
    BY NativeNumbered DEF Became, IInv
<1>5. error' = None \/ error' = Unwound => error' = error
    OBVIOUS
<1>6. NestInv'
    <2> SUFFICES ASSUME error' = None
                 PROVE  Nest(native', frames', depth')
        BY DEF NestInv
    <2>1. Numbered(native) /\ Nest(native, frames, depth)
        BY <1>5, NativeNumbered DEF IInv, NestInv
    <2>2. depth \in Nat /\ depth' = depth /\ Alike(frames, frames', depth)
        BY SizesAssumption DEF IInv, StackInv, StacksSame, Alike
    <2> QED
        BY <1>2, <1>3, <2>1, <2>2, NestKept
<1>7. EndInv'
    BY <1>2, <1>4, <1>5 DEF IInv, EndInv, Finished
<1> QED
    BY <1>1, <1>2, <1>6, <1>7 DEF IInv

\* A call of delete_value or of execute_cleanup.
LEMMA CallsOn ==
    ASSUME IInv, StacksSame, error' = error, NEW item, NEW callee, Called(item, callee),
           IsActivation(item, program), IsActivation(callee, program), callee.kind # "interpret",
           item.kind = Top.kind,
           item.kind = "interpret" => /\ item.stop = Top.stop /\ item.frame = Top.frame
                                      /\ item.fn = Top.fn /\ item.base = Top.base
                                      /\ item.doing # <<>>
    PROVE  IInv'
<1>1. StackInv' /\ TileInv'
    BY SameStacks DEF IInv
<1>2. /\ NativeInv' /\ Active(native') = Active(native) /\ native' # <<>>
      /\ \A k \in Active(native) \ {Len(native)} : Agree(native, native', k)
    BY NativeCalled DEF IInv, StacksSame
<1>3. \A k \in Active(native) : Agree(native, native', k)
    <2>1. Len(native) \in Active(native) => Agree(native, native', Len(native))
        BY DEF Active, Agree, Called, Top
    <2> QED
        BY <1>2, <2>1
<1>4. native # <<>>
    BY NativeNumbered DEF Called, IInv
<1>5. NestInv'
    <2> SUFFICES ASSUME error = None
                 PROVE  Nest(native', frames', depth')
        BY DEF NestInv
    <2>1. Numbered(native) /\ Nest(native, frames, depth)
        BY NativeNumbered DEF IInv, NestInv
    <2>2. depth \in Nat /\ depth' = depth /\ Alike(frames, frames', depth)
        BY SizesAssumption DEF IInv, StackInv, StacksSame, Alike
    <2> QED
        BY <1>2, <1>3, <2>1, <2>2, NestKept
<1>6. EndInv'
    BY <1>2, <1>4 DEF IInv, EndInv, Finished
<1> QED
    BY <1>1, <1>2, <1>5, <1>6 DEF IInv

\* The return of delete_value or of execute_cleanup.
LEMMA ReturnsOn ==
    ASSUME IInv, StacksSame, error' = error, Returned, Top.kind # "interpret"
    PROVE  IInv'
<1>1. StackInv' /\ TileInv'
    BY SameStacks DEF IInv
<1>2. /\ NativeInv' /\ Active(native') = Active(native) \ {Len(native)}
      /\ native' = <<>> <=> Len(native) = 1
      /\ \A k \in Active(native) \ {Len(native)} : Agree(native, native', k)
    BY NativeReturned DEF IInv, StacksSame
<1>3. Len(native) \notin Active(native) /\ Len(native) # 0 /\ Len(native) # 1
    <2>1. Len(native) # 0 /\ native[1].kind = "interpret"
        BY DEF IInv, NativeInv, Returned
    <2> QED
        BY <2>1 DEF Active, Top
<1>4. native # <<>>
    BY NativeNumbered DEF Returned, IInv
<1>5. NestInv'
    <2> SUFFICES ASSUME error = None
                 PROVE  Nest(native', frames', depth')
        BY DEF NestInv
    <2>1. Numbered(native) /\ Nest(native, frames, depth)
        BY NativeNumbered DEF IInv, NestInv
    <2>2. depth \in Nat /\ depth' = depth /\ Alike(frames, frames', depth)
        BY SizesAssumption DEF IInv, StackInv, StacksSame, Alike
    <2>3. Active(native') = Active(native) /\ \A k \in Active(native) : Agree(native, native', k)
        BY <1>2, <1>3
    <2> QED
        BY <2>1, <2>2, <2>3, NestKept
<1>6. EndInv'
    BY <1>2, <1>3, <1>4 DEF IInv, EndInv, Finished
<1> QED
    BY <1>1, <1>2, <1>5, <1>6 DEF IInv

\* A return with an error that is not that of an exception.
LEMMA Fails ==
    ASSUME IInv, StackInv', program' = program, Returned, error' \notin {None, Unwound}
    PROVE  IInv'
<1>1. NativeInv'
    BY NativeReturned DEF IInv
<1> QED
    BY <1>1 DEF IInv, TileInv, FramesTile, NestInv, EndInv, Finished

\* An interpreter goes on in another frame.
LEMMA Moves ==
    ASSUME IInv, StackInv', TileInv', program' = program, error = None, error' = None,
           NEW item, Became(item), IsInterpret(item, program), Top.kind = "interpret", item.stop = Top.stop,
           item.frame = depth', Top.stop < depth',
           item.fn = frames'[depth'].fn, item.base = frames'[depth'].base, Alike(frames, frames', Top.stop)
    PROVE  IInv'
<1> DEFINE n == Len(native)
<1>1. native # <<>> /\ item.kind = "interpret"
    BY NativeNumbered DEF Became, IInv, IsInterpret
<1>2. /\ NativeInv' /\ Active(native') = Active(native) /\ native' # <<>>
      /\ \A k \in Active(native) \ {n} : Agree(native, native', k)
    BY <1>1, NativeBecame DEF IInv, IsActivation
<1>3. n \in Active(native) /\ \A k \in Active(native) : k <= n
    BY <1>1, TopInterpreter
<1>4. Numbered(native) /\ Nest(native, frames, depth)
    BY NativeNumbered DEF IInv, NestInv
<1>5. depth \in Nat /\ depth' \in Nat
    BY SizesAssumption DEF IInv, StackInv
<1>6. native'[n] = item /\ native[n] = Top
    BY DEF Became, Top
<1> HIDE DEF n
<1>7. Nest(native', frames', depth')
    BY <1>2, <1>3, <1>4, <1>5, <1>6, NestMoved
<1>8. EndInv'
    BY <1>2, NoneAssumption DEF IInv, EndInv, Finished, Errors
<1> QED
    BY <1>2, <1>7, <1>8 DEF IInv, NestInv

\* A destructor is called: an interpreter of its own, in a frame of its own.
LEMMA Enters ==
    ASSUME IInv, StackInv', TileInv', program' = program, error = None, error' = None,
           NEW item, NEW callee, Called(item, callee), IsDelete(item, program), Top.kind = "delete",
           IsInterpret(callee, program), callee.stop = depth, callee.frame = depth + 1, depth' = depth + 1,
           callee.fn = frames'[depth + 1].fn, callee.base = frames'[depth + 1].base,
           Alike(frames, frames', depth)
    PROVE  IInv'
<1> DEFINE m == Len(native) + 1
<1>1. native # <<>> /\ item.kind = "delete" /\ callee.kind = "interpret" /\ m - 1 \in Nat \ {0}
    BY NativeNumbered DEF Called, IInv, IsDelete, IsInterpret
<1>2. /\ NativeInv' /\ Active(native') = Active(native) \cup {m} /\ native' # <<>>
      /\ \A k \in Active(native) \ {m - 1} : Agree(native, native', k)
    BY <1>1, NativeCalled DEF IInv, IsActivation
<1>3. m - 1 \notin Active(native) /\ \A k \in Active(native) : k < m
    BY <1>1 DEF Active, Top
<1>4. Numbered(native) /\ Nest(native, frames, depth)
    BY NativeNumbered DEF IInv, NestInv
<1>5. depth \in Nat /\ m \in Nat
    BY <1>1, SizesAssumption DEF IInv, StackInv
<1>6. native'[m] = callee
    BY DEF Called
<1>7. \A k \in Active(native) : Agree(native, native', k)
    BY <1>2, <1>3
<1> HIDE DEF m
<1>8. Nest(native', frames', depth + 1)
    BY <1>2, <1>3, <1>4, <1>5, <1>6, <1>7, NestEntered
<1>9. EndInv'
    BY <1>2, NoneAssumption DEF IInv, EndInv, Finished, Errors
<1> QED
    BY <1>2, <1>8, <1>9 DEF IInv, NestInv

\* An interpreter returns from the last of its frames.
LEMMA Leaves ==
    ASSUME IInv, StackInv', TileInv', UNCHANGED <<program, frames>>, error = None, error' = None,
           Top.kind = "interpret", Returned, depth' = depth - 1, LastFrameRan(Top.stop),
           depth' = 0 => register_top' = 0 /\ local_top' = 0
    PROVE  IInv'
<1> DEFINE n == Len(native)
<1>1. native # <<>>
    BY NativeNumbered DEF Returned, IInv
<1>2. /\ NativeInv' /\ Active(native') = Active(native) \ {n} /\ (native' = <<>> <=> n = 1)
      /\ \A k \in Active(native) \ {n} : Agree(native, native', k)
    BY NativeReturned DEF IInv
<1>3. n \in Active(native) /\ \A k \in Active(native) : k <= n
    BY <1>1, TopInterpreter
<1>4. Numbered(native) /\ Nest(native, frames, depth)
    BY NativeNumbered DEF IInv, NestInv
<1>5. depth \in Nat
    BY SizesAssumption DEF IInv, StackInv
<1>6. native[n] = Top /\ Top.stop < depth /\ Top.stop \in Nat
    BY <1>1, TopInterpreter DEF Top, IsInterpret
<1>7. Top.stop = depth - 1
    BY <1>5, <1>6 DEF LastFrameRan
<1>8. n = 1 => Top.stop = 0
    BY <1>1, <1>6, NativeNumbered DEF IInv, NativeInv
<1> HIDE DEF n
<1>9. Nest(native', frames, native[n].stop)
    BY <1>2, <1>3, <1>4, <1>5, NestLeft
<1>10. NestInv'
    <2>1. Nest(native', frames', depth')
        BY <1>6, <1>7, <1>9
    <2> QED
        BY <2>1 DEF NestInv
<1>11. EndInv'
    BY <1>2, <1>7, <1>8, NoneAssumption DEF EndInv, Finished, Errors
<1> QED
    BY <1>2, <1>10, <1>11 DEF IInv

\* The embedding program calls, or fails to: then nothing is called.
LEMMA Begins ==
    ASSUME IInv, native = <<>>, StackInv', TileInv', program' = program, error = None, error' = None,
           NEW item, native' = <<item>>, IsInterpret(item, program), item.stop = 0, item.frame = depth + 1,
           depth' = depth + 1, item.fn = frames'[depth + 1].fn, item.base = frames'[depth + 1].base
    PROVE  IInv'
<1>1. depth = 0 /\ depth' = 1
    BY DEF IInv, EndInv, Finished
<1>2. Len(native') = 1 /\ native'[1] = item /\ native' # <<>> /\ item.kind = "interpret"
    BY DEF IsInterpret
<1>3. IsStack(native')
    <2> DEFINE S == {native'[k] : k \in 1 .. Len(native')}
    <2>1. item \in S
        BY <1>2
    <2> HIDE DEF S
    <2>2. native' \in Seq(S)
        BY <2>1
    <2> QED
        BY <2>2 DEF IsStack, S
<1>4. NativeInv'
    BY <1>2, <1>3 DEF NativeInv, IsActivation
<1>5. Active(native') = {1}
    BY <1>2 DEF Active
<1>6. Nest(native', frames', depth')
    BY <1>1, <1>2, <1>5 DEF Nest
<1>7. EndInv'
    BY <1>2, NoneAssumption DEF EndInv, Finished, Errors
<1> QED
    BY <1>4, <1>6, <1>7 DEF IInv, NestInv

\* With nothing called and an error that is no exception, only StackInv says anything.
LEMMA NotCalled ==
    ASSUME IInv, native = <<>>, native' = <<>>, StackInv', program' = program,
           error' \notin {None, Unwound}
    PROVE  IInv'
<1>1. NativeInv'
    <2>1. Len(native') = 0 /\ IsStack(native')
        BY DEF IInv, NativeInv
    <2> QED
        BY <2>1 DEF NativeInv
<1> QED
    BY <1>1 DEF IInv, TileInv, FramesTile, NestInv, EndInv, Finished

\* A call is over, or an exception has left its last frame.
LEMMA Empty ==
    ASSUME StackInv', native' = <<>>, depth' = 0, register_top' = 0, local_top' = 0
    PROVE  IInv'
<1>1. Len(native') = 0 /\ Active(native') = {}
    BY DEF Active
<1>2. IsStack(native')
    BY <1>1 DEF IsStack
<1>3. NativeInv'
    BY <1>1, <1>2 DEF NativeInv
<1>4. TileInv'
    BY DEF TileInv, FramesTile
<1>5. NestInv'
    BY <1>1 DEF NestInv, Nest
<1> QED
    BY <1>3, <1>4, <1>5 DEF IInv, EndInv

-----------------------------------------------------------------------------
(* The instructions.                                                       *)

\* What an interpreter executes, it executes while there is no error.
LEMMA Instruction ==
    ASSUME IInv, Running("interpret"), Top.doing = <<>>
    PROVE  error = None
<1>1. Len(native) \in 1 .. Len(native)
    BY NativeNumbered DEF IInv, Running, Numbered
<1> QED
    BY <1>1 DEF IInv, NativeInv, Running, Top

\* Most instructions leave the stacks alone and go on, or fail.
Plain ==
    /\ UNCHANGED <<program, stacks>>
    /\ \/ (\E pc : native' = Goto(pc)) /\ error' = error
       \/ native' = Return /\ error' \in Errors \ {Unwound}

\* An instruction that leaves the stacks and the other activations alone.
LEMMA PlainSteps ==
    ASSUME IInv, Running("interpret"), Top.doing = <<>>, Plain
    PROVE  IInv'
<1>1. native # <<>> /\ Top.kind = "interpret" /\ IsStack(native)
    BY DEF Running, IInv, NativeInv
<1>2. StacksSame
    BY StacksStay DEF IInv, Plain
<1>3. error = None /\ IsInterpret(Top, program)
    BY <1>1, Instruction, TopInterpreter
<1>4. ASSUME NEW pc, native' = Goto(pc), error' = error
      PROVE  IInv'
    <2> DEFINE item == [Top EXCEPT !.pc = pc]
    <2>1. /\ IsInterpret(item, program) /\ item.kind = "interpret" /\ item.stop = Top.stop
          /\ item.frame = Top.frame /\ item.fn = Top.fn /\ item.base = Top.base
        BY <1>3 DEF IsInterpret
    <2>2. Became(item)
        BY <1>1, <1>4, NativeSteps DEF Goto
    <2> HIDE DEF item
    <2> QED
        BY <1>1, <1>2, <1>3, <1>4, <2>1, <2>2, GoesOn DEF IsActivation
<1>5. ASSUME native' = Return, error' \in Errors \ {Unwound}
      PROVE  IInv'
    <2>1. Returned
        BY <1>1, <1>5, NativeSteps
    <2>2. StackInv'
        BY <1>2, SameStacks DEF IInv
    <2>3. error' \notin {None, Unwound}
        BY <1>5, NoneAssumption
    <2> QED
        BY <2>1, <2>2, <2>3, Fails DEF Plain
<1> QED
    BY <1>4, <1>5 DEF Plain

\* Those are all but CALL, RET, RET_VOID, DELETE and THROW.
LEMMA PlainInstructions ==
    ASSUME IInv, \/ Load \/ Move \/ Jump \/ Branch \/ Divide \/ New \/ DelObj \/ RefInc \/ RefDec
                 \/ Pin \/ Unpin \/ Push \/ Index \/ GetSlot \/ SetSlot
    PROVE  IInv'
<1> SUFFICES ASSUME Running("interpret"), Top.doing = <<>>
             PROVE  Plain
    <2>1. Running("interpret") /\ Top.doing = <<>>
        BY DEF Load, Move, Jump, Branch, Divide, New, DelObj, RefInc, RefDec, Pin, Unpin, Push, Index,
               GetSlot, SetSlot, Executing
    <2> QED
        BY <2>1, PlainSteps
<1>1. \A e \in Errors \ {Unwound} : Fail(e) => Plain
    BY DEF Fail, Plain
<1>2. Step => Plain
    BY DEF Step, Advance, Plain
<1>3. CASE Load \/ Move \/ Jump \/ Branch
    BY <1>2, <1>3 DEF Load, Move, Jump, Branch, Advance, Plain
<1>4. CASE Divide
    BY <1>1, <1>2, <1>4 DEF Divide, Errors, Unwound
<1>5. CASE New
    BY <1>1, <1>2, <1>5 DEF New, Errors, Unwound
<1>6. CASE DelObj
    BY <1>1, <1>2, <1>6 DEF DelObj, Errors, Unwound, Borrowed
<1>7. CASE RefInc \/ Pin \/ Unpin \/ GetSlot \/ SetSlot
    BY <1>2, <1>7 DEF RefInc, Pin, Unpin, GetSlot, SetSlot
<1>8. CASE RefDec
    BY <1>1, <1>2, <1>8 DEF RefDec, Errors, Unwound, Underflow
<1>9. CASE Push
    BY <1>2, <1>9 DEF Push, Plain, Errors, Unwound
<1>10. CASE Index
    BY <1>1, <1>2, <1>10 DEF Index, Errors, Unwound
<1> QED
    BY <1>3, <1>4, <1>5, <1>6, <1>7, <1>8, <1>9, <1>10

\* What an interpreter's activation becomes when its frame changes.
InFrame(x, frame, f, base, pc) == [x EXCEPT !.frame = frame, !.fn = f, !.base = base, !.pc = pc]
SearchIn(x, frame, f, base, doing) == [x EXCEPT !.frame = frame, !.fn = f, !.base = base, !.doing = doing]
LandIn(x, frame, doing, pc) == [x EXCEPT !.frame = frame, !.doing = doing, !.pc = pc]
CallAt(x, pc, doing) == [x EXCEPT !.pc = pc, !.doing = doing]
ThrowAt(x, pc, doing, exc) == [x EXCEPT !.pc = pc, !.doing = doing, !.exc = exc]

\* The fields of an activation that goes on elsewhere, field by field.
LEMMA Retargeted ==
    ASSUME NEW x, IsInterpret(x, program), NEW frame, NEW f, NEW base, NEW pc, NEW doing, NEW exc
    PROVE  /\ InFrame(x, frame, f, base, pc)
                 = [kind |-> "interpret", stop |-> x.stop, frame |-> frame, fn |-> f, base |-> base,
                    pc |-> pc, doing |-> x.doing, exc |-> x.exc]
           /\ SearchIn(x, frame, f, base, doing)
                 = [kind |-> "interpret", stop |-> x.stop, frame |-> frame, fn |-> f, base |-> base,
                    pc |-> x.pc, doing |-> doing, exc |-> x.exc]
           /\ LandIn(x, frame, doing, pc)
                 = [kind |-> "interpret", stop |-> x.stop, frame |-> frame, fn |-> x.fn, base |-> x.base,
                    pc |-> pc, doing |-> doing, exc |-> x.exc]
           /\ CallAt(x, pc, doing)
                 = [kind |-> "interpret", stop |-> x.stop, frame |-> x.frame, fn |-> x.fn, base |-> x.base,
                    pc |-> pc, doing |-> doing, exc |-> x.exc]
           /\ ThrowAt(x, pc, doing, exc)
                 = [kind |-> "interpret", stop |-> x.stop, frame |-> x.frame, fn |-> x.fn, base |-> x.base,
                    pc |-> pc, doing |-> doing, exc |-> exc]
<1>1. x = [kind |-> "interpret", stop |-> x.stop, frame |-> x.frame, fn |-> x.fn, base |-> x.base,
           pc |-> x.pc, doing |-> x.doing, exc |-> x.exc]
    BY DEF IsInterpret
<1>2. PICK a, b, c, d, e, g, h : x = [kind |-> "interpret", stop |-> a, frame |-> b, fn |-> c, base |-> d,
                                      pc |-> e, doing |-> g, exc |-> h]
    BY <1>1
<1>3. x.stop = a /\ x.frame = b /\ x.fn = c /\ x.base = d /\ x.pc = e /\ x.doing = g /\ x.exc = h
    BY <1>2
<1> DEFINE x1 == [x EXCEPT !.frame = frame]
           x2 == [x1 EXCEPT !.fn = f]
           x3 == [x2 EXCEPT !.base = base]
           x4 == [x3 EXCEPT !.pc = pc]
           x5 == [x3 EXCEPT !.doing = doing]
           y2 == [x1 EXCEPT !.doing = doing]
           y3 == [y2 EXCEPT !.pc = pc]
           z1 == [x EXCEPT !.pc = pc]
           z2 == [z1 EXCEPT !.doing = doing]
           z3 == [z2 EXCEPT !.exc = exc]
<1>4. /\ InFrame(x, frame, f, base, pc) = x4
      /\ SearchIn(x, frame, f, base, doing) = x5
      /\ LandIn(x, frame, doing, pc) = y3
      /\ CallAt(x, pc, doing) = z2
      /\ ThrowAt(x, pc, doing, exc) = z3
    BY DEF InFrame, SearchIn, LandIn, CallAt, ThrowAt
<1>5. x1 = [kind |-> "interpret", stop |-> a, frame |-> frame, fn |-> c, base |-> d,
            pc |-> e, doing |-> g, exc |-> h]
    BY <1>2
<1> HIDE DEF x1
<1>6. x2 = [kind |-> "interpret", stop |-> a, frame |-> frame, fn |-> f, base |-> d,
            pc |-> e, doing |-> g, exc |-> h]
    BY <1>5
<1> HIDE DEF x2
<1>7. x3 = [kind |-> "interpret", stop |-> a, frame |-> frame, fn |-> f, base |-> base,
            pc |-> e, doing |-> g, exc |-> h]
    BY <1>6
<1> HIDE DEF x3
<1>8. x4 = [kind |-> "interpret", stop |-> a, frame |-> frame, fn |-> f, base |-> base,
            pc |-> pc, doing |-> g, exc |-> h]
    BY <1>7
<1> HIDE DEF x4
<1>9. x5 = [kind |-> "interpret", stop |-> a, frame |-> frame, fn |-> f, base |-> base,
            pc |-> e, doing |-> doing, exc |-> h]
    BY <1>7
<1> HIDE DEF x5
<1>10. y2 = [kind |-> "interpret", stop |-> a, frame |-> frame, fn |-> c, base |-> d,
            pc |-> e, doing |-> doing, exc |-> h]
    BY <1>5
<1> HIDE DEF y2
<1>11. y3 = [kind |-> "interpret", stop |-> a, frame |-> frame, fn |-> c, base |-> d,
            pc |-> pc, doing |-> doing, exc |-> h]
    BY <1>10
<1> HIDE DEF y3
<1>12. z1 = [kind |-> "interpret", stop |-> a, frame |-> b, fn |-> c, base |-> d,
            pc |-> pc, doing |-> g, exc |-> h]
    BY <1>2
<1> HIDE DEF z1
<1>13. z2 = [kind |-> "interpret", stop |-> a, frame |-> b, fn |-> c, base |-> d,
            pc |-> pc, doing |-> doing, exc |-> h]
    BY <1>12
<1> HIDE DEF z2
<1>14. z3 = [kind |-> "interpret", stop |-> a, frame |-> b, fn |-> c, base |-> d,
            pc |-> pc, doing |-> doing, exc |-> exc]
    BY <1>13
<1> HIDE DEF z3
<1> QED
    BY <1>3, <1>4, <1>8, <1>9, <1>11, <1>13, <1>14

\* CALL: a frame is put on top, or the stacks are as they were but for what was reserved.
LEMMA CallStep ==
    ASSUME IInv, Call
    PROVE  IInv'
<1> DEFINE f == Fetch.fn
           local == Align(local_top)
<1>1. Running("interpret") /\ Top.doing = <<>> /\ At \in DOMAIN Code /\ Fetch.op = "call"
    BY DEF Call, Executing
<1>2. error = None /\ native # <<>> /\ Top.kind = "interpret" /\ IsStack(native)
    BY <1>1, Instruction DEF Running, IInv, NativeInv
<1>3. IsInterpret(Top, program) /\ Top.frame = depth /\ Top.stop < depth /\ depth \in 1 .. MaxDepth
    BY <1>2, TopInterpreter
<1>4. f \in Fns
    <2>1. Top.fn \in Fns
        BY <1>3 DEF IsInterpret, Fns
    <2> QED
        BY <1>1, <2>1, FnTypes DEF IInv, Code, Fetch
<1>5. Fn(f).registers \in Nat /\ Fn(f).locals \in Nat
    BY <1>4, FnTypes DEF IInv
<1>6. /\ depth \in Nat /\ register_top \in Nat /\ local_top \in Nat /\ RegisterFile \in Nat
      /\ MaxDepth \in Nat /\ LocalStack \in Nat /\ local_top <= LocalStack
    BY <1>3, SizesAssumption DEF IInv, StackInv
<1>7. program' = program
    BY DEF Call, Fail
<1> HIDE DEF f
<1> DEFINE saved == [frames[depth] EXCEPT !.pc = Next_pc]
<1>8. SavedPc = [k \in 1 .. MaxDepth |-> IF k = depth THEN saved ELSE frames[k]]
    BY <1>3 DEF SavedPc, IInv, StackInv
<1>9. IsFrame(saved) /\ saved.fn = frames[depth].fn /\ saved.base = frames[depth].base
      /\ saved.local = frames[depth].local
    BY <1>3 DEF IInv, StackInv, IsFrame
<1> HIDE DEF saved
<1>10. CASE \/ ~RegistersFit(Fn(f)) /\ Fail("Register file overflow")
            \/ RegistersFit(Fn(f)) /\ depth >= MaxDepth /\ Fail("Call stack overflow")
    <2>1. Plain
        BY <1>10 DEF Fail, Plain, Errors, Unwound
    <2> QED
        BY <1>1, <2>1, PlainSteps
<1>11. CASE /\ RegistersFit(Fn(f)) /\ register_top' = register_top + Fn(f).registers
            /\ error' = "Local stack overflow" /\ native' = Return
            /\ frames' = SavedPc /\ UNCHANGED <<depth, local_top>>
    <2>1. FramesSame(depth)
        <3>1. frames' = [k \in 1 .. MaxDepth |-> IF k = depth THEN saved ELSE frames[k]]
            BY <1>8, <1>11
        <3>2. \A k \in 1 .. depth : k \in 1 .. MaxDepth
            BY <1>3, <1>6
        <3>3. \A k \in 1 .. MaxDepth : IsFrame(frames[k])
            BY DEF IInv, StackInv
        <3> QED
            BY <1>7, <1>9, <3>1, <3>2, <3>3 DEF FramesSame
    <2>2. register_top' \in register_top .. RegisterFile /\ local_top' \in 0 .. LocalStack
        <3>1. /\ register_top + Fn(f).registers <= RegisterFile
              /\ register_top' = register_top + Fn(f).registers /\ local_top' = local_top
            BY <1>11 DEF RegistersFit
        <3> QED
            BY <1>5, <1>6, <3>1
    <2>3. StackInv'
        BY <1>11, <2>1, <2>2, GrowTops DEF IInv
    <2>4. Returned
        BY <1>2, <1>11, NativeSteps
    <2>5. error' \notin {None, Unwound}
        BY <1>11, NoneAssumption DEF Errors, Unwound
    <2> QED
        BY <1>7, <2>3, <2>4, <2>5, Fails
<1>12. CASE /\ RegistersFit(Fn(f)) /\ depth < MaxDepth /\ register_top' = register_top + Fn(f).registers
            /\ local + Fn(f).locals <= LocalStack /\ local_top' = local + Fn(f).locals
            /\ depth' = depth + 1
            /\ frames' = [SavedPc EXCEPT ![depth + 1] = Frame(f, register_top, local, Fetch.a)]
            /\ native' = Becoming([Top EXCEPT !.frame = depth + 1, !.fn = f, !.base = register_top, !.pc = 0])
            /\ UNCHANGED error
    <2> DEFINE item == [Top EXCEPT !.frame = depth + 1, !.fn = f, !.base = register_top, !.pc = 0]
               new == Frame(f, register_top, local, Fetch.a)
    <2>1. frames' = [k \in 1 .. MaxDepth |-> IF k = depth + 1 THEN new ELSE IF k = depth THEN saved ELSE frames[k]]
        BY <1>8, <1>12
    <2>2. IsFrame(new) /\ new.fn = f /\ new.base = register_top /\ new.local = local
        BY DEF Frame, IsFrame
    <2> HIDE DEF new
    <2>3. depth + 1 \in 1 .. MaxDepth /\ \A k \in 1 .. depth : k \in 1 .. MaxDepth /\ k # depth + 1
        BY <1>6, <1>12
    <2>4. FramesSame(depth)
        BY <1>7, <1>9, <2>1, <2>2, <2>3 DEF FramesSame, IInv, StackInv
    <2>5. frames'[depth + 1].fn = f /\ frames'[depth + 1].base = register_top /\ frames'[depth + 1].local = local
        BY <2>1, <2>2, <2>3
    <2> HIDE DEF local
    <2>6. local \in {local_top, Align(local_top)}
        BY DEF local
    <2>7. StackInv' /\ TileInv'
        BY <1>2, <1>4, <1>12, <2>4, <2>5, <2>6, PushStacks DEF IInv, RegistersFit
    <2>8. /\ IsInterpret(item, program) /\ item.stop = Top.stop /\ item.frame = depth + 1
          /\ item.fn = f /\ item.base = register_top
        <3>1. Top = [kind |-> "interpret", stop |-> Top.stop, frame |-> Top.frame, fn |-> Top.fn,
                     base |-> Top.base, pc |-> Top.pc, doing |-> Top.doing, exc |-> Top.exc]
              /\ Top.stop \in Nat
            BY <1>3 DEF IsInterpret
        <3>2. item = [kind |-> "interpret", stop |-> Top.stop, frame |-> depth + 1, fn |-> f,
                      base |-> register_top, pc |-> 0, doing |-> Top.doing, exc |-> Top.exc]
            <4>1. item = InFrame(Top, depth + 1, f, register_top, 0)
                BY DEF InFrame
            <4> HIDE DEF item
            <4> QED
                BY <1>3, <4>1, Retargeted
        <3> HIDE DEF item
        <3>3. depth + 1 \in Nat /\ f \in DOMAIN Programs[program]
            BY <1>4, <1>6 DEF Fns
        <3> QED
            BY <3>1, <3>2, <3>3 DEF IsInterpret
    <2>9. Became(item)
        BY <1>2, <1>12, NativeSteps
    <2> HIDE DEF item
    <2>10. Alike(frames, frames', Top.stop) /\ Top.stop < depth + 1
        <3>1. Top.stop \in Nat /\ \A k \in 1 .. Top.stop : k \in 1 .. depth
            BY <1>3, <1>6 DEF IsInterpret
        <3> QED
            BY <1>3, <1>6, <2>4, <3>1 DEF FramesSame, Alike
    <2>11. /\ item.frame = depth' /\ Top.stop < depth'
           /\ item.fn = frames'[depth'].fn /\ item.base = frames'[depth'].base
        BY <1>12, <2>5, <2>8, <2>10
    <2>12. error' = None
        BY <1>2, <1>12
    <2> QED
        BY <1>2, <1>7, <2>7, <2>8, <2>9, <2>10, <2>11, <2>12, Moves
<1> QED
    BY <1>10, <1>11, <1>12 DEF Call, f, local

\* RET and RET_VOID: the frame is taken off, and the interpreter returns with the last of its own.
LEMMA ReturnStep ==
    ASSUME IInv, Running("interpret"), Top.doing = <<>>, NEW result, NEW is_void, Returning(result, is_void)
    PROVE  IInv'
<1>1. error = None /\ native # <<>> /\ Top.kind = "interpret" /\ IsStack(native)
    BY Instruction DEF Running, IInv, NativeInv
<1>2. /\ IsInterpret(Top, program) /\ Top.frame = depth /\ Top.fn = frames[depth].fn
      /\ Top.stop < depth /\ depth \in 1 .. MaxDepth
    BY <1>1, TopInterpreter
<1>3. /\ UNCHANGED <<program, frames, error>> /\ depth' = depth - 1
      /\ register_top' = register_top - Fn(frames[depth].fn).registers
      /\ local_top' = frames[depth].local
    BY <1>2 DEF Returning, TopsAfter
<1>4. depth # 0 /\ depth \in Nat /\ Top.stop \in Nat
    BY <1>2, SizesAssumption DEF IsInterpret
<1>5. StackInv' /\ TileInv' /\ (depth' = 0 => register_top' = 0 /\ local_top' = 0)
    BY <1>1, <1>3, <1>4, PopStacks DEF IInv
<1>6. CASE LastFrameRan(Top.stop)
    <2>1. native' = Return
        BY <1>6 DEF Returning
    <2>2. Returned
        BY <1>1, <2>1, NativeSteps
    <2> QED
        BY <1>1, <1>3, <1>5, <1>6, <2>2, Leaves
<1>7. CASE ~LastFrameRan(Top.stop)
    <2>1. PICK d : d = depth'
        OBVIOUS
    <2>2. d = depth - 1 /\ d \in 1 .. depth /\ Top.stop < d
        BY <1>3, <1>4, <1>7, <2>1 DEF LastFrameRan
    <2> DEFINE item == InFrame(Top, d, frames[d].fn, frames[d].base, frames[d].pc)
    <2>3. native' = Becoming(item)
        BY <1>7, <2>1 DEF Returning, InFrame
    <2>4. item = [kind |-> "interpret", stop |-> Top.stop, frame |-> d, fn |-> frames[d].fn,
                  base |-> frames[d].base, pc |-> frames[d].pc, doing |-> Top.doing, exc |-> Top.exc]
        BY <1>2, Retargeted
    <2> HIDE DEF item
    <2>5. frames[d].fn \in DOMAIN Programs[program] /\ d \in Nat
        BY <2>2 DEF IInv, StackInv, Fns
    <2>6. /\ IsInterpret(item, program) /\ item.stop = Top.stop /\ item.frame = d
          /\ item.fn = frames[d].fn /\ item.base = frames[d].base
        BY <1>4, <2>4, <2>5 DEF IsInterpret
    <2>7. Became(item)
        BY <1>1, <2>3, NativeSteps
    <2>8. Alike(frames, frames', Top.stop)
        BY <1>3 DEF Alike
    <2>9. /\ item.frame = depth' /\ Top.stop < depth'
          /\ item.fn = frames'[depth'].fn /\ item.base = frames'[depth'].base
        BY <1>3, <2>1, <2>2, <2>6
    <2> QED
        BY <1>1, <1>3, <1>5, <2>6, <2>7, <2>8, <2>9, Moves
<1> QED
    BY <1>6, <1>7

\* Both returns.
LEMMA Returns ==
    ASSUME IInv, Ret \/ RetVoid
    PROVE  IInv'
BY ReturnStep DEF Ret, RetVoid, Executing

-----------------------------------------------------------------------------
(* Destruction.                                                            *)

\* The activation that runs has the shape of its kind.
LEMMA TopActivation ==
    ASSUME IInv, native # <<>>
    PROVE  /\ IsActivation(Top, program)
           /\ Top.kind = "delete" => IsDelete(Top, program)
           /\ Top.kind = "cleanup" => IsCleanup(Top, program)
<1>1. Len(native) \in 1 .. Len(native)
    BY NativeNumbered DEF IInv, Numbered
<1>2. IsActivation(Top, program)
    BY <1>1 DEF IInv, NativeInv, Top
<1> QED
    BY <1>2 DEF IsActivation, IsInterpret, IsDelete, IsCleanup

\* DELETE, which calls delete_value.
LEMMA DeleteStep ==
    ASSUME IInv, Delete
    PROVE  IInv'
<1>1. Running("interpret") /\ Top.doing = <<>> /\ At \in DOMAIN Code /\ Fetch.op = "delete"
    BY DEF Delete, Executing
<1>2. native # <<>> /\ Top.kind = "interpret" /\ IsStack(native)
    BY <1>1 DEF Running, IInv, NativeInv
<1>3. IsInterpret(Top, program)
    BY <1>2, TopInterpreter
<1>4. CASE Step
    <2>1. Plain
        BY <1>4 DEF Step, Advance, Plain
    <2> QED
        BY <1>1, <2>1, PlainSteps
<1>5. CASE ~Step
    <2> DEFINE doing == <<"delete", Fetch.a, Fn(Top.fn).descs[Fetch.desc].free>>
               item == CallAt(Top, Next_pc, doing)
               callee == DeleteValue(Target(R(Fetch.a)), Top.fn, Fetch.desc)
    <2>1. /\ native' = Calling(item, callee)
          /\ UNCHANGED <<program, stacks, error>>
        BY <1>5 DEF Delete, CallAt
    <2>2. Top.fn \in Fns /\ Fetch.desc \in DOMAIN Fn(Top.fn).descs
        <3>1. Top.fn \in Fns
            BY <1>3 DEF IsInterpret, Fns
        <3> QED
            BY <1>1, <3>1, FnTypes DEF IInv, Code, Fetch
    <2>3. IsDelete(callee, program) /\ callee.kind # "interpret"
        BY <2>2 DEF IsDelete, DeleteValue, Fns, Fn
    <2>4. doing # <<>>
        OBVIOUS
    <2> HIDE DEF doing, callee
    <2>5. item = [kind |-> "interpret", stop |-> Top.stop, frame |-> Top.frame, fn |-> Top.fn, base |-> Top.base,
                  pc |-> Next_pc, doing |-> doing, exc |-> Top.exc]
        BY <1>3, Retargeted
    <2> HIDE DEF item
    <2>6. /\ IsInterpret(item, program) /\ item.kind = "interpret" /\ item.stop = Top.stop
          /\ item.frame = Top.frame /\ item.fn = Top.fn /\ item.base = Top.base /\ item.doing # <<>>
        BY <1>3, <2>4, <2>5 DEF IsInterpret
    <2>7. Called(item, callee)
        BY <1>2, <2>1, NativeSteps
    <2>8. StacksSame /\ error' = error
        BY <2>1, StacksStay DEF IInv
    <2> QED
        BY <1>2, <2>3, <2>6, <2>7, <2>8, CallsOn DEF IsActivation
<1> QED
    BY <1>4, <1>5

\* DELETE when delete_value has returned.
LEMMA DeletedStep ==
    ASSUME IInv, Deleted
    PROVE  IInv'
<1>1. native # <<>> /\ Top.kind = "interpret" /\ IsStack(native)
    BY DEF Deleted, Running, IInv, NativeInv
<1>2. IsInterpret(Top, program)
    BY <1>1, TopInterpreter
<1>3. UNCHANGED <<program, stacks, error>>
    BY DEF Deleted, Fail
<1>4. StacksSame
    BY <1>3, StacksStay DEF IInv
<1>5. CASE error # None
    <2>1. Returned
        BY <1>1, <1>5, NativeSteps DEF Deleted, Fail
    <2>2. error' \notin {None, Unwound}
        BY <1>1, <1>3, <1>5 DEF IInv, EndInv
    <2>3. StackInv'
        BY <1>4, SameStacks DEF IInv
    <2> QED
        BY <1>3, <2>1, <2>2, <2>3, Fails
<1>6. CASE error = None
    <2> DEFINE item == [Top EXCEPT !.doing = <<>>]
    <2>1. native' = Becoming(item)
        BY <1>6 DEF Deleted
    <2>2. /\ IsInterpret(item, program) /\ item.kind = "interpret" /\ item.stop = Top.stop
          /\ item.frame = Top.frame /\ item.fn = Top.fn /\ item.base = Top.base
        BY <1>2 DEF IsInterpret
    <2> HIDE DEF item
    <2>3. Became(item)
        BY <1>1, <2>1, NativeSteps
    <2> QED
        BY <1>1, <1>3, <1>4, <1>6, <2>2, <2>3, GoesOn DEF IsActivation
<1> QED
    BY <1>5, <1>6

\* Stages of delete_value, and its calls for the elements of a list.
LEMMA DeleteGoesOn ==
    ASSUME IInv, Running("delete"), UNCHANGED <<program, stacks, error>>,
           \/ \E stage : native' = Becoming(Stage(stage))
           \/ \E i : native' = Becoming([Top EXCEPT !.i = i])
           \/ \E i, o : /\ Desc.elem # None
                        /\ native' = Calling([Top EXCEPT !.i = i], DeleteValue(o, Top.fn, Desc.elem))
           \/ native' = Return
    PROVE  IInv'
<1>1. native # <<>> /\ Top.kind = "delete" /\ IsStack(native)
    BY DEF Running, IInv, NativeInv
<1>2. IsDelete(Top, program)
    BY <1>1, TopActivation
<1>3. StacksSame
    BY StacksStay DEF IInv
<1>4. ASSUME NEW stage, native' = Becoming(Stage(stage))
      PROVE  IInv'
    <2> DEFINE item == Stage(stage)
    <2>1. IsDelete(item, program) /\ item.kind = "delete"
        BY <1>2 DEF Stage, IsDelete
    <2> HIDE DEF item
    <2>2. Became(item)
        BY <1>1, <1>4, NativeSteps DEF item
    <2> QED
        BY <1>1, <1>3, <2>1, <2>2, GoesOn DEF IsActivation
<1>5. ASSUME NEW i
      PROVE  LET item == [Top EXCEPT !.i = i] IN IsDelete(item, program) /\ item.kind = "delete"
    BY <1>2 DEF IsDelete
<1>6. ASSUME NEW i, native' = Becoming([Top EXCEPT !.i = i])
      PROVE  IInv'
    <2> DEFINE item == [Top EXCEPT !.i = i]
    <2>1. IsDelete(item, program) /\ item.kind = "delete"
        BY <1>5
    <2>2. native' = Becoming(item)
        BY <1>6
    <2> HIDE DEF item
    <2>3. Became(item)
        BY <1>1, <2>2, NativeSteps
    <2> QED
        BY <1>1, <1>3, <2>1, <2>3, GoesOn DEF IsActivation
<1>7. ASSUME NEW i, NEW o, Desc.elem # None,
             native' = Calling([Top EXCEPT !.i = i], DeleteValue(o, Top.fn, Desc.elem))
      PROVE  IInv'
    <2> DEFINE item == [Top EXCEPT !.i = i]
               callee == DeleteValue(o, Top.fn, Desc.elem)
    <2>1. IsDelete(item, program) /\ item.kind = "delete"
        BY <1>5
    <2>2. Top.fn \in Fns /\ Desc.elem \in DOMAIN Fn(Top.fn).descs
        <3>1. Top.fn \in Fns /\ Top.desc \in DOMAIN Fn(Top.fn).descs
            BY <1>2 DEF IsDelete, Fns, Fn
        <3> QED
            BY <1>7, <3>1, FnTypes DEF IInv, Desc
    <2>3. IsDelete(callee, program) /\ callee.kind # "interpret"
        BY <2>2 DEF IsDelete, DeleteValue, Fns, Fn
    <2>4. native' = Calling(item, callee)
        BY <1>7
    <2> HIDE DEF item, callee
    <2>5. Called(item, callee)
        BY <1>1, <2>4, NativeSteps
    <2> QED
        BY <1>1, <1>3, <2>1, <2>3, <2>5, CallsOn DEF IsActivation
<1>8. ASSUME native' = Return
      PROVE  IInv'
    <2>1. Returned
        BY <1>1, <1>8, NativeSteps
    <2> QED
        BY <1>1, <1>3, <2>1, ReturnsOn
<1> QED
    BY <1>4, <1>6, <1>7, <1>8

\* Every step of delete_value but the call of a destructor.
LEMMA DeleteValueSteps ==
    ASSUME IInv, DeleteNothing \/ DestroyNothing \/ DestroyList \/ DestroyElement \/ DeleteEnds
    PROVE  IInv'
<1>1. Running("delete") /\ native # <<>> /\ IsStack(native)
    BY DEF DeleteNothing, DestroyNothing, DestroyList, DestroyElement, DeleteEnds, Running, IInv, NativeInv
<1>2. UNCHANGED <<program, stacks>>
    BY DEF DeleteNothing, DestroyNothing, DestroyList, DestroyElement, DeleteEnds, Fail
<1>3. ASSUME native' = Return, error' = error \/ error' \in Errors \ {Unwound}
      PROVE  IInv'
    <2>1. CASE error' = error
        BY <1>1, <1>2, <1>3, <2>1, DeleteGoesOn
    <2>2. CASE error' \in Errors \ {Unwound}
        <3>1. error' \notin {None, Unwound}
            BY <2>2, NoneAssumption
        <3>2. StackInv'
            BY <1>2, StacksStay, SameStacks DEF IInv
        <3>3. Returned
            BY <1>1, <1>3, NativeSteps
        <3> QED
            BY <1>2, <3>1, <3>2, <3>3, Fails
    <2> QED
        BY <1>3, <2>1, <2>2
<1>4. CASE DeleteNothing
    BY <1>3, <1>4 DEF DeleteNothing
<1>5. CASE DestroyNothing
    BY <1>1, <1>5, DeleteGoesOn DEF DestroyNothing
<1>6. CASE DestroyList
    <2>1. CASE native' = Return
        BY <1>3, <1>6, <2>1 DEF DestroyList, Fail, Errors, Unwound
    <2>2. CASE native' = Becoming(Stage("elements")) /\ error' = error
        BY <1>1, <1>2, <2>2, DeleteGoesOn
    <2> QED
        BY <1>6, <2>1, <2>2 DEF DestroyList, Fail
<1>7. CASE DestroyElement
    <2>1. error' = error
        BY <1>7 DEF DestroyElement
    <2>2. CASE Desc.elem # None /\ Top.i < Len(heap[Top.ptr].slots)
        <3>1. \/ native' = Becoming([Top EXCEPT !.i = Top.i + 1])
              \/ native' = Calling([Top EXCEPT !.i = Top.i + 1], DeleteValue(Target(Element), Top.fn, Desc.elem))
            BY <1>7, <2>2 DEF DestroyElement
        <3> QED
            BY <1>1, <1>2, <2>1, <2>2, <3>1, DeleteGoesOn
    <2>3. CASE native' = Becoming(Stage("end"))
        BY <1>1, <1>2, <2>1, <2>3, DeleteGoesOn
    <2> QED
        BY <1>7, <2>2, <2>3 DEF DestroyElement
<1>8. CASE DeleteEnds
    BY <1>3, <1>8 DEF DeleteEnds, FreeError, Errors, Borrowed, Unwound
<1> QED
    BY <1>4, <1>5, <1>6, <1>7, <1>8

\* A destructor is called, in a frame behind all there are, or not for want of room.
LEMMA DestroyStep ==
    ASSUME IInv, Destroy, Contained
    PROVE  IInv'
<1> DEFINE f == Desc.fn
<1>1. Running("delete") /\ native # <<>> /\ Top.kind = "delete" /\ IsStack(native) /\ error = None
    BY DEF Destroy, NothingToDelete, Running, IInv, NativeInv
<1>2. IsDelete(Top, program)
    BY <1>1, TopActivation
<1>3. f \in Fns
    <2>1. Top.fn \in Fns /\ Top.desc \in DOMAIN Fn(Top.fn).descs
        BY <1>2 DEF IsDelete, Fns, Fn
    <2> QED
        BY <2>1, FnTypes DEF IInv, Destroy, Desc
<1>4. Fn(f).registers \in Nat /\ Fn(f).locals \in Nat
    BY <1>3, FnTypes DEF IInv
<1>5. program' = program /\ error' = error
    BY DEF Destroy
<1> HIDE DEF f
<1>6. CASE native' = Becoming(Stage("end")) /\ UNCHANGED stacks
    BY <1>1, <1>5, <1>6, DeleteGoesOn
<1>7. CASE /\ RegistersFit(Fn(f)) /\ depth < MaxDepth /\ register_top' = register_top + Fn(f).registers
           /\ local_top' = local_top + Fn(f).locals /\ depth' = depth + 1
           /\ frames' = [frames EXCEPT ![depth + 1] = Frame(f, register_top, local_top, 0)]
           /\ native' = Calling(Stage("end"), Interpret(depth, depth + 1, f, register_top))
    <2> DEFINE item == Stage("end")
               callee == Interpret(depth, depth + 1, f, register_top)
               new == Frame(f, register_top, local_top, 0)
    <2>1. /\ depth \in Nat /\ register_top \in Nat /\ local_top \in Nat /\ MaxDepth \in Nat
        BY SizesAssumption DEF IInv, StackInv
    <2>2. frames' = [k \in 1 .. MaxDepth |-> IF k = depth + 1 THEN new ELSE frames[k]]
        BY <1>7 DEF IInv, StackInv
    <2>3. IsFrame(new) /\ new.fn = f /\ new.base = register_top /\ new.local = local_top
        BY DEF Frame, IsFrame
    <2> HIDE DEF new
    <2>4. depth + 1 \in 1 .. MaxDepth /\ \A k \in 1 .. depth : k \in 1 .. MaxDepth /\ k # depth + 1
        BY <1>7, <2>1
    <2>5. FramesSame(depth) /\ Alike(frames, frames', depth)
        BY <1>5, <2>2, <2>3, <2>4 DEF FramesSame, Alike, IInv, StackInv
    <2>6. frames'[depth + 1].fn = f /\ frames'[depth + 1].base = register_top /\ frames'[depth + 1].local = local_top
        BY <2>2, <2>3, <2>4
    <2>7. local_top + Fn(f).locals <= LocalStack
        BY <1>7 DEF Contained
    <2>8. StackInv' /\ TileInv'
        <3>1. local_top \in {local_top, Align(local_top)}
            OBVIOUS
        <3> QED
            BY <1>1, <1>3, <1>7, <2>5, <2>6, <2>7, <3>1, PushStacks DEF IInv, RegistersFit
    <2>9. IsDelete(item, program)
        BY <1>2 DEF Stage, IsDelete
    <2>10. /\ IsInterpret(callee, program) /\ callee.stop = depth /\ callee.frame = depth + 1
           /\ callee.fn = f /\ callee.base = register_top
        BY <1>3, <2>1 DEF Interpret, IsInterpret, Fns
    <2>11. native' = Calling(item, callee)
        BY <1>7
    <2> HIDE DEF item, callee
    <2>12. Called(item, callee)
        BY <1>1, <2>11, NativeSteps
    <2>13. /\ error' = None /\ depth' = depth + 1
           /\ callee.fn = frames'[depth + 1].fn /\ callee.base = frames'[depth + 1].base
        BY <1>1, <1>5, <1>7, <2>6, <2>10
    <2> QED
        BY <1>1, <1>5, <2>5, <2>8, <2>9, <2>10, <2>12, <2>13, Enters
<1> QED
    BY <1>6, <1>7 DEF Destroy, Room, f

-----------------------------------------------------------------------------
(* Exceptions.                                                             *)

\* THROW, up to where the search for a handler begins.
LEMMA ThrowStep ==
    ASSUME IInv, Throw
    PROVE  IInv'
<1>1. Running("interpret") /\ Top.doing = <<>>
    BY DEF Throw, Executing
<1>2. error = None /\ native # <<>> /\ Top.kind = "interpret" /\ IsStack(native)
    BY <1>1, Instruction DEF Running, IInv, NativeInv
<1>3. IsInterpret(Top, program) /\ Top.frame = depth /\ depth \in 1 .. MaxDepth
    BY <1>2, TopInterpreter
<1>4. CASE R(Fetch.a) = None \/ in_flight # None
    <2>1. Plain
        BY <1>4 DEF Throw, Fail, Plain, Errors, Unwound, DoubleThrow, stacks
    <2> QED
        BY <1>1, <2>1, PlainSteps
<1>5. CASE ~(R(Fetch.a) = None \/ in_flight # None)
    <2> DEFINE exc == Target(R(Fetch.a))
               item == ThrowAt(Top, Next_pc, <<"search">>, exc)
    <2>1. /\ native' = Becoming(item) /\ frames' = SavedPc
          /\ UNCHANGED <<program, depth, register_top, local_top, error>>
        BY <1>5 DEF Throw, Fail, ThrowAt
    <2>2. StacksSame
        BY <1>3, <2>1, SavedPcSame DEF SavedPc, IInv
    <2> HIDE DEF exc
    <2>3. item = [kind |-> "interpret", stop |-> Top.stop, frame |-> Top.frame, fn |-> Top.fn, base |-> Top.base,
                  pc |-> Next_pc, doing |-> <<"search">>, exc |-> exc]
        BY <1>3, Retargeted
    <2> HIDE DEF item
    <2>4. /\ IsInterpret(item, program) /\ item.kind = "interpret" /\ item.stop = Top.stop
          /\ item.frame = Top.frame /\ item.fn = Top.fn /\ item.base = Top.base
        BY <1>3, <2>3 DEF IsInterpret
    <2>5. Became(item)
        BY <1>2, <2>1, NativeSteps
    <2> QED
        BY <1>2, <2>1, <2>2, <2>4, <2>5, GoesOn DEF IsActivation
<1> QED
    BY <1>4, <1>5

\* The search in one frame, and the call of execute_cleanup.
LEMMA SearchHandlerStep ==
    ASSUME IInv, SearchHandler
    PROVE  IInv'
<1>1. native # <<>> /\ Top.kind = "interpret" /\ IsStack(native)
    BY DEF SearchHandler, Unwinding, Running, IInv, NativeInv
<1>2. IsInterpret(Top, program)
    BY <1>1, TopInterpreter
<1>3. UNCHANGED <<program, stacks, error>>
    BY DEF SearchHandler
<1>4. StacksSame
    BY <1>3, StacksStay DEF IInv
<1>5. PICK doing, to : doing # <<>> /\ native' = Calling([Top EXCEPT !.doing = doing], ExecuteCleanup(Top, to))
    <2> DEFINE handlers == Fn(Top.fn).handlers
               catching == {k \in 1 .. Len(handlers) :
                               Catches(handlers[k], frames[Top.frame].pc, heap[Top.exc].type)}
               h == handlers[Oldest(catching)]
    <2>1. native' = IF catching = {}
                    THEN Calling([Top EXCEPT !.doing = <<"leave">>], ExecuteCleanup(Top, None))
                    ELSE Calling([Top EXCEPT !.doing = <<"land", h>>], ExecuteCleanup(Top, h.at))
        BY DEF SearchHandler
    <2> HIDE DEF h, catching
    <2>2. <<"leave">> # <<>> /\ <<"land", h>> # <<>>
        OBVIOUS
    <2>3. CASE catching = {}
        BY <2>1, <2>2, <2>3
    <2>4. CASE catching # {}
        BY <2>1, <2>2, <2>4
    <2> QED
        BY <2>3, <2>4
<1> DEFINE item == [Top EXCEPT !.doing = doing]
           callee == ExecuteCleanup(Top, to)
<1>6. /\ IsInterpret(item, program) /\ item.kind = "interpret" /\ item.stop = Top.stop
      /\ item.frame = Top.frame /\ item.fn = Top.fn /\ item.base = Top.base /\ item.doing # <<>>
    BY <1>2, <1>5 DEF IsInterpret
<1>7. IsCleanup(callee, program) /\ callee.kind # "interpret"
    <2>1. Top.fn \in Fns
        BY <1>2 DEF IsInterpret, Fns
    <2>2. Len(Fn(Top.fn).records) \in Nat
        BY <2>1, FnTypes DEF IInv
    <2> QED
        BY <2>1, <2>2 DEF IsCleanup, ExecuteCleanup, Fns, Fn
<1>8. native' = Calling(item, callee)
    BY <1>5
<1> HIDE DEF item, callee
<1>9. Called(item, callee)
    BY <1>1, <1>8, NativeSteps
<1> QED
    BY <1>1, <1>3, <1>4, <1>6, <1>7, <1>9, CallsOn DEF IsActivation

\* A destructor failed while the frame was cleaned up.
LEMMA CleanupFailedStep ==
    ASSUME IInv, CleanupFailed
    PROVE  IInv'
<1>1. native # <<>> /\ IsStack(native) /\ native' = Return
    BY DEF CleanupFailed, Unwinding, Running, IInv, NativeInv
<1>2. UNCHANGED <<program, stacks, error>> /\ error # None
    BY DEF CleanupFailed
<1>3. StackInv'
    BY <1>2, StacksStay, SameStacks DEF IInv
<1>4. Returned
    BY <1>1, NativeSteps
<1>5. error' \notin {None, Unwound}
    BY <1>1, <1>2 DEF IInv, EndInv
<1> QED
    BY <1>2, <1>3, <1>4, <1>5, Fails

\* A handler was found: the interpreter goes on in the frame that has it.
LEMMA LandStep ==
    ASSUME IInv, Land
    PROVE  IInv'
<1>1. native # <<>> /\ Top.kind = "interpret" /\ IsStack(native) /\ error = None
    BY DEF Land, Unwinding, Running, IInv, NativeInv
<1>2. IsInterpret(Top, program) /\ Top.frame = depth
    BY <1>1, TopInterpreter
<1>3. UNCHANGED <<program, stacks, error>>
    BY DEF Land
<1>4. StacksSame
    BY <1>3, StacksStay DEF IInv
<1> DEFINE item == LandIn(Top, depth, <<>>, Top.doing[2].at)
<1>5. native' = Becoming(item)
    BY DEF Land, LandIn
<1>6. item = [kind |-> "interpret", stop |-> Top.stop, frame |-> depth, fn |-> Top.fn, base |-> Top.base,
              pc |-> Top.doing[2].at, doing |-> <<>>, exc |-> Top.exc]
    BY <1>2, Retargeted
<1> HIDE DEF item
<1>7. /\ IsInterpret(item, program) /\ item.kind = "interpret" /\ item.stop = Top.stop
      /\ item.frame = Top.frame /\ item.fn = Top.fn /\ item.base = Top.base
    BY <1>2, <1>6 DEF IsInterpret
<1>8. Became(item)
    BY <1>1, <1>5, NativeSteps
<1> QED
    BY <1>1, <1>3, <1>4, <1>7, <1>8, GoesOn DEF IsActivation

\* The end of THROW's loop: the frame is taken off, and the search goes on in the one below it,
\* which is of the same interpreter.
LEMMA LeaveStep ==
    ASSUME IInv, Leave, Contained
    PROVE  IInv'
<1>1. native # <<>> /\ Top.kind = "interpret" /\ IsStack(native) /\ error = None
    BY DEF Leave, Unwinding, Running, IInv, NativeInv
<1>2. /\ IsInterpret(Top, program) /\ Top.fn = frames[depth].fn
      /\ Top.stop < depth /\ depth \in 1 .. MaxDepth
    BY <1>1, TopInterpreter
<1>3. /\ UNCHANGED <<program, frames>> /\ depth' = depth - 1
      /\ register_top' = register_top - Fn(frames[depth].fn).registers
      /\ local_top' = frames[depth].local
    BY <1>2 DEF Leave
<1>4. depth # 0 /\ depth \in Nat /\ Top.stop \in Nat /\ (Top.stop = 0 \/ depth - 1 > Top.stop)
    BY <1>2, SizesAssumption DEF IsInterpret, Contained
<1>5. StackInv' /\ TileInv' /\ (depth' = 0 => register_top' = 0 /\ local_top' = 0)
    BY <1>1, <1>3, <1>4, PopStacks DEF IInv
<1>6. CASE depth' = 0
    <2>1. Returned
        BY <1>1, <1>6, NativeSteps DEF Leave
    <2>2. Top.stop = 0
        BY <1>3, <1>4, <1>6
    <2>3. Len(native) = 1
        <3>1. Numbered(native) /\ Nest(native, frames, depth)
            BY <1>1, NativeNumbered DEF IInv, NestInv
        <3>2. Len(native) \in Active(native) /\ Len(native) \in Nat \ {0}
            BY <1>1, TopInterpreter DEF Active, Numbered
        <3>3. 1 \in Active(native) /\ native[1].stop = 0
            BY <3>2 DEF Active, IInv, NativeInv
        <3>4. native[1].frame \in Nat /\ 0 < native[1].frame
            BY <3>1, <3>3 DEF Nest, Numbered
        <3>5. 1 < Len(native) => native[1].frame <= Top.stop
            BY <3>1, <3>2, <3>3 DEF Nest, Top
        <3>6. ~(1 < Len(native))
            BY <2>2, <3>4, <3>5
        <3> DEFINE n == Len(native)
        <3>7. n \in Nat \ {0} /\ ~(1 < n)
            BY <3>2, <3>6
        <3> HIDE DEF n
        <3>8. n = 1
            BY <3>7
        <3> QED
            BY <3>8 DEF n
    <2>4. native' = <<>>
        BY <1>3, <2>1, <2>3, NativeReturned DEF IInv
    <2> QED
        BY <1>5, <1>6, <2>4, Empty
<1>7. CASE depth' # 0
    <2>1. PICK d : d = depth'
        OBVIOUS
    <2>2. d = depth - 1 /\ d \in 1 .. depth /\ Top.stop < d
        BY <1>3, <1>4, <1>7, <2>1
    <2> DEFINE item == SearchIn(Top, d, frames[d].fn, frames[d].base, <<"search">>)
    <2>3. native' = Becoming(item) /\ error' = error
        BY <1>7, <2>1 DEF Leave, SearchIn
    <2>4. item = [kind |-> "interpret", stop |-> Top.stop, frame |-> d, fn |-> frames[d].fn,
                  base |-> frames[d].base, pc |-> Top.pc, doing |-> <<"search">>, exc |-> Top.exc]
        BY <1>2, Retargeted
    <2> HIDE DEF item
    <2>5. frames[d].fn \in DOMAIN Programs[program] /\ d \in Nat
        BY <2>2 DEF IInv, StackInv, Fns
    <2>6. /\ IsInterpret(item, program) /\ item.stop = Top.stop /\ item.frame = d
          /\ item.fn = frames[d].fn /\ item.base = frames[d].base
        BY <1>4, <2>4, <2>5 DEF IsInterpret
    <2>7. Became(item)
        BY <1>1, <2>3, NativeSteps
    <2>8. Alike(frames, frames', Top.stop)
        BY <1>3 DEF Alike
    <2>9. /\ item.frame = depth' /\ Top.stop < depth'
          /\ item.fn = frames'[depth'].fn /\ item.base = frames'[depth'].base
        BY <1>3, <2>1, <2>2, <2>6
    <2> QED
        BY <1>1, <1>3, <1>5, <2>3, <2>6, <2>7, <2>8, <2>9, Moves
<1> QED
    BY <1>6, <1>7

-----------------------------------------------------------------------------
(* Cleanup.                                                                *)

\* The head of a group of records is one of them.
LEMMA HeadIsThere ==
    ASSUME NEW i \in Nat \ {0}
    PROVE  HeadOf(i) \in 1 .. i
<1> DEFINE T == {h \in 1 .. i : \A k \in h + 1 .. i : Records[k].extends}
<1>1. i \in T /\ T \in SUBSET Nat
    OBVIOUS
<1>2. PICK m \in T : \A h \in T : m <= h
    <2> HIDE DEF T
    <2> QED
        BY <1>1, LeastNumber
<1>3. m = 1 \/ ~Records[m].extends
    <2> SUFFICES ASSUME m # 1, Records[m].extends
                 PROVE  FALSE
        OBVIOUS
    <2>1. m - 1 \in 1 .. i /\ \A k \in m - 1 + 1 .. i : k = m \/ k \in m + 1 .. i
        OBVIOUS
    <2>2. m - 1 \in T
        BY <2>1
    <2> QED
        BY <1>2, <2>2
<1>4. \E h \in 1 .. i : /\ h = 1 \/ ~Records[h].extends
                        /\ \A k \in h + 1 .. i : Records[k].extends
    BY <1>3
<1> QED
    BY <1>4 DEF HeadOf

\* What execute_cleanup's activation becomes after a group of records.
LEMMA PastGroupShape ==
    ASSUME IInv, Running("cleanup"), Top.i > 0
    PROVE  /\ HeadOf(Top.i) \in 1 .. Len(Fn(Top.fn).records) /\ Top.fn \in Fns
           /\ IsCleanup(PastGroup, program) /\ PastGroup.kind = "cleanup"
           /\ \A reg : LET item == [PastGroup EXCEPT !.reg = reg]
                       IN  IsCleanup(item, program) /\ item.kind = "cleanup"
<1>1. IsCleanup(Top, program) /\ Top.fn \in Fns
    <2>1. IsCleanup(Top, program)
        BY TopActivation DEF Running
    <2> QED
        BY <2>1 DEF IsCleanup, Fns
<1> DEFINE n == Len(Fn(Top.fn).records)
           h == HeadOf(Top.i)
<1>2. n \in Nat /\ Top.i \in 0 .. n
    BY <1>1, FnTypes DEF IInv, IsCleanup, Fn
<1>3. Top.i \in Nat \ {0}
    BY <1>2
<1>4. h \in 1 .. Top.i
    BY <1>3, HeadIsThere
<1> HIDE DEF n
<1>5. h \in 1 .. n /\ h - 1 \in 0 .. n
    BY <1>2, <1>3, <1>4
<1>6. PastGroup = [Top EXCEPT !.i = h - 1]
    BY DEF PastGroup
<1> HIDE DEF h
<1>7. PastGroup = [kind |-> "cleanup", fn |-> Top.fn, base |-> Top.base, at |-> Top.at, to |-> Top.to,
                   i |-> h - 1, reg |-> Top.reg]
    BY <1>1, <1>6 DEF IsCleanup
<1>8. IsCleanup(PastGroup, program) /\ PastGroup.kind = "cleanup"
    BY <1>1, <1>5, <1>7 DEF IsCleanup, Fns, Fn, n
<1>9. ASSUME NEW reg
      PROVE  IsCleanup([PastGroup EXCEPT !.reg = reg], program) /\ [PastGroup EXCEPT !.reg = reg].kind = "cleanup"
    BY <1>8 DEF IsCleanup
<1> QED
    BY <1>1, <1>5, <1>8, <1>9 DEF n, h

\* The groups of records that execute_cleanup deals with itself.
LEMMA CleanupSteps ==
    ASSUME IInv, CleanupSkips \/ CleanupReleases \/ CleanupUnpins \/ CleanupDeleted
    PROVE  IInv'
<1>1. Running("cleanup") /\ native # <<>> /\ Top.kind = "cleanup" /\ IsStack(native)
    BY DEF CleanupSkips, CleanupReleases, CleanupUnpins, CleanupDeleted, Cleaning, Running, IInv, NativeInv
<1>2. UNCHANGED <<program, stacks>>
    BY DEF CleanupSkips, CleanupReleases, CleanupUnpins, CleanupDeleted
<1>3. StacksSame
    BY <1>2, StacksStay DEF IInv
<1>4. error' = error \/ error' \notin {None, Unwound}
    <2>1. Underflow \notin {None, Unwound}
        BY NoneAssumption DEF Errors, Underflow, Unwound
    <2> QED
        BY <2>1 DEF CleanupSkips, CleanupReleases, CleanupUnpins, CleanupDeleted
<1>5. ASSUME NEW item, native' = Becoming(item), IsCleanup(item, program), item.kind = "cleanup"
      PROVE  IInv'
    <2>1. Became(item)
        BY <1>1, <1>5, NativeSteps
    <2> QED
        BY <1>1, <1>3, <1>4, <1>5, <2>1, GoesOn DEF IsActivation
<1>6. CASE CleanupSkips \/ CleanupReleases \/ CleanupUnpins
    <2>1. native' = Becoming(PastGroup) /\ Top.i > 0
        BY <1>6 DEF CleanupSkips, CleanupReleases, CleanupUnpins, Cleaning, Continued
    <2> QED
        BY <1>1, <1>5, <2>1, PastGroupShape
<1>7. CASE CleanupDeleted
    <2> DEFINE item == [Top EXCEPT !.reg = None]
    <2>1. IsCleanup(Top, program)
        BY <1>1, TopActivation
    <2>2. IsCleanup(item, program) /\ item.kind = "cleanup"
        BY <2>1 DEF IsCleanup
    <2>3. native' = Becoming(item)
        BY <1>7 DEF CleanupDeleted
    <2> HIDE DEF item
    <2> QED
        BY <1>5, <2>2, <2>3
<1> QED
    BY <1>6, <1>7

\* A group that owns a value: delete_value is called with its descriptor.
LEMMA CleanupDeletesStep ==
    ASSUME IInv, CleanupDeletes
    PROVE  IInv'
<1>1. Running("cleanup") /\ native # <<>> /\ Top.kind = "cleanup" /\ IsStack(native) /\ Top.i > 0
    BY DEF CleanupDeletes, Cleaning, Running, IInv, NativeInv
<1>2. UNCHANGED <<program, stacks, error>>
    BY DEF CleanupDeletes
<1>3. StacksSame
    BY <1>2, StacksStay DEF IInv
<1> DEFINE record == Records[HeadOf(Top.i)]
           item == [PastGroup EXCEPT !.reg = record.reg]
           callee == DeleteValue(Target(R(record.reg)), Top.fn, record.desc)
<1>4. native' = Calling(item, callee) /\ record.kind = "Delete"
    BY DEF CleanupDeletes
<1>5. IsCleanup(item, program) /\ item.kind = "cleanup"
    BY <1>1, PastGroupShape
<1>6. Top.fn \in Fns /\ record.desc \in DOMAIN Fn(Top.fn).descs
    <2>1. HeadOf(Top.i) \in 1 .. Len(Fn(Top.fn).records) /\ Top.fn \in Fns
        BY <1>1, PastGroupShape
    <2> QED
        BY <1>4, <2>1, FnTypes DEF IInv, Records
<1> HIDE DEF record
<1>7. IsDelete(callee, program) /\ callee.kind # "interpret"
    BY <1>6 DEF IsDelete, DeleteValue, Fns, Fn
<1> HIDE DEF item, callee
<1>8. Called(item, callee)
    BY <1>1, <1>4, NativeSteps
<1> QED
    BY <1>1, <1>2, <1>3, <1>5, <1>7, <1>8, CallsOn DEF IsActivation

\* execute_cleanup returns.
LEMMA CleanupEndsStep ==
    ASSUME IInv, CleanupEnds
    PROVE  IInv'
<1>1. native # <<>> /\ Top.kind = "cleanup" /\ IsStack(native) /\ native' = Return
    BY DEF CleanupEnds, Running, IInv, NativeInv
<1>2. UNCHANGED <<program, stacks, error>>
    BY DEF CleanupEnds
<1>3. StacksSame
    BY <1>2, StacksStay DEF IInv
<1>4. Returned
    BY <1>1, NativeSteps
<1> QED
    BY <1>1, <1>2, <1>3, <1>4, ReturnsOn

-----------------------------------------------------------------------------
(* The embedding program.                                                  *)

\* vm_call_index: the first frame, of an interpreter that no other called.
LEMMA VmCallStep ==
    ASSUME IInv, VmCall
    PROVE  IInv'
<1> DEFINE f == "main"
           local == Align(local_top)
<1>1. native = <<>> /\ error = None /\ program' = program
    BY DEF VmCall
<1>2. depth = 0 /\ register_top = 0 /\ local_top = 0
    BY <1>1 DEF IInv, EndInv, Finished
<1>3. f \in Fns
    BY ProgramsAssumption DEF IInv, StackInv, Fns
<1>4. Fn(f).registers \in Nat /\ Fn(f).locals \in Nat
    BY <1>3, FnTypes DEF IInv
<1>5. MaxDepth \in Nat \ {0} /\ RegisterFile \in Nat /\ LocalStack \in Nat
    BY SizesAssumption
<1>6. local \in Nat /\ local \in {local_top, Align(local_top)}
    BY <1>2, Aligned
<1>7. frames' = frames => FramesSame(depth)
    BY <1>1 DEF FramesSame, IInv, StackInv
<1>8. "Register file overflow" \notin {None, Unwound} /\ "Local stack overflow" \notin {None, Unwound}
      /\ "Call stack overflow" \notin {None, Unwound}
    BY NoneAssumption DEF Errors, Unwound
<1> HIDE DEF local, f
<1>9. CASE ~RegistersFit(Fn(f)) /\ error' = "Register file overflow" /\ UNCHANGED <<stacks, native>>
    <2>1. StackInv'
        BY <1>1, <1>9, StacksStay, SameStacks DEF IInv
    <2> QED
        BY <1>1, <1>8, <1>9, <2>1, NotCalled
<1>10. CASE /\ RegistersFit(Fn(f)) /\ register_top' = register_top + Fn(f).registers
            /\ error' \in {"Local stack overflow", "Call stack overflow"}
            /\ UNCHANGED <<frames, depth, native>>
            /\ local_top' = local_top \/ (local + Fn(f).locals <= LocalStack /\ local_top' = local + Fn(f).locals)
    <2>1. register_top' \in register_top .. RegisterFile
        <3>1. register_top + Fn(f).registers <= RegisterFile /\ register_top' = register_top + Fn(f).registers
            BY <1>10 DEF RegistersFit
        <3> QED
            BY <1>2, <1>4, <1>5, <3>1
    <2>3. local_top' \in 0 .. LocalStack
        <3>1. local_top' = local_top \/ (local + Fn(f).locals <= LocalStack /\ local_top' = local + Fn(f).locals)
            BY <1>10
        <3> QED
            BY <1>2, <1>4, <1>5, <1>6, <3>1
    <2>2. StackInv'
        BY <1>7, <1>10, <2>1, <2>3, GrowTops DEF IInv
    <2> QED
        BY <1>1, <1>8, <1>10, <2>2, NotCalled
<1>11. CASE /\ RegistersFit(Fn(f)) /\ register_top' = register_top + Fn(f).registers
            /\ local + Fn(f).locals <= LocalStack /\ local_top' = local + Fn(f).locals
            /\ depth' = depth + 1
            /\ frames' = [frames EXCEPT ![depth + 1] = Frame(f, register_top, local, 0)]
            /\ native' = <<Interpret(0, depth + 1, f, register_top)>>
            /\ UNCHANGED error
    <2> DEFINE item == Interpret(0, depth + 1, f, register_top)
               new == Frame(f, register_top, local, 0)
    <2>1. frames' = [k \in 1 .. MaxDepth |-> IF k = 1 THEN new ELSE frames[k]]
        <3>1. depth + 1 = 1
            BY <1>2
        <3>2. frames = [k \in 1 .. MaxDepth |-> frames[k]]
            BY DEF IInv, StackInv
        <3>3. frames' = [frames EXCEPT ![depth + 1] = new]
            BY <1>11
        <3> HIDE DEF new
        <3> QED
            BY <3>1, <3>2, <3>3
    <2>2. IsFrame(new) /\ new.fn = f /\ new.base = register_top /\ new.local = local
        BY DEF Frame, IsFrame
    <2> HIDE DEF new
    <2>3. FramesSame(depth)
        BY <1>1, <1>2, <2>1, <2>2 DEF FramesSame, IInv, StackInv
    <2>4. frames'[depth + 1].fn = f /\ frames'[depth + 1].base = register_top /\ frames'[depth + 1].local = local
        BY <1>2, <1>5, <2>1, <2>2
    <2>5. StackInv' /\ TileInv'
        <3>1. depth < MaxDepth
            BY <1>2, <1>5
        <3> QED
            BY <1>1, <1>3, <1>6, <1>11, <2>3, <2>4, <3>1, PushStacks DEF IInv, RegistersFit
    <2>6. /\ IsInterpret(item, program) /\ item.stop = 0 /\ item.frame = depth + 1
          /\ item.fn = f /\ item.base = register_top
        BY <1>2, <1>3 DEF Interpret, IsInterpret, Fns
    <2>7. native' = <<item>>
        BY <1>11
    <2> HIDE DEF item
    <2>8. error' = None /\ depth' = depth + 1
          /\ item.fn = frames'[depth + 1].fn /\ item.base = frames'[depth + 1].base
        BY <1>1, <1>11, <2>4, <2>6
    <2> QED
        BY <1>1, <2>5, <2>6, <2>7, <2>8, Begins
<1> QED
    BY <1>9, <1>10, <1>11 DEF VmCall, f, local

\* clear_error, and a step of something else.
LEMMA OtherSteps ==
    ASSUME IInv, UNCHANGED vars \/ (ClearError /\ Cleared \subseteq {Unwound})
    PROVE  IInv'
<1>1. UNCHANGED <<program, stacks, native>>
    BY DEF vars, ClearError
<1>2. StackInv' /\ (error' = error => TileInv')
    BY <1>1, StacksStay, SameStacks DEF IInv
<1>3. CASE UNCHANGED vars
    <2>1. error' = error /\ frames' = frames /\ depth' = depth /\ register_top' = register_top
          /\ local_top' = local_top
        BY <1>3 DEF vars, stacks
    <2>2. NativeInv' /\ NestInv' /\ EndInv'
        BY <1>1, <2>1 DEF IInv, NativeInv, NestInv, EndInv, Finished
    <2> QED
        BY <1>2, <2>1, <2>2 DEF IInv
<1>4. CASE ClearError /\ Cleared \subseteq {Unwound}
    <2>1. native = <<>> /\ error = Unwound
        BY <1>4 DEF ClearError
    <2>2. depth = 0 /\ register_top = 0 /\ local_top = 0
        BY <2>1 DEF IInv, EndInv, Finished
    <2> QED
        BY <1>1, <1>2, <2>1, <2>2, Empty DEF stacks
<1> QED
    BY <1>3, <1>4

-----------------------------------------------------------------------------
(* The theorems.                                                           *)

\* A VM starts with empty stacks.
LEMMA Initially ==
    ASSUME Init
    PROVE  IInv
<1>1. /\ depth = 0 /\ register_top = 0 /\ local_top = 0 /\ native = <<>>
      /\ program \in DOMAIN Programs /\ frames = [k \in 1 .. MaxDepth |-> NoFrame]
    BY DEF Init
<1>2. StackInv
    <2>1. \A k \in 1 .. MaxDepth : frames[k] = NoFrame
        BY <1>1
    <2>2. IsFrame(NoFrame)
        BY DEF IsFrame, NoFrame
    <2>3. \A k \in 1 .. MaxDepth : IsFrame(frames[k])
        BY <2>1, <2>2
    <2> QED
        BY <1>1, <2>3, SizesAssumption DEF StackInv
<1>3. TileInv
    BY <1>1 DEF TileInv, FramesTile
<1>4. Len(native) = 0 /\ Active(native) = {} /\ IsStack(native)
    BY <1>1 DEF Active, IsStack
<1>5. NativeInv
    BY <1>1, <1>4 DEF NativeInv
<1>6. NestInv
    BY <1>4 DEF NestInv, Nest
<1>7. EndInv
    BY <1>1 DEF EndInv
<1> QED
    BY <1>2, <1>3, <1>5, <1>6, <1>7 DEF IInv

\* Every step keeps the invariant.
LEMMA Inductive ==
    ASSUME Cleared \subseteq {Unwound}, IInv, [Next]_vars, [Contained]_vars
    PROVE  IInv'
<1>1. CASE UNCHANGED vars
    BY <1>1, OtherSteps
<1>2. CASE Next /\ Contained
    <2>1. CASE \/ Load \/ Move \/ Jump \/ Branch \/ Divide \/ New \/ DelObj \/ RefInc \/ RefDec
               \/ Pin \/ Unpin \/ Push \/ Index \/ GetSlot \/ SetSlot
        BY <2>1, PlainInstructions
    <2>2. CASE Call
        BY <2>2, CallStep
    <2>3. CASE Ret \/ RetVoid
        BY <2>3, Returns
    <2>4. CASE Delete
        BY <2>4, DeleteStep
    <2>5. CASE Deleted
        BY <2>5, DeletedStep
    <2>6. CASE DeleteNothing \/ DestroyNothing \/ DestroyList \/ DestroyElement \/ DeleteEnds
        BY <2>6, DeleteValueSteps
    <2>7. CASE Destroy
        BY <1>2, <2>7, DestroyStep
    <2>8. CASE Throw
        BY <2>8, ThrowStep
    <2>9. CASE SearchHandler
        BY <2>9, SearchHandlerStep
    <2>10. CASE CleanupFailed
        BY <2>10, CleanupFailedStep
    <2>11. CASE Land
        BY <2>11, LandStep
    <2>12. CASE Leave
        BY <1>2, <2>12, LeaveStep
    <2>13. CASE CleanupSkips \/ CleanupReleases \/ CleanupUnpins \/ CleanupDeleted
        BY <2>13, CleanupSteps
    <2>14. CASE CleanupDeletes
        BY <2>14, CleanupDeletesStep
    <2>15. CASE CleanupEnds
        BY <2>15, CleanupEndsStep
    <2>16. CASE VmCall
        BY <2>16, VmCallStep
    <2>17. CASE ClearError \/ Idle
        BY <2>17, OtherSteps DEF Idle
    <2> QED
        BY <1>2, <2>1, <2>2, <2>3, <2>4, <2>5, <2>6, <2>7, <2>8, <2>9, <2>10, <2>11, <2>12, <2>13,
           <2>14, <2>15, <2>16, <2>17 DEF Next, Interpreting
<1> QED
    BY <1>1, <1>2

\* The invariant holds of any module, as long as what Contained says is kept to.
THEOREM Invariance ==
    ASSUME Cleared \subseteq {Unwound}
    PROVE  Spec /\ [][Contained]_vars => []IInv
<1>1. Init => IInv
    BY Initially
<1>2. IInv /\ [Next]_vars /\ [Contained]_vars => IInv'
    BY Inductive
<1> QED
    BY <1>1, <1>2, PTL DEF Spec

\* What the invariant is for.
LEMMA InOrder ==
    ASSUME IInv
    PROVE  StacksInOrder
<1>1. InterpretersNest
    BY NativeNumbered, NestIsOrder DEF IInv, NestInv
<1>2. WithinLimits
    BY DEF WithinLimits, IInv, StackInv
<1> QED
    BY <1>1, <1>2 DEF StacksInOrder, IInv, TileInv

\* The frames tile both stacks, the interpreters under way share the call stack out, and nothing
\* is past the end of a stack, whatever calls, returns, destructors and unwinding came before.
THEOREM StacksCorrect ==
    ASSUME Cleared \subseteq {Unwound}
    PROVE  Spec /\ [][Contained]_vars => []StacksInOrder
<1>1. IInv => StacksInOrder
    BY InOrder
<1> QED
    BY <1>1, Invariance, PTL

\* A call that is over, by a return or by an exception that nobody caught, leaves every stack empty.
THEOREM StacksEmptied ==
    ASSUME Cleared \subseteq {Unwound}
    PROVE  Spec /\ [][Contained]_vars
               => [](Finished => depth = 0 /\ register_top = 0 /\ local_top = 0)
<1>1. IInv => (Finished => depth = 0 /\ register_top = 0 /\ local_top = 0)
    BY DEF IInv, EndInv
<1> QED
    BY <1>1, Invariance, PTL

-----------------------------------------------------------------------------
(* The objects that free must not take: an exception on its way, and what  *)
(* is borrowed.                                                            *)

\* What is assumed of the instructions of a module: throw and ref_inc are of objects that are alive.
ThrowsLive ==
    Throw /\ R(Fetch.a) # None =>
        Target(R(Fetch.a)) \in Obj /\ heap[Target(R(Fetch.a))].life = "live"
BorrowsLive ==
    RefInc /\ R(Fetch.a) # None =>
        Target(R(Fetch.a)) \in Obj /\ heap[Target(R(Fetch.a))].life = "live"

IsHeap(h) == h = [o \in Obj |-> h[o]]

\* What a step does to an object's life and count, and to the exception on its way.
Spares(h) ==
    /\ IsHeap(h)
    /\ \A o \in Obj : heap[o].count # 0 /\ heap[o].life = "live" => h[o].life = "live"
    /\ \A o \in Obj : InFlight(o) /\ heap[o].life = "live" => h[o].life = "live"

Counts(h) == \A o \in Obj : h[o].count # 0 => heap[o].count # 0

Slotted(o, v) == [heap EXCEPT ![o].slots = v]
Lent(o) == [heap EXCEPT ![o].pins = @ + 1]
Ran(o) == [heap EXCEPT ![o].runs = @ + 1]
Counted(o) == [heap EXCEPT ![o].count = @ + 1]

\* What each thing a step does to an object does to its life and its count.
LEMMA HeapShapes ==
    ASSUME IsHeap(heap)
    PROVE  /\ Spares(heap) /\ Counts(heap)
           /\ \A o : Spares(Freed(o)) /\ Counts(Freed(o))
           /\ \A o : Spares(Decremented(o)) /\ Counts(Decremented(o))
           /\ \A o : Spares(Unpinned(o)) /\ Counts(Unpinned(o))
           /\ \A o, i, v : Spares(WithSlot(o, i, v)) /\ Counts(WithSlot(o, i, v))
           /\ \A o, v : Spares(Slotted(o, v)) /\ Counts(Slotted(o, v))
           /\ \A o : Spares(Lent(o)) /\ Counts(Lent(o))
           /\ \A o : Spares(Ran(o)) /\ Counts(Ran(o))
           /\ \A o : Spares(Counted(o))
<1>1. Spares(heap) /\ Counts(heap)
    BY DEF Spares, Counts
<1>2. ASSUME NEW o, NEW x, \/ x.life = heap[o].life
                           \/ ~InFlight(o) /\ heap[o].count = 0,
             x.count = heap[o].count \/ heap[o].count # 0
      PROVE  LET h == [heap EXCEPT ![o] = x] IN Spares(h) /\ Counts(h)
    BY <1>2 DEF Spares, Counts, IsHeap
<1>3. ASSUME NEW o
      PROVE  Spares(Freed(o)) /\ Counts(Freed(o))
    <2> DEFINE x == [heap[o] EXCEPT !.life = "freed"]
    <2>1. x.count = heap[o].count
        OBVIOUS
    <2>2. Freed(o) = IF InFlight(o) \/ FreeRefused(o) THEN heap ELSE [heap EXCEPT ![o] = x]
        BY DEF Freed
    <2> HIDE DEF x
    <2>3. CASE InFlight(o) \/ FreeRefused(o)
        BY <1>1, <2>2, <2>3
    <2>4. CASE ~(InFlight(o) \/ FreeRefused(o))
        <3>1. Spares([heap EXCEPT ![o] = x]) /\ Counts([heap EXCEPT ![o] = x])
            BY <1>2, <2>1, <2>4 DEF FreeRefused
        <3> QED
            BY <3>1, <2>2, <2>4
    <2> QED
        BY <2>3, <2>4
<1>4. ASSUME NEW o
      PROVE  Spares(Decremented(o)) /\ Counts(Decremented(o))
    <2> DEFINE x == [heap[o] EXCEPT !.count = @ - 1]
    <2>1. x.life = heap[o].life
        OBVIOUS
    <2>2. Decremented(o) = IF heap[o].count = 0 THEN heap ELSE [heap EXCEPT ![o] = x]
        BY DEF Decremented
    <2> HIDE DEF x
    <2>3. CASE heap[o].count = 0
        BY <1>1, <2>2, <2>3
    <2>4. CASE heap[o].count # 0
        <3>1. Spares([heap EXCEPT ![o] = x]) /\ Counts([heap EXCEPT ![o] = x])
            BY <1>2, <2>1, <2>4
        <3> QED
            BY <3>1, <2>2, <2>4
    <2> QED
        BY <2>3, <2>4
<1>5. ASSUME NEW o, NEW x, x.life = heap[o].life, x.count = heap[o].count
      PROVE  LET h == [heap EXCEPT ![o] = x] IN Spares(h) /\ Counts(h)
    BY <1>2, <1>5
<1>6. ASSUME NEW o
      PROVE  Spares(Unpinned(o)) /\ Counts(Unpinned(o))
    <2> DEFINE x == [heap[o] EXCEPT !.pins = IF @ > 0 THEN @ - 1 ELSE @]
    <2>1. x.life = heap[o].life /\ x.count = heap[o].count
        OBVIOUS
    <2>2. Unpinned(o) = [heap EXCEPT ![o] = x]
        BY DEF Unpinned
    <2> HIDE DEF x
    <2>3. Spares([heap EXCEPT ![o] = x]) /\ Counts([heap EXCEPT ![o] = x])
        BY <1>5, <2>1
    <2> QED
        BY <2>2, <2>3
<1>7. ASSUME NEW o, NEW i, NEW v
      PROVE  Spares(WithSlot(o, i, v)) /\ Counts(WithSlot(o, i, v))
    <2> DEFINE x == [heap[o] EXCEPT !.slots[i] = v]
    <2>1. x.life = heap[o].life /\ x.count = heap[o].count
        OBVIOUS
    <2>2. WithSlot(o, i, v) = [heap EXCEPT ![o] = x]
        BY DEF WithSlot
    <2> HIDE DEF x
    <2>3. Spares([heap EXCEPT ![o] = x]) /\ Counts([heap EXCEPT ![o] = x])
        BY <1>5, <2>1
    <2> QED
        BY <2>2, <2>3
<1>8. ASSUME NEW o, NEW v
      PROVE  Spares(Slotted(o, v)) /\ Counts(Slotted(o, v))
    <2> DEFINE x == [heap[o] EXCEPT !.slots = v]
    <2>1. x.life = heap[o].life /\ x.count = heap[o].count
        OBVIOUS
    <2>2. Slotted(o, v) = [heap EXCEPT ![o] = x]
        BY DEF Slotted
    <2> HIDE DEF x
    <2>3. Spares([heap EXCEPT ![o] = x]) /\ Counts([heap EXCEPT ![o] = x])
        BY <1>5, <2>1
    <2> QED
        BY <2>2, <2>3
<1>9. ASSUME NEW o
      PROVE  Spares(Lent(o)) /\ Counts(Lent(o))
    <2> DEFINE x == [heap[o] EXCEPT !.pins = @ + 1]
    <2>1. x.life = heap[o].life /\ x.count = heap[o].count
        OBVIOUS
    <2>2. Lent(o) = [heap EXCEPT ![o] = x]
        BY DEF Lent
    <2> HIDE DEF x
    <2>3. Spares([heap EXCEPT ![o] = x]) /\ Counts([heap EXCEPT ![o] = x])
        BY <1>5, <2>1
    <2> QED
        BY <2>2, <2>3
<1>10. ASSUME NEW o
       PROVE  Spares(Ran(o)) /\ Counts(Ran(o))
    <2> DEFINE x == [heap[o] EXCEPT !.runs = @ + 1]
    <2>1. x.life = heap[o].life /\ x.count = heap[o].count
        OBVIOUS
    <2>2. Ran(o) = [heap EXCEPT ![o] = x]
        BY DEF Ran
    <2> HIDE DEF x
    <2>3. Spares([heap EXCEPT ![o] = x]) /\ Counts([heap EXCEPT ![o] = x])
        BY <1>5, <2>1
    <2> QED
        BY <2>2, <2>3
<1>11. ASSUME NEW o
       PROVE  Spares(Counted(o))
    <2> DEFINE x == [heap[o] EXCEPT !.count = @ + 1]
    <2>1. x.life = heap[o].life
        OBVIOUS
    <2>2. Counted(o) = [heap EXCEPT ![o] = x]
        BY DEF Counted
    <2> HIDE DEF x
    <2> QED
        BY <2>1, <2>2 DEF Spares, IsHeap
<1> QED
    BY <1>1, <1>3, <1>4, <1>6, <1>7, <1>8, <1>9, <1>10, <1>11

\* An object that is not born is no object's change but its own.
LEMMA NewHeap ==
    ASSUME IsHeap(heap), New
    PROVE  Spares(heap') /\ Counts(heap')
<1>1. CASE heap' = heap
    BY <1>1, HeapShapes
<1>2. CASE heap' # heap
    <2> DEFINE o == Oldest(Unused)
               x == [heap[o] EXCEPT !.life = "live"]
               y == [x EXCEPT !.type = Fetch.type]
               g == [heap EXCEPT ![o] = x]
    <2>1. heap' = [heap EXCEPT ![o].life = "live", ![o].type = Fetch.type]
        BY <1>2 DEF New, Fail
    <2>2. heap' = [g EXCEPT ![o].type = Fetch.type]
        BY <2>1
    <2>3. y.life = "live" \/ y.life = heap[o].life
        <3>1. CASE "life" \in DOMAIN heap[o]
            BY <3>1
        <3>2. CASE "life" \notin DOMAIN heap[o]
            BY <3>2
        <3> QED
            BY <3>1, <3>2
    <2>4. y.count = heap[o].count
        OBVIOUS
    <2> HIDE DEF o
    <2>5. \A p \in Obj : heap'[p] = IF p = o THEN y ELSE heap[p]
        BY <2>2 DEF IsHeap
    <2>6. IsHeap(heap')
        BY <2>2 DEF IsHeap
    <2> HIDE DEF y
    <2> QED
        BY <2>3, <2>4, <2>5, <2>6 DEF Spares, Counts
<1> QED
    BY <1>1, <1>2

\* Every step spares what is counted, and the exception on its way until it is caught or ends the run.
LEMMA HeapSteps ==
    ASSUME IsHeap(heap), [Next]_vars
    PROVE  /\ Leave \/ Spares(heap')
           /\ Counts(heap') \/ (RefInc /\ R(Fetch.a) # None /\ heap' = Counted(Target(R(Fetch.a))))
           /\ \/ in_flight' \in {None, in_flight}
              \/ Throw /\ R(Fetch.a) # None /\ in_flight' = Target(R(Fetch.a)) /\ heap' = heap
<1>1. /\ Spares(heap) /\ Counts(heap)
      /\ \A o : Spares(Freed(o)) /\ Counts(Freed(o))
      /\ \A o : Spares(Decremented(o)) /\ Counts(Decremented(o))
      /\ \A o : Spares(Unpinned(o)) /\ Counts(Unpinned(o))
      /\ \A o, i, v : Spares(WithSlot(o, i, v)) /\ Counts(WithSlot(o, i, v))
      /\ \A o, v : Spares(Slotted(o, v)) /\ Counts(Slotted(o, v))
      /\ \A o : Spares(Lent(o)) /\ Counts(Lent(o))
      /\ \A o : Spares(Ran(o)) /\ Counts(Ran(o))
      /\ \A o : Spares(Counted(o))
    BY HeapShapes
<1>2. CASE UNCHANGED vars
    BY <1>1, <1>2 DEF vars
<1>3. CASE Load \/ Move \/ Jump \/ Branch \/ Divide \/ Call \/ Ret \/ RetVoid \/ GetSlot
    BY <1>1, <1>3 DEF Load, Move, Jump, Branch, Divide, Call, Ret, RetVoid, GetSlot, Returning, Step, Fail
<1>4. CASE \/ Delete \/ Deleted \/ DeleteNothing \/ DestroyNothing \/ DestroyList
           \/ SearchHandler \/ CleanupFailed \/ Land
           \/ CleanupSkips \/ CleanupDeletes \/ CleanupDeleted \/ CleanupEnds
           \/ VmCall \/ ClearError \/ Idle
    BY <1>1, <1>4 DEF Delete, Deleted, DeleteNothing, DestroyNothing, DestroyList, SearchHandler, CleanupFailed,
                      Land, CleanupSkips, CleanupDeletes, CleanupDeleted, CleanupEnds, VmCall, ClearError,
                      Idle, vars, Step, Fail
<1>5. CASE New
    BY <1>5, NewHeap DEF New, Fail, Step
<1>6. CASE DelObj
    BY <1>1, <1>6 DEF DelObj, Fail, Step
<1>7. CASE RefInc
    <2>1. heap' = heap \/ (R(Fetch.a) # None /\ heap' = Counted(Target(R(Fetch.a))))
        BY <1>7 DEF RefInc, Counted
    <2> QED
        BY <1>1, <1>7, <2>1 DEF RefInc, Step
<1>8. CASE RefDec
    BY <1>1, <1>8 DEF RefDec, Fail, Step
<1>9. CASE Pin
    <2>1. heap' = Lent(Target(R(Fetch.a)))
        BY <1>9 DEF Pin, Lent
    <2> QED
        BY <1>1, <1>9, <2>1 DEF Pin, Step
<1>10. CASE Unpin
    BY <1>1, <1>10 DEF Unpin, Step
<1>11. CASE Push
    <2>1. heap' = heap \/ \E o, v : heap' = Slotted(o, v)
        BY <1>11 DEF Push, Slotted
    <2>2. in_flight' = in_flight
        BY <1>11 DEF Push, Step
    <2> QED
        BY <1>1, <2>1, <2>2
<1>12. CASE Index
    BY <1>1, <1>12 DEF Index, Step, Fail
<1>13. CASE SetSlot
    BY <1>1, <1>13 DEF SetSlot, Step
<1>14. CASE Destroy
    <2>1. heap' = heap \/ heap' = Ran(Top.ptr)
        BY <1>14 DEF Destroy, Ran
    <2> QED
        BY <1>1, <1>14, <2>1 DEF Destroy
<1>15. CASE DestroyElement
    <2>1. heap' = heap \/ heap' = Slotted(Top.ptr, <<>>)
        BY <1>15 DEF DestroyElement, Slotted
    <2> QED
        BY <1>1, <1>15, <2>1 DEF DestroyElement
<1>16. CASE DeleteEnds
    BY <1>1, <1>16 DEF DeleteEnds
<1>17. CASE Throw
    BY <1>1, <1>17 DEF Throw, Fail
<1>18. CASE CleanupReleases \/ CleanupUnpins
    BY <1>1, <1>18 DEF CleanupReleases, CleanupUnpins
<1>19. CASE Leave
    <2> DEFINE x == [heap[Top.exc] EXCEPT !.life = "freed"]
    <2>1. heap' = heap \/ heap' = [heap EXCEPT ![Top.exc] = x]
        BY <1>19 DEF Leave
    <2>2. x.count = heap[Top.exc].count
        OBVIOUS
    <2> HIDE DEF x
    <2>3. Counts(heap')
        BY <2>1, <2>2 DEF Counts, IsHeap
    <2> QED
        BY <1>19, <2>3 DEF Leave
<1> QED
    BY <1>2, <1>3, <1>4, <1>5, <1>6, <1>7, <1>8, <1>9, <1>10, <1>11, <1>12, <1>13, <1>14, <1>15, <1>16,
       <1>17, <1>18, <1>19 DEF Next, Interpreting

\* What an exception that nobody caught leaves of the objects.
LEMMA LeaveHeap ==
    ASSUME IsHeap(heap), Leave
    PROVE  /\ IsHeap(heap') /\ \A o \in Obj : heap[o].count # 0 => heap'[o] = heap[o]
           /\ in_flight' = None \/ (heap' = heap /\ in_flight' = in_flight)
<1> DEFINE x == [heap[Top.exc] EXCEPT !.life = "freed"]
<1>1. heap' = heap \/ (heap' = [heap EXCEPT ![Top.exc] = x] /\ ~FreeRefused(Top.exc))
    BY DEF Leave
<1>2. in_flight' = None \/ (heap' = heap /\ in_flight' = in_flight)
    BY DEF Leave
<1> HIDE DEF x
<1> QED
    BY <1>1, <1>2 DEF IsHeap, FreeRefused

FlightInv == IsHeap(heap) /\ (in_flight # None => in_flight \in Obj /\ heap[in_flight].life = "live")
CountInv == IsHeap(heap) /\ \A o \in Obj : heap[o].count # 0 => heap[o].life = "live"

\* A VM starts with no object and nothing thrown.
LEMMA InitialHeap ==
    ASSUME Init
    PROVE  FlightInv /\ CountInv
BY DEF Init, FlightInv, CountInv, IsHeap, Unborn

\* An exception that is thrown alive is alive until a handler has it or the run ends, whatever
\* destructors and cleanup records run on its way, and whatever they free.
THEOREM ExceptionKept == Spec /\ [][ThrowsLive]_vars => []ExceptionSurvives
<1>1. ASSUME FlightInv, [Next]_vars, [ThrowsLive]_vars
      PROVE  FlightInv'
    <2>1. IsHeap(heap) /\ (in_flight # None => InFlight(in_flight))
        BY <1>1 DEF FlightInv, InFlight
    <2>2. CASE Leave
        BY <1>1, <2>1, <2>2, LeaveHeap DEF FlightInv
    <2>3. CASE Spares(heap') /\ in_flight' \in {None, in_flight}
        BY <1>1, <2>1, <2>3 DEF FlightInv, Spares
    <2>4. CASE Throw /\ R(Fetch.a) # None /\ in_flight' = Target(R(Fetch.a)) /\ heap' = heap
        <3>1. ThrowsLive \/ UNCHANGED vars
            BY <1>1
        <3>2. CASE ThrowsLive
            BY <2>1, <2>4, <3>2 DEF FlightInv, ThrowsLive
        <3>3. CASE UNCHANGED vars
            BY <1>1, <3>3 DEF vars, FlightInv
        <3> QED
            BY <3>1, <3>2, <3>3
    <2> QED
        BY <1>1, <2>1, <2>2, <2>3, <2>4, HeapSteps
<1>2. Init => FlightInv
    BY InitialHeap
<1>3. FlightInv => ExceptionSurvives
    BY DEF FlightInv, ExceptionSurvives
<1> QED
    BY <1>1, <1>2, <1>3, PTL DEF Spec

\* An object is not freed while a borrow of it is counted, if borrows are taken of objects that are
\* alive: neither by a scope exit, nor by a container, nor by the end of an exception's way.
THEOREM CountedStayAlive ==
    Spec /\ [][BorrowsLive]_vars => [](\A o \in Obj : heap[o].count # 0 => heap[o].life = "live")
<1>1. ASSUME CountInv, [Next]_vars, [BorrowsLive]_vars
      PROVE  CountInv'
    <2>1. IsHeap(heap) /\ \A o \in Obj : heap[o].count # 0 => heap[o].life = "live"
        BY <1>1 DEF CountInv
    <2>2. CASE Leave
        <3>1. Counts(heap') \/ RefInc
            BY <1>1, <2>1, HeapSteps
        <3>2. ~RefInc
            BY <2>2 DEF Leave, RefInc, Unwinding, Executing
        <3> QED
            BY <2>1, <2>2, <3>1, <3>2, LeaveHeap DEF CountInv, Counts
    <2>3. CASE Spares(heap') /\ Counts(heap')
        BY <2>1, <2>3 DEF CountInv, Spares, Counts
    <2>4. CASE RefInc /\ R(Fetch.a) # None /\ heap' = Counted(Target(R(Fetch.a)))
        <3> DEFINE t == Target(R(Fetch.a))
                   x == [heap[t] EXCEPT !.count = @ + 1]
        <3>1. BorrowsLive \/ UNCHANGED vars
            BY <1>1
        <3>2. CASE BorrowsLive
            <4>1. t \in Obj /\ heap[t].life = "live"
                BY <2>4, <3>2 DEF BorrowsLive
            <4>2. x.life = heap[t].life
                OBVIOUS
            <4>3. heap' = [heap EXCEPT ![t] = x]
                BY <2>4 DEF Counted
            <4> HIDE DEF x, t
            <4> QED
                BY <2>1, <4>1, <4>2, <4>3 DEF CountInv, IsHeap
        <3>3. CASE UNCHANGED vars
            BY <1>1, <3>3 DEF vars, CountInv
        <3> QED
            BY <3>1, <3>2, <3>3
    <2> QED
        BY <1>1, <2>1, <2>2, <2>3, <2>4, HeapSteps
<1>2. Init => CountInv
    BY InitialHeap
<1>3. CountInv => \A o \in Obj : heap[o].count # 0 => heap[o].life = "live"
    BY DEF CountInv
<1> QED
    BY <1>1, <1>2, <1>3, PTL DEF Spec

=============================================================================
