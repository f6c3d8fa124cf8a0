--------------------------- MODULE LoweringProofs ---------------------------
(* Theorems of Lowering about the register allocator: for every function the  *)
(* validator passes, and for every number of registers, no two values that    *)
(* are needed at the same time share a register, as long as nothing has been  *)
(* spilled, and after that as long as no call returns two registers.          *)
(*                                                                            *)
(* The invariant AllocInv speaks of the allocator between two points of the   *)
(* walk.  Sound(alloc) says that its lists agree with each other, Secure that *)
(* what is still needed has its registers to itself, Unspilled that what has  *)
(* a register and was never spilled shares none with what it overlaps, and    *)
(* Seen that whatever comes into place before the present point was given a   *)
(* register, so that a value without one cannot have been in place before.    *)
(* Each operation is shown to keep the first three (Works), or to fail.  The  *)
(* operations that repeat (a call window that spills until it fits, the       *)
(* parameters a jump passes values to) are loops over a result in hand, and   *)
(* go by LoopLemmas.  Shape is what the validator leaves of a function.       *)
EXTENDS Lowering, LoopLemmas, SequenceTheorems

-----------------------------------------------------------------------------
(* Bounded sets of naturals                                                  *)

\* A bounded set of naturals that is not empty has a greatest element.
LEMMA Greatest ==
    ASSUME NEW n \in Nat, NEW T \in SUBSET (0 .. n), T # {}
    PROVE  Max(T) \in T /\ \A k \in T : k <= Max(T)
<1> DEFINE U == {n - k : k \in T}
<1>1. PICK m \in U : \A k \in U : m <= k
    <2>1. \A k \in T : n - k \in Nat
        OBVIOUS
    <2>2. U \in SUBSET Nat /\ U # {}
        BY <2>1
    <2> HIDE DEF U
    <2> QED
        BY <2>2, LeastNumber
<1>2. PICK x \in T : m = n - x
    OBVIOUS
<1>3. ASSUME NEW k \in T
      PROVE  x >= k
    <2>1. m <= n - k
        BY <1>1
    <2> QED
        BY <1>2, <2>1
<1>4. \E y \in T : \A k \in T : y >= k
    BY <1>3
<1>5. Max(T) \in T /\ \A k \in T : Max(T) >= k
    BY <1>4 DEF Max
<1> QED
    BY <1>5

\* A set of naturals that is not empty has a least element.
LEMMA LeastIsMin ==
    ASSUME NEW T \in SUBSET Nat, T # {}
    PROVE  Min(T) \in T /\ \A k \in T : Min(T) <= k
BY LeastNumber DEF Min

\* What is closed downwards is as long as it has elements.
LEMMA Prefix ==
    ASSUME NEW n \in Nat, NEW D \in SUBSET (1 .. n), \A i \in D : 1 .. i \subseteq D
    PROVE  D = 1 .. Cardinality(D) /\ Cardinality(D) \in 0 .. n
<1>1. CASE D = {}
    BY <1>1, FS_EmptySet
<1>2. CASE D # {}
    <2>1. D \in SUBSET (0 .. n)
        OBVIOUS
    <2>2. Max(D) \in D /\ \A k \in D : k <= Max(D)
        BY <1>2, <2>1, Greatest
    <2> DEFINE m == Max(D)
    <2> HIDE DEF m
    <2>3. m \in D /\ \A k \in D : k <= m
        BY <2>2 DEF m
    <2>4. m \in 1 .. n /\ 1 .. m \subseteq D
        BY <2>3
    <2>5. D \subseteq 1 .. m
        BY <2>3, <2>4
    <2>6. D = 1 .. m
        BY <2>4, <2>5
    <2>7. Cardinality(1 .. m) = m
        BY <2>4, FS_Interval
    <2> QED
        BY <2>4, <2>6, <2>7
<1> QED
    BY <1>1, <1>2

-----------------------------------------------------------------------------
(* The list of the registers in use                                          *)

\* An entry of the list of registers in use.
Entry(n) == [reg : 0 .. n - 1, last : Nat]

\* Sorted by last use, and no register twice.
IsActive(s, n) ==
    /\ s \in Seq(Entry(n))
    /\ \A i, j \in DOMAIN s : i < j => s[i].last <= s[j].last
    /\ \A i, j \in DOMAIN s : s[i].reg = s[j].reg => i = j

\* What SubSeq cuts out of a sequence.
LEMMA Cut ==
    ASSUME NEW S, NEW s \in Seq(S), NEW f \in Nat, NEW m \in Nat, 0 < f, f <= m + 1, m <= Len(s)
    PROVE  /\ SubSeq(s, f, m) \in Seq(S)
           /\ Len(SubSeq(s, f, m)) = m - f + 1
           /\ \A i \in 1 .. m - f + 1 : SubSeq(s, f, m)[i] = s[f + i - 1]
<1>1. Len(s) \in Nat /\ \A i \in 1 .. Len(s) : s[i] \in S
    BY LenProperties
<1>2. \A i \in f .. m : s[i] \in S
    BY <1>1
<1>3. /\ SubSeq(s, f, m) \in Seq(S)
      /\ Len(SubSeq(s, f, m)) = IF f <= m THEN m - f + 1 ELSE 0
      /\ \A i \in 1 .. m - f + 1 : SubSeq(s, f, m)[i] = s[f + i - 1]
    BY <1>2, SubSeqProperties
<1> QED
    BY <1>1, <1>3

\* What two sequences of known lengths make together.
LEMMA Joined ==
    ASSUME NEW S, NEW u \in Seq(S), NEW w \in Seq(S), NEW k, NEW m, k = Len(u), m = Len(w)
    PROVE  /\ u \o w \in Seq(S)
           /\ Len(u \o w) = k + m
           /\ \A i \in 1 .. k : (u \o w)[i] = u[i]
           /\ \A i \in 1 .. m : (u \o w)[k + i] = w[i]
<1>1. k \in Nat /\ m \in Nat
    BY LenProperties
<1>2. \A i \in 1 .. m : k + i \in 1 .. k + m /\ ~(k + i <= k) /\ (k + i) - k = i
    BY <1>1
<1>3. \A i \in 1 .. k : i \in 1 .. k + m /\ i <= k
    BY <1>1
<1> DEFINE x == u \o w
<1>4. x \in Seq(S) /\ Len(x) = k + m /\ \A i \in 1 .. k + m : x[i] = IF i <= k THEN u[i] ELSE w[i - k]
    BY ConcatProperties
<1> HIDE DEF x
<1>5. \A i \in 1 .. k : x[i] = u[i]
    BY <1>3, <1>4
<1>6. \A i \in 1 .. m : x[k + i] = w[i]
    BY <1>2, <1>4
<1> QED
    BY <1>4, <1>5, <1>6 DEF x

\* What InsertAt makes of a sequence.
IsInserted(t, S, s, k, e) ==
    /\ t \in Seq(S) /\ Len(t) = Len(s) + 1
    /\ \A i \in 1 .. k : t[i] = s[i]
    /\ t[k + 1] = e
    /\ \A i \in 1 .. Len(s) - k : t[k + 1 + i] = s[k + i]

\* InsertAt opens a place in a sequence and fills it.
LEMMA InsertAtDoes ==
    ASSUME NEW S, NEW s \in Seq(S), NEW k \in Nat, k <= Len(s), NEW e \in S
    PROVE  IsInserted(InsertAt(s, k + 1, e), S, s, k, e)
<1> DEFINE N == Len(s)
<1>0. N \in Nat /\ k <= N /\ N = Len(s)
    BY LenProperties
<1> HIDE DEF N
<1> DEFINE u == SubSeq(s, 1, k)
           w == SubSeq(s, k + 1, N)
           x == u \o <<e>>
           t == InsertAt(s, k + 1, e)
<1>1. t = x \o w
    <2>1. (k + 1) - 1 = k
        BY <1>0
    <2> QED
        BY <2>1 DEF InsertAt, N
<1>2. u \in Seq(S) /\ Len(u) = k /\ \A i \in 1 .. k : u[i] = s[i]
    <2>1. 1 \in Nat /\ 0 < 1 /\ 1 <= k + 1 /\ k - 1 + 1 = k
        BY <1>0
    <2>2. u \in Seq(S) /\ Len(u) = k - 1 + 1 /\ \A i \in 1 .. k - 1 + 1 : u[i] = s[1 + i - 1]
        BY <1>0, <2>1, Cut
    <2>3. \A i \in 1 .. k : 1 + i - 1 = i
        BY <1>0
    <2> HIDE DEF u
    <2> QED
        BY <1>0, <2>1, <2>2, <2>3
<1>3. w \in Seq(S) /\ Len(w) = N - k /\ \A i \in 1 .. N - k : w[i] = s[k + i]
    <2>1. k + 1 \in Nat /\ 0 < k + 1 /\ k + 1 <= N + 1 /\ N - (k + 1) + 1 = N - k
        BY <1>0
    <2>2. w \in Seq(S) /\ Len(w) = N - (k + 1) + 1 /\ \A i \in 1 .. N - (k + 1) + 1 : w[i] = s[(k + 1) + i - 1]
        BY <1>0, <2>1, Cut
    <2>3. \A i \in 1 .. N - k : (k + 1) + i - 1 = k + i
        BY <1>0
    <2> HIDE DEF w
    <2> QED
        BY <1>0, <2>1, <2>2, <2>3
<1> HIDE DEF u, w
<1>4. x \in Seq(S) /\ Len(x) = k + 1 /\ (\A i \in 1 .. k : x[i] = s[i]) /\ x[k + 1] = e
    <2> DEFINE o == <<e>>
    <2>1. o \in Seq(S) /\ 1 = Len(o) /\ o[1] = e /\ 1 \in 1 .. 1
        BY <1>0
    <2> HIDE DEF o
    <2> DEFINE b == 1
    <2>4. k = Len(u) /\ b = Len(o)
        BY <1>2, <2>1
    <2> HIDE DEF b
    <2>2. /\ u \o o \in Seq(S) /\ Len(u \o o) = k + b
          /\ (\A i \in 1 .. k : (u \o o)[i] = u[i])
          /\ \A i \in 1 .. b : (u \o o)[k + i] = o[i]
        BY <1>2, <2>1, <2>4, Joined
    <2>3. x = u \o o
        BY DEF o
    <2> HIDE DEF x
    <2> QED
        BY <1>2, <2>1, <2>2, <2>3 DEF b
<1> HIDE DEF x, t
<1>5. /\ t \in Seq(S) /\ Len(t) = (k + 1) + (N - k)
      /\ (\A i \in 1 .. k + 1 : t[i] = x[i])
      /\ \A i \in 1 .. N - k : t[(k + 1) + i] = w[i]
    <2> DEFINE a == k + 1
               b == N - k
    <2>1. a = Len(x) /\ b = Len(w)
        BY <1>3, <1>4
    <2> HIDE DEF a, b
    <2>2. /\ x \o w \in Seq(S) /\ Len(x \o w) = a + b
          /\ (\A i \in 1 .. a : (x \o w)[i] = x[i])
          /\ \A i \in 1 .. b : (x \o w)[a + i] = w[i]
        BY <1>3, <1>4, <2>1, Joined
    <2> QED
        BY <1>1, <2>2 DEF a, b
<1>6. (k + 1) + (N - k) = N + 1 /\ (\A i \in 1 .. k : i \in 1 .. k + 1) /\ k + 1 \in 1 .. k + 1
    BY <1>0
<1>7. t \in Seq(S) /\ Len(t) = N + 1 /\ t[k + 1] = e
    BY <1>0, <1>4, <1>5, <1>6
<1>8. \A i \in 1 .. k : t[i] = s[i]
    BY <1>0, <1>4, <1>5, <1>6
<1>9. \A i \in 1 .. N - k : t[k + 1 + i] = s[k + i]
    BY <1>3, <1>5
<1> QED
    BY <1>7, <1>8, <1>9 DEF t, N, IsInserted

\* Between the entries that end no later and those that end later, there is room for one.
LEMMA Inserted ==
    ASSUME NEW n \in Nat, NEW s, IsActive(s, n),
           NEW e \in Entry(n), \A i \in DOMAIN s : s[i].reg # e.reg,
           NEW k, k = Cardinality({i \in DOMAIN s : s[i].last <= e.last})
    PROVE  IsActive(InsertAt(s, k + 1, e), n) /\ Range(InsertAt(s, k + 1, e)) = Range(s) \cup {e}
<1> DEFINE D == {i \in DOMAIN s : s[i].last <= e.last}
           t == InsertAt(s, k + 1, e)
           N == Len(s)
<1>1. s \in Seq(Entry(n)) /\ N \in Nat /\ DOMAIN s = 1 .. N /\ \A i \in 1 .. N : s[i] \in Entry(n)
    BY DEF IsActive
<1>2. D = 1 .. k /\ k \in 0 .. N
    <2>1. D \in SUBSET (1 .. N)
        BY <1>1
    <2>2. \A i \in D : 1 .. i \subseteq D
        <3> SUFFICES ASSUME NEW i \in D, NEW j \in 1 .. i
                     PROVE  j \in D
            OBVIOUS
        <3>1. i \in 1 .. N /\ j \in 1 .. N /\ s[i].last \in Nat /\ s[j].last \in Nat /\ e.last \in Nat
            BY <1>1 DEF Entry
        <3>2. s[j].last <= s[i].last
            BY <1>1, <3>1 DEF IsActive
        <3> QED
            BY <1>1, <3>1, <3>2
    <2> HIDE DEF D
    <2>3. D = 1 .. Cardinality(D) /\ Cardinality(D) \in 0 .. N
        BY <1>1, <2>1, <2>2, Prefix
    <2> QED
        BY <2>3 DEF D
<1>3. /\ t \in Seq(Entry(n)) /\ Len(t) = N + 1
      /\ \A i \in 1 .. k : t[i] = s[i]
      /\ t[k + 1] = e
      /\ \A i \in 1 .. N - k : t[k + 1 + i] = s[k + i]
    <2> HIDE DEF D
    <2>1. k \in Nat /\ k <= N
        BY <1>1, <1>2
    <2>2. IsInserted(t, Entry(n), s, k, e)
        BY <1>1, <2>1, InsertAtDoes
    <2> HIDE DEF t
    <2> QED
        BY <2>2 DEF IsInserted
<1>4. DOMAIN t = 1 .. N + 1
    BY <1>1, <1>3
<1> HIDE DEF t
<1> DEFINE old(i) == IF i <= k THEN i ELSE i - 1
<1>5. \A i \in 1 .. N + 1 : i # k + 1 => old(i) \in 1 .. N /\ t[i] = s[old(i)]
    <2> SUFFICES ASSUME NEW i \in 1 .. N + 1, i # k + 1
                 PROVE  old(i) \in 1 .. N /\ t[i] = s[old(i)]
        OBVIOUS
    <2>1. CASE i <= k
        <3>1. i \in 1 .. k /\ i \in 1 .. N
            BY <1>1, <1>2, <2>1
        <3> QED
            BY <1>3, <2>1, <3>1
    <2>2. CASE i > k
        <3>1. i - (k + 1) \in 1 .. N - k /\ k + 1 + (i - (k + 1)) = i /\ k + (i - (k + 1)) = i - 1 /\ i - 1 \in 1 .. N
              /\ ~(i <= k)
            BY <1>1, <1>2, <2>2
        <3>2. t[k + 1 + (i - (k + 1))] = s[k + (i - (k + 1))]
            BY <1>3, <3>1
        <3> QED
            BY <3>1, <3>2
    <2> QED
        BY <1>1, <1>2, <2>1, <2>2
<1>6. \A i \in 1 .. N : \E j \in 1 .. N + 1 : j # k + 1 /\ t[j] = s[i]
    <2> SUFFICES ASSUME NEW i \in 1 .. N
                 PROVE  \E j \in 1 .. N + 1 : j # k + 1 /\ t[j] = s[i]
        OBVIOUS
    <2>1. CASE i <= k
        <3>1. i \in 1 .. k /\ i \in 1 .. N + 1 /\ i # k + 1
            BY <1>1, <1>2, <2>1
        <3> QED
            BY <1>3, <3>1
    <2>2. CASE i > k
        <3>1. i - k \in 1 .. N - k /\ k + 1 + (i - k) \in 1 .. N + 1 /\ k + 1 + (i - k) # k + 1 /\ k + (i - k) = i
            BY <1>1, <1>2, <2>2
        <3> QED
            BY <1>3, <3>1
    <2> QED
        BY <1>1, <1>2, <2>1, <2>2
<1>7. ASSUME NEW i \in 1 .. N + 1, NEW j \in 1 .. N + 1, i < j
      PROVE  t[i].last <= t[j].last
    <2>1. \A m \in 1 .. k : s[m].last <= e.last
        BY <1>2
    <2>2. \A m \in 1 .. N : m > k => e.last <= s[m].last
        <3> SUFFICES ASSUME NEW m \in 1 .. N, m > k
                     PROVE  e.last <= s[m].last
            OBVIOUS
        <3>1. s[m].last \in Nat /\ e.last \in Nat
            BY <1>1 DEF Entry
        <3>2. m \notin D
            <4> HIDE DEF D
            <4> QED
                BY <1>1, <1>2
        <3> QED
            BY <1>1, <3>1, <3>2
    <2>3. CASE i = k + 1
        <3>1. old(j) \in 1 .. N /\ old(j) > k /\ t[j] = s[old(j)]
            BY <1>1, <1>2, <1>5, <1>7, <2>3
        <3> QED
            BY <1>3, <2>2, <2>3, <3>1
    <2>4. CASE j = k + 1
        <3>1. i \in 1 .. k
            BY <1>1, <1>2, <1>7, <2>4
        <3> QED
            BY <1>3, <2>1, <2>4, <3>1
    <2>5. CASE i # k + 1 /\ j # k + 1
        <3>1. old(i) \in DOMAIN s /\ old(j) \in DOMAIN s /\ old(i) < old(j)
            BY <1>1, <1>2, <1>5, <1>7, <2>5
        <3> HIDE DEF old
        <3>2. s[old(i)].last <= s[old(j)].last
            BY <3>1 DEF IsActive
        <3> QED
            BY <1>5, <2>5, <3>2
    <2> QED
        BY <2>3, <2>4, <2>5
<1>8. ASSUME NEW i \in 1 .. N + 1, NEW j \in 1 .. N + 1, t[i].reg = t[j].reg
      PROVE  i = j
    <2>1. CASE i = k + 1
        <3>1. j # k + 1 => old(j) \in DOMAIN s /\ s[old(j)].reg = e.reg
            BY <1>1, <1>3, <1>5, <1>8, <2>1
        <3> HIDE DEF old
        <3> QED
            BY <2>1, <3>1
    <2>3. CASE j = k + 1
        <3>1. i # k + 1 => old(i) \in DOMAIN s /\ s[old(i)].reg = e.reg
            BY <1>1, <1>3, <1>5, <1>8, <2>3
        <3> HIDE DEF old
        <3> QED
            BY <2>3, <3>1
    <2>2. CASE i # k + 1 /\ j # k + 1
        <3>1. old(i) \in DOMAIN s /\ old(j) \in DOMAIN s /\ s[old(i)].reg = s[old(j)].reg
            BY <1>1, <1>5, <1>8, <2>2
        <3> HIDE DEF old
        <3>2. old(i) = old(j)
            BY <3>1 DEF IsActive
        <3> QED
            BY <1>1, <1>2, <2>2, <3>2 DEF old
    <2> QED
        BY <2>1, <2>2, <2>3
<1>9. IsActive(t, n)
    BY <1>3, <1>4, <1>7, <1>8 DEF IsActive
<1>10. Range(t) = Range(s) \cup {e}
    <2> HIDE DEF old
    <2>1. \A i \in DOMAIN t : t[i] \in Range(s) \cup {e}
        BY <1>1, <1>3, <1>4, <1>5 DEF Range
    <2>2. \A i \in DOMAIN s : s[i] \in Range(t)
        BY <1>1, <1>4, <1>6 DEF Range
    <2>3. e \in Range(t)
        BY <1>1, <1>2, <1>3, <1>4 DEF Range
    <2> QED
        BY <2>1, <2>2, <2>3 DEF Range
<1> QED
    BY <1>9, <1>10 DEF t

\* What RemoveAt makes of a sequence.
IsRemoved(t, S, s, k) ==
    /\ t \in Seq(S) /\ Len(t) = Len(s) - 1
    /\ \A i \in 1 .. k - 1 : t[i] = s[i]
    /\ \A i \in 1 .. Len(s) - k : t[k - 1 + i] = s[k + i]

\* RemoveAt closes the place of an element.
LEMMA RemoveAtDoes ==
    ASSUME NEW S, NEW s \in Seq(S), NEW k \in 1 .. Len(s)
    PROVE  IsRemoved(RemoveAt(s, k), S, s, k)
<1> DEFINE N == Len(s)
<1>0. N \in Nat /\ k \in Nat /\ 1 <= k /\ k <= N /\ N = Len(s)
    BY LenProperties
<1> HIDE DEF N
<1> DEFINE u == SubSeq(s, 1, k - 1)
           w == SubSeq(s, k + 1, N)
           t == RemoveAt(s, k)
<1>1. t = u \o w
    BY DEF RemoveAt, N
<1>2. u \in Seq(S) /\ Len(u) = k - 1 /\ \A i \in 1 .. k - 1 : u[i] = s[i]
    <2>1. 1 \in Nat /\ 0 < 1 /\ k - 1 \in Nat /\ 1 <= (k - 1) + 1 /\ (k - 1) - 1 + 1 = k - 1 /\ k - 1 <= N
        BY <1>0
    <2>2. u \in Seq(S) /\ Len(u) = (k - 1) - 1 + 1 /\ \A i \in 1 .. (k - 1) - 1 + 1 : u[i] = s[1 + i - 1]
        BY <1>0, <2>1, Cut
    <2>3. \A i \in 1 .. k - 1 : 1 + i - 1 = i
        OBVIOUS
    <2> HIDE DEF u
    <2> QED
        BY <1>0, <2>1, <2>2, <2>3
<1>3. w \in Seq(S) /\ Len(w) = N - k /\ \A i \in 1 .. N - k : w[i] = s[k + i]
    <2>1. k + 1 \in Nat /\ 0 < k + 1 /\ k + 1 <= N + 1 /\ N - (k + 1) + 1 = N - k
        BY <1>0
    <2>2. w \in Seq(S) /\ Len(w) = N - (k + 1) + 1 /\ \A i \in 1 .. N - (k + 1) + 1 : w[i] = s[(k + 1) + i - 1]
        BY <1>0, <2>1, Cut
    <2>3. \A i \in 1 .. N - k : (k + 1) + i - 1 = k + i
        BY <1>0
    <2> HIDE DEF w
    <2> QED
        BY <1>0, <2>1, <2>2, <2>3
<1> HIDE DEF u, w, t
<1> DEFINE a == k - 1
           b == N - k
<1>4. a = Len(u) /\ b = Len(w)
    BY <1>0, <1>2, <1>3
<1>8. a + b = N - 1
    BY <1>0
<1> HIDE DEF a, b
<1>5. /\ t \in Seq(S) /\ Len(t) = a + b
      /\ (\A i \in 1 .. a : t[i] = u[i])
      /\ \A i \in 1 .. b : t[a + i] = w[i]
    <2>1. /\ u \o w \in Seq(S) /\ Len(u \o w) = a + b
          /\ (\A i \in 1 .. a : (u \o w)[i] = u[i])
          /\ \A i \in 1 .. b : (u \o w)[a + i] = w[i]
        <3>1. u \in Seq(S) /\ w \in Seq(S)
            BY <1>2, <1>3
        <3> QED
            BY <3>1, <1>4, Joined
    <2> QED
        BY <1>1, <2>1
<1>6. \A i \in 1 .. k - 1 : t[i] = s[i]
    BY <1>2, <1>5 DEF a
<1>7. \A i \in 1 .. N - k : t[k - 1 + i] = s[k + i]
    BY <1>3, <1>5 DEF a, b
<1> QED
    BY <1>5, <1>6, <1>7, <1>8 DEF t, N, IsRemoved

\* Taking an entry out.
LEMMA Removed ==
    ASSUME NEW n \in Nat, NEW s, IsActive(s, n), NEW k \in DOMAIN s
    PROVE  /\ IsActive(RemoveAt(s, k), n)
           /\ Range(RemoveAt(s, k)) = Range(s) \ {s[k]}
           /\ \A i \in DOMAIN s : i < k => i \in DOMAIN RemoveAt(s, k) /\ RemoveAt(s, k)[i] = s[i]
<1> DEFINE t == RemoveAt(s, k)
           N == Len(s)
<1>1. s \in Seq(Entry(n)) /\ N \in Nat /\ DOMAIN s = 1 .. N /\ k \in 1 .. N /\ N = Len(s)
    BY DEF IsActive
<1>2. IsRemoved(t, Entry(n), s, k)
    BY <1>1, RemoveAtDoes
<1> HIDE DEF t, N
<1>3. /\ t \in Seq(Entry(n)) /\ DOMAIN t = 1 .. N - 1
      /\ \A i \in 1 .. k - 1 : t[i] = s[i]
      /\ \A i \in 1 .. N - k : t[k - 1 + i] = s[k + i]
    BY <1>1, <1>2 DEF IsRemoved
<1> DEFINE old(i) == IF i < k THEN i ELSE i + 1
<1>4. \A i \in 1 .. N - 1 : old(i) \in 1 .. N /\ old(i) # k /\ t[i] = s[old(i)]
    <2> SUFFICES ASSUME NEW i \in 1 .. N - 1
                 PROVE  old(i) \in 1 .. N /\ old(i) # k /\ t[i] = s[old(i)]
        OBVIOUS
    <2>1. CASE i < k
        <3>1. i \in 1 .. k - 1 /\ i \in 1 .. N /\ i # k
            BY <1>1, <2>1
        <3> QED
            BY <1>3, <2>1, <3>1
    <2>2. CASE ~(i < k)
        <3>1. /\ i - (k - 1) \in 1 .. N - k /\ k - 1 + (i - (k - 1)) = i /\ k + (i - (k - 1)) = i + 1
              /\ i + 1 \in 1 .. N /\ i + 1 # k
            BY <1>1, <2>2
        <3>2. t[k - 1 + (i - (k - 1))] = s[k + (i - (k - 1))]
            BY <1>3, <3>1
        <3> QED
            BY <2>2, <3>1, <3>2
    <2> QED
        BY <2>1, <2>2
<1>5. \A i \in 1 .. N : i # k => \E j \in 1 .. N - 1 : t[j] = s[i]
    <2> SUFFICES ASSUME NEW i \in 1 .. N, i # k
                 PROVE  \E j \in 1 .. N - 1 : t[j] = s[i]
        OBVIOUS
    <2>1. CASE i < k
        <3>1. i \in 1 .. k - 1 /\ i \in 1 .. N - 1
            BY <1>1, <2>1
        <3> QED
            BY <1>3, <3>1
    <2>2. CASE i > k
        <3>1. i - k \in 1 .. N - k /\ k - 1 + (i - k) \in 1 .. N - 1 /\ k + (i - k) = i
            BY <1>1, <2>2
        <3> QED
            BY <1>3, <3>1
    <2> QED
        BY <1>1, <2>1, <2>2
<1>6. \A i, j \in 1 .. N - 1 : i < j => old(i) < old(j)
    BY <1>1
<1>7. \A i, j \in 1 .. N - 1 : old(i) = old(j) => i = j
    BY <1>1
<1> HIDE DEF old
<1>8. IsActive(t, n)
    <2>1. ASSUME NEW i \in DOMAIN t, NEW j \in DOMAIN t, i < j
          PROVE  t[i].last <= t[j].last
        <3>1. old(i) \in DOMAIN s /\ old(j) \in DOMAIN s /\ old(i) < old(j)
            BY <1>1, <1>3, <1>4, <1>6, <2>1
        <3>2. s[old(i)].last <= s[old(j)].last
            BY <3>1 DEF IsActive
        <3> QED
            BY <1>3, <1>4, <3>2
    <2>2. ASSUME NEW i \in DOMAIN t, NEW j \in DOMAIN t, t[i].reg = t[j].reg
          PROVE  i = j
        <3>1. old(i) \in DOMAIN s /\ old(j) \in DOMAIN s /\ s[old(i)].reg = s[old(j)].reg
            BY <1>1, <1>3, <1>4, <2>2
        <3>2. old(i) = old(j)
            BY <3>1 DEF IsActive
        <3> QED
            BY <1>3, <1>7, <3>2
    <2> QED
        BY <1>3, <2>1, <2>2 DEF IsActive
<1>9. Range(t) = Range(s) \ {s[k]}
    <2>1. \A i \in DOMAIN s : s[i] = s[k] => i = k
        BY <1>1 DEF IsActive
    <2>2. \A i \in DOMAIN t : t[i] \in Range(s) /\ t[i] # s[k]
        BY <1>1, <1>3, <1>4, <2>1 DEF Range
    <2>3. \A i \in DOMAIN s : s[i] # s[k] => s[i] \in Range(t)
        BY <1>1, <1>3, <1>5 DEF Range
    <2> QED
        BY <2>2, <2>3 DEF Range
<1>10. \A i \in DOMAIN s : i < k => i \in DOMAIN t /\ t[i] = s[i]
    BY <1>1, <1>3
<1> QED
    BY <1>8, <1>9, <1>10 DEF t

\* Dropping the entries that end before a point.
LEMMA Expired ==
    ASSUME NEW n \in Nat, NEW s, IsActive(s, n), NEW p \in Nat,
           NEW k, k = Cardinality({i \in DOMAIN s : s[i].last < p})
    PROVE  /\ IsActive(SubSeq(s, k + 1, Len(s)), n)
           /\ Range(SubSeq(s, k + 1, Len(s))) = {e \in Range(s) : p <= e.last}
<1> DEFINE D == {i \in DOMAIN s : s[i].last < p}
           N == Len(s)
<1>1. s \in Seq(Entry(n)) /\ N \in Nat /\ DOMAIN s = 1 .. N /\ N = Len(s) /\ \A i \in 1 .. N : s[i] \in Entry(n)
    BY DEF IsActive
<1>2. D = 1 .. k /\ k \in 0 .. N
    <2>1. D \in SUBSET (1 .. N)
        BY <1>1
    <2>2. \A i \in D : 1 .. i \subseteq D
        <3> SUFFICES ASSUME NEW i \in D, NEW j \in 1 .. i
                     PROVE  j \in D
            OBVIOUS
        <3>1. i \in 1 .. N /\ j \in 1 .. N /\ s[i].last \in Nat /\ s[j].last \in Nat
            BY <1>1 DEF Entry
        <3>2. s[j].last <= s[i].last
            BY <1>1, <3>1 DEF IsActive
        <3> QED
            BY <1>1, <3>1, <3>2
    <2> HIDE DEF D
    <2>3. D = 1 .. Cardinality(D) /\ Cardinality(D) \in 0 .. N
        BY <1>1, <2>1, <2>2, Prefix
    <2> QED
        BY <2>3 DEF D
<1>3. \A i \in 1 .. N : i <= k <=> s[i].last < p
    BY <1>1, <1>2
<1> HIDE DEF D, N
<1> DEFINE t == SubSeq(s, k + 1, N)
<1>4. /\ t \in Seq(Entry(n)) /\ Len(t) = N - k
      /\ \A i \in 1 .. N - k : t[i] = s[k + i]
    <2>1. k + 1 \in Nat /\ 0 < k + 1 /\ k + 1 <= N + 1 /\ N - (k + 1) + 1 = N - k
        BY <1>1, <1>2
    <2>2. t \in Seq(Entry(n)) /\ Len(t) = N - (k + 1) + 1 /\ \A i \in 1 .. N - (k + 1) + 1 : t[i] = s[(k + 1) + i - 1]
        <3> DEFINE f == k + 1
        <3>1. f \in Nat /\ 0 < f /\ f <= N + 1 /\ N <= Len(s)
            BY <1>1, <2>1
        <3> HIDE DEF f
        <3>2. /\ SubSeq(s, f, N) \in Seq(Entry(n)) /\ Len(SubSeq(s, f, N)) = N - f + 1
              /\ \A i \in 1 .. N - f + 1 : SubSeq(s, f, N)[i] = s[f + i - 1]
            BY <1>1, <3>1, Cut
        <3> QED
            BY <3>2 DEF f
    <2>3. \A i \in 1 .. N - k : (k + 1) + i - 1 = k + i
        BY <1>1, <1>2
    <2> HIDE DEF t
    <2> QED
        BY <1>1, <2>1, <2>2, <2>3
<1> HIDE DEF t
<1>5. DOMAIN t = 1 .. N - k
    BY <1>4, LenProperties
<1>6. \A i \in 1 .. N - k : k + i \in DOMAIN s /\ k + i > k
    BY <1>1, <1>2
<1>7. IsActive(t, n)
    <2>1. ASSUME NEW i \in DOMAIN t, NEW j \in DOMAIN t, i < j
          PROVE  t[i].last <= t[j].last
        <3>1. k + i \in DOMAIN s /\ k + j \in DOMAIN s /\ k + i < k + j
            BY <1>2, <1>5, <1>6, <2>1
        <3>2. s[k + i].last <= s[k + j].last
            BY <3>1 DEF IsActive
        <3> QED
            BY <1>4, <1>5, <3>2
    <2>2. ASSUME NEW i \in DOMAIN t, NEW j \in DOMAIN t, t[i].reg = t[j].reg
          PROVE  i = j
        <3>1. k + i \in DOMAIN s /\ k + j \in DOMAIN s /\ s[k + i].reg = s[k + j].reg
            BY <1>4, <1>5, <1>6, <2>2
        <3>2. k + i = k + j
            BY <3>1 DEF IsActive
        <3> QED
            BY <1>2, <1>5, <3>2
    <2> QED
        BY <1>4, <2>1, <2>2 DEF IsActive
<1>8. \A i \in 1 .. N : s[i].last \in Nat
    BY <1>1 DEF Entry
<1>9. \A i \in DOMAIN t : t[i] \in Range(s) /\ p <= t[i].last
    <2> SUFFICES ASSUME NEW i \in DOMAIN t
                 PROVE  t[i] \in Range(s) /\ p <= t[i].last
        OBVIOUS
    <2>1. k + i \in 1 .. N /\ ~(k + i <= k) /\ t[i] = s[k + i]
        BY <1>1, <1>2, <1>4, <1>5
    <2>2. p <= s[k + i].last
        BY <1>3, <1>8, <2>1
    <2> QED
        BY <1>1, <2>1, <2>2 DEF Range
<1>10. \A i \in DOMAIN s : p <= s[i].last => s[i] \in Range(t)
    <2> SUFFICES ASSUME NEW i \in 1 .. N, p <= s[i].last
                 PROVE  s[i] \in Range(t)
        BY <1>1
    <2>1. ~(i <= k)
        BY <1>3, <1>8
    <2>2. i - k \in 1 .. N - k /\ k + (i - k) = i
        BY <1>1, <1>2, <2>1
    <2> QED
        BY <1>4, <1>5, <2>2 DEF Range
<1>11. Range(t) = {e \in Range(s) : p <= e.last}
    BY <1>9, <1>10 DEF Range
<1> QED
    BY <1>7, <1>11 DEF t, N

-----------------------------------------------------------------------------
(* The invariant                                                             *)

\* What is known of the function: values and points are what they are.
Ground ==
    /\ limit \in Nat /\ None \notin Int /\ None \notin Value
    /\ live \in [Value -> Nat]
    /\ \A v \in Value : Appears(v) \in Nat

\* What an allocator is.
Allocator ==
    [home : [Value -> (0 .. limit - 1) \cup {None}], slot : [Value -> Nat \cup {None}],
     owner : [0 .. limit -> Value \cup {None}], active : Seq(Entry(limit)),
     free : SUBSET (0 .. limit - 1), scratch : Seq(0 .. limit - 1), next : 0 .. limit,
     slots : Nat, ok : BOOLEAN]

\* A register in use is on no other list, the list of the registers in use has
\* none twice, and none of them, nor any home, is above those handed out so far.
Sound(a) ==
    /\ a \in Allocator
    /\ IsActive(a.active, limit)
    /\ \A e \in Range(a.active) : e.reg \notin a.free /\ e.reg \notin Range(a.scratch) /\ e.reg < a.next
    /\ \A r \in a.free : r \notin Range(a.scratch) /\ r < a.next
    /\ \A r \in Range(a.scratch) : r < a.next
    /\ \A v \in Value : a.home[v] # None => a.home[v] + Width(v) <= a.next
    /\ \A r \in 0 .. limit : a.next <= r => a.owner[r] = None

\* The registers of a value that has one; and the values needed at p or later.
Regs(a, v) == a.home[v] .. a.home[v] + Width(v) - 1
NeededFrom(a, p) == {v \in Value : a.home[v] # None /\ p <= live[v]}

\* The registers of a value that is needed at p or later are in use up to its
\* last use, and nobody else's.
Kept(a, p) ==
    /\ \A v \in NeededFrom(a, p) : \A r \in Regs(a, v) : [reg |-> r, last |-> live[v]] \in Range(a.active)
    /\ \A v, w \in NeededFrom(a, p) : v # w => Regs(a, v) \cap Regs(a, w) = {}

\* Its first register knows it, and the second one knows of no other value.
Owned(a, p) ==
    \A v \in NeededFrom(a, p) :
        a.owner[a.home[v]] = v /\ \A r \in Regs(a, v) : a.owner[r] \in {v, None}

\* No call of the function returns two registers.
OneRegisterResults == \A p \in Points : points[p].op \in Callish => Width(points[p].def) = 1

\* What is needed at p or later is in place; with values spilled only if no call
\* returns two registers, as an eviction may take the second one of such a result.
Secure(a, p) ==
    /\ OneRegisterResults \/ a.scratch = <<>> => Kept(a, p)
    /\ OneRegisterResults => Owned(a, p)

\* No two values that are in place at the same point have a register in common.
Overlapping(v, w) == Appears(v) <= live[w] /\ Appears(w) <= live[v]
Unspilled(a) ==
    a.scratch = <<>> =>
        \A v, w \in Value :
            /\ a.home[v] # None /\ a.home[w] # None /\ v # w
            /\ Overlapping(v, w)
            => Regs(a, v) \cap Regs(a, w) = {}

\* What comes before p has been given a register.
Seen(a, p) ==
    a.scratch = <<>> => \A v \in Value : Appears(v) < p => a.home[v] # None \/ SkipLoad(v)

\* The allocator may go on from p.
Fit(a, p) == Sound(a) /\ Secure(a, p) /\ Unspilled(a)

\* The allocator comes from a to r: nothing it has given out is forgotten as
\* long as nothing is spilled.
Comes(a, r) ==
    r.scratch = <<>> => a.scratch = <<>> /\ \A v \in Value : a.home[v] # None => r.home[v] # None

\* What an operation of the allocator at p does, unless it fails.
Works(a, r, p) == r \in Allocator /\ (r.ok => Fit(r, p) /\ Comes(a, r))

\* r is a with registers from b on for v.
Gains(a, r, v, b) ==
    /\ r.home = [a.home EXCEPT ![v] = b]
    /\ r.slot = a.slot /\ r.slots = a.slots /\ r.scratch = a.scratch
    /\ IsActive(r.active, limit)
    /\ Range(r.active) = Range(a.active) \cup {[reg |-> q, last |-> live[v]] : q \in b .. b + Width(v) - 1}
    /\ r.free \subseteq a.free \ (b .. b + Width(v) - 1)
    /\ a.next <= r.next /\ b + Width(v) <= r.next
    /\ r.owner[b] = v
    /\ \A q \in 0 .. limit : q \notin b .. b + Width(v) - 1 => r.owner[q] = a.owner[q]
    /\ OneRegisterResults => \A q \in b .. b + Width(v) - 1 : r.owner[q] \in {v, None}
    /\ \A q \in b .. b + Width(v) - 1 :
          q \notin Range(a.scratch) /\ \A e \in Range(a.active) : e.reg # q

\* The invariant of the whole.
AllocInv ==
    /\ live \in [Value -> Nat]
    /\ phase \in {"analysing", "measuring", "precoloring"} => at = 1 /\ alloc = EmptyAllocator
    /\ phase = "measuring" => \A i \in DOMAIN fn.cleanup : cover[i] \subseteq Blocks
    /\ \A v \in skipped : v \in Value /\ IsConst(v)
    /\ phase \in {"allocating", "emitting"} => at \in Points
    /\ phase # "refused" => alloc.ok /\ Sound(alloc) /\ Unspilled(alloc)
    /\ phase = "allocating" => Secure(alloc, at - 1) /\ Seen(alloc, at)

-----------------------------------------------------------------------------
(* Giving out registers                                                      *)

\* A value takes one register or two.
LEMMA Widths == \A v : Width(v) \in {1, 2}
BY DEF Width

\* What the fields of an allocator are.
LEMMA Fields ==
    ASSUME Ground, NEW a, Sound(a)
    PROVE  /\ a.home \in [Value -> (0 .. limit - 1) \cup {None}]
           /\ a.owner \in [0 .. limit -> Value \cup {None}]
           /\ a.active \in Seq(Entry(limit)) /\ a.free \subseteq 0 .. limit - 1
           /\ a.scratch \in Seq(0 .. limit - 1) /\ a.next \in 0 .. limit /\ a.slots \in Nat
           /\ Range(a.scratch) \subseteq 0 .. limit - 1 /\ Range(a.active) \subseteq Entry(limit)
<1>1. a \in Allocator /\ limit \in Nat
    BY DEF Sound, Ground
<1>2. /\ a.home \in [Value -> (0 .. limit - 1) \cup {None}]
      /\ a.owner \in [0 .. limit -> Value \cup {None}]
      /\ a.active \in Seq(Entry(limit)) /\ a.free \subseteq 0 .. limit - 1
      /\ a.scratch \in Seq(0 .. limit - 1) /\ a.next \in 0 .. limit /\ a.slots \in Nat
    BY <1>1 DEF Allocator
<1>3. Range(a.scratch) \subseteq 0 .. limit - 1 /\ Range(a.active) \subseteq Entry(limit)
    <2>1. \A i \in DOMAIN a.scratch : a.scratch[i] \in 0 .. limit - 1
        BY <1>2, ElementOfSeq, LenProperties
    <2>2. \A i \in DOMAIN a.active : a.active[i] \in Entry(limit)
        BY <1>2, ElementOfSeq, LenProperties
    <2> QED
        BY <2>1, <2>2 DEF Range
<1> QED
    BY <1>2, <1>3

\* The registers of a value that has a home lie below those not given out yet.
LEMMA Homes ==
    ASSUME Ground, NEW a, Sound(a), NEW v \in Value, a.home[v] # None
    PROVE  /\ a.home[v] \in 0 .. limit - 1
           /\ a.home[v] \in Regs(a, v)
           /\ \A q \in Regs(a, v) : q \in 0 .. limit - 1 /\ q < a.next
<1>1. a.home \in [Value -> (0 .. limit - 1) \cup {None}] /\ a.next \in 0 .. limit /\ limit \in Nat
    BY Fields DEF Ground
<1>2. a.home[v] + Width(v) <= a.next
    BY DEF Sound
<1> QED
    BY <1>1, <1>2, Widths DEF Regs

\* A value that gets registers nobody has leaves the others theirs.
LEMMA GainsSound ==
    ASSUME Ground, NEW a, NEW r \in Allocator, NEW v \in Value, NEW b \in Nat, Sound(a),
           Gains(a, r, v, b)
    PROVE  Sound(r)
<1> DEFINE N == b .. b + Width(v) - 1
<1>1. a.next \in 0 .. limit /\ r.next \in 0 .. limit /\ limit \in Nat
    BY Fields DEF Allocator, Ground
<1>2. N \subseteq Nat /\ \A q \in N : q < r.next
    BY <1>1, Widths DEF Gains
<1>3. \A e \in Range(r.active) : e.reg \notin r.free /\ e.reg \notin Range(r.scratch) /\ e.reg < r.next
    <2>1. ASSUME NEW e \in Range(a.active)
          PROVE  e.reg \notin r.free /\ e.reg \notin Range(r.scratch) /\ e.reg < r.next
        <3>1. e.reg \in Nat
            BY Fields DEF Entry
        <3> QED
            BY <1>1, <3>1 DEF Gains, Sound
    <2>2. ASSUME NEW q \in N
          PROVE  q \notin r.free /\ q \notin Range(r.scratch) /\ q < r.next
        BY <1>2 DEF Gains
    <2> QED
        BY <2>1, <2>2 DEF Gains
<1>4. ASSUME NEW q \in r.free
      PROVE  q \notin Range(r.scratch) /\ q < r.next
    <2>1. q \in a.free /\ r.scratch = a.scratch /\ a.next <= r.next
        BY DEF Gains
    <2>2. q \notin Range(a.scratch) /\ q < a.next /\ q \in Int
        BY <2>1, Fields DEF Sound
    <2> QED
        BY <1>1, <2>1, <2>2
<1>5. ASSUME NEW q \in Range(r.scratch)
      PROVE  q < r.next
    <2>1. q \in Range(a.scratch) /\ a.next <= r.next
        BY DEF Gains
    <2>2. q < a.next /\ q \in Int
        BY <2>1, Fields DEF Sound
    <2> QED
        BY <1>1, <2>1, <2>2
<1>6. ASSUME NEW w \in Value, r.home[w] # None
      PROVE  r.home[w] + Width(w) <= r.next
    <2>1. CASE w = v
        BY <2>1, Fields DEF Gains
    <2>2. CASE w # v
        <3>1. a.home[w] # None /\ r.home[w] = a.home[w]
            BY <2>2, <1>6, Fields DEF Gains
        <3>2. a.home[w] \in Nat /\ a.home[w] + Width(w) <= a.next
            BY <3>1, Homes DEF Sound
        <3> QED
            BY <1>1, <3>1, <3>2, Widths DEF Gains
    <2> QED
        BY <2>1, <2>2
<1>7. ASSUME NEW q \in 0 .. limit, r.next <= q
      PROVE  r.owner[q] = None
    <2>1. q \notin N /\ a.next <= q
        BY <1>1, <1>2, <1>7 DEF Gains
    <2> QED
        BY <2>1 DEF Gains, Sound
<1> QED
    BY <1>3, <1>4, <1>5, <1>6, <1>7 DEF Gains, Sound

\* Its registers are its own among those in use.
LEMMA GainsKept ==
    ASSUME Ground, NEW a, NEW r \in Allocator, NEW v \in Value, NEW b \in Nat, NEW p \in Nat,
           Sound(a), Kept(a, p), Gains(a, r, v, b)
    PROVE  Kept(r, p)
<1> DEFINE N == b .. b + Width(v) - 1
<1>1. Regs(r, v) = N /\ \A w \in Value : w # v => r.home[w] = a.home[w] /\ Regs(r, w) = Regs(a, w)
    BY Fields DEF Gains, Regs
<1>2. \A w \in NeededFrom(r, p) : w # v => w \in NeededFrom(a, p)
    BY <1>1 DEF NeededFrom
<1>3. ASSUME NEW w \in NeededFrom(a, p)
      PROVE  Regs(a, w) \cap N = {}
    BY DEF Kept, Gains
<1>4. ASSUME NEW w \in NeededFrom(r, p), NEW q \in Regs(r, w)
      PROVE  [reg |-> q, last |-> live[w]] \in Range(r.active)
    <2>1. CASE w = v
        BY <1>1, <2>1 DEF Gains
    <2>2. CASE w # v
        <3>1. w \in NeededFrom(a, p) /\ q \in Regs(a, w)
            BY <1>1, <1>2, <2>2 DEF NeededFrom
        <3>2. [reg |-> q, last |-> live[w]] \in Range(a.active)
            BY <3>1 DEF Kept
        <3> QED
            BY <3>2 DEF Gains
    <2> QED
        BY <2>1, <2>2
<1>5. ASSUME NEW u \in NeededFrom(r, p), NEW w \in NeededFrom(r, p), u # w
      PROVE  Regs(r, u) \cap Regs(r, w) = {}
    <2>1. u \in Value /\ w \in Value
        BY DEF NeededFrom
    <2>2. CASE u = v
        BY <1>1, <1>2, <1>3, <1>5, <2>1, <2>2
    <2>3. CASE w = v
        BY <1>1, <1>2, <1>3, <1>5, <2>1, <2>3
    <2>4. CASE u # v /\ w # v
        BY <1>1, <1>2, <1>5, <2>1, <2>4 DEF Kept
    <2> QED
        BY <2>2, <2>3, <2>4
<1> QED
    BY <1>4, <1>5 DEF Kept

\* Who owns a register stays known when a value gains registers nobody has.
LEMMA GainsOwned ==
    ASSUME Ground, NEW a, NEW r \in Allocator, NEW v \in Value, NEW b \in Nat, NEW p \in Nat,
           Sound(a), Kept(a, p), Owned(a, p), OneRegisterResults, Gains(a, r, v, b)
    PROVE  Owned(r, p)
<1> DEFINE N == b .. b + Width(v) - 1
<1>1. Regs(r, v) = N /\ \A w \in Value : w # v => r.home[w] = a.home[w] /\ Regs(r, w) = Regs(a, w)
    BY Fields DEF Gains, Regs
<1>2. r.home[v] = b
    BY Fields DEF Gains
<1> SUFFICES ASSUME NEW w \in NeededFrom(r, p)
             PROVE  r.owner[r.home[w]] = w /\ \A q \in Regs(r, w) : r.owner[q] \in {w, None}
    BY DEF Owned
<1>3. CASE w = v
    BY <1>1, <1>2, <1>3 DEF Gains
<1>4. CASE w # v
    <2>1. w \in NeededFrom(a, p) /\ w \in Value /\ a.home[w] # None
        BY <1>1, <1>4 DEF NeededFrom
    <2>2. Regs(a, w) \cap N = {}
        BY <2>1 DEF Kept, Gains
    <2>3. a.home[w] \in Regs(a, w) /\ \A q \in Regs(a, w) : q \in 0 .. limit /\ q \notin N
        BY <2>1, <2>2, Homes DEF Ground
    <2>4. \A q \in Regs(a, w) : r.owner[q] = a.owner[q]
        BY <2>3 DEF Gains
    <2>5. a.owner[a.home[w]] = w /\ \A q \in Regs(a, w) : a.owner[q] \in {w, None}
        BY <2>1 DEF Owned
    <2> QED
        BY <1>1, <1>4, <2>1, <2>3, <2>4, <2>5
<1> QED
    BY <1>3, <1>4

\* Before anything is spilled, they are its own among all that it overlaps.
LEMMA GainsUnspilled ==
    ASSUME Ground, NEW a, NEW r \in Allocator, NEW v \in Value, NEW b \in Nat, NEW p \in Nat,
           Fit(a, p), Gains(a, r, v, b), a.scratch = <<>> => p <= Appears(v)
    PROVE  Unspilled(r)
<1> DEFINE N == b .. b + Width(v) - 1
<1> SUFFICES ASSUME r.scratch = <<>>,
                    NEW u \in Value, NEW w \in Value, r.home[u] # None, r.home[w] # None, u # w,
                    Overlapping(u, w)
             PROVE  Regs(r, u) \cap Regs(r, w) = {}
    BY DEF Unspilled
<1>0. Sound(a) /\ Unspilled(a) /\ a.scratch = <<>> /\ Kept(a, p)
    BY DEF Fit, Secure, Gains
<1>1. Regs(r, v) = N /\ \A x \in Value : x # v => r.home[x] = a.home[x] /\ Regs(r, x) = Regs(a, x)
    BY <1>0, Fields DEF Gains, Regs
<1>2. ASSUME NEW x \in Value, x # v, r.home[x] # None, Overlapping(x, v)
      PROVE  Regs(a, x) \cap N = {}
    <2>1. p <= live[x]
        <3>1. Appears(v) <= live[x] /\ p <= Appears(v) /\ Appears(v) \in Nat /\ live[x] \in Nat
            BY <1>0, <1>2 DEF Overlapping, Ground
        <3> QED
            BY <3>1
    <2>2. x \in NeededFrom(a, p)
        BY <1>1, <1>2, <2>1 DEF NeededFrom
    <2> QED
        BY <1>0, <2>2 DEF Kept, Gains
<1>3. Overlapping(w, u)
    BY DEF Overlapping
<1>4. CASE u = v
    BY <1>1, <1>2, <1>3, <1>4
<1>5. CASE w = v
    BY <1>1, <1>2, <1>5
<1>6. CASE u # v /\ w # v
    BY <1>0, <1>1, <1>6 DEF Unspilled
<1> QED
    BY <1>4, <1>5, <1>6

\* A value that gains registers nobody has leaves the allocator as it should be.
LEMMA GainsFits ==
    ASSUME Ground, NEW a, NEW r \in Allocator, NEW v \in Value, NEW b \in Nat, NEW p \in Nat,
           Fit(a, p), Gains(a, r, v, b), a.scratch = <<>> => p <= Appears(v)
    PROVE  Fit(r, p) /\ Comes(a, r) /\ r.home[v] = b
<1>0. Sound(a)
    BY DEF Fit
<1>1. Sound(r)
    BY <1>0, GainsSound
<1>2. OneRegisterResults \/ r.scratch = <<>> => Kept(r, p)
    BY <1>0, GainsKept DEF Fit, Secure, Gains
<1>3. OneRegisterResults => Owned(r, p)
    BY <1>0, GainsOwned DEF Fit, Secure, Gains
<1>4. Unspilled(r)
    BY GainsUnspilled
<1>5. r.home[v] = b /\ \A w \in Value : w # v => r.home[w] = a.home[w]
    BY <1>0, Fields DEF Gains
<1>6. r.scratch = a.scratch /\ b # None
    BY DEF Gains, Ground
<1> QED
    BY <1>1, <1>2, <1>3, <1>4, <1>5, <1>6 DEF Fit, Secure, Comes

\* r is a but for its list of the registers in use, which has E too.
Enters(a, r, E) ==
    /\ r \in Allocator
    /\ r.home = a.home /\ r.slot = a.slot /\ r.owner = a.owner /\ r.free = a.free
    /\ r.scratch = a.scratch /\ r.next = a.next /\ r.slots = a.slots /\ r.ok = a.ok
    /\ IsActive(r.active, limit)
    /\ Range(r.active) = Range(a.active) \cup E

\* insert_active adds one entry, where the order wants it.
LEMMA InsertActiveEnters ==
    ASSUME limit \in Nat, NEW a \in Allocator, IsActive(a.active, limit),
           NEW q \in 0 .. limit - 1, NEW l \in Nat, \A e \in Range(a.active) : e.reg # q
    PROVE  Enters(a, InsertActive(a, q, l), {[reg |-> q, last |-> l]})
<1> DEFINE e == [reg |-> q, last |-> l]
           k == Cardinality({i \in DOMAIN a.active : a.active[i].last <= e.last})
           t == InsertAt(a.active, k + 1, e)
<1>1. e \in Entry(limit) /\ e.reg = q /\ e.last = l
    BY DEF Entry
<1>2. \A i \in DOMAIN a.active : a.active[i].reg # e.reg
    BY <1>1 DEF Range
<1> HIDE DEF e
<1>3. IsActive(t, limit) /\ Range(t) = Range(a.active) \cup {e}
    BY <1>1, <1>2, Inserted
<1>4. InsertActive(a, q, l) = [a EXCEPT !.active = t]
    BY <1>1 DEF InsertActive, e
<1> HIDE DEF t
<1>5. t \in Seq(Entry(limit))
    BY <1>3 DEF IsActive
<1> DEFINE r == [a EXCEPT !.active = t]
<1>6. r \in Allocator
    BY <1>5 DEF Allocator
<1>7. /\ r.home = a.home /\ r.slot = a.slot /\ r.owner = a.owner /\ r.free = a.free
      /\ r.scratch = a.scratch /\ r.next = a.next /\ r.slots = a.slots /\ r.ok = a.ok
      /\ r.active = t
    BY DEF Allocator
<1> HIDE DEF r
<1>8. Enters(a, r, {e})
    BY <1>3, <1>6, <1>7 DEF Enters
<1> QED
    BY <1>4, <1>8 DEF r, e

\* Both registers of a wide value get an entry.
LEMMA ActivateEnters ==
    ASSUME limit \in Nat, live \in [Value -> Nat], NEW a \in Allocator, IsActive(a.active, limit),
           NEW v \in Value, NEW b \in Nat, b + Width(v) <= limit,
           \A e \in Range(a.active) : e.reg \notin b .. b + Width(v) - 1
    PROVE  Enters(a, Activate(a, v, b), {[reg |-> q, last |-> live[v]] : q \in b .. b + Width(v) - 1})
<1> DEFINE c == InsertActive(a, b, live[v])
           d == InsertActive(c, b + 1, live[v])
           l == live[v]
           E == {[reg |-> q, last |-> live[v]] : q \in b .. b + Width(v) - 1}
<1>1. b \in 0 .. limit - 1 /\ l \in Nat /\ \A e \in Range(a.active) : e.reg # b
    BY Widths
<1>2. Enters(a, c, {[reg |-> b, last |-> l]})
    BY <1>1, InsertActiveEnters
<1> HIDE DEF c
<1>3. CASE Width(v) = 1
    <2>1. b .. b + Width(v) - 1 = {b}
        BY <1>3
    <2>2. E = {[reg |-> b, last |-> l]}
        BY <2>1
    <2>3. Activate(a, v, b) = c
        BY <1>3 DEF Activate, c
    <2> QED
        BY <1>2, <2>2, <2>3
<1>4. CASE Width(v) = 2
    <2>1. b .. b + Width(v) - 1 = {b, b + 1} /\ b + 1 \in 0 .. limit - 1 /\ b # b + 1
        BY <1>4
    <2>2. E = {[reg |-> b, last |-> l]} \cup {[reg |-> b + 1, last |-> l]}
        BY <2>1
    <2>3. \A e \in Range(c.active) : e.reg # b + 1
        BY <1>2, <2>1 DEF Enters
    <2>4. c \in Allocator /\ IsActive(c.active, limit)
        BY <1>2 DEF Enters
    <2>5. Enters(c, d, {[reg |-> b + 1, last |-> l]})
        BY <1>1, <2>1, <2>3, <2>4, InsertActiveEnters
    <2>6. Activate(a, v, b) = d
        BY <1>4 DEF Activate, c
    <2> HIDE DEF d, E
    <2>7. Enters(a, d, E)
        BY <1>2, <2>2, <2>5 DEF Enters
    <2> QED
        BY <2>6, <2>7 DEF E
<1> QED
    BY <1>3, <1>4, Widths

\* The lowest free register.
LEMMA TakeFreeGains ==
    ASSUME Ground, NEW a, Sound(a), NEW v \in Value, Width(v) = 1, a.free # {}
    PROVE  /\ TakeFree(a, v) \in Allocator /\ TakeFree(a, v).ok = a.ok
           /\ Gains(a, TakeFree(a, v), v, Min(a.free)) /\ Min(a.free) \in Nat
<1> DEFINE b == Min(a.free)
           c == [a EXCEPT !.free = @ \ {b}, !.home[v] = b, !.owner[b] = v]
           r == Activate(c, v, b)
<1>0. limit \in Nat /\ a \in Allocator /\ live \in [Value -> Nat] /\ IsActive(a.active, limit)
    BY DEF Ground, Sound
<1>1. b \in a.free /\ b \in 0 .. limit - 1
    <2>1. a.free \in SUBSET Nat
        BY Fields
    <2>2. b \in a.free
        BY <2>1, LeastIsMin
    <2> QED
        BY <2>2, Fields
<1>2. b .. b + Width(v) - 1 = {b} /\ b + Width(v) <= limit /\ b + Width(v) - 1 = b /\ b \in Nat
    BY <1>0, <1>1
<1> HIDE DEF b
<1>3. c \in Allocator
    BY <1>0, <1>1 DEF Allocator
<1>4. /\ c.home = [a.home EXCEPT ![v] = b] /\ c.slot = a.slot /\ c.owner = [a.owner EXCEPT ![b] = v]
      /\ c.free = a.free \ {b} /\ c.active = a.active
      /\ c.scratch = a.scratch /\ c.next = a.next /\ c.slots = a.slots /\ c.ok = a.ok
    BY <1>0 DEF Allocator
<1> HIDE DEF c
<1>5. \A e \in Range(a.active) : e.reg # b
    BY <1>1 DEF Sound
<1>6. b \notin Range(a.scratch) /\ b < a.next
    BY <1>1 DEF Sound
<1>7. Enters(c, r, {[reg |-> q, last |-> live[v]] : q \in b .. b + Width(v) - 1})
    BY <1>0, <1>2, <1>3, <1>4, <1>5, ActivateEnters
<1> HIDE DEF r
<1>8. a.next \in 0 .. limit /\ a.owner \in [0 .. limit -> Value \cup {None}]
    BY Fields
<1>9. b + Width(v) <= a.next
    BY <1>2, <1>6, <1>8
<1>10. \A q \in 0 .. limit : q # b => r.owner[q] = a.owner[q]
    BY <1>4, <1>7, <1>8 DEF Enters
<1>11. r.owner[b] = v
    BY <1>0, <1>1, <1>4, <1>7, <1>8 DEF Enters
<1>12. Gains(a, r, v, b)
    <2>1. r.home = [a.home EXCEPT ![v] = b] /\ r.slot = a.slot /\ r.slots = a.slots /\ r.scratch = a.scratch
        BY <1>4, <1>7 DEF Enters
    <2>2. IsActive(r.active, limit) /\ Range(r.active) = Range(a.active) \cup {[reg |-> q, last |-> live[v]] : q \in b .. b + Width(v) - 1}
        BY <1>4, <1>7 DEF Enters
    <2>3. r.free \subseteq a.free \ (b .. b + Width(v) - 1)
        BY <1>2, <1>4, <1>7 DEF Enters
    <2>4. a.next <= r.next /\ b + Width(v) <= r.next
        BY <1>4, <1>7, <1>8, <1>9 DEF Enters
    <2> QED
        BY <1>2, <1>5, <1>6, <1>10, <1>11, <2>1, <2>2, <2>3, <2>4 DEF Gains
<1>13. TakeFree(a, v) = r
    BY DEF TakeFree, r, c, b
<1>14. r \in Allocator /\ r.ok = a.ok
    BY <1>4, <1>7 DEF Enters
<1> QED
    BY <1>2, <1>12, <1>13, <1>14 DEF b

\* The registers behind all that have been given out.
LEMMA FreshGains ==
    ASSUME Ground, NEW a, Sound(a), NEW v \in Value, a.next + Width(v) <= limit,
           NEW r, r = Activate(Bumped(a, v, Width(v)), v, a.next)
    PROVE  r \in Allocator /\ r.ok = a.ok /\ Gains(a, r, v, a.next) /\ a.next \in Nat
<1> DEFINE b == a.next
           N == b .. b + Width(v) - 1
           c == Bumped(a, v, Width(v))
           w == [q \in DOMAIN a.owner |-> IF q \in N THEN v ELSE a.owner[q]]
<1>0. limit \in Nat /\ a \in Allocator /\ live \in [Value -> Nat] /\ IsActive(a.active, limit)
    BY DEF Ground, Sound
<1>1. b \in 0 .. limit /\ a.owner \in [0 .. limit -> Value \cup {None}] /\ b = a.next
    BY Fields
<1>2. b \in Nat /\ b \in 0 .. limit - 1 /\ N \subseteq 0 .. limit - 1 /\ b \in N /\ b + Width(v) \in 0 .. limit
    BY <1>0, <1>1, Widths
<1>3. c = [a EXCEPT !.home[v] = b, !.owner = w, !.next = b + Width(v)]
    <2>1. ~(a.next + Width(v) > limit)
        BY <1>0, <1>1, Widths
    <2> QED
        BY <1>1, <2>1 DEF Bumped
<1>4. w \in [0 .. limit -> Value \cup {None}] /\ \A q \in 0 .. limit : w[q] = IF q \in N THEN v ELSE a.owner[q]
    BY <1>1
<1> HIDE DEF b, c, w
<1>5. c \in Allocator
    <2>1. [a EXCEPT !.home[v] = b, !.owner = w, !.next = b + Width(v)] \in Allocator
        BY <1>0, <1>2, <1>4 DEF Allocator
    <2> QED
        BY <1>3, <2>1
<1>6. /\ c.home = [a.home EXCEPT ![v] = b] /\ c.slot = a.slot /\ c.owner = w
      /\ c.free = a.free /\ c.active = a.active
      /\ c.scratch = a.scratch /\ c.next = b + Width(v) /\ c.slots = a.slots /\ c.ok = a.ok
    BY <1>0, <1>3 DEF Allocator
<1>7. \A e \in Range(a.active) : e.reg \notin N
    <2> SUFFICES ASSUME NEW e \in Range(a.active)
                 PROVE  e.reg \notin N
        OBVIOUS
    <2>1. e.reg < a.next /\ e.reg \in Nat
        BY Fields DEF Sound, Entry
    <2> QED
        BY <1>1, <2>1
<1>8. \A q \in N : q \notin Range(a.scratch) /\ q \notin a.free
    <2> SUFFICES ASSUME NEW q \in N
                 PROVE  q \notin Range(a.scratch) /\ q \notin a.free
        OBVIOUS
    <2>1. ~(q < a.next)
        BY <1>1, <1>2
    <2> QED
        BY <2>1 DEF Sound
<1>9. Enters(c, Activate(c, v, b), {[reg |-> q, last |-> live[v]] : q \in N})
    BY <1>0, <1>2, <1>5, <1>6, <1>7, ActivateEnters
<1>10. r = Activate(c, v, b)
    BY <1>1 DEF c
<1>11. Enters(c, r, {[reg |-> q, last |-> live[v]] : q \in N})
    BY <1>9, <1>10
<1>12. Gains(a, r, v, b)
    <2>1. r.home = [a.home EXCEPT ![v] = b] /\ r.slot = a.slot /\ r.slots = a.slots /\ r.scratch = a.scratch
        BY <1>6, <1>11 DEF Enters
    <2>2. IsActive(r.active, limit) /\ Range(r.active) = Range(a.active) \cup {[reg |-> q, last |-> live[v]] : q \in N}
        BY <1>6, <1>11 DEF Enters
    <2>3. r.free \subseteq a.free \ N
        BY <1>6, <1>8, <1>11 DEF Enters
    <2>4. a.next <= r.next /\ b + Width(v) <= r.next
        BY <1>1, <1>2, <1>6, <1>11, Widths DEF Enters
    <2>5. r.owner = w
        BY <1>6, <1>11 DEF Enters
    <2>6. r.owner[b] = v /\ (\A q \in 0 .. limit : q \notin N => r.owner[q] = a.owner[q]) /\ \A q \in N : r.owner[q] = v
        BY <1>0, <1>2, <1>4, <2>5
    <2>7. \A q \in N : q \notin Range(a.scratch) /\ \A e \in Range(a.active) : e.reg # q
        BY <1>7, <1>8
    <2> QED
        BY <2>1, <2>2, <2>3, <2>4, <2>6, <2>7 DEF Gains
<1> QED
    BY <1>1, <1>2, <1>6, <1>11, <1>12 DEF Enters

\* A parameter is mapped to the next registers.
LEMMA MappedGains ==
    ASSUME Ground, NEW a, Sound(a), NEW v \in Value, a.next + Width(v) <= limit,
           NEW r, r = Mapped(a, v)
    PROVE  r \in Allocator /\ r.ok = a.ok /\ Gains(a, r, v, a.next) /\ r.next = a.next + Width(v)
<1> DEFINE b == a.next
           N == b .. b + Width(v) - 1
           c == [a EXCEPT !.home[v] = b, !.owner[b] = v, !.next = @ + Width(v)]
<1>0. limit \in Nat /\ a \in Allocator /\ live \in [Value -> Nat] /\ IsActive(a.active, limit)
    BY DEF Ground, Sound
<1>1. b \in 0 .. limit /\ a.owner \in [0 .. limit -> Value \cup {None}] /\ b = a.next
    BY Fields
<1>2. b \in Nat /\ b \in 0 .. limit - 1 /\ N \subseteq 0 .. limit - 1 /\ b \in N /\ b + Width(v) \in 0 .. limit
    BY <1>0, <1>1, Widths
<1>3. r = Activate(c, v, b)
    BY DEF Mapped
<1> HIDE DEF b
<1>5. c \in Allocator
    BY <1>0, <1>1, <1>2 DEF Allocator
<1>6. /\ c.home = [a.home EXCEPT ![v] = b] /\ c.slot = a.slot /\ c.owner = [a.owner EXCEPT ![b] = v]
      /\ c.free = a.free /\ c.active = a.active
      /\ c.scratch = a.scratch /\ c.next = b + Width(v) /\ c.slots = a.slots /\ c.ok = a.ok
    BY <1>0, <1>1 DEF Allocator
<1> HIDE DEF c
<1>7. \A e \in Range(a.active) : e.reg \notin N
    <2> SUFFICES ASSUME NEW e \in Range(a.active)
                 PROVE  e.reg \notin N
        OBVIOUS
    <2>1. e.reg < a.next /\ e.reg \in Nat
        BY Fields DEF Sound, Entry
    <2> QED
        BY <1>1, <2>1
<1>8. \A q \in N : q \notin Range(a.scratch) /\ q \notin a.free /\ a.owner[q] = None
    <2> SUFFICES ASSUME NEW q \in N
                 PROVE  q \notin Range(a.scratch) /\ q \notin a.free /\ a.owner[q] = None
        OBVIOUS
    <2>1. ~(q < a.next) /\ a.next <= q /\ q \in 0 .. limit
        BY <1>0, <1>1, <1>2
    <2> QED
        BY <2>1 DEF Sound
<1>9. Enters(c, Activate(c, v, b), {[reg |-> q, last |-> live[v]] : q \in N})
    BY <1>0, <1>2, <1>5, <1>6, <1>7, ActivateEnters
<1>11. Enters(c, r, {[reg |-> q, last |-> live[v]] : q \in N})
    BY <1>3, <1>9
<1>12. Gains(a, r, v, b)
    <2>1. r.home = [a.home EXCEPT ![v] = b] /\ r.slot = a.slot /\ r.slots = a.slots /\ r.scratch = a.scratch
        BY <1>6, <1>11 DEF Enters
    <2>2. IsActive(r.active, limit) /\ Range(r.active) = Range(a.active) \cup {[reg |-> q, last |-> live[v]] : q \in N}
        BY <1>6, <1>11 DEF Enters
    <2>3. r.free \subseteq a.free \ N
        BY <1>6, <1>8, <1>11 DEF Enters
    <2>4. a.next <= r.next /\ b + Width(v) <= r.next
        BY <1>1, <1>2, <1>6, <1>11, Widths DEF Enters
    <2>5. r.owner = [a.owner EXCEPT ![b] = v]
        BY <1>6, <1>11 DEF Enters
    <2>6. /\ r.owner[b] = v
          /\ \A q \in 0 .. limit : q \notin N => r.owner[q] = a.owner[q]
          /\ \A q \in N : r.owner[q] \in {v, None}
        BY <1>0, <1>1, <1>2, <1>8, <2>5
    <2>7. \A q \in N : q \notin Range(a.scratch) /\ \A e \in Range(a.active) : e.reg # q
        BY <1>7, <1>8
    <2> QED
        BY <2>1, <2>2, <2>3, <2>4, <2>6, <2>7 DEF Gains
<1> QED
    BY <1>1, <1>2, <1>6, <1>11, <1>12 DEF Enters

-----------------------------------------------------------------------------
(* Spilling                                                                  *)

\* What is left of Fit while registers are taken away.
Bare(a, p) == Sound(a) /\ (OneRegisterResults => Kept(a, p) /\ Owned(a, p))

\* Nobody has q.
Idle(a, q) ==
    /\ q \in 0 .. limit - 1 /\ q < a.next
    /\ q \notin a.free /\ q \notin Range(a.scratch)
    /\ \A e \in Range(a.active) : e.reg # q

\* What is fit is fit for an eviction.
LEMMA FitIsBare ==
    ASSUME NEW a, NEW p, Fit(a, p)
    PROVE  Bare(a, p)
BY DEF Fit, Secure, Bare

\* Once a value is spilled nothing is left to say of what was never spilled.
LEMMA BareFits ==
    ASSUME NEW a, NEW p, Bare(a, p), a.scratch # <<>>
    PROVE  Fit(a, p)
BY DEF Fit, Secure, Unspilled, Bare

\* r is a without the register of v, the last of those in use that may be spilled.
Evicts(a, r, k, v) ==
    /\ r \in Allocator
    /\ r.home = [a.home EXCEPT ![v] = None]
    /\ r.owner = [a.owner EXCEPT ![a.active[k].reg] = None]
    /\ r.free = a.free /\ r.scratch = a.scratch /\ r.next = a.next /\ r.ok = a.ok
    /\ r.active = RemoveAt(a.active, k)
    /\ IsActive(r.active, limit)
    /\ Range(r.active) = Range(a.active) \ {a.active[k]}

\* What an eviction changes.
LEMMA EvictEvicts ==
    ASSUME Ground, NEW a, Sound(a), Spillable(a) # {}
    PROVE  LET k == Max(Spillable(a))
               v == a.owner[a.active[k].reg]
           IN  /\ k \in Spillable(a) /\ k \in DOMAIN a.active /\ v \in Value
               /\ \A i \in Spillable(a) : i <= k
               /\ Evicts(a, Evict(a), k, v)
               /\ EvictedRegister(a) = a.active[k].reg
               /\ a.active[k] \in Range(a.active)
<1> DEFINE k == Max(Spillable(a))
           q == a.active[k].reg
           v == a.owner[q]
           n == Len(a.active)
           t == RemoveAt(a.active, k)
           r == [a EXCEPT !.active = t, !.slot[v] = a.slots, !.slots = @ + 1,
                          !.home[v] = None, !.owner[q] = None]
<1>0. a \in Allocator /\ IsActive(a.active, limit) /\ limit \in Nat
    BY DEF Sound, Ground
<1>1. n \in Nat /\ DOMAIN a.active = 1 .. n
    BY Fields
<1>2. Spillable(a) \subseteq DOMAIN a.active
    BY DEF Spillable
<1>3. k \in Spillable(a) /\ \A i \in Spillable(a) : i <= k
    <2> DEFINE T == Spillable(a)
    <2>1. T \in SUBSET (0 .. n) /\ T # {}
        BY <1>1, <1>2
    <2> HIDE DEF T, n
    <2>2. Max(T) \in T /\ \A i \in T : i <= Max(T)
        BY <1>1, <2>1, Greatest
    <2> QED
        BY <2>2 DEF T
<1> HIDE DEF k
<1>4. k \in DOMAIN a.active
    BY <1>2, <1>3
<1>5. a.active[k] \in Entry(limit) /\ a.active[k] \in Range(a.active)
    BY <1>4, Fields DEF Range
<1>6. q \in 0 .. limit - 1 /\ q \in 0 .. limit
    BY <1>0, <1>5 DEF Entry
<1>7. v # None
    BY <1>3 DEF Spillable
<1>8. v \in Value
    BY <1>6, <1>7, Fields
<1>9. IsActive(t, limit) /\ Range(t) = Range(a.active) \ {a.active[k]}
    BY <1>0, <1>4, Removed
<1>10. t \in Seq(Entry(limit))
    BY <1>9 DEF IsActive
<1> HIDE DEF q, v, t
<1>11. r \in Allocator
    <2> DEFINE h == [a.home EXCEPT ![v] = None]
               o == [a.owner EXCEPT ![q] = None]
               s == [a.slot EXCEPT ![v] = a.slots]
               m == a.slots + 1
    <2>1. r = [a EXCEPT !.active = t, !.slot = s, !.slots = m, !.home = h, !.owner = o]
        BY <1>0 DEF Allocator
    <2>2. h \in [Value -> (0 .. limit - 1) \cup {None}]
        BY <1>0 DEF Allocator
    <2>3. o \in [0 .. limit -> Value \cup {None}]
        BY <1>0 DEF Allocator
    <2>4. s \in [Value -> Nat \cup {None}] /\ m \in Nat
        <3>1. a.slots \in Nat /\ a.slot \in [Value -> Nat \cup {None}]
            BY <1>0 DEF Allocator
        <3> DEFINE T == Nat \cup {None}
                   y == a.slots
        <3>2. y \in T
            BY <3>1
        <3>3. a.slot \in [Value -> T]
            BY <3>1
        <3> HIDE DEF T, y
        <3>4. [a.slot EXCEPT ![v] = y] \in [Value -> T]
            BY <3>2, <3>3
        <3> QED
            BY <3>1, <3>4 DEF T, y
    <2> HIDE DEF h, o, s, m, r
    <2>5. [a EXCEPT !.active = t, !.slot = s, !.slots = m, !.home = h, !.owner = o] \in Allocator
        BY <1>0, <1>10, <2>2, <2>3, <2>4 DEF Allocator
    <2> QED
        BY <2>1, <2>5
<1>12. /\ r.home = [a.home EXCEPT ![v] = None] /\ r.owner = [a.owner EXCEPT ![q] = None]
       /\ r.free = a.free /\ r.scratch = a.scratch /\ r.next = a.next /\ r.ok = a.ok
       /\ r.active = t
    BY <1>0 DEF Allocator
<1>13. Evict(a) = r
    BY DEF Evict, k, q, v, t
<1> HIDE DEF r
<1>14. Evicts(a, r, k, v)
    BY <1>9, <1>11, <1>12 DEF Evicts, t, q
<1>15. EvictedRegister(a) = q
    BY DEF EvictedRegister, q, k
<1> QED
    BY <1>3, <1>4, <1>5, <1>8, <1>13, <1>14, <1>15 DEF k, q, v

\* An eviction leaves the other values their registers.
LEMMA EvictBare ==
    ASSUME Ground, NEW a, NEW p \in Nat, Bare(a, p), Spillable(a) # {}
    PROVE  /\ Bare(Evict(a), p) /\ Idle(Evict(a), EvictedRegister(a))
           /\ Evict(a).free = a.free /\ Evict(a).scratch = a.scratch /\ Evict(a).ok = a.ok
           /\ Range(Evict(a).active) \subseteq Range(a.active)
           /\ EvictedRegister(a) \in {e.reg : e \in Range(a.active)}
           /\ \A w \in Value : a.home[w] = None => Evict(a).home[w] = None
<1> DEFINE k == Max(Spillable(a))
           e == a.active[k]
           q == e.reg
           v == a.owner[q]
           r == Evict(a)
<1>0. Sound(a)
    BY DEF Bare
<1>1. /\ k \in Spillable(a) /\ k \in DOMAIN a.active /\ v \in Value
      /\ Evicts(a, r, k, v) /\ EvictedRegister(a) = q /\ e \in Range(a.active)
    BY <1>0, EvictEvicts
<1>2. q \in 0 .. limit - 1 /\ q < a.next /\ q \notin a.free /\ q \notin Range(a.scratch)
    BY <1>0, <1>1, Fields DEF Sound, Entry
<1>3. \A i \in DOMAIN a.active : a.active[i].reg = q => i = k
    BY <1>0, <1>1 DEF Sound, IsActive
<1> HIDE DEF r, v, k
<1>4. \A f \in Range(a.active) : f.reg = q => f = e
    BY <1>3 DEF Range
<1> HIDE DEF q, e
<1>5. /\ r \in Allocator /\ r.home = [a.home EXCEPT ![v] = None] /\ r.owner = [a.owner EXCEPT ![q] = None]
      /\ r.free = a.free /\ r.scratch = a.scratch /\ r.next = a.next /\ r.ok = a.ok
      /\ IsActive(r.active, limit) /\ Range(r.active) = Range(a.active) \ {e}
    BY <1>1 DEF Evicts, q, e
<1>6. /\ a.home \in [Value -> (0 .. limit - 1) \cup {None}]
      /\ a.owner \in [0 .. limit -> Value \cup {None}]
    BY <1>0, Fields
<1>7. /\ r.home[v] = None /\ \A w \in Value : w # v => r.home[w] = a.home[w]
      /\ r.owner[q] = None /\ \A x \in 0 .. limit : x # q => r.owner[x] = a.owner[x]
    BY <1>1, <1>2, <1>5, <1>6 DEF Ground
<1>8. Sound(r)
    <2>1. \A f \in Range(r.active) : f.reg \notin r.free /\ f.reg \notin Range(r.scratch) /\ f.reg < r.next
        BY <1>0, <1>5 DEF Sound
    <2>2. \A x \in r.free : x \notin Range(r.scratch) /\ x < r.next
        BY <1>0, <1>5 DEF Sound
    <2>3. \A x \in Range(r.scratch) : x < r.next
        BY <1>0, <1>5 DEF Sound
    <2>4. \A w \in Value : r.home[w] # None => r.home[w] + Width(w) <= r.next
        BY <1>0, <1>5, <1>7 DEF Sound
    <2>5. \A x \in 0 .. limit : r.next <= x => r.owner[x] = None
        BY <1>0, <1>5, <1>7 DEF Sound
    <2> QED
        BY <1>5, <2>1, <2>2, <2>3, <2>4, <2>5 DEF Sound
<1>9. ASSUME OneRegisterResults
      PROVE  Kept(r, p) /\ Owned(r, p)
    <2>1. Kept(a, p) /\ Owned(a, p)
        BY <1>9 DEF Bare
    <2>2. ASSUME NEW w \in NeededFrom(r, p)
          PROVE  w \in NeededFrom(a, p) /\ w # v /\ w \in Value /\ r.home[w] = a.home[w]
                 /\ Regs(r, w) = Regs(a, w) /\ a.home[w] # None
        BY <1>7 DEF NeededFrom, Regs
    <2>3. ASSUME NEW w \in NeededFrom(r, p)
          PROVE  q \notin Regs(a, w)
        <3>1. \A x \in Regs(a, w) : a.owner[x] \in {w, None}
            BY <2>1, <2>2 DEF Owned
        <3> QED
            BY <2>2, <3>1, <1>1 DEF v, q, Ground
    <2>4. ASSUME NEW w \in NeededFrom(r, p), NEW x \in Regs(r, w)
          PROVE  [reg |-> x, last |-> live[w]] \in Range(r.active)
        <3>1. [reg |-> x, last |-> live[w]] \in Range(a.active)
            BY <2>1, <2>2 DEF Kept
        <3>2. x # q
            BY <2>2, <2>3
        <3>3. [reg |-> x, last |-> live[w]] # e
            BY <3>2 DEF q
        <3> QED
            BY <1>5, <3>1, <3>3
    <2>5. \A u, w \in NeededFrom(r, p) : u # w => Regs(r, u) \cap Regs(r, w) = {}
        BY <2>1, <2>2 DEF Kept
    <2>6. ASSUME NEW w \in NeededFrom(r, p)
          PROVE  r.owner[r.home[w]] = w /\ \A x \in Regs(r, w) : r.owner[x] \in {w, None}
        <3>1. a.owner[a.home[w]] = w /\ \A x \in Regs(a, w) : a.owner[x] \in {w, None}
            BY <2>1, <2>2 DEF Owned
        <3>2. a.home[w] \in Regs(a, w) /\ \A x \in Regs(a, w) : x \in 0 .. limit
            BY <1>0, <2>2, Homes DEF Ground
        <3>3. \A x \in Regs(a, w) : r.owner[x] = a.owner[x]
            BY <1>7, <2>3, <3>2
        <3> QED
            BY <2>2, <3>1, <3>2, <3>3
    <2> QED
        BY <2>4, <2>5, <2>6 DEF Kept, Owned
<1>10. Idle(r, q)
    BY <1>2, <1>4, <1>5 DEF Idle
<1>11. q \in {f.reg : f \in Range(a.active)}
    BY <1>1 DEF q, e
<1>12. \A w \in Value : a.home[w] = None => r.home[w] = None
    BY <1>7
<1> QED
    BY <1>1, <1>5, <1>8, <1>9, <1>10, <1>11, <1>12 DEF r, Bare, q, e

\* Kept and Owned are about these fields.
LEMMA SameRegisters ==
    ASSUME NEW a, NEW r, NEW p, r.home = a.home, r.owner = a.owner, r.active = a.active
    PROVE  /\ Kept(a, p) => Kept(r, p)
           /\ Owned(a, p) => Owned(r, p)
<1>1. NeededFrom(r, p) = NeededFrom(a, p) /\ \A v : Regs(r, v) = Regs(a, v)
    BY DEF NeededFrom, Regs
<1>2. Kept(a, p) => Kept(r, p)
    BY <1>1 DEF Kept
<1>3. Owned(a, p) => Owned(r, p)
    BY <1>1 DEF Owned
<1> QED
    BY <1>2, <1>3

\* An evicted register may go on the free list.
LEMMA FreedBare ==
    ASSUME Ground, NEW a, NEW p \in Nat, Bare(a, p), NEW q, Idle(a, q),
           NEW r, r = [a EXCEPT !.free = @ \cup {q}]
    PROVE  Bare(r, p) /\ r.scratch = a.scratch /\ r.ok = a.ok /\ q \in r.free /\ r.home = a.home
<1>1. Sound(a) /\ a \in Allocator
    BY DEF Bare, Sound
<1>2. r \in Allocator
    BY <1>1 DEF Allocator, Idle
<1>3. /\ r.home = a.home /\ r.owner = a.owner /\ r.active = a.active /\ r.scratch = a.scratch
      /\ r.ok = a.ok /\ r.free = a.free \cup {q} /\ r.next = a.next
    BY <1>1 DEF Allocator
<1>4. Sound(r)
    BY <1>1, <1>2, <1>3 DEF Sound, Idle
<1> QED
    BY <1>3, <1>4, SameRegisters DEF Bare

\* Two evicted registers may be kept for reloads.
LEMMA ReservedBare ==
    ASSUME Ground, NEW a, NEW p \in Nat, Bare(a, p), a.scratch = <<>>, NEW x, NEW y, Idle(a, x), Idle(a, y),
           NEW r, r = [a EXCEPT !.scratch = <<x, y>>]
    PROVE  Bare(r, p) /\ r.scratch = <<x, y>> /\ r.ok = a.ok /\ r.home = a.home
<1>1. Sound(a) /\ a \in Allocator
    BY DEF Bare, Sound
<1>2. <<x, y>> \in Seq(0 .. limit - 1) /\ Range(<<x, y>>) = {x, y}
    BY DEF Idle, Range
<1>3. r \in Allocator
    BY <1>1, <1>2 DEF Allocator
<1>4. /\ r.home = a.home /\ r.owner = a.owner /\ r.active = a.active /\ r.scratch = <<x, y>>
      /\ r.ok = a.ok /\ r.free = a.free /\ r.next = a.next
    BY <1>1 DEF Allocator
<1>5. Range(r.scratch) = {x, y}
    BY <1>2, <1>4
<1>6. Sound(r)
    BY <1>1, <1>3, <1>4, <1>5 DEF Sound, Idle
<1> QED
    BY <1>4, <1>6, SameRegisters DEF Bare

\* Where three may be spilled, two are left when one has been.
LEMMA SpillableLeft ==
    ASSUME Ground, NEW a, NEW p \in Nat, Bare(a, p), Cardinality(Spillable(a)) >= 3
    PROVE  Spillable(a) # {} /\ Spillable(Evict(a)) # {}
<1> DEFINE k == Max(Spillable(a))
           q == a.active[k].reg
           v == a.owner[q]
           r == Evict(a)
<1>0. Sound(a)
    BY DEF Bare
<1>1. Spillable(a) # {}
    BY FS_EmptySet
<1>2. k \in Spillable(a) /\ k \in DOMAIN a.active /\ (\A i \in Spillable(a) : i <= k) /\ Evicts(a, r, k, v)
    BY <1>0, <1>1, EvictEvicts
<1> HIDE DEF k, r, v
<1>3. PICK i \in Spillable(a) : i # k
    <2> SUFFICES ASSUME Spillable(a) = {k}
                 PROVE  FALSE
        BY <1>2
    <2>1. Cardinality({k}) = 1
        BY FS_Singleton
    <2> QED
        BY <2>1
<1>4. i \in DOMAIN a.active /\ DOMAIN a.active \subseteq Nat /\ i <= k
    BY <1>0, <1>2, <1>3, Fields, LenProperties DEF Spillable
<1>5. i < k
    BY <1>2, <1>3, <1>4
<1>6. IsActive(a.active, limit) /\ limit \in Nat
    BY <1>0 DEF Sound, Ground
<1>7. i \in DOMAIN r.active /\ r.active[i] = a.active[i]
    BY <1>2, <1>4, <1>5, <1>6, Removed DEF Evicts
<1>8. a.active[i].reg # q
    BY <1>2, <1>3, <1>4, <1>6 DEF IsActive
<1>9. a.active[i].reg \in 0 .. limit
    <2>1. a.active[i] \in Entry(limit)
        BY <1>0, <1>4, Fields DEF Range
    <2> QED
        BY <1>6, <2>1 DEF Entry
<1>10. r.owner[r.active[i].reg] = a.owner[a.active[i].reg]
    BY <1>0, <1>2, <1>7, <1>8, <1>9, Fields DEF Evicts
<1>11. i \in Spillable(r)
    BY <1>3, <1>7, <1>10 DEF Spillable
<1> QED
    BY <1>1, <1>11 DEF r

\* Of two naturals, the lower one and the higher one.
LEMMA LowAndHigh ==
    ASSUME NEW n \in Nat, NEW x \in 0 .. n, NEW y \in 0 .. n
    PROVE  Min({x, y}) \in {x, y} /\ Max({x, y}) \in {x, y}
<1>1. {x, y} \in SUBSET (0 .. n) /\ {x, y} # {} /\ {x, y} \in SUBSET Nat
    OBVIOUS
<1> QED
    BY <1>1, Greatest, LeastIsMin

\* r is what the first spill makes of a: not the same, unless it fails.
Spills(a, r, p) ==
    /\ r \in Allocator
    /\ r.ok => /\ Bare(r, p) /\ r.scratch # <<>>
               /\ \A w \in Value : a.home[w] = None => r.home[w] = None

\* The first spill takes its scratch registers from values no longer in place.
LEMMA WithScratchSpills ==
    ASSUME Ground, NEW a, NEW p \in Nat, Bare(a, p)
    PROVE  Spills(a, WithScratch(a), p)
<1>1. CASE a.scratch # <<>>
    BY <1>1 DEF WithScratch, Spills, Bare, Sound
<1>2. CASE a.scratch = <<>> /\ Cardinality(Spillable(a)) < 3
    <2>1. a \in Allocator
        BY DEF Bare, Sound
    <2>2. WithScratch(a) = Failed(a)
        BY <1>2 DEF WithScratch
    <2>3. ~Failed(a).ok /\ Failed(a) \in Allocator
        BY <2>1 DEF Failed, Allocator
    <2> QED
        BY <2>2, <2>3 DEF Spills
<1>3. CASE a.scratch = <<>> /\ ~(Cardinality(Spillable(a)) < 3)
    <2> DEFINE b == Evict(a)
               c == Evict(b)
               x == EvictedRegister(a)
               y == EvictedRegister(b)
               lo == Min({x, y})
               hi == Max({x, y})
               r == [c EXCEPT !.scratch = <<lo, hi>>]
    <2>1. Cardinality(Spillable(a)) >= 3
        <3>1. IsFiniteSet(Spillable(a))
            <4>1. DOMAIN a.active = 1 .. Len(a.active) /\ Len(a.active) \in Nat
                BY Fields, LenProperties DEF Bare
            <4>2. IsFiniteSet(1 .. Len(a.active))
                BY <4>1, FS_Interval
            <4>3. Spillable(a) \subseteq 1 .. Len(a.active)
                BY <4>1 DEF Spillable
            <4> QED
                BY <4>2, <4>3, FS_Subset
        <3>2. Cardinality(Spillable(a)) \in Nat
            BY <3>1, FS_CardinalityType
        <3> QED
            BY <1>3, <3>2
    <2>2. Spillable(a) # {} /\ Spillable(b) # {}
        BY <2>1, SpillableLeft
    <2>3. WithScratch(a) = r
        BY <1>3 DEF WithScratch
    <2>4. /\ Bare(b, p) /\ Idle(b, x) /\ b.free = a.free /\ b.scratch = a.scratch /\ b.ok = a.ok
          /\ \A w \in Value : a.home[w] = None => b.home[w] = None
        BY <2>2, EvictBare
    <2> HIDE DEF b
    <2>5. /\ Bare(c, p) /\ Idle(c, y) /\ c.free = b.free /\ c.scratch = b.scratch /\ c.ok = b.ok
          /\ Range(c.active) \subseteq Range(b.active)
          /\ \A w \in Value : b.home[w] = None => c.home[w] = None
        BY <2>2, <2>4, EvictBare
    <2>6. Evicts(b, c, Max(Spillable(b)), b.owner[b.active[Max(Spillable(b))].reg])
        BY <2>2, <2>4, EvictEvicts DEF Bare
    <2>7. c.next = b.next
        BY <2>6 DEF Evicts
    <2> HIDE DEF c, x, y
    <2>8. Idle(c, x)
        BY <2>4, <2>5, <2>7 DEF Idle
    <2>9. lo \in {x, y} /\ hi \in {x, y}
        <3>1. x \in 0 .. limit /\ y \in 0 .. limit /\ limit \in Nat
            BY <2>5, <2>8 DEF Idle, Ground
        <3> QED
            BY <3>1, LowAndHigh
    <2> HIDE DEF lo, hi
    <2>10. Idle(c, lo) /\ Idle(c, hi)
        BY <2>5, <2>8, <2>9
    <2>11. c.scratch = <<>>
        BY <1>3, <2>4, <2>5
    <2>12. Bare(r, p) /\ r.scratch = <<lo, hi>> /\ r.ok = c.ok /\ r.home = c.home
        BY <2>5, <2>10, <2>11, ReservedBare
    <2> HIDE DEF r
    <2>13. r.scratch # <<>> /\ r \in Allocator
        BY <2>12 DEF Bare, Sound
    <2> QED
        BY <2>3, <2>4, <2>5, <2>12, <2>13 DEF Spills
<1> QED
    BY <1>1, <1>2, <1>3

\* spill_furthest leaves everything else in place, or the function is refused.
LEMMA SpillFurthestSpills ==
    ASSUME Ground, NEW a, NEW p \in Nat, Bare(a, p)
    PROVE  Spills(a, SpillFurthest(a), p) /\ (SpillFurthest(a).ok => SpillFurthest(a).free # {})
<1> DEFINE b == WithScratch(a)
           c == Evict(b)
           q == EvictedRegister(b)
           r == [c EXCEPT !.free = @ \cup {q}]
<1>1. Spills(a, b, p)
    BY WithScratchSpills
<1> HIDE DEF b
<1>2. CASE b.ok /\ Spillable(b) # {}
    <2>1. SpillFurthest(a) = r
        BY <1>2 DEF SpillFurthest, b
    <2>2. Bare(b, p) /\ b.scratch # <<>> /\ \A w \in Value : a.home[w] = None => b.home[w] = None
        BY <1>1, <1>2 DEF Spills
    <2>3. /\ Bare(c, p) /\ Idle(c, q) /\ c.scratch = b.scratch /\ c.ok = b.ok
          /\ \A w \in Value : b.home[w] = None => c.home[w] = None
        BY <1>2, <2>2, EvictBare
    <2> HIDE DEF c, q
    <2>4. Bare(r, p) /\ r.scratch = c.scratch /\ r.ok = c.ok /\ q \in r.free /\ r.home = c.home
        BY <2>3, FreedBare
    <2> HIDE DEF r
    <2>5. r \in Allocator
        BY <2>4 DEF Bare, Sound
    <2> QED
        BY <1>2, <2>1, <2>2, <2>3, <2>4, <2>5 DEF Spills
<1>3. CASE ~(b.ok /\ Spillable(b) # {})
    <2>1. SpillFurthest(a) = Failed(b)
        BY <1>3 DEF SpillFurthest, b
    <2>2. ~Failed(b).ok /\ Failed(b) \in Allocator
        BY <1>1 DEF Failed, Spills, Allocator
    <2> QED
        BY <2>1, <2>2 DEF Spills
<1> QED
    BY <1>2, <1>3

-----------------------------------------------------------------------------
(* The operations                                                            *)

\* Nothing is asked of an allocator that failed.
LEMMA FailedWorks ==
    ASSUME NEW a, Sound(a), NEW p
    PROVE  Failed(a) \in Allocator /\ ~Failed(a).ok
BY DEF Failed, Sound, Allocator

\* A value v comes by a register, where it may.
Gets(a, r, v, p) == Works(a, r, p) /\ (r.ok => r.home[v] # None)

\* A value that gains registers nobody has comes by them as it should.
LEMMA GainsGets ==
    ASSUME Ground, NEW a, NEW v \in Value, NEW p \in Nat, Fit(a, p), NEW r \in Allocator, NEW b \in Nat,
           Gains(a, r, v, b), a.scratch = <<>> => p <= Appears(v)
    PROVE  Gets(a, r, v, p)
BY GainsFits DEF Gets, Works, Ground

\* The lowest free register is as good as a new one.
LEMMA TakeFreeGets ==
    ASSUME Ground, NEW a, NEW v \in Value, NEW p \in Nat, Fit(a, p), Width(v) = 1, a.free # {},
           a.scratch = <<>> => p <= Appears(v)
    PROVE  Gets(a, TakeFree(a, v), v, p)
<1> DEFINE r == TakeFree(a, v)
           b == Min(a.free)
<1>1. r \in Allocator /\ Gains(a, r, v, b) /\ b \in Nat
    BY TakeFreeGains DEF Fit
<1> HIDE DEF r, b
<1>2. Gets(a, r, v, p)
    BY <1>1, GainsGets
<1> QED
    BY <1>2 DEF r

\* A register never handed out is nobody's.
LEMMA FreshGets ==
    ASSUME Ground, NEW a, NEW v \in Value, NEW p \in Nat, Fit(a, p), a.ok,
           a.scratch = <<>> => p <= Appears(v),
           NEW c, c = Bumped(a, v, Width(v)),
           NEW r, r = IF c.ok THEN Activate(c, v, c.home[v]) ELSE c
    PROVE  Gets(a, r, v, p)
<1>0. Sound(a) /\ a \in Allocator /\ limit \in Nat /\ a.next \in 0 .. limit
    BY Fields DEF Fit, Sound, Ground
<1>1. CASE a.next + Width(v) > limit
    <2>1. c = Failed(a)
        BY <1>1 DEF Bumped
    <2>2. c \in Allocator /\ ~c.ok
        BY <1>0, <2>1, FailedWorks
    <2> QED
        BY <2>2 DEF Gets, Works
<1>2. CASE a.next + Width(v) <= limit
    <2>1. ~(a.next + Width(v) > limit)
        BY <1>0, <1>2, Widths
    <2>2. c.home = [a.home EXCEPT ![v] = a.next] /\ c.ok = a.ok
        BY <1>0, <2>1 DEF Bumped, Allocator
    <2>3. c.home[v] = a.next
        BY <1>0, <2>2, Fields
    <2> DEFINE s == Activate(c, v, a.next)
    <2>4. r = s
        BY <2>2, <2>3
    <2>5. s = Activate(Bumped(a, v, Width(v)), v, a.next)
        OBVIOUS
    <2> HIDE DEF s
    <2>6. s \in Allocator /\ Gains(a, s, v, a.next) /\ a.next \in Nat
        BY <1>0, <1>2, <2>5, FreshGains
    <2>7. Gets(a, s, v, p)
        BY <2>6, GainsGets
    <2> QED
        BY <2>4, <2>7
<1> QED
    BY <1>0, <1>1, <1>2, Widths

\* allocate_register gives a value registers of its own, or refuses the function.
LEMMA AllocateRegisterGets ==
    ASSUME Ground, NEW a, NEW v \in Value, NEW p \in Nat, Fit(a, p), a.ok,
           a.scratch = <<>> /\ a.home[v] = None => p <= Appears(v)
    PROVE  Gets(a, AllocateRegister(a, v), v, p)
<1> DEFINE r == AllocateRegister(a, v)
           c == Bumped(a, v, Width(v))
           fresh == IF c.ok THEN Activate(c, v, c.home[v]) ELSE c
           top == IF a.scratch = <<>> THEN limit ELSE a.scratch[1]
           b == SpillFurthest(a)
<1>1. CASE a.home[v] # None
    <2>1. r = a
        BY <1>1 DEF AllocateRegister
    <2>2. a \in Allocator
        BY DEF Fit, Sound
    <2> QED
        BY <1>1, <2>1, <2>2 DEF Gets, Works, Comes
<1>2. ASSUME a.home[v] = None
      PROVE  Gets(a, fresh, v, p) /\ (Width(v) = 1 /\ a.free # {} => Gets(a, TakeFree(a, v), v, p))
    <2>1. Gets(a, fresh, v, p)
        <3> HIDE DEF c
        <3>1. c = Bumped(a, v, Width(v))
            BY DEF c
        <3> QED
            BY <1>2, <3>1, FreshGets
    <2> QED
        BY <1>2, <2>1, TakeFreeGets
<1>3. CASE a.home[v] = None /\ Width(v) > 1
    <2>1. r = fresh
        BY <1>3 DEF AllocateRegister
    <2> QED
        BY <1>2, <1>3, <2>1
<1>4. CASE a.home[v] = None /\ Width(v) = 1 /\ a.free # {} /\ (CanReuse(v) \/ ~(a.next < top))
    <2>1. r = TakeFree(a, v)
        BY <1>4 DEF AllocateRegister
    <2> QED
        BY <1>2, <1>4, <2>1
<1>5. CASE a.home[v] = None /\ Width(v) = 1 /\ ~(CanReuse(v) /\ a.free # {}) /\ a.next < top
    <2>1. r = fresh
        BY <1>5 DEF AllocateRegister
    <2> QED
        BY <1>2, <1>5, <2>1
<1>6. CASE a.home[v] = None /\ Width(v) = 1 /\ a.free = {} /\ ~(a.next < top)
    <2>1. r = IF b.ok THEN TakeFree(b, v) ELSE b
        BY <1>6 DEF AllocateRegister
    <2>2. Spills(a, b, p) /\ (b.ok => b.free # {})
        BY FitIsBare, SpillFurthestSpills
    <2> HIDE DEF b
    <2>3. CASE ~b.ok
        BY <2>1, <2>2, <2>3 DEF Gets, Works, Spills
    <2>4. CASE b.ok
        <3>1. Fit(b, p) /\ b.scratch # <<>> /\ b.free # {}
            BY <2>2, <2>4, BareFits DEF Spills
        <3>2. Gets(b, TakeFree(b, v), v, p)
            BY <1>6, <3>1, TakeFreeGets
        <3>3. Comes(a, b)
            BY <3>1 DEF Comes
        <3> HIDE DEF fresh
        <3>4. Gets(a, TakeFree(b, v), v, p)
            BY <3>1, <3>2, <3>3 DEF Gets, Works, Comes
        <3> QED
            BY <2>1, <2>4, <3>4
    <2> QED
        BY <2>3, <2>4
<1>8. Width(v) = 1 \/ Width(v) > 1
    BY Widths
<1> HIDE DEF r, fresh, top, b
<1> QED
    <2>1. CASE CanReuse(v)
        BY <1>1, <1>3, <1>4, <1>5, <1>6, <1>8, <2>1
    <2>2. CASE ~CanReuse(v)
        BY <1>1, <1>3, <1>4, <1>5, <1>6, <1>8, <2>2
    <2> QED
        BY <2>1, <2>2

\* One operation after the other.
LEMMA WorksOn ==
    ASSUME NEW a, NEW b, NEW c, NEW p, Works(a, b, p), b.ok, Works(b, c, p)
    PROVE  Works(a, c, p)
BY DEF Works, Comes

\* The floor lies above every register in use, and above those reserved.
LEMMA FloorAbove ==
    ASSUME Ground, NEW a, Sound(a)
    PROVE  /\ Floor(a) \in 0 .. limit
           /\ \A e \in Range(a.active) : e.reg < Floor(a)
           /\ \A q \in Range(a.scratch) : q < Floor(a)
<1> DEFINE T == {0} \union {a.active[i].reg + 1 : i \in DOMAIN a.active}
                \union {r + 1 : r \in Range(a.scratch)}
<1>1. limit \in Nat
    BY DEF Ground
<1>2. \A i \in DOMAIN a.active : a.active[i] \in Range(a.active) /\ a.active[i] \in Entry(limit)
    BY Fields DEF Range
<1>3. \A i \in DOMAIN a.active : a.active[i].reg \in 0 .. limit - 1
    BY <1>2 DEF Entry
<1>4. \A r \in Range(a.scratch) : r \in 0 .. limit - 1
    BY Fields
<1>5. T \in SUBSET (0 .. limit) /\ T # {}
    BY <1>1, <1>3, <1>4
<1>6. /\ \A i \in DOMAIN a.active : a.active[i].reg + 1 \in T
      /\ \A r \in Range(a.scratch) : r + 1 \in T
    OBVIOUS
<1>7. Floor(a) = Max(T)
    BY DEF Floor
<1> HIDE DEF T
<1>8. Max(T) \in T /\ \A k \in T : k <= Max(T)
    BY <1>1, <1>5, Greatest
<1> DEFINE m == Floor(a)
<1>9. m \in 0 .. limit /\ \A k \in T : k <= m
    BY <1>5, <1>7, <1>8
<1> HIDE DEF m
<1>10. ASSUME NEW e \in Range(a.active)
       PROVE  e.reg < m
    <2>1. PICK i \in DOMAIN a.active : e = a.active[i]
        BY DEF Range
    <2>2. a.active[i].reg + 1 <= m
        BY <1>6, <1>9
    <2> QED
        BY <1>1, <1>3, <1>9, <2>1, <2>2
<1>11. ASSUME NEW q \in Range(a.scratch)
       PROVE  q < m
    BY <1>1, <1>4, <1>6, <1>9
<1> QED
    BY <1>9, <1>10, <1>11 DEF m

\* What the window takes for its result.
LEMMA WindowGains ==
    ASSUME Ground, NEW a, Sound(a), NEW v \in Value, NEW z \in Nat, Width(v) <= z,
           Floor(a) + z <= limit, OneRegisterResults => Width(v) = 1,
           NEW r, r = Activate([a EXCEPT !.home[v] = Floor(a), !.owner[Floor(a)] = v,
                                    !.free = @ \ (Floor(a) .. Floor(a) + Width(v) - 1),
                                    !.next = Max({@, Floor(a) + z})],
                               v, Floor(a))
    PROVE  r \in Allocator /\ Gains(a, r, v, Floor(a)) /\ Floor(a) \in Nat
<1> DEFINE b == Floor(a)
           N == b .. b + Width(v) - 1
           m == Max({a.next, b + z})
           f == a.free \ N
           c == [a EXCEPT !.home[v] = b, !.owner[b] = v, !.free = f, !.next = m]
<1>0. limit \in Nat /\ a \in Allocator /\ live \in [Value -> Nat] /\ IsActive(a.active, limit)
    BY DEF Ground, Sound
<1>1. /\ a.next \in 0 .. limit /\ a.owner \in [0 .. limit -> Value \cup {None}]
      /\ a.home \in [Value -> (0 .. limit - 1) \cup {None}] /\ a.free \subseteq 0 .. limit - 1
    BY Fields
<1>2. b \in 0 .. limit /\ (\A e \in Range(a.active) : e.reg < b) /\ \A q \in Range(a.scratch) : q < b
    BY FloorAbove
<1>3. /\ b \in Nat /\ b \in 0 .. limit - 1 /\ b \in N /\ b + z \in 0 .. limit /\ b + Width(v) <= limit
      /\ b + Width(v) <= b + z
    BY <1>0, <1>2, Widths
<1>4. m \in 0 .. limit /\ a.next <= m /\ b + z <= m
    <2> DEFINE T == {a.next, b + z}
    <2>1. T \in SUBSET (0 .. limit) /\ T # {} /\ a.next \in T /\ b + z \in T
        BY <1>1, <1>3
    <2> HIDE DEF T
    <2>2. Max(T) \in T /\ \A k \in T : k <= Max(T)
        BY <1>0, <2>1, Greatest
    <2>3. m = Max(T)
        BY DEF T
    <2> QED
        BY <2>1, <2>2, <2>3
<1>5. r = Activate(c, v, b)
    BY <1>0 DEF Allocator
<1> HIDE DEF b, m, f
<1>6. f \subseteq a.free /\ \A q \in f : q \notin N
    BY DEF f
<1>7. c \in Allocator
    BY <1>0, <1>1, <1>3, <1>4, <1>6 DEF Allocator
<1>8. /\ c.home = [a.home EXCEPT ![v] = b] /\ c.slot = a.slot /\ c.owner = [a.owner EXCEPT ![b] = v]
      /\ c.free = f /\ c.active = a.active
      /\ c.scratch = a.scratch /\ c.next = m /\ c.slots = a.slots /\ c.ok = a.ok
    BY <1>0 DEF Allocator
<1> HIDE DEF c
<1>9. ASSUME NEW e \in Range(a.active)
      PROVE  e.reg \notin N
    <2>1. e.reg < b /\ e.reg \in Nat
        BY <1>2, Fields DEF Entry
    <2> QED
        BY <1>3, <2>1
<1>10. ASSUME NEW q \in N
       PROVE  q \notin Range(a.scratch)
    <2>1. ~(q < b)
        BY <1>3
    <2> QED
        BY <1>2, <2>1
<1>11. Enters(c, Activate(c, v, b), {[reg |-> q, last |-> live[v]] : q \in N})
    BY <1>0, <1>3, <1>7, <1>8, <1>9, ActivateEnters
<1>12. Enters(c, r, {[reg |-> q, last |-> live[v]] : q \in N})
    BY <1>5, <1>11
<1>13. Gains(a, r, v, b)
    <2>1. r.home = [a.home EXCEPT ![v] = b] /\ r.slot = a.slot /\ r.slots = a.slots /\ r.scratch = a.scratch
        BY <1>8, <1>12 DEF Enters
    <2>2. IsActive(r.active, limit) /\ Range(r.active) = Range(a.active) \cup {[reg |-> q, last |-> live[v]] : q \in N}
        BY <1>8, <1>12 DEF Enters
    <2>3. r.free \subseteq a.free \ N
        BY <1>6, <1>8, <1>12 DEF Enters
    <2>4. a.next <= r.next /\ b + Width(v) <= r.next
        <3>1. r.next = m
            BY <1>8, <1>12 DEF Enters
        <3> QED
            BY <1>1, <1>3, <1>4, <3>1, Widths
    <2>5. r.owner = [a.owner EXCEPT ![b] = v]
        BY <1>8, <1>12 DEF Enters
    <2>6. r.owner[b] = v /\ \A q \in 0 .. limit : q \notin N => r.owner[q] = a.owner[q]
        BY <1>0, <1>1, <1>3, <2>5
    <2>7. OneRegisterResults => \A q \in N : r.owner[q] \in {v, None}
        <3> SUFFICES ASSUME Width(v) = 1
                     PROVE  \A q \in N : r.owner[q] \in {v, None}
            OBVIOUS
        <3>1. N = {b}
            BY <1>3
        <3> QED
            BY <2>6, <3>1
    <2>8. \A q \in N : q \notin Range(a.scratch) /\ \A e \in Range(a.active) : e.reg # q
        BY <1>9, <1>10
    <2> QED
        BY <2>1, <2>2, <2>3, <2>4, <2>6, <2>7, <2>8 DEF Gains
<1> QED
    BY <1>3, <1>12, <1>13 DEF Enters, b

-----------------------------------------------------------------------------
(* Loops                                                                     *)

\* f is x, and then round after round what h makes of it.
Loops(f, h, x, S, C) ==
    /\ f[0] = x
    /\ \A n \in 1 .. C : f[n - 1] \in S /\ n - 1 \in 0 .. C - 1 /\ f[n] = h[<<n - 1, f[n - 1]>>]

\* A loop of C rounds, each from the result of the one before it.
LEMMA Loop ==
    ASSUME NEW C \in Nat, NEW S, NEW h \in [(0 .. C - 1) \X S -> S], NEW x \in S
    PROVE  \E f \in [0 .. C -> S] : Loops(f, h, x, S, C)
<1>1. PICK f \in [0 .. C -> S] : Runs(f, h, x, C)
    BY Rounds
<1>2. ASSUME NEW n \in 1 .. C
      PROVE  f[n - 1] \in S /\ n - 1 \in 0 .. C - 1 /\ f[n] = h[<<n - 1, f[n - 1]>>]
    <2>1. n - 1 \in 0 .. C - 1 /\ n - 1 \in 0 .. C /\ (n - 1) + 1 = n
        OBVIOUS
    <2>2. f[(n - 1) + 1] = h[<<n - 1, f[n - 1]>>]
        BY <1>1, <2>1 DEF Runs
    <2> QED
        BY <2>1, <2>2
<1> QED
    BY <1>1, <1>2 DEF Loops, Runs

\* Induction up to a bound.
LEMMA Upwards ==
    ASSUME NEW C \in Nat, NEW R, 0 \in R, \A n \in 0 .. C - 1 : n \in R => n + 1 \in R
    PROVE  0 .. C \subseteq R
<1> DEFINE T == {n \in Nat : n <= C => n \in R}
<1>1. 0 \in T /\ \A n \in Nat : n \in T => n + 1 \in T
    OBVIOUS
<1>2. Nat \subseteq T
    <2> HIDE DEF T
    <2> QED
        BY <1>1, Induction
<1> QED
    BY <1>2

-----------------------------------------------------------------------------
(* The operations that repeat                                                *)

\* What the allocator comes to from a, at p.
Onwards(a, p) == {b \in Allocator : b.ok => Fit(b, p) /\ Comes(a, b)}

\* Two ways to say it.
LEMMA OnwardsWorks ==
    ASSUME NEW a, NEW b, NEW p
    PROVE  Works(a, b, p) <=> b \in Onwards(a, p)
BY DEF Works, Onwards

\* Spilling is one of the things the allocator may do.
LEMMA SpillsWorks ==
    ASSUME Ground, NEW a, NEW p \in Nat, Fit(a, p)
    PROVE  Works(a, SpillFurthest(a), p)
<1> DEFINE b == SpillFurthest(a)
<1>1. Spills(a, b, p)
    BY FitIsBare, SpillFurthestSpills
<1> HIDE DEF b
<1>2. Works(a, b, p)
    BY <1>1, BareFits DEF Spills, Works, Comes
<1> QED
    BY <1>2 DEF b

\* reserve_call_window: what has to go is spilled until the window fits above the rest.
LEMMA CallWindowGets ==
    ASSUME Ground, NEW a, NEW p \in Points, p \in Nat, Fit(a, p), a.ok, points[p].op \in Callish,
           points[p].def \in Value, WindowSize(p) \in Nat, Width(points[p].def) <= WindowSize(p),
           p <= Appears(points[p].def)
    PROVE  Gets(a, ReserveCallWindow(a, p), points[p].def, p)
<1> DEFINE v == points[p].def
           z == WindowSize(p)
           Fits(b) == Floor(b) + z <= limit
           Round(c) == IF Fits(c) \/ ~c.ok THEN c ELSE SpillFurthest(c)
           C == limit
           S == Onwards(a, p)
           h == [q \in (0 .. C - 1) \X S |-> Round(q[2])]
           Is(f) == f = [n \in 0 .. C |-> IF n = 0 THEN a ELSE Round(f[n - 1])]
           upto == CHOOSE f : Is(f)
           b == upto[C]
           r == ReserveCallWindow(a, p)
<1>0. C \in Nat /\ a \in S
    BY DEF Ground, Fit, Sound, Onwards, Comes
<1>1. r = IF ~b.ok \/ ~Fits(b) THEN Failed(b)
          ELSE Activate([b EXCEPT !.home[v] = Floor(b), !.owner[Floor(b)] = v,
                                  !.free = @ \ (Floor(b) .. Floor(b) + Width(v) - 1),
                                  !.next = Max({@, Floor(b) + z})],
                        v, Floor(b))
    BY DEF ReserveCallWindow
<1> HIDE DEF C, S, r
<1>2. ASSUME NEW c \in S
      PROVE  Round(c) \in S
    <2>1. CASE ~c.ok \/ Fits(c)
        BY <2>1
    <2>2. CASE c.ok /\ ~Fits(c)
        <3>1. Fit(c, p) /\ Works(a, c, p)
            BY <2>2, OnwardsWorks DEF S, Onwards
        <3>2. Works(c, SpillFurthest(c), p)
            BY <3>1, SpillsWorks
        <3>3. Works(a, SpillFurthest(c), p)
            BY <2>2, <3>1, <3>2, WorksOn
        <3>4. SpillFurthest(c) \in S
            BY <3>3, OnwardsWorks DEF S
        <3> QED
            BY <2>2, <3>4
    <2> QED
        BY <2>1, <2>2
<1> HIDE DEF Fits
<1>3. h \in [(0 .. C - 1) \X S -> S]
    <2> HIDE DEF Round
    <2> QED
        BY <1>2
<1>4. PICK g \in [0 .. C -> S] : Loops(g, h, a, S, C)
    <2> HIDE DEF h
    <2> QED
        BY <1>0, <1>3, Loop
<1>5. Is(g)
    <2> HIDE DEF Round
    <2>1. ASSUME NEW n \in 0 .. C
          PROVE  g[n] = IF n = 0 THEN a ELSE Round(g[n - 1])
        <3>1. n # 0 => n \in 1 .. C
            BY <1>0
        <3> QED
            BY <1>4, <3>1 DEF Loops
    <2> QED
        BY <2>1
<1>6. Is(upto)
    <2> HIDE DEF Is
    <2> QED
        BY <1>5
<1> HIDE DEF upto, Round
<1>7. \A n \in 0 .. C : upto[n] = IF n = 0 THEN a ELSE Round(upto[n - 1])
    BY <1>6
<1>8. \A n \in 0 .. C : upto[n] \in S
    <2> DEFINE R == {n \in 0 .. C : upto[n] \in S}
    <2>1. 0 \in R
        BY <1>0, <1>7
    <2>2. ASSUME NEW n \in 0 .. C - 1, n \in R
          PROVE  n + 1 \in R
        <3>1. n + 1 \in 0 .. C /\ n + 1 # 0 /\ (n + 1) - 1 = n
            BY <1>0
        <3> QED
            BY <1>2, <1>7, <2>2, <3>1
    <2>3. 0 .. C \subseteq R
        <3> HIDE DEF R
        <3> QED
            BY <1>0, <2>1, <2>2, Upwards
    <2> QED
        BY <2>3
<1>9. b \in S
    BY <1>0, <1>8
<1> HIDE DEF b
<1>10. CASE ~b.ok \/ ~Fits(b)
    <2>1. b \in Allocator
        BY <1>9 DEF S, Onwards
    <2>2. r \in Allocator /\ ~r.ok
        BY <1>1, <1>10, <2>1 DEF Failed, Allocator
    <2>3. Gets(a, r, v, p)
        BY <2>2 DEF Gets, Works
    <2> QED
        BY <2>3 DEF r, v
<1>11. CASE b.ok /\ Fits(b)
    <2>1. Fit(b, p) /\ Works(a, b, p)
        BY <1>9, <1>11, OnwardsWorks DEF S, Onwards
    <2>2. OneRegisterResults => Width(v) = 1
        BY DEF OneRegisterResults
    <2>3. Sound(b) /\ Floor(b) + z <= limit
        BY <1>11, <2>1 DEF Fit, Fits
    <2> DEFINE s == Activate([b EXCEPT !.home[v] = Floor(b), !.owner[Floor(b)] = v,
                                  !.free = @ \ (Floor(b) .. Floor(b) + Width(v) - 1),
                                  !.next = Max({@, Floor(b) + z})],
                        v, Floor(b))
    <2>4. r = s
        BY <1>1, <1>11
    <2>5. v \in Value /\ z \in Nat /\ Width(v) <= z
        OBVIOUS
    <2> HIDE DEF v, z
    <2>6. s \in Allocator /\ Gains(b, s, v, Floor(b)) /\ Floor(b) \in Nat
        BY <2>2, <2>3, <2>5, WindowGains
    <2>7. p <= Appears(v)
        BY DEF v
    <2> HIDE DEF s
    <2>8. Gets(b, s, v, p)
        BY <2>1, <2>5, <2>6, <2>7, GainsGets
    <2>9. Gets(a, s, v, p)
        BY <1>11, <2>1, <2>8, WorksOn DEF Gets
    <2> QED
        BY <2>4, <2>9 DEF r, v
<1> QED
    BY <1>10, <1>11

\* The values of vs that have no register yet are not in place before p.
Late(a, vs, p) ==
    \A i \in DOMAIN vs : /\ vs[i] \in Value
                         /\ a.ok /\ a.scratch = <<>> /\ a.home[vs[i]] = None => p <= Appears(vs[i])

\* The first n of vs have a register.
AllHomed(a, vs, n) == a.ok /\ a.scratch = <<>> => \A i \in 1 .. n : a.home[vs[i]] # None

\* The allocator has come from a to c at p, or has failed.
Reaches(a, c, p) == c \in Allocator /\ (c.ok => a.ok /\ Fit(c, p) /\ Comes(a, c))

\* One value: what has a register keeps one, as long as nothing is spilled.
LEMMA AllocatesOne ==
    ASSUME Ground, NEW a, NEW p \in Nat, NEW vs, NEW N \in Nat, DOMAIN vs = 1 .. N, Late(a, vs, p),
           NEW n \in 0 .. N - 1, NEW c,
           Reaches(a, c, p),
           NEW r, r = IF c.ok THEN AllocateRegister(c, vs[n + 1]) ELSE c
    PROVE  Reaches(a, r, p) /\ (AllHomed(c, vs, n) => AllHomed(r, vs, n + 1))
<1> DEFINE v == vs[n + 1]
           s == AllocateRegister(c, v)
<1>1. CASE ~c.ok
    BY <1>1 DEF AllHomed, Reaches
<1>2. CASE c.ok
    <2>1. n + 1 \in 1 .. N
        OBVIOUS
    <2>2. v \in Value /\ (a.scratch = <<>> /\ a.home[v] = None => p <= Appears(v))
        BY <1>2, <2>1 DEF Late, Reaches
    <2>3. r = s
        BY <1>2
    <2> HIDE DEF v
    <2>4. c.scratch = <<>> /\ c.home[v] = None => p <= Appears(v)
        BY <1>2, <2>2 DEF Comes, Reaches
    <2>5. Gets(c, s, v, p)
        BY <1>2, <2>2, <2>4, AllocateRegisterGets DEF Reaches
    <2> HIDE DEF s
    <2>6. s \in Allocator /\ (s.ok => a.ok /\ Fit(s, p) /\ Comes(a, s) /\ Comes(c, s) /\ s.home[v] # None)
        BY <1>2, <2>5 DEF Gets, Works, Comes, Reaches
    <2>7. ASSUME AllHomed(c, vs, n)
          PROVE  AllHomed(s, vs, n + 1)
        <3> SUFFICES ASSUME s.ok, s.scratch = <<>>, NEW i \in 1 .. n + 1
                     PROVE  s.home[vs[i]] # None
            BY DEF AllHomed
        <3>1. CASE i = n + 1
            BY <2>6, <3>1 DEF v
        <3>2. CASE i # n + 1
            <4>1. i \in 1 .. n /\ i \in 1 .. N
                BY <3>2
            <4>2. vs[i] \in Value
                BY <4>1 DEF Late
            <4>3. c.scratch = <<>> /\ \A w \in Value : c.home[w] # None => s.home[w] # None
                BY <2>6 DEF Comes
            <4>4. c.home[vs[i]] # None
                BY <1>2, <2>7, <4>1, <4>3 DEF AllHomed
            <4> QED
                BY <4>2, <4>3, <4>4
        <3> QED
            BY <3>1, <3>2
    <2> QED
        BY <2>3, <2>6, <2>7 DEF Reaches
<1> QED
    BY <1>1, <1>2

\* The parameters of one block get their registers one after the other.
LEMMA AllocateAllWorks ==
    ASSUME Ground, NEW a \in Allocator, NEW p \in Nat, a.ok => Fit(a, p),
           NEW vs, Len(vs) \in Nat, DOMAIN vs = 1 .. Len(vs), Late(a, vs, p)
    PROVE  Reaches(a, AllocateAll(a, vs), p) /\ AllHomed(AllocateAll(a, vs), vs, Len(vs))
<1> DEFINE C == Len(vs)
           S == {c \in Allocator : Reaches(a, c, p)}
           Round(n, c) == IF c.ok THEN AllocateRegister(c, vs[n]) ELSE c
           h == [q \in (0 .. C - 1) \X S |-> Round(q[1] + 1, q[2])]
           Is(f) == f = [n \in 0 .. C |-> IF n = 0 THEN a ELSE Round(n, f[n - 1])]
           upto == CHOOSE f : Is(f)
           r == AllocateAll(a, vs)
<1>0. C \in Nat /\ a \in S /\ DOMAIN vs = 1 .. C
    BY DEF Comes, Reaches
<1>1. r = upto[C]
    BY DEF AllocateAll
<1> HIDE DEF C
<1>2. ASSUME NEW n \in 0 .. C - 1, NEW c \in S
      PROVE  Round(n + 1, c) \in S /\ (AllHomed(c, vs, n) => AllHomed(Round(n + 1, c), vs, n + 1))
    <2> DEFINE s == Round(n + 1, c)
    <2>1. Reaches(a, c, p)
        OBVIOUS
    <2>2. s = IF c.ok THEN AllocateRegister(c, vs[n + 1]) ELSE c
        OBVIOUS
    <2> HIDE DEF s
    <2>3. Reaches(a, s, p) /\ (AllHomed(c, vs, n) => AllHomed(s, vs, n + 1))
        BY <1>0, <2>1, <2>2, AllocatesOne
    <2>4. s \in S /\ (AllHomed(c, vs, n) => AllHomed(s, vs, n + 1))
        BY <2>3 DEF Reaches
    <2> QED
        BY <2>4 DEF s
<1> HIDE DEF S, Round, r
<1>3. h \in [(0 .. C - 1) \X S -> S]
    BY <1>2
<1>4. PICK g \in [0 .. C -> S] : Loops(g, h, a, S, C)
    <2> HIDE DEF h
    <2> QED
        BY <1>0, <1>3, Loop
<1>5. Is(g)
    <2>1. ASSUME NEW n \in 0 .. C
          PROVE  g[n] = IF n = 0 THEN a ELSE Round(n, g[n - 1])
        <3>1. n # 0 => n \in 1 .. C /\ (n - 1) + 1 = n
            BY <1>0
        <3> QED
            BY <1>4, <3>1 DEF Loops
    <2> QED
        BY <2>1
<1>6. Is(upto)
    <2> HIDE DEF Is
    <2> QED
        BY <1>5
<1> HIDE DEF upto
<1>7. \A n \in 0 .. C : upto[n] = IF n = 0 THEN a ELSE Round(n, upto[n - 1])
    BY <1>6
<1>8. 0 .. C \subseteq {n \in 0 .. C : upto[n] \in S /\ AllHomed(upto[n], vs, n)}
    <2> DEFINE R == {n \in 0 .. C : upto[n] \in S /\ AllHomed(upto[n], vs, n)}
    <2>1. 0 \in R
        BY <1>0, <1>7 DEF AllHomed
    <2>2. ASSUME NEW n \in 0 .. C - 1, n \in R
          PROVE  n + 1 \in R
        <3>1. n + 1 \in 0 .. C /\ n + 1 # 0 /\ (n + 1) - 1 = n
            BY <1>0
        <3>2. upto[n + 1] = Round(n + 1, upto[n])
            BY <1>7, <3>1
        <3> QED
            BY <1>2, <2>2, <3>1, <3>2
    <2> HIDE DEF R
    <2>3. 0 .. C \subseteq R
        BY <1>0, <2>1, <2>2, Upwards
    <2> QED
        BY <2>3 DEF R
<1>9. r \in S /\ AllHomed(r, vs, C)
    BY <1>0, <1>1, <1>8
<1>10. Reaches(a, r, p) /\ AllHomed(r, vs, C)
    BY <1>9 DEF S
<1> QED
    BY <1>10 DEF r, C

\* The parameters a jump passes values to.
Params(t) == fn.blocks[t.block].params

\* The parameters of the first n targets have a register.
TargetsHomed(a, to, n) ==
    a.ok /\ a.scratch = <<>> =>
        \A i \in 1 .. n : \A v \in Range(Params(to[i])) : a.home[v] # None

\* What a jump passes values to is not in place before it, if it has no register.
LateTargets(a, to, p) ==
    \A i \in DOMAIN to : LET vs == Params(to[i])
                         IN  Len(vs) \in Nat /\ DOMAIN vs = 1 .. Len(vs) /\ Late(a, vs, p)

\* One target of a jump: the ones before it keep what they have.
LEMMA AllocatesTarget ==
    ASSUME Ground, NEW a, NEW p \in Nat, NEW to, NEW N \in Nat, DOMAIN to = 1 .. N, LateTargets(a, to, p),
           NEW n \in 0 .. N - 1, NEW c, Reaches(a, c, p),
           NEW r, r = AllocateAll(c, Params(to[n + 1]))
    PROVE  Reaches(a, r, p) /\ (TargetsHomed(c, to, n) => TargetsHomed(r, to, n + 1))
<1> DEFINE vs == Params(to[n + 1])
<1>0. n + 1 \in 1 .. N
    OBVIOUS
<1>1. Len(vs) \in Nat /\ DOMAIN vs = 1 .. Len(vs) /\ Late(a, vs, p)
    BY <1>0 DEF LateTargets
<1>2. c \in Allocator /\ (c.ok => a.ok /\ Fit(c, p) /\ Comes(a, c))
    BY DEF Reaches
<1> HIDE DEF vs
<1>3. Late(c, vs, p)
    BY <1>1, <1>2 DEF Late, Comes
<1> DEFINE d == AllocateAll(c, vs)
<1>4. r = d
    BY DEF vs
<1>7. Reaches(c, d, p) /\ AllHomed(d, vs, Len(vs))
    BY <1>1, <1>2, <1>3, AllocateAllWorks
<1>5. CASE c.ok
    <2>1. Reaches(c, d, p) /\ AllHomed(d, vs, Len(vs))
        BY <1>7
    <2> HIDE DEF d
    <2>2. Reaches(a, d, p)
        BY <1>2, <1>5, <2>1 DEF Reaches, Comes
    <2>3. ASSUME TargetsHomed(c, to, n)
          PROVE  TargetsHomed(d, to, n + 1)
        <3> SUFFICES ASSUME d.ok, d.scratch = <<>>, NEW i \in 1 .. n + 1, NEW v \in Range(Params(to[i]))
                     PROVE  d.home[v] # None
            BY DEF TargetsHomed
        <3>1. CASE i = n + 1
            <4>1. v \in Range(vs)
                BY <3>1 DEF vs
            <4>2. PICK j \in 1 .. Len(vs) : v = vs[j]
                BY <1>1, <4>1 DEF Range
            <4> QED
                BY <2>1, <4>2 DEF AllHomed
        <3>2. CASE i # n + 1
            <4>1. i \in 1 .. n /\ i \in DOMAIN to
                BY <3>2
            <4>2. c.ok /\ c.scratch = <<>> /\ \A w \in Value : c.home[w] # None => d.home[w] # None
                BY <1>5, <2>1 DEF Reaches, Comes
            <4>3. c.home[v] # None
                BY <2>3, <4>1, <4>2 DEF TargetsHomed
            <4>4. v \in Value
                BY <4>1 DEF LateTargets, Late, Range
            <4> QED
                BY <4>2, <4>3, <4>4
        <3> QED
            BY <3>1, <3>2
    <2> QED
        BY <1>4, <2>2, <2>3
<1>6. CASE ~c.ok
    <2> HIDE DEF d
    <2> QED
        BY <1>2, <1>4, <1>6, <1>7 DEF Reaches, TargetsHomed
<1> QED
    BY <1>5, <1>6

\* All targets of a jump.
LEMMA PreallocateWorks ==
    ASSUME Ground, NEW a \in Allocator, NEW p \in Nat, a.ok => Fit(a, p),
           Len(points[p].to) \in Nat, DOMAIN points[p].to = 1 .. Len(points[p].to),
           LateTargets(a, points[p].to, p)
    PROVE  /\ Reaches(a, PreallocateTargets(a, p), p)
           /\ TargetsHomed(PreallocateTargets(a, p), points[p].to, Len(points[p].to))
<1> DEFINE to == points[p].to
           C == Len(to)
           S == {c \in Allocator : Reaches(a, c, p)}
           Round(n, c) == AllocateAll(c, fn.blocks[to[n].block].params)
           h == [q \in (0 .. C - 1) \X S |-> Round(q[1] + 1, q[2])]
           Is(f) == f = [n \in 0 .. C |-> IF n = 0 THEN a ELSE Round(n, f[n - 1])]
           upto == CHOOSE f : Is(f)
           r == PreallocateTargets(a, p)
<1>0. C \in Nat /\ a \in S /\ DOMAIN to = 1 .. C /\ LateTargets(a, to, p)
    BY DEF Comes, Reaches
<1>1. r = upto[C]
    BY DEF PreallocateTargets
<1> HIDE DEF C, to
<1>2. ASSUME NEW n \in 0 .. C - 1, NEW c \in S
      PROVE  Round(n + 1, c) \in S /\ (TargetsHomed(c, to, n) => TargetsHomed(Round(n + 1, c), to, n + 1))
    <2> DEFINE s == Round(n + 1, c)
    <2>1. Reaches(a, c, p)
        OBVIOUS
    <2>2. s = AllocateAll(c, Params(to[n + 1]))
        BY DEF Params
    <2> HIDE DEF s
    <2>3. Reaches(a, s, p) /\ (TargetsHomed(c, to, n) => TargetsHomed(s, to, n + 1))
        BY <1>0, <2>1, <2>2, AllocatesTarget
    <2>4. s \in S /\ (TargetsHomed(c, to, n) => TargetsHomed(s, to, n + 1))
        BY <2>3 DEF Reaches
    <2> QED
        BY <2>4 DEF s
<1> HIDE DEF S, Round, r
<1>3. h \in [(0 .. C - 1) \X S -> S]
    BY <1>2
<1>4. PICK g \in [0 .. C -> S] : Loops(g, h, a, S, C)
    <2> HIDE DEF h
    <2> QED
        BY <1>0, <1>3, Loop
<1>5. Is(g)
    <2>1. ASSUME NEW n \in 0 .. C
          PROVE  g[n] = IF n = 0 THEN a ELSE Round(n, g[n - 1])
        <3>1. n # 0 => n \in 1 .. C /\ (n - 1) + 1 = n
            BY <1>0
        <3> QED
            BY <1>4, <3>1 DEF Loops
    <2> QED
        BY <2>1
<1>6. Is(upto)
    <2> HIDE DEF Is
    <2> QED
        BY <1>5
<1> HIDE DEF upto
<1>7. \A n \in 0 .. C : upto[n] = IF n = 0 THEN a ELSE Round(n, upto[n - 1])
    BY <1>6
<1>8. 0 .. C \subseteq {n \in 0 .. C : upto[n] \in S /\ TargetsHomed(upto[n], to, n)}
    <2> DEFINE R == {n \in 0 .. C : upto[n] \in S /\ TargetsHomed(upto[n], to, n)}
    <2>1. 0 \in R
        BY <1>0, <1>7 DEF TargetsHomed
    <2>2. ASSUME NEW n \in 0 .. C - 1, n \in R
          PROVE  n + 1 \in R
        <3>1. n + 1 \in 0 .. C /\ n + 1 # 0 /\ (n + 1) - 1 = n
            BY <1>0
        <3>2. upto[n + 1] = Round(n + 1, upto[n])
            BY <1>7, <3>1
        <3> QED
            BY <1>2, <2>2, <3>1, <3>2
    <2> HIDE DEF R
    <2>3. 0 .. C \subseteq R
        BY <1>0, <2>1, <2>2, Upwards
    <2> QED
        BY <2>3 DEF R
<1>9. r \in S /\ TargetsHomed(r, to, C)
    BY <1>0, <1>1, <1>8
<1>10. Reaches(a, r, p) /\ TargetsHomed(r, to, C)
    BY <1>9 DEF S
<1> QED
    BY <1>10 DEF r, C, to

\* An allocator that has given out nothing.
LEMMA EmptyFits ==
    ASSUME Ground
    PROVE  Fit(EmptyAllocator, 0) /\ EmptyAllocator.ok /\ EmptyAllocator.scratch = <<>> /\ EmptyAllocator.next = 0
<1> DEFINE a == EmptyAllocator
<1>1. limit \in Nat
    BY DEF Ground
<1>2. a \in Allocator
    <2>1. <<>> \in Seq(Entry(limit)) /\ <<>> \in Seq(0 .. limit - 1)
        BY EmptySeq
    <2> QED
        BY <1>1, <2>1 DEF EmptyAllocator, Allocator
<1>3. /\ a.active = <<>> /\ a.scratch = <<>> /\ a.free = {} /\ a.next = 0 /\ a.ok = TRUE
      /\ \A v \in Value : a.home[v] = None
      /\ \A r \in 0 .. limit : a.owner[r] = None
    BY DEF EmptyAllocator
<1> HIDE DEF a
<1>4. Range(a.active) = {} /\ Range(a.scratch) = {} /\ IsActive(a.active, limit)
    BY <1>3, EmptySeq DEF Range, IsActive
<1>5. Sound(a)
    BY <1>2, <1>3, <1>4 DEF Sound
<1>6. NeededFrom(a, 0) = {}
    BY <1>3 DEF NeededFrom
<1>7. Secure(a, 0) /\ Unspilled(a)
    BY <1>3, <1>6 DEF Secure, Kept, Owned, Unspilled
<1> QED
    BY <1>3, <1>5, <1>7 DEF Fit, a

\* The registers that the first n parameters take.
Taken(n) == n + Cardinality({i \in 1 .. n : fn.params[i] \in fn.wide})

\* The first n parameters take the registers below the next one.
LEMMA TakenGrows ==
    ASSUME NEW n \in Nat
    PROVE  /\ Taken(n) \in Nat /\ Taken(0) = 0
           /\ Taken(n + 1) = Taken(n) + Width(fn.params[n + 1])
           /\ \A m \in Nat : n <= m => Taken(n) <= Taken(m)
<1> DEFINE W(m) == {i \in 1 .. m : fn.params[i] \in fn.wide}
<1>1. \A m \in Nat : IsFiniteSet(W(m)) /\ Cardinality(W(m)) \in Nat
    <2> SUFFICES ASSUME NEW m \in Nat
                 PROVE  IsFiniteSet(W(m)) /\ Cardinality(W(m)) \in Nat
        OBVIOUS
    <2>1. IsFiniteSet(1 .. m) /\ W(m) \subseteq 1 .. m
        BY FS_Interval
    <2> QED
        BY <2>1, FS_Subset, FS_CardinalityType
<1>2. W(0) = {} /\ Cardinality(W(0)) = 0
    BY FS_EmptySet
<1>3. Taken(n + 1) = Taken(n) + Width(fn.params[n + 1])
    <2>1. CASE fn.params[n + 1] \in fn.wide
        <3>1. W(n + 1) = W(n) \cup {n + 1} /\ n + 1 \notin W(n)
            BY <2>1
        <3>2. Cardinality(W(n + 1)) = Cardinality(W(n)) + 1
            BY <1>1, <3>1, FS_AddElement
        <3>3. Taken(n + 1) = (n + 1) + Cardinality(W(n + 1)) /\ Taken(n) = n + Cardinality(W(n))
            BY DEF Taken
        <3>4. Width(fn.params[n + 1]) = 2 /\ Cardinality(W(n)) \in Nat
            BY <1>1, <2>1 DEF Width
        <3> HIDE DEF W
        <3> QED
            BY <3>2, <3>3, <3>4
    <2>2. CASE fn.params[n + 1] \notin fn.wide
        <3>1. W(n + 1) = W(n)
            BY <2>2
        <3>2. Taken(n + 1) = (n + 1) + Cardinality(W(n + 1)) /\ Taken(n) = n + Cardinality(W(n))
            BY DEF Taken
        <3>3. Width(fn.params[n + 1]) = 1 /\ Cardinality(W(n)) \in Nat
            BY <1>1, <2>2 DEF Width
        <3> HIDE DEF W
        <3> QED
            BY <3>1, <3>2, <3>3
    <2> QED
        BY <2>1, <2>2
<1>4. ASSUME NEW m \in Nat, n <= m
      PROVE  Taken(n) <= Taken(m)
    <2>1. W(n) \subseteq W(m)
        BY <1>4
    <2>2. Cardinality(W(n)) <= Cardinality(W(m))
        BY <1>1, <2>1, FS_Subset
    <2>3. Taken(n) = n + Cardinality(W(n)) /\ Taken(m) = m + Cardinality(W(m))
        BY DEF Taken
    <2>4. Cardinality(W(n)) \in Nat /\ Cardinality(W(m)) \in Nat
        BY <1>1
    <2> HIDE DEF W
    <2> QED
        BY <1>4, <2>2, <2>3, <2>4
<1>5. Taken(n) = n + Cardinality(W(n)) /\ Taken(0) = 0 + Cardinality(W(0))
    BY DEF Taken
<1>6. Cardinality(W(n)) \in Nat
    BY <1>1
<1> HIDE DEF W
<1>7. Taken(n) \in Nat /\ Taken(0) = 0
    BY <1>2, <1>5, <1>6
<1> QED
    BY <1>3, <1>4, <1>7

\* Every parameter gets its register before the walk starts.
LEMMA PrecoloredFits ==
    ASSUME Ground, NEW a, a = EmptyAllocator, Len(fn.params) \in Nat, DOMAIN fn.params = 1 .. Len(fn.params),
           \A i \in DOMAIN fn.params : Appears(fn.params[i]) = 0,
           Room(fn.params, fn.wide) <= limit
    PROVE  LET r == Precolored(a)
           IN  r.ok /\ Fit(r, 0) /\ \A v \in Range(fn.params) : r.home[v] # None
<1> DEFINE C == Len(fn.params)
           S == {c \in Allocator : c.ok /\ c.scratch = <<>> /\ Fit(c, 0)}
           Round(n, c) == Mapped(c, fn.params[n])
           h == [q \in (0 .. C - 1) \X S |-> IF q[2].next = Taken(q[1]) THEN Round(q[1] + 1, q[2]) ELSE q[2]]
           Is(f) == f = [n \in 0 .. C |-> IF n = 0 THEN a ELSE Round(n, f[n - 1])]
           upto == CHOOSE f : Is(f)
           r == Precolored(a)
<1>0. C \in Nat /\ a \in S /\ DOMAIN fn.params = 1 .. C /\ a.next = 0 /\ Taken(C) <= limit
    <2>1. Taken(C) <= limit
        BY DEF Taken, Room
    <2> QED
        BY <2>1, EmptyFits DEF Fit, Sound
<1>1. r = upto[C]
    BY DEF Precolored
<1> HIDE DEF C
<1>2. ASSUME NEW n \in 0 .. C - 1, NEW c \in S, c.next = Taken(n)
      PROVE  LET d == Round(n + 1, c)
             IN  /\ d \in S /\ d.next = Taken(n + 1)
                 /\ AllHomed(c, fn.params, n) => AllHomed(d, fn.params, n + 1)
    <2> DEFINE d == Mapped(c, fn.params[n + 1])
               v == fn.params[n + 1]
               b == c.next
    <2>1. n + 1 \in 1 .. C /\ n \in Nat /\ n + 1 \in Nat /\ n + 1 <= C
        BY <1>0
    <2>2. v \in Value /\ Appears(v) = 0
        BY <1>0, <2>1 DEF Value, Range
    <2>3. /\ Taken(n) \in Nat /\ Taken(n + 1) \in Nat /\ Taken(n + 1) = Taken(n) + Width(v)
          /\ Taken(n + 1) <= Taken(C) /\ Taken(C) \in Nat
        BY <1>0, <2>1, TakenGrows
    <2>4. b + Width(v) <= limit /\ b \in Nat /\ limit \in Nat
        BY <1>0, <1>2, <2>3 DEF Ground
    <2>5. Fit(c, 0) /\ Sound(c) /\ c.ok /\ c.scratch = <<>>
        BY DEF Fit
    <2> HIDE DEF v, S
    <2>6. d = Mapped(c, v)
        BY DEF v
    <2> HIDE DEF d
    <2>7. d \in Allocator /\ d.ok = c.ok /\ Gains(c, d, v, b) /\ d.next = b + Width(v)
        BY <2>2, <2>4, <2>5, <2>6, MappedGains
    <2> HIDE DEF b
    <2>8. 0 <= Appears(v)
        BY <2>2
    <2>9. Fit(d, 0) /\ Comes(c, d) /\ d.home[v] = b
        BY <2>2, <2>4, <2>5, <2>7, <2>8, GainsFits
    <2>10. d.scratch = <<>>
        BY <2>5, <2>7 DEF Gains
    <2>11. d \in S /\ d.next = Taken(n + 1)
        BY <1>2, <2>3, <2>5, <2>7, <2>9, <2>10 DEF S, b
    <2>12. ASSUME AllHomed(c, fn.params, n), NEW i \in 1 .. n + 1
           PROVE  d.home[fn.params[i]] # None
        <3>1. CASE i = n + 1
            BY <2>4, <2>9, <3>1 DEF v, Ground
        <3>2. CASE i # n + 1
            <4>1. i \in 1 .. n /\ i \in 1 .. C
                BY <1>0, <2>1, <3>2
            <4>2. fn.params[i] \in Value
                BY <1>0, <4>1 DEF Value, Range
            <4>3. c.home[fn.params[i]] # None
                BY <2>5, <2>12, <4>1 DEF AllHomed
            <4> QED
                BY <2>9, <2>10, <4>2, <4>3 DEF Comes
        <3> QED
            BY <3>1, <3>2
    <2> QED
        BY <2>11, <2>12 DEF AllHomed, d
<1>3. h \in [(0 .. C - 1) \X S -> S]
    <2> HIDE DEF S, Round
    <2> QED
        BY <1>2
<1>4. PICK g \in [0 .. C -> S] : Loops(g, h, a, S, C)
    <2> HIDE DEF h, S
    <2> QED
        BY <1>0, <1>3, Loop
<1> HIDE DEF S, Round, r
<1>5. \A n \in 0 .. C : g[n].next = Taken(n)
    <2> DEFINE R == {n \in 0 .. C : g[n].next = Taken(n)}
    <2>1. 0 \in R
        <3>1. Taken(0) = 0 /\ 0 \in 0 .. C
            BY <1>0, TakenGrows
        <3>2. g[0] = a
            BY <1>4 DEF Loops
        <3> QED
            BY <1>0, <3>1, <3>2
    <2>2. ASSUME NEW n \in 0 .. C - 1, n \in R
          PROVE  n + 1 \in R
        <3>1. n + 1 \in 1 .. C /\ n + 1 \in 0 .. C /\ (n + 1) - 1 = n /\ n \in 0 .. C
            BY <1>0
        <3>2. g[n] \in S /\ g[n + 1] = h[<<n, g[n]>>]
            BY <1>4, <3>1 DEF Loops
        <3>3. g[n + 1] = Round(n + 1, g[n])
            BY <2>2, <3>2
        <3> QED
            BY <1>2, <2>2, <3>1, <3>2, <3>3
    <2> HIDE DEF R
    <2>3. 0 .. C \subseteq R
        BY <1>0, <2>1, <2>2, Upwards
    <2> QED
        BY <2>3 DEF R
<1>6. Is(g)
    <2>1. ASSUME NEW n \in 0 .. C
          PROVE  g[n] = IF n = 0 THEN a ELSE Round(n, g[n - 1])
        <3>1. n # 0 => n \in 1 .. C /\ (n - 1) + 1 = n /\ n - 1 \in 0 .. C
            BY <1>0
        <3>2. n # 0 => g[n - 1].next = Taken(n - 1)
            BY <1>5, <3>1
        <3> QED
            BY <1>4, <3>1, <3>2 DEF Loops
    <2> QED
        BY <2>1
<1>7. Is(upto)
    <2> HIDE DEF Is
    <2> QED
        BY <1>6
<1> HIDE DEF upto
<1>8. \A n \in 0 .. C : upto[n] = IF n = 0 THEN a ELSE Round(n, upto[n - 1])
    BY <1>7
<1>9. 0 .. C \subseteq {n \in 0 .. C : upto[n] \in S /\ upto[n].next = Taken(n) /\ AllHomed(upto[n], fn.params, n)}
    <2> DEFINE R == {n \in 0 .. C : upto[n] \in S /\ upto[n].next = Taken(n) /\ AllHomed(upto[n], fn.params, n)}
    <2>1. 0 \in R
        BY <1>0, <1>8, TakenGrows DEF AllHomed
    <2>2. ASSUME NEW n \in 0 .. C - 1, n \in R
          PROVE  n + 1 \in R
        <3>1. n + 1 \in 0 .. C /\ n + 1 # 0 /\ (n + 1) - 1 = n
            BY <1>0
        <3>2. upto[n + 1] = Round(n + 1, upto[n])
            BY <1>8, <3>1
        <3> QED
            BY <1>2, <2>2, <3>1, <3>2
    <2> HIDE DEF R
    <2>3. 0 .. C \subseteq R
        BY <1>0, <2>1, <2>2, Upwards
    <2> QED
        BY <2>3 DEF R
<1>10. r \in S /\ AllHomed(r, fn.params, C)
    BY <1>0, <1>1, <1>9
<1>11. r.ok /\ Fit(r, 0) /\ \A v \in Range(fn.params) : r.home[v] # None
    BY <1>0, <1>10 DEF S, AllHomed, Range
<1> QED
    BY <1>11 DEF r

-----------------------------------------------------------------------------
(* From point to point                                                       *)

\* What ends before p goes; what is needed from p on was needed before.
LEMMA ExpireFits ==
    ASSUME Ground, NEW a, NEW p \in Nat \ {0}, Sound(a), Unspilled(a), Secure(a, p - 1)
    PROVE  LET r == ExpireBefore(a, p)
           IN  Fit(r, p) /\ r.ok = a.ok /\ r.scratch = a.scratch /\ r.home = a.home
<1> DEFINE dead == {i \in DOMAIN a.active : a.active[i].last < p}
           k == Cardinality(dead)
           t == SubSeq(a.active, k + 1, Len(a.active))
           f == a.free \union ({a.active[i].reg : i \in dead} \ Range(a.scratch))
           r == [a EXCEPT !.active = t, !.free = f]
<1>0. a \in Allocator /\ IsActive(a.active, limit) /\ limit \in Nat
    BY DEF Sound, Ground
<1>1. ExpireBefore(a, p) = r
    BY DEF ExpireBefore
<1>2. IsActive(t, limit) /\ Range(t) = {e \in Range(a.active) : p <= e.last}
    <2> DEFINE n == k
    <2>1. n = Cardinality({i \in DOMAIN a.active : a.active[i].last < p})
        OBVIOUS
    <2> HIDE DEF n
    <2>2. /\ IsActive(SubSeq(a.active, n + 1, Len(a.active)), limit)
          /\ Range(SubSeq(a.active, n + 1, Len(a.active))) = {e \in Range(a.active) : p <= e.last}
        BY <1>0, <2>1, Expired
    <2> QED
        BY <2>2 DEF n
<1> HIDE DEF t
<1>3. ASSUME NEW i \in dead
      PROVE  /\ a.active[i] \in Range(a.active) /\ a.active[i].reg \in 0 .. limit - 1 /\ a.active[i].reg < a.next
             /\ \A e \in Range(t) : e.reg # a.active[i].reg
    <2>1. i \in DOMAIN a.active /\ a.active[i].last < p
        OBVIOUS
    <2>2. a.active[i] \in Range(a.active) /\ a.active[i] \in Entry(limit)
        BY <2>1, Fields DEF Range
    <2>3. a.active[i].reg \in 0 .. limit - 1 /\ a.active[i].last \in Nat
        BY <2>2 DEF Entry
    <2>4. a.active[i].reg < a.next
        BY <2>2 DEF Sound
    <2>5. ASSUME NEW e \in Range(t), e.reg = a.active[i].reg
          PROVE  FALSE
        <3>1. e \in Range(a.active) /\ p <= e.last
            BY <1>2
        <3>2. PICK j \in DOMAIN a.active : e = a.active[j]
            BY <3>1 DEF Range
        <3>3. j = i
            BY <1>0, <2>1, <2>5, <3>2 DEF IsActive
        <3> QED
            BY <2>1, <2>3, <3>1, <3>2, <3>3
    <2> QED
        BY <2>2, <2>3, <2>4, <2>5
<1>4. /\ a.free \subseteq f /\ f \subseteq 0 .. limit - 1
      /\ \A q \in f : q \notin Range(a.scratch) /\ q < a.next /\ \A e \in Range(t) : e.reg # q
    <2>1. ASSUME NEW q \in a.free
          PROVE  q \in 0 .. limit - 1 /\ q \notin Range(a.scratch) /\ q < a.next /\ \A e \in Range(t) : e.reg # q
        BY <1>2, Fields DEF Sound
    <2>2. ASSUME NEW q \in f, q \notin a.free
          PROVE  q \in 0 .. limit - 1 /\ q \notin Range(a.scratch) /\ q < a.next /\ \A e \in Range(t) : e.reg # q
        <3>1. PICK i \in dead : q = a.active[i].reg
            BY <2>2
        <3>2. q \notin Range(a.scratch)
            BY <2>2
        <3> HIDE DEF dead
        <3> QED
            BY <1>3, <3>1, <3>2
    <2>3. a.free \subseteq f
        OBVIOUS
    <2> HIDE DEF f
    <2> QED
        BY <2>1, <2>2, <2>3
<1> HIDE DEF f, dead
<1>5. t \in Seq(Entry(limit))
    BY <1>2 DEF IsActive
<1>6. r \in Allocator
    BY <1>0, <1>4, <1>5 DEF Allocator
<1>7. /\ r.home = a.home /\ r.owner = a.owner /\ r.active = t /\ r.scratch = a.scratch
      /\ r.ok = a.ok /\ r.free = f /\ r.next = a.next
    BY <1>0 DEF Allocator
<1> HIDE DEF r
<1>8. Sound(r)
    <2>1. \A e \in Range(r.active) : e.reg \notin r.free /\ e.reg \notin Range(r.scratch) /\ e.reg < r.next
        BY <1>2, <1>4, <1>7 DEF Sound
    <2>2. \A q \in r.free : q \notin Range(r.scratch) /\ q < r.next
        BY <1>4, <1>7
    <2>3. \A v \in Value : r.home[v] # None => r.home[v] + Width(v) <= r.next
        BY <1>7 DEF Sound
    <2>4. \A q \in Range(r.scratch) : q < r.next
        BY <1>7 DEF Sound
    <2>5. \A q \in 0 .. limit : r.next <= q => r.owner[q] = None
        BY <1>7 DEF Sound
    <2> QED
        BY <1>2, <1>6, <1>7, <2>1, <2>2, <2>3, <2>4, <2>5 DEF Sound
<1>9. \A v \in NeededFrom(r, p) : v \in NeededFrom(a, p - 1) /\ p <= live[v] /\ live[v] \in Nat
    <2> SUFFICES ASSUME NEW v \in NeededFrom(r, p)
                 PROVE  v \in NeededFrom(a, p - 1) /\ p <= live[v] /\ live[v] \in Nat
        OBVIOUS
    <2>1. v \in Value /\ a.home[v] # None /\ p <= live[v]
        BY <1>7 DEF NeededFrom
    <2>2. live[v] \in Nat
        BY <2>1 DEF Ground
    <2> QED
        BY <2>1, <2>2 DEF NeededFrom
<1>10. \A v : Regs(r, v) = Regs(a, v)
    BY <1>7 DEF Regs
<1>11. ASSUME Kept(a, p - 1)
       PROVE  Kept(r, p)
    <2>1. ASSUME NEW v \in NeededFrom(r, p), NEW q \in Regs(r, v)
          PROVE  [reg |-> q, last |-> live[v]] \in Range(r.active)
        <3>1. [reg |-> q, last |-> live[v]] \in Range(a.active)
            BY <1>9, <1>10, <1>11 DEF Kept
        <3> QED
            BY <1>2, <1>7, <1>9, <3>1
    <2>2. \A v, w \in NeededFrom(r, p) : v # w => Regs(r, v) \cap Regs(r, w) = {}
        BY <1>9, <1>10, <1>11 DEF Kept
    <2> QED
        BY <2>1, <2>2 DEF Kept
<1>12. Owned(a, p - 1) => Owned(r, p)
    BY <1>7, <1>9, <1>10 DEF Owned
<1>13. Secure(r, p)
    BY <1>7, <1>11, <1>12 DEF Secure
<1>14. Unspilled(r)
    BY <1>7, <1>10 DEF Unspilled
<1> QED
    BY <1>1, <1>7, <1>8, <1>13, <1>14 DEF Fit

-----------------------------------------------------------------------------
(* The function                                                              *)

\* What is known of a block of a function that is well formed.
IsBlock(c, targets) ==
    /\ IsList(c.params) /\ None \notin Range(c.params) /\ IsList(c.insts)
    /\ \A i \in DOMAIN c.insts : IsPoint(c.insts[i]) /\ c.insts[i].to = <<>>
    /\ IsPoint(c.term) /\ c.term.def = None
    /\ \A t \in Range(c.term.to) : t.block \in targets

\* A point of block b.
IsPointOf(q, b, targets) ==
    /\ q.b = b
    /\ Len(q.uses) \in Nat /\ DOMAIN q.uses = 1 .. Len(q.uses)
    /\ Len(q.to) \in Nat /\ DOMAIN q.to = 1 .. Len(q.to)
    /\ \A t \in Range(q.to) : t.block \in targets
    /\ q.op \in Callish \cup {"param"} => q.def # None /\ q.to = <<>>
    /\ q.to # <<>> => q.def = None

\* A sequence that is not empty, of points of b.
ArePointsOf(s, b, targets) ==
    /\ s \in Seq(Range(s)) /\ s # <<>>
    /\ \A q \in Range(s) : IsPointOf(q, b, targets)

\* What a sequence is.
LEMMA Listed ==
    ASSUME NEW s, IsList(s)
    PROVE  /\ Len(s) \in Nat /\ DOMAIN s = 1 .. Len(s)
           /\ \A i \in DOMAIN s : s[i] \in Range(s)
BY LenProperties DEF IsList, Range

\* A function on the first n naturals is a sequence.
LEMMA CountedOff ==
    ASSUME NEW n \in Nat, NEW S, NEW f \in [1 .. n -> S]
    PROVE  f \in Seq(Range(f))
<1>1. f \in [1 .. n -> Range(f)]
    BY DEF Range
<1> DEFINE T == Range(f)
<1> HIDE DEF T
<1>2. [1 .. n -> T] \subseteq Seq(T)
    BY SeqDef
<1> QED
    BY <1>1, <1>2 DEF T

\* The empty sequence holds nothing.
LEMMA NoPoints == IsList(<<>>) /\ Range(<<>>) = {}
BY EmptySeq DEF IsList, Range

\* A concatenation holds what its halves hold.
LEMMA JoinedRange ==
    ASSUME NEW S, NEW s \in Seq(S), NEW t \in Seq(S)
    PROVE  s \o t \in Seq(S) /\ Range(s \o t) = Range(s) \cup Range(t)
<1> DEFINE m == Len(s)
           n == Len(t)
           u == s \o t
<1>1. m \in Nat /\ n \in Nat /\ DOMAIN s = 1 .. m /\ DOMAIN t = 1 .. n /\ m = Len(s) /\ n = Len(t)
    BY LenProperties
<1> HIDE DEF m, n
<1>2. /\ u \in Seq(S) /\ Len(u) = m + n
      /\ \A i \in 1 .. m : u[i] = s[i]
      /\ \A i \in 1 .. n : u[m + i] = t[i]
    BY <1>1, Joined
<1> HIDE DEF u
<1>3. DOMAIN u = 1 .. m + n
    BY <1>2, LenProperties
<1>4. Range(u) \subseteq Range(s) \cup Range(t)
    <2> SUFFICES ASSUME NEW i \in 1 .. m + n
                 PROVE  u[i] \in Range(s) \cup Range(t)
        BY <1>3 DEF Range
    <2>1. CASE i \in 1 .. m
        BY <1>1, <1>2, <2>1 DEF Range
    <2>2. CASE i \notin 1 .. m
        <3>1. i - m \in 1 .. n /\ m + (i - m) = i
            BY <1>1, <2>2
        <3> QED
            BY <1>1, <1>2, <3>1 DEF Range
    <2> QED
        BY <2>1, <2>2
<1>5. Range(s) \subseteq Range(u)
    <2> SUFFICES ASSUME NEW i \in 1 .. m
                 PROVE  s[i] \in Range(u)
        BY <1>1 DEF Range
    <2>1. i \in DOMAIN u
        BY <1>1, <1>3
    <2> QED
        BY <1>2, <2>1 DEF Range
<1>6. Range(t) \subseteq Range(u)
    <2> SUFFICES ASSUME NEW i \in 1 .. n
                 PROVE  t[i] \in Range(u)
        BY <1>1 DEF Range
    <2>1. m + i \in DOMAIN u
        BY <1>1, <1>3
    <2> QED
        BY <1>2, <2>1 DEF Range
<1> QED
    BY <1>2, <1>4, <1>5, <1>6 DEF u

\* The points of a block: it has a terminator.
LEMMA PointsOfBlock ==
    ASSUME NEW blocks, NEW targets, NEW b, IsBlock(blocks[b], targets)
    PROVE  /\ ArePointsOf(PointsOf(blocks, b), b, targets)
           /\ \A v \in Range(blocks[b].params) :
                 \E q \in Range(PointsOf(blocks, b)) : q.def = v /\ q.op = "param"
<1> DEFINE c == blocks[b]
           first == [i \in DOMAIN c.params |->
                        [b |-> b, op |-> "param", def |-> c.params[i], uses |-> <<>>,
                         takes |-> {}, to |-> <<>>]]
           middle == [i \in DOMAIN c.insts |-> [c.insts[i] EXCEPT !.b = b]]
           last == <<[c.term EXCEPT !.b = b]>>
           U == Range(first) \cup Range(middle) \cup Range(last)
           s == first \o middle \o last
<1>0. PointsOf(blocks, b) = s
    BY DEF PointsOf
<1>12. \A v \in Range(c.params) : \E q \in Range(first) : q.def = v /\ q.op = "param"
    <2> SUFFICES ASSUME NEW v \in Range(c.params)
                 PROVE  \E q \in Range(first) : q.def = v /\ q.op = "param"
        OBVIOUS
    <2>1. PICK i \in DOMAIN c.params : v = c.params[i]
        BY DEF Range
    <2>2. first[i].def = v /\ first[i].op = "param" /\ i \in DOMAIN first
        BY <2>1
    <2> HIDE DEF first, c
    <2>3. first[i] \in Range(first)
        BY <2>2 DEF Range
    <2> QED
        BY <2>2, <2>3
<1>1. first \in Seq(Range(first)) /\ \A q \in Range(first) : IsPointOf(q, b, targets)
    <2>1. Len(c.params) \in Nat /\ DOMAIN c.params = 1 .. Len(c.params) /\ \A i \in DOMAIN c.params : c.params[i] # None
        BY Listed DEF IsBlock
    <2>2. \A i \in DOMAIN c.params : IsPointOf(first[i], b, targets)
        BY <2>1, NoPoints, Listed, EmptySeq DEF IsPointOf, Callish
    <2>3. first \in [1 .. Len(c.params) -> {first[i] : i \in DOMAIN c.params}]
        BY <2>1
    <2>4. first \in Seq(Range(first))
        <3> DEFINE n == Len(c.params)
                   S == {first[i] : i \in DOMAIN c.params}
        <3>1. n \in Nat /\ first \in [1 .. n -> S]
            BY <2>1, <2>3
        <3> HIDE DEF n, first, S
        <3> QED
            BY <3>1, CountedOff
    <2> QED
        BY <2>2, <2>4 DEF Range
<1>2. middle \in Seq(Range(middle)) /\ \A q \in Range(middle) : IsPointOf(q, b, targets)
    <2>1. Len(c.insts) \in Nat /\ DOMAIN c.insts = 1 .. Len(c.insts)
        BY Listed DEF IsBlock
    <2>2. ASSUME NEW i \in DOMAIN c.insts
          PROVE  IsPointOf(middle[i], b, targets)
        <3> DEFINE x == c.insts[i]
        <3>1. IsPoint(x) /\ x.to = <<>>
            BY DEF IsBlock
        <3>2. middle[i] = [x EXCEPT !.b = b]
            OBVIOUS
        <3> HIDE DEF x, middle
        <3>3. Len(x.uses) \in Nat /\ DOMAIN x.uses = 1 .. Len(x.uses)
            BY <3>1, Listed DEF IsPoint
        <3>4. /\ middle[i].b = b /\ middle[i].op = x.op /\ middle[i].def = x.def /\ middle[i].uses = x.uses
              /\ middle[i].to = <<>>
            BY <3>1, <3>2 DEF IsPoint
        <3>5. Len(<<>>) \in Nat /\ DOMAIN <<>> = 1 .. Len(<<>>) /\ Range(<<>>) = {}
            BY NoPoints, Listed
        <3> QED
            BY <3>1, <3>3, <3>4, <3>5 DEF IsPoint, IsPointOf, Callish
    <2>3. middle \in [1 .. Len(c.insts) -> {middle[i] : i \in DOMAIN c.insts}]
        BY <2>1
    <2>4. middle \in Seq(Range(middle))
        <3> DEFINE n == Len(c.insts)
                   S == {middle[i] : i \in DOMAIN c.insts}
        <3>1. n \in Nat /\ middle \in [1 .. n -> S]
            BY <2>1, <2>3
        <3> HIDE DEF n, middle, S
        <3> QED
            BY <3>1, CountedOff
    <2> QED
        BY <2>2, <2>4 DEF Range
<1>3. last \in Seq(Range(last)) /\ last # <<>> /\ \A q \in Range(last) : IsPointOf(q, b, targets)
    <2> DEFINE x == c.term
    <2>1. IsPoint(x) /\ x.def = None /\ \A t \in Range(x.to) : t.block \in targets
        BY DEF IsBlock
    <2> DEFINE y == [x EXCEPT !.b = b]
    <2>2. y.b = b /\ y.op = x.op /\ y.def = x.def /\ y.uses = x.uses /\ y.to = x.to
        BY <2>1 DEF IsPoint
    <2>3. /\ Len(x.uses) \in Nat /\ DOMAIN x.uses = 1 .. Len(x.uses)
          /\ Len(x.to) \in Nat /\ DOMAIN x.to = 1 .. Len(x.to)
        BY <2>1, Listed DEF IsPoint
    <2> HIDE DEF x, y
    <2>4. IsPointOf(y, b, targets)
        BY <2>1, <2>2, <2>3 DEF IsPoint, IsPointOf, Callish
    <2>5. <<y>> \in Seq(Range(<<y>>)) /\ <<y>> # <<>> /\ Range(<<y>>) = {y}
        BY DEF Range
    <2> QED
        BY <2>4, <2>5 DEF y, x
<1> HIDE DEF first, middle, last
<1>4. first \in Seq(U) /\ middle \in Seq(U) /\ last \in Seq(U)
    BY <1>1, <1>2, <1>3, SeqMonotonic
<1>5. first \o middle \in Seq(U) /\ Range(first \o middle) = Range(first) \cup Range(middle)
    BY <1>4, JoinedRange
<1> DEFINE u == first \o middle
<1> HIDE DEF u, U
<1>6. u \in Seq(U) /\ Range(u) = Range(first) \cup Range(middle)
    BY <1>5 DEF u
<1>7. u \o last \in Seq(U) /\ Range(u \o last) = Range(u) \cup Range(last)
    BY <1>4, <1>6, JoinedRange
<1>8. s = u \o last
    BY DEF u
<1> HIDE DEF s
<1>9. s \in Seq(U) /\ Range(s) = U
    BY <1>6, <1>7, <1>8 DEF U
<1>10. s # <<>>
    <2>1. Range(last) # {}
        BY <1>3, LenProperties DEF Range
    <2> QED
        BY <1>9, <2>1, NoPoints DEF U
<1>11. \A q \in Range(s) : IsPointOf(q, b, targets)
    BY <1>1, <1>2, <1>3, <1>9 DEF U
<1>13. \A v \in Range(c.params) : \E q \in Range(s) : q.def = v /\ q.op = "param"
    BY <1>9, <1>12 DEF U
<1> QED
    BY <1>0, <1>9, <1>10, <1>11, <1>13 DEF ArePointsOf

\* All the points of all the blocks, and nothing else.
LEMMA Flattened ==
    ASSUME NEW blocks, IsList(blocks), NEW targets,
           \A b \in DOMAIN blocks : ArePointsOf(PointsOf(blocks, b), b, targets)
    PROVE  /\ IsList(Flatten(blocks))
           /\ Range(Flatten(blocks)) = UNION {Range(PointsOf(blocks, b)) : b \in DOMAIN blocks}
<1> DEFINE C == Len(blocks)
           P(b) == PointsOf(blocks, b)
           U == UNION {Range(P(b)) : b \in DOMAIN blocks}
           S == Seq(U)
           h == [q \in (0 .. C - 1) \X S |-> q[2] \o P(q[1] + 1)]
           Is(f) == f = [n \in 0 .. C |-> IF n = 0 THEN <<>> ELSE f[n - 1] \o P(n)]
           upto == CHOOSE f : Is(f)
           r == Flatten(blocks)
<1>0. C \in Nat /\ DOMAIN blocks = 1 .. C /\ <<>> \in S
    BY Listed, EmptySeq
<1>1. r = upto[C]
    BY DEF Flatten
<1> HIDE DEF C, r
<1>2. ASSUME NEW n \in 1 .. C
      PROVE  P(n) \in S /\ Range(P(n)) \subseteq U
    <2>1. P(n) \in Seq(Range(P(n))) /\ Range(P(n)) \subseteq U
        BY <1>0 DEF ArePointsOf
    <2> HIDE DEF P, U
    <2> QED
        BY <2>1, SeqMonotonic
<1> HIDE DEF P, U
<1>3. ASSUME NEW n \in 1 .. C, NEW s \in S
      PROVE  s \o P(n) \in S /\ Range(s \o P(n)) = Range(s) \cup Range(P(n))
    BY <1>2, JoinedRange
<1>4. h \in [(0 .. C - 1) \X S -> S]
    <2>1. \A n \in 0 .. C - 1 : n + 1 \in 1 .. C
        BY <1>0
    <2> HIDE DEF S
    <2> QED
        BY <1>3, <2>1
<1>5. PICK g \in [0 .. C -> S] : Loops(g, h, <<>>, S, C)
    <2> HIDE DEF h, S
    <2> QED
        BY <1>0, <1>4, Loop
<1> HIDE DEF S
<1>6. Is(g)
    <2>1. ASSUME NEW n \in 0 .. C
          PROVE  g[n] = IF n = 0 THEN <<>> ELSE g[n - 1] \o P(n)
        <3>1. n # 0 => n \in 1 .. C /\ (n - 1) + 1 = n
            BY <1>0
        <3>2. CASE n = 0
            BY <1>5, <3>2 DEF Loops
        <3>3. CASE n # 0
            <4>1. g[n - 1] \in S /\ n - 1 \in 0 .. C - 1 /\ g[n] = h[<<n - 1, g[n - 1]>>]
                BY <1>5, <3>1, <3>3 DEF Loops
            <4> QED
                BY <3>1, <3>3, <4>1
        <3> QED
            BY <3>2, <3>3
    <2> QED
        BY <2>1
<1>7. Is(upto)
    <2>1. upto = CHOOSE f : f = [n \in 0 .. C |-> IF n = 0 THEN <<>> ELSE f[n - 1] \o P(n)]
        OBVIOUS
    <2> HIDE DEF Is
    <2> QED
        BY <1>6
<1> HIDE DEF upto
<1>8. \A n \in 0 .. C : upto[n] = IF n = 0 THEN <<>> ELSE upto[n - 1] \o P(n)
    BY <1>7
<1>9. 0 .. C \subseteq {n \in 0 .. C : upto[n] \in S /\ Range(upto[n]) = UNION {Range(P(b)) : b \in 1 .. n}}
    <2> DEFINE R == {n \in 0 .. C : upto[n] \in S /\ Range(upto[n]) = UNION {Range(P(b)) : b \in 1 .. n}}
    <2>1. 0 \in R
        <3>1. upto[0] = <<>> /\ 0 \in 0 .. C
            BY <1>0, <1>8
        <3>2. Range(<<>>) = {} /\ 1 .. 0 = {}
            BY NoPoints
        <3> QED
            BY <1>0, <3>1, <3>2
    <2>2. ASSUME NEW n \in 0 .. C - 1, n \in R
          PROVE  n + 1 \in R
        <3>1. n + 1 \in 0 .. C /\ n + 1 # 0 /\ (n + 1) - 1 = n /\ n + 1 \in 1 .. C
            BY <1>0
        <3>2. upto[n + 1] = upto[n] \o P(n + 1)
            BY <1>8, <3>1
        <3>3. upto[n + 1] \in S /\ Range(upto[n + 1]) = Range(upto[n]) \cup Range(P(n + 1))
            BY <1>3, <2>2, <3>1, <3>2
        <3>4. 1 .. n + 1 = (1 .. n) \cup {n + 1}
            BY <3>1
        <3>5. UNION {Range(P(b)) : b \in 1 .. n + 1} = (UNION {Range(P(b)) : b \in 1 .. n}) \cup Range(P(n + 1))
            BY <3>4
        <3> QED
            BY <2>2, <3>1, <3>3, <3>5
    <2> HIDE DEF R
    <2>3. 0 .. C \subseteq R
        BY <1>0, <2>1, <2>2, Upwards
    <2> QED
        BY <2>3 DEF R
<1>10. r \in S /\ Range(r) = UNION {Range(P(b)) : b \in 1 .. C}
    BY <1>0, <1>1, <1>9
<1>11. Range(r) = U
    BY <1>0, <1>10 DEF U
<1> QED
    BY <1>10, <1>11 DEF r, U, S, P, IsList

\* What is known of the function throughout.
Shape ==
    /\ limit \in Nat /\ None \notin Value
    /\ Len(points) \in Nat /\ Points = 1 .. Len(points) /\ 1 \in Points
    /\ Len(fn.blocks) \in Nat /\ Blocks = 1 .. Len(fn.blocks)
    /\ IsList(fn.params) /\ Room(fn.params, fn.wide) <= limit
    /\ \A b \in Blocks : /\ InBlock(b) # {}
                         /\ IsList(fn.blocks[b].params) /\ Range(fn.blocks[b].params) \subseteq Value
                         /\ \A v \in Range(fn.blocks[b].params) :
                               \E p \in DefinedAt(v) : points[p].op = "param"
    /\ \A p \in Points : points[p].b \in Blocks /\ IsPointOf(points[p], points[p].b, Blocks)
    /\ \A p, q \in Points : points[p].def = points[q].def => p = q \/ points[p].def = None
    /\ \A p \in Points : points[p].def \notin Range(fn.params)
    /\ \A p \in Points : IsRk(p) => Len(points[p].uses) = 2 /\ Range(points[p].uses) \subseteq Value \ fn.wide
    /\ \A i \in DOMAIN fn.cleanup : fn.cleanup[i].start \in Blocks /\ fn.cleanup[i].end \in Blocks
    /\ \A h \in Range(fn.handlers) : h.block \in Blocks

\* What the validator passes has that shape.
LEMMA ShapeInit ==
    ASSUME Init
    PROVE  Shape
<1> DEFINE targets == Blocks
<1>1. PICK f \in Function : fn = f.fn /\ limit = f.limit
    BY DEF Init
<1>2. points = Flatten(fn.blocks)
    BY DEF Init
<1>3. WellFormed(f)
    BY FunctionsAssumption
<1>4. /\ limit \in Nat
      /\ IsList(fn.params) /\ None \notin Range(fn.params) /\ Room(fn.params, fn.wide) <= limit
      /\ IsList(fn.blocks) /\ fn.blocks # <<>>
      /\ IsList(fn.handlers) /\ \A h \in Range(fn.handlers) : h.block \in Blocks
    BY <1>1, <1>3 DEF WellFormed, Blocks
<1>5. \A b \in Blocks : IsBlock(fn.blocks[b], Blocks)
    BY <1>1, <1>3 DEF WellFormed, IsBlock, Blocks
<1>6. \A i \in DOMAIN fn.cleanup : fn.cleanup[i].start \in Blocks /\ fn.cleanup[i].end \in Blocks
    BY <1>1, <1>3 DEF WellFormed, Blocks
<1>7. /\ \A p, q \in Points : points[p].def = points[q].def => p = q \/ points[p].def = None
      /\ Range(fn.params) \cap ({points[p].def : p \in Points} \ {None}) = {}
      /\ \A p \in Points :
            points[p].op \in {"rk", "rkl"} =>
               /\ Len(points[p].uses) = 2
               /\ Range(points[p].uses)
                    \subseteq (Range(fn.params) \cup ({points[q].def : q \in Points} \ {None})) \ fn.wide
    BY <1>1, <1>2, <1>3 DEF WellFormed, Points
<1>8. \A b \in Blocks : /\ ArePointsOf(PointsOf(fn.blocks, b), b, targets)
                        /\ \A v \in Range(fn.blocks[b].params) :
                              \E q \in Range(PointsOf(fn.blocks, b)) : q.def = v /\ q.op = "param"
    <2> TAKE b \in Blocks
    <2>1. IsBlock(fn.blocks[b], targets)
        BY <1>5
    <2> HIDE DEF targets
    <2> QED
        BY <2>1, PointsOfBlock
<1> HIDE DEF targets
<1>9. IsList(points) /\ Range(points) = UNION {Range(PointsOf(fn.blocks, b)) : b \in Blocks}
    BY <1>2, <1>4, <1>8, Flattened DEF Blocks
<1>10. /\ Len(points) \in Nat /\ Points = 1 .. Len(points) /\ \A p \in Points : points[p] \in Range(points)
       /\ Len(fn.blocks) \in Nat /\ Blocks = 1 .. Len(fn.blocks)
    BY <1>4, <1>9, Listed DEF Points, Blocks
<1>11. ASSUME NEW q \in Range(points)
       PROVE  \E p \in Points : points[p] = q
    BY DEF Range, Points
<1>12. ASSUME NEW p \in Points
       PROVE  points[p].b \in Blocks /\ IsPointOf(points[p], points[p].b, Blocks)
    <2>1. PICK b \in Blocks : points[p] \in Range(PointsOf(fn.blocks, b))
        BY <1>9, <1>10
    <2>2. IsPointOf(points[p], b, Blocks)
        BY <1>8, <2>1 DEF ArePointsOf, targets
    <2> QED
        BY <2>2 DEF IsPointOf
<1>13. ASSUME NEW b \in Blocks
       PROVE  InBlock(b) # {}
    <2>1. PointsOf(fn.blocks, b) \in Seq(Range(PointsOf(fn.blocks, b))) /\ PointsOf(fn.blocks, b) # <<>>
        BY <1>8 DEF ArePointsOf
    <2>2. Range(PointsOf(fn.blocks, b)) # {}
        <3> DEFINE s == PointsOf(fn.blocks, b)
        <3>1. s \in Seq(Range(s)) /\ s # <<>>
            BY <2>1
        <3> HIDE DEF s
        <3>2. Len(s) \in Nat \ {0} /\ DOMAIN s = 1 .. Len(s)
            BY <3>1, EmptySeq, LenProperties
        <3>3. 1 \in DOMAIN s
            BY <3>2
        <3> QED
            BY <3>3 DEF Range, s
    <2>3. PICK q \in Range(PointsOf(fn.blocks, b)) : TRUE
        BY <2>2
    <2>4. q \in Range(points) /\ q.b = b
        BY <1>8, <1>9 DEF ArePointsOf, IsPointOf
    <2>5. PICK p \in Points : points[p] = q
        BY <1>11, <2>4
    <2> QED
        BY <2>4, <2>5 DEF InBlock
<1>14. 1 \in Points
    <2>1. Len(fn.blocks) \in Nat \ {0}
        BY <1>4, EmptySeq DEF IsList
    <2>2. 1 \in Blocks
        BY <1>10, <2>1
    <2>3. Points # {}
        BY <1>13, <2>2 DEF InBlock
    <2> QED
        BY <1>10, <2>3
<1>15. ASSUME NEW b \in Blocks
       PROVE  /\ IsList(fn.blocks[b].params) /\ Range(fn.blocks[b].params) \subseteq Value
              /\ \A v \in Range(fn.blocks[b].params) :
                    \E p \in DefinedAt(v) : points[p].op = "param"
    <2>1. IsList(fn.blocks[b].params) /\ None \notin Range(fn.blocks[b].params)
        BY <1>5 DEF IsBlock
    <2>2. ASSUME NEW v \in Range(fn.blocks[b].params)
          PROVE  v \in Value /\ \E p \in DefinedAt(v) : points[p].op = "param"
        <3>1. PICK q \in Range(PointsOf(fn.blocks, b)) : q.def = v /\ q.op = "param"
            BY <1>8
        <3>2. q \in Range(points)
            BY <1>9
        <3>3. PICK p \in Points : points[p] = q
            BY <1>11, <3>2
        <3> QED
            BY <2>1, <3>1, <3>3 DEF Value, DefinedAt
    <2> QED
        BY <2>1, <2>2
<1>16. None \notin Value
    BY <1>4 DEF Value
<1>17. \A p \in Points : points[p].def \notin Range(fn.params)
    BY <1>4, <1>7
<1>18. \A p \in Points : IsRk(p) => Len(points[p].uses) = 2 /\ Range(points[p].uses) \subseteq Value \ fn.wide
    BY <1>7 DEF IsRk, Value
<1> QED
    BY <1>4, <1>6, <1>7, <1>10, <1>12, <1>13, <1>14, <1>15, <1>16, <1>17, <1>18 DEF Shape

\* Where a value comes into place.
LEMMA Appearing ==
    ASSUME Shape, NEW v \in Value
    PROVE  /\ Appears(v) \in Nat
           /\ Appears(v) = 0 <=> v \in Range(fn.params)
           /\ \A p \in Points : Appears(v) = p =>
                 points[p].def = v \/ \E t \in Range(points[p].to) : v \in Range(Params(t))
<1> DEFINE T == DefinedAt(v) \cup {p \in Points : \E t \in Range(points[p].to) : v \in Range(Params(t))}
<1>1. Points \in SUBSET Nat /\ 0 \notin Points
    BY DEF Shape
<1>2. CASE v \in Range(fn.params)
    BY <1>1, <1>2 DEF Appears
<1>3. CASE v \notin Range(fn.params)
    <2>1. Appears(v) = Min(T)
        BY <1>3 DEF Appears, Params
    <2>2. T \in SUBSET Points
        BY DEF DefinedAt
    <2>3. T # {}
        BY <1>3 DEF Value, DefinedAt
    <2>4. \A p \in T : points[p].def = v \/ \E t \in Range(points[p].to) : v \in Range(Params(t))
        BY DEF DefinedAt
    <2> HIDE DEF T
    <2>5. Min(T) \in T
        BY <1>1, <2>2, <2>3, LeastIsMin
    <2>6. Appears(v) \in T
        BY <2>1, <2>5
    <2> QED
        BY <1>1, <1>3, <2>2, <2>4, <2>6
<1> QED
    BY <1>2, <1>3

\* The little the lemmas on the allocator ask of the function.
LEMMA GroundHolds ==
    ASSUME Shape, live \in [Value -> Nat]
    PROVE  Ground
BY Appearing, NoneAssumption DEF Ground, Shape

\* A point that is no parameter computes its value.
LEMMA Computed ==
    ASSUME Shape, NEW p \in Points, points[p].def # None, points[p].op # "param"
    PROVE  points[p].def \in Value /\ Appears(points[p].def) = p
<1> DEFINE v == points[p].def
<1>1. v \in Value /\ v \notin Range(fn.params)
    BY DEF Value, Shape
<1>2. \A q \in DefinedAt(v) : q = p
    BY DEF DefinedAt, Shape
<1>3. DefinedAt(v) = {p}
    BY <1>2 DEF DefinedAt
<1>4. {q \in Points : \E t \in Range(points[q].to) : v \in Range(Params(t))} = {}
    <2> SUFFICES ASSUME NEW q \in Points, NEW t \in Range(points[q].to), v \in Range(Params(t))
                 PROVE  FALSE
        OBVIOUS
    <2>1. t.block \in Blocks
        BY DEF Shape, IsPointOf
    <2>2. PICK o \in DefinedAt(v) : points[o].op = "param"
        BY <2>1 DEF Shape, Params
    <2> QED
        BY <1>2, <2>2
<1>5. Appears(v) = Min({p})
    BY <1>1, <1>3, <1>4 DEF Appears, Params
<1>6. p \in Nat
    BY DEF Shape
<1>7. Min({p}) = p
    BY <1>6, LeastIsMin
<1> QED
    BY <1>1, <1>5, <1>7

\* Neither a block's parameter nor the result of a call is a constant.
LEMMA NoConstant ==
    ASSUME Shape, NEW p \in Points, points[p].op \in Callish \cup {"param"}
    PROVE  points[p].def \in Value /\ points[p].def # None /\ points[p].to = <<>> /\ ~IsConst(points[p].def)
<1>1. points[p].def # None /\ points[p].to = <<>>
    BY DEF Shape, IsPointOf
<1>2. \A q \in DefinedAt(points[p].def) : q = p
    BY <1>1 DEF DefinedAt, Shape
<1> QED
    BY <1>1, <1>2 DEF IsConst, Callish, Value

\* The parameters a jump gives values to.
LEMMA TargetParams ==
    ASSUME Shape, NEW p \in Points, NEW t \in Range(points[p].to)
    PROVE  /\ Len(Params(t)) \in Nat /\ DOMAIN Params(t) = 1 .. Len(Params(t))
           /\ \A v \in Range(Params(t)) : v \in Value /\ ~IsConst(v)
<1>1. t.block \in Blocks
    BY DEF Shape, IsPointOf
<1>2. IsList(Params(t)) /\ Range(Params(t)) \subseteq Value
    BY <1>1 DEF Shape, Params
<1>3. ASSUME NEW v \in Range(Params(t))
      PROVE  ~IsConst(v)
    <2>1. PICK q \in DefinedAt(v) : points[q].op = "param"
        BY <1>1 DEF Shape, Params
    <2> QED
        BY <2>1, NoConstant DEF DefinedAt
<1> QED
    BY <1>2, <1>3, Listed

\* A block ends at a point, and its jumps go to blocks.
LEMMA Terms ==
    ASSUME Shape, NEW b \in Blocks
    PROVE  Term(b) \in Points /\ Successors(b) \subseteq Blocks
<1> DEFINE T == InBlock(b)
           N == Len(points)
<1>1. N \in Nat /\ Points = 1 .. N /\ T # {} /\ T \subseteq Points
    BY DEF Shape, InBlock
<1>2. Term(b) = Max(T)
    BY DEF Term
<1> HIDE DEF T, N
<1>3. T \in SUBSET (0 .. N)
    BY <1>1
<1>4. Term(b) \in Points
    BY <1>1, <1>2, <1>3, Greatest
<1> QED
    BY <1>4 DEF Successors, Shape, IsPointOf

\* What blocks reach by edges between blocks are blocks.
LEMMA Reached ==
    ASSUME Shape, NEW s \in SUBSET Blocks, NEW next \in [Blocks -> SUBSET Blocks]
    PROVE  Closure(s, next) \subseteq Blocks
<1> DEFINE C == Len(fn.blocks)
           S == SUBSET Blocks
           Round(c) == c \union UNION {next[b] : b \in c}
           h == [q \in (0 .. C - 1) \X S |-> Round(q[2])]
           Is(f) == f = [n \in 0 .. C |-> IF n = 0 THEN s ELSE Round(f[n - 1])]
           upto == CHOOSE f : Is(f)
           r == Closure(s, next)
<1>0. C \in Nat /\ s \in S
    BY DEF Shape
<1>1. r = upto[C]
    BY DEF Closure
<1>2. \A c \in S : Round(c) \in S
    OBVIOUS
<1> HIDE DEF C, S, r, Round
<1>3. h \in [(0 .. C - 1) \X S -> S]
    BY <1>2
<1>4. PICK g \in [0 .. C -> S] : Loops(g, h, s, S, C)
    <2> HIDE DEF h
    <2> QED
        BY <1>0, <1>3, Loop
<1>5. Is(g)
    <2>1. ASSUME NEW n \in 0 .. C
          PROVE  g[n] = IF n = 0 THEN s ELSE Round(g[n - 1])
        <3>1. n # 0 => n \in 1 .. C
            BY <1>0
        <3> QED
            BY <1>4, <3>1 DEF Loops
    <2> QED
        BY <2>1
<1>6. Is(upto)
    <2>1. upto = CHOOSE f : f = [n \in 0 .. C |-> IF n = 0 THEN s ELSE Round(f[n - 1])]
        OBVIOUS
    <2> HIDE DEF Is
    <2> QED
        BY <1>5
<1> HIDE DEF upto
<1>7. \A n \in 0 .. C : upto[n] = IF n = 0 THEN s ELSE Round(upto[n - 1])
    BY <1>6
<1>8. 0 .. C \subseteq {n \in 0 .. C : upto[n] \in S}
    <2> DEFINE R == {n \in 0 .. C : upto[n] \in S}
    <2>1. 0 \in R
        BY <1>0, <1>7
    <2>2. ASSUME NEW n \in 0 .. C - 1, n \in R
          PROVE  n + 1 \in R
        <3>1. n + 1 \in 0 .. C /\ n + 1 # 0 /\ (n + 1) - 1 = n
            BY <1>0
        <3>2. upto[n + 1] = Round(upto[n])
            BY <1>7, <3>1
        <3> QED
            BY <1>2, <2>2, <3>1, <3>2
    <2> HIDE DEF R
    <2>3. 0 .. C \subseteq R
        BY <1>0, <2>1, <2>2, Upwards
    <2> QED
        BY <2>3 DEF R
<1> QED
    BY <1>0, <1>1, <1>8 DEF S, r

\* The blocks a cleanup record covers are blocks.
LEMMA CoversBlocks ==
    ASSUME Shape, NEW i \in DOMAIN fn.cleanup
    PROVE  Covered(fn.cleanup[i]) \subseteq Blocks
<1> DEFINE c == fn.cleanup[i]
           stop == IF c.before THEN {c.end} ELSE {}
           more(b) == {h.block : h \in {g \in Range(fn.handlers) :
                                           b \in g.body /\ HandlerCovered(g, c.value)}}
           next == [b \in Blocks |->
            IF KillsIn(c.value, b) # {} THEN {}
            ELSE (Successors(b) \union more(b)) \ stop]
           s == {c.start} \ stop
<1>1. Covered(c) = IF ~Eligible(c) THEN {} ELSE Closure(s, next)
    BY DEF Covered
<1>2. s \in SUBSET Blocks
    BY DEF Shape
<1>3. ASSUME NEW b \in Blocks
      PROVE  more(b) \subseteq Blocks /\ Successors(b) \subseteq Blocks
    BY Terms DEF Shape
<1> HIDE DEF more, stop
<1>4. next \in [Blocks -> SUBSET Blocks]
    BY <1>3
<1> HIDE DEF s, next
<1>5. Closure(s, next) \subseteq Blocks
    BY <1>2, <1>4, Reached
<1> QED
    BY <1>1, <1>5

\* compute_liveness: the last use of a value is a point, or 0.
LEMMA LastUses ==
    ASSUME Shape, \A i \in DOMAIN fn.cleanup : cover[i] \subseteq Blocks
    PROVE  LastUse \in [Value -> Nat]
<1> DEFINE N == Len(points)
           C == Len(fn.blocks)
           S == [Value -> 0 .. N]
           x == [v \in Value |-> OwnLastUse(v)]
           h == [q \in (0 .. C - 1) \X S |-> Looped(q[2], q[1] + 1)]
           Is(f) == f = [n \in 0 .. C |-> IF n = 0 THEN x ELSE Looped(f[n - 1], n)]
           upto == CHOOSE f : Is(f)
           r == LastUse
<1>0. C \in Nat /\ N \in Nat /\ Points = 1 .. N /\ Blocks = 1 .. C
    BY DEF Shape
<1>1. r = Pinned(upto[C])
    BY DEF LastUse
<1>2. Points \subseteq 0 .. N /\ 0 \in 0 .. N
    BY <1>0
<1> HIDE DEF N, C, r
<1>3. x \in S
    <2> SUFFICES ASSUME NEW v \in Value
                 PROVE  OwnLastUse(v) \in 0 .. N
        OBVIOUS
    <2> DEFINE T == {DefPoint(v)}
                    \union {p \in Points : v \in Reads(p)}
                    \union {p \in Points : \E t \in Range(points[p].to) :
                                t.args # <<>> /\ v \in Range(fn.blocks[t.block].params)}
    <2>1. DefPoint(v) \in 0 .. N
        <3>1. DefinedAt(v) \in SUBSET Nat /\ DefinedAt(v) \subseteq Points
            BY <1>0 DEF DefinedAt
        <3>2. DefinedAt(v) # {} => Min(DefinedAt(v)) \in Points
            BY <3>1, LeastIsMin
        <3> QED
            BY <1>2, <3>2 DEF DefPoint
    <2>2. T \in SUBSET (0 .. N) /\ T # {}
        BY <1>2, <2>1
    <2>3. OwnLastUse(v) = Max(T)
        BY DEF OwnLastUse
    <2> HIDE DEF T
    <2> QED
        BY <1>0, <2>2, <2>3, Greatest
<1>4. ASSUME NEW b \in Blocks, NEW last \in S
      PROVE  Looped(last, b) \in S
    <2>1. Term(b) \in 0 .. N
        BY <1>2, Terms
    <2> QED
        BY <2>1 DEF Looped
<1>5. ASSUME NEW last \in S
      PROVE  Pinned(last) \in S
    <2> DEFINE Ends(v) == UNION
                 {{Term(IF fn.cleanup[i].whole THEN Len(fn.blocks) ELSE fn.cleanup[i].end)}
                  \union {Term(b) : b \in cover[i]}
                     : i \in {j \in DOMAIN fn.cleanup : fn.cleanup[j].value = v}}
    <2>1. Pinned(last) = [v \in Value |-> Max({last[v]} \union Ends(v))]
        BY DEF Pinned
    <2>2. ASSUME NEW v \in Value
          PROVE  Max({last[v]} \union Ends(v)) \in 0 .. N
        <3>1. C \in Blocks
            <4>1. points[1].b \in Blocks
                BY DEF Shape
            <4> QED
                BY <1>0, <4>1
        <3>2. \A b \in Blocks : Term(b) \in 0 .. N
            BY <1>2, Terms
        <3>3. \A i \in DOMAIN fn.cleanup :
                 (IF fn.cleanup[i].whole THEN Len(fn.blocks) ELSE fn.cleanup[i].end) \in Blocks
            BY <3>1 DEF Shape, C
        <3>4. Ends(v) \subseteq 0 .. N
            BY <3>2, <3>3
        <3> DEFINE T == {last[v]} \union Ends(v)
        <3> HIDE DEF Ends
        <3>5. T \in SUBSET (0 .. N) /\ T # {}
            BY <3>4
        <3> HIDE DEF T
        <3>6. Max(T) \in 0 .. N
            BY <1>0, <3>5, Greatest
        <3> QED
            BY <3>6 DEF T
    <2> HIDE DEF Ends
    <2> QED
        BY <2>1, <2>2
<1> HIDE DEF S, x
<1>6. h \in [(0 .. C - 1) \X S -> S]
    <2>1. \A n \in 0 .. C - 1 : n + 1 \in Blocks
        BY <1>0
    <2> QED
        BY <1>4, <2>1
<1>7. PICK g \in [0 .. C -> S] : Loops(g, h, x, S, C)
    <2> HIDE DEF h
    <2> QED
        BY <1>0, <1>3, <1>6, Loop
<1>8. Is(g)
    <2>1. ASSUME NEW n \in 0 .. C
          PROVE  g[n] = IF n = 0 THEN x ELSE Looped(g[n - 1], n)
        <3>1. n # 0 => n \in 1 .. C /\ (n - 1) + 1 = n
            BY <1>0
        <3>2. CASE n = 0
            BY <1>7, <3>2 DEF Loops
        <3>3. CASE n # 0
            <4>1. g[n - 1] \in S /\ n - 1 \in 0 .. C - 1 /\ g[n] = h[<<n - 1, g[n - 1]>>]
                BY <1>7, <3>1, <3>3 DEF Loops
            <4> QED
                BY <3>1, <3>3, <4>1
        <3> QED
            BY <3>2, <3>3
    <2> QED
        BY <2>1
<1>9. Is(upto)
    <2>1. upto = CHOOSE f : f = [n \in 0 .. C |-> IF n = 0 THEN x ELSE Looped(f[n - 1], n)]
        OBVIOUS
    <2> HIDE DEF Is
    <2> QED
        BY <1>8
<1> HIDE DEF upto
<1>10. \A n \in 0 .. C : upto[n] = IF n = 0 THEN x ELSE Looped(upto[n - 1], n)
    BY <1>9
<1>11. 0 .. C \subseteq {n \in 0 .. C : upto[n] \in S}
    <2> DEFINE R == {n \in 0 .. C : upto[n] \in S}
    <2>1. 0 \in R
        BY <1>0, <1>3, <1>10
    <2>2. ASSUME NEW n \in 0 .. C - 1, n \in R
          PROVE  n + 1 \in R
        <3>1. n + 1 \in 0 .. C /\ n + 1 # 0 /\ (n + 1) - 1 = n /\ n + 1 \in Blocks
            BY <1>0
        <3>2. upto[n + 1] = Looped(upto[n], n + 1)
            BY <1>10, <3>1
        <3> QED
            BY <1>4, <2>2, <3>1, <3>2
    <2> HIDE DEF R
    <2>3. 0 .. C \subseteq R
        BY <1>0, <2>1, <2>2, Upwards
    <2> QED
        BY <2>3 DEF R
<1>12. r \in S
    BY <1>0, <1>1, <1>5, <1>11
<1>13. 0 .. N \subseteq Nat
    BY <1>0
<1> QED
    BY <1>12, <1>13 DEF S, r

-----------------------------------------------------------------------------
(* The steps                                                                 *)

\* The function does not change.
LEMMA ShapeStays ==
    ASSUME Shape, UNCHANGED <<fn, limit, points>>
    PROVE  Shape'
<1>1. Value' = Value /\ Points' = Points /\ Blocks' = Blocks
    BY DEF Value, Points, Blocks
<1>2. /\ \A b : InBlock(b)' = InBlock(b)
      /\ \A v : DefinedAt(v)' = DefinedAt(v)
      /\ \A p : IsRk(p)' = IsRk(p)
    BY <1>1 DEF InBlock, DefinedAt, IsRk
<1> QED
    BY <1>1, <1>2 DEF Shape

\* What is known of the next allocator, in terms of today's function.
LEMMA Carried ==
    ASSUME UNCHANGED <<fn, limit, points, skipped, live>>, NEW r, alloc' = r
    PROVE  /\ Sound(r) => Sound(alloc)'
           /\ Unspilled(r) => Unspilled(alloc)'
           /\ Secure(r, at' - 1) => Secure(alloc, at - 1)'
           /\ Seen(r, at') => Seen(alloc, at)'
<1>1. /\ Value' = Value /\ Points' = Points /\ Blocks' = Blocks
      /\ \A v : Width(v)' = Width(v)
      /\ \A v : DefinedAt(v)' = DefinedAt(v)
    BY DEF Value, Points, Blocks, Width, DefinedAt
<1>2. \A v : Appears(v)' = Appears(v)
    BY <1>1 DEF Appears
<1>3. Allocator' = Allocator
    BY <1>1 DEF Allocator, Entry
<1>4. Sound(r) => Sound(alloc)'
    BY <1>1, <1>3 DEF Sound, IsActive, Entry
<1>5. Unspilled(r) => Unspilled(alloc)'
    BY <1>1, <1>2 DEF Unspilled, Overlapping, Regs
<1>6. OneRegisterResults' <=> OneRegisterResults
    BY <1>1 DEF OneRegisterResults
<1>7. /\ Kept(r, at' - 1) => Kept(alloc, at - 1)'
      /\ Owned(r, at' - 1) => Owned(alloc, at - 1)'
    BY <1>1 DEF Kept, Owned, NeededFrom, Regs
<1>8. Secure(r, at' - 1) => Secure(alloc, at - 1)'
    BY <1>6, <1>7 DEF Secure
<1>9. Seen(r, at') => Seen(alloc, at)'
    BY <1>1, <1>2 DEF Seen, SkipLoad
<1> QED
    BY <1>4, <1>5, <1>8, <1>9

\* An allocator that has given a register to all that comes into place at a
\* point has seen what comes before the next one.
LEMMA SeesOn ==
    ASSUME Shape, at \in Points, Seen(alloc, at), NEW e, NEW r, Comes(e, r),
           e.scratch = alloc.scratch, e.home = alloc.home,
           r.scratch = <<>> => \A v \in Value : Appears(v) = at => r.home[v] # None \/ SkipLoad(v)
    PROVE  Seen(r, at + 1)
<1> SUFFICES ASSUME r.scratch = <<>>, NEW v \in Value, Appears(v) < at + 1
             PROVE  r.home[v] # None \/ SkipLoad(v)
    BY DEF Seen
<1>1. Appears(v) \in Nat /\ at \in Nat
    BY Appearing DEF Shape
<1>2. CASE Appears(v) = at
    BY <1>2
<1>3. CASE Appears(v) < at
    <2>1. alloc.home[v] # None \/ SkipLoad(v)
        BY <1>3 DEF Seen, Comes
    <2> QED
        BY <2>1 DEF Comes
<1> QED
    BY <1>1, <1>2, <1>3

\* One point of the walk.
LEMMA Walks ==
    ASSUME Shape, AllocInv, NEW r, Allocated(r), Works(ExpireBefore(alloc, at), r, at),
           r.ok /\ r.scratch = <<>> =>
              \A v \in Value : Appears(v) = at => r.home[v] # None \/ SkipLoad(v)
    PROVE  AllocInv'
<1> DEFINE e == ExpireBefore(alloc, at)
<1>1. /\ phase = "allocating" /\ alloc' = r
      /\ at' = IF at = Len(points) THEN 1 ELSE at + 1
      /\ phase' = IF ~r.ok THEN "refused"
                  ELSE IF at = Len(points) THEN "emitting" ELSE phase
      /\ UNCHANGED <<fn, limit, points, cover, skipped, live>>
    BY DEF Allocated, built
<1>2. at \in Points /\ live \in [Value -> Nat] /\ Ground
    BY <1>1, GroundHolds DEF AllocInv
<1>3. Points = 1 .. Len(points) /\ Len(points) \in Nat /\ 1 \in Points
    BY DEF Shape
<1>4. e.scratch = alloc.scratch /\ e.home = alloc.home
    <2>1. at \in Nat \ {0} /\ Sound(alloc) /\ Unspilled(alloc) /\ Secure(alloc, at - 1)
        BY <1>1, <1>2, <1>3 DEF AllocInv
    <2> QED
        BY <1>2, <2>1, ExpireFits
<1> HIDE DEF e
<1>5. CASE ~r.ok
    <2>1. phase' = "refused"
        BY <1>1, <1>5
    <2> QED
        BY <1>1, <2>1 DEF AllocInv, Value, Points, IsConst, DefinedAt
<1>6. CASE r.ok
    <2>1. Fit(r, at) /\ Comes(e, r)
        BY <1>6 DEF Works, e
    <2>2. Seen(r, at + 1)
        BY <1>1, <1>2, <1>4, <1>6, <2>1, SeesOn DEF AllocInv
    <2>3. phase' = "allocating" => at' - 1 = at /\ at' = at + 1
        BY <1>1, <1>2, <1>3, <1>6
    <2>4. at' \in Points /\ phase' \in {"allocating", "emitting"}
        BY <1>1, <1>2, <1>3, <1>6
    <2>5. Sound(alloc)' /\ Unspilled(alloc)'
        BY <1>1, <2>1, Carried DEF Fit
    <2>6. phase' = "allocating" => Secure(alloc, at - 1)' /\ Seen(alloc, at)'
        BY <1>1, <2>1, <2>2, <2>3, Carried DEF Fit
    <2>7. Points' = Points /\ Value' = Value /\ \A v : IsConst(v)' = IsConst(v)
        BY <1>1 DEF Points, Value, IsConst, DefinedAt
    <2> QED
        BY <1>1, <1>2, <1>6, <2>4, <2>5, <2>6, <2>7 DEF AllocInv
<1> QED
    BY <1>5, <1>6

\* The allocator at a point, with what ended before it gone: a value that is no
\* constant that is never loaded has a register, or comes into place from there on.
Starts(e) ==
    /\ Ground /\ at \in Nat \ {0} /\ Fit(e, at) /\ e.ok /\ e \in Allocator
    /\ \A v \in Value : e.scratch = <<>> /\ e.home[v] = None /\ ~SkipLoad(v) => at <= Appears(v)
    /\ \A v \in Value : SkipLoad(v) => IsConst(v)

\* The walk comes to a point.
LEMMA Started ==
    ASSUME Shape, AllocInv, phase = "allocating"
    PROVE  Starts(ExpireBefore(alloc, at))
<1> DEFINE e == ExpireBefore(alloc, at)
<1>1. Ground /\ at \in Nat \ {0}
    <2>1. live \in [Value -> Nat] /\ at \in Points
        BY DEF AllocInv
    <2>2. at \in Nat \ {0}
        BY <2>1 DEF Shape
    <2> QED
        BY <2>1, <2>2, GroundHolds
<1>2. Fit(e, at) /\ e.ok /\ e.scratch = alloc.scratch /\ e.home = alloc.home
    BY <1>1, ExpireFits DEF AllocInv
<1> HIDE DEF e
<1>3. e \in Allocator
    BY <1>2 DEF Fit, Sound
<1>4. ASSUME NEW v \in Value, e.scratch = <<>>, e.home[v] = None, ~SkipLoad(v)
      PROVE  at <= Appears(v)
    <2>1. ~(Appears(v) < at)
        BY <1>2, <1>4 DEF AllocInv, Seen
    <2>2. Appears(v) \in Nat
        BY Appearing
    <2> QED
        BY <1>1, <2>1, Appearing
<1>5. \A v \in Value : SkipLoad(v) => IsConst(v)
    BY DEF AllocInv, SkipLoad
<1> QED
    BY <1>1, <1>2, <1>3, <1>4, <1>5 DEF Starts, e

\* A parameter of a block: it comes into place here, or at a jump before.
LEMMA AllocateBlockParamWalks ==
    ASSUME Shape, AllocInv, AllocateBlockParam
    PROVE  AllocInv'
<1> DEFINE e == ExpireBefore(alloc, at)
           v == points[at].def
           r == AllocateRegister(e, v)
<1>1. Allocated(r) /\ phase = "allocating" /\ points[at].op = "param" /\ at \in Points
    BY DEF AllocateBlockParam, Allocated, AllocInv
<1>2. Starts(e)
    BY <1>1, Started
<1>3. v \in Value /\ points[at].to = <<>> /\ ~IsConst(v)
    BY <1>1, NoConstant
<1> HIDE DEF e
<1>4. Gets(e, r, v, at)
    BY <1>2, <1>3, AllocateRegisterGets DEF Starts
<1>5. Works(e, r, at) /\ (r.ok => r.home[v] # None)
    BY <1>4 DEF Gets
<1>6. \A w \in Value : Appears(w) = at => w = v
    BY <1>1, <1>3, Appearing, NoPoints
<1> HIDE DEF r, v
<1> QED
    BY <1>1, <1>5, <1>6, Walks DEF e

\* The result of an instruction, unless it is a constant nothing loads.
LEMMA AllocateResultWalks ==
    ASSUME Shape, AllocInv, AllocateResult
    PROVE  AllocInv'
<1> DEFINE e == ExpireBefore(alloc, at)
           v == points[at].def
           r == IF v = None \/ SkipLoad(v) THEN e ELSE AllocateRegister(e, v)
<1>1. /\ Allocated(r) /\ phase = "allocating" /\ points[at].op # "param" /\ points[at].to = <<>>
      /\ at \in Points
    BY DEF AllocateResult, Allocated, AllocInv
<1>2. Starts(e)
    BY <1>1, Started
<1> HIDE DEF e
<1>3. \A w \in Value : Appears(w) = at => w = v /\ v # None
    BY <1>1, Appearing, NoPoints DEF Shape
<1>4. v # None => v \in Value
    BY <1>1, Computed
<1>5. Works(e, r, at) /\ (r.ok => v = None \/ SkipLoad(v) \/ r.home[v] # None)
    <2>1. CASE v = None \/ SkipLoad(v)
        BY <1>2, <2>1 DEF Starts, Works, Comes
    <2>2. CASE v # None /\ ~SkipLoad(v)
        <3>1. Gets(e, AllocateRegister(e, v), v, at)
            BY <1>2, <1>4, <2>2, AllocateRegisterGets DEF Starts
        <3> QED
            BY <2>2, <3>1 DEF Gets
    <2> QED
        BY <2>1, <2>2
<1> HIDE DEF r, v
<1> QED
    BY <1>1, <1>3, <1>5, Walks DEF e

\* The result of a call.
LEMMA AllocateCallWalks ==
    ASSUME Shape, AllocInv, AllocateCall
    PROVE  AllocInv'
<1> DEFINE e == ExpireBefore(alloc, at)
           v == points[at].def
           r == ReserveCallWindow(e, at)
<1>1. Allocated(r) /\ phase = "allocating" /\ points[at].op \in Callish /\ at \in Points
    BY DEF AllocateCall, Allocated, AllocInv
<1>2. Starts(e)
    BY <1>1, Started
<1>3. v \in Value /\ points[at].to = <<>> /\ v # None /\ points[at].op # "param"
    BY <1>1, NoConstant DEF Callish
<1>4. Appears(v) = at
    BY <1>1, <1>3, Computed
<1>5. WindowSize(at) \in Nat /\ Width(v) <= WindowSize(at)
    <2> DEFINE s == points[at].uses
               W == {i \in DOMAIN s : s[i] \in fn.wide}
    <2>1. Len(s) \in Nat /\ DOMAIN s = 1 .. Len(s)
        BY <1>1 DEF Shape, IsPointOf
    <2> DEFINE n == Len(s)
    <2>2. W \subseteq 1 .. n /\ n \in Nat
        BY <2>1
    <2>3. WindowSize(at) = Width(v) + (n + Cardinality(W))
        BY DEF WindowSize, Room
    <2> HIDE DEF n, W
    <2>4. Cardinality(W) \in Nat
        <3>1. IsFiniteSet(1 .. n)
            BY <2>2, FS_Interval
        <3>2. IsFiniteSet(W)
            BY <2>2, <3>1, FS_Subset
        <3> QED
            BY <3>2, FS_CardinalityType
    <2> QED
        BY <2>2, <2>3, <2>4, Widths
<1> HIDE DEF e
<1>6. Gets(e, r, v, at)
    BY <1>1, <1>2, <1>3, <1>4, <1>5, CallWindowGets DEF Starts
<1>7. Works(e, r, at) /\ (r.ok => r.home[v] # None)
    BY <1>6 DEF Gets
<1>8. \A w \in Value : Appears(w) = at => w = v
    BY <1>1, <1>3, Appearing, NoPoints
<1> HIDE DEF r, v
<1> QED
    BY <1>1, <1>7, <1>8, Walks DEF e

\* A jump brings the parameters of its targets into place.
LEMMA AllocateTargetsWalks ==
    ASSUME Shape, AllocInv, AllocateTargets
    PROVE  AllocInv'
<1> DEFINE e == ExpireBefore(alloc, at)
           to == points[at].to
           r == PreallocateTargets(e, at)
<1>1. Allocated(r) /\ phase = "allocating" /\ to # <<>> /\ at \in Points
    BY DEF AllocateTargets, Allocated, AllocInv
<1>2. Starts(e)
    BY <1>1, Started
<1>3. Len(to) \in Nat /\ DOMAIN to = 1 .. Len(to) /\ points[at].def = None
    BY <1>1 DEF Shape, IsPointOf
<1> HIDE DEF e
<1>4. LateTargets(e, to, at)
    <2> SUFFICES ASSUME NEW i \in DOMAIN to
                 PROVE  /\ Len(Params(to[i])) \in Nat
                        /\ DOMAIN Params(to[i]) = 1 .. Len(Params(to[i]))
                        /\ Late(e, Params(to[i]), at)
        BY DEF LateTargets
    <2>1. to[i] \in Range(to)
        BY DEF Range
    <2>2. /\ Len(Params(to[i])) \in Nat /\ DOMAIN Params(to[i]) = 1 .. Len(Params(to[i]))
          /\ \A v \in Range(Params(to[i])) : v \in Value /\ ~IsConst(v)
        BY <1>1, <2>1, TargetParams
    <2>3. Late(e, Params(to[i]), at)
        BY <1>2, <2>2 DEF Late, Starts, Range
    <2> QED
        BY <2>2, <2>3
<1>5. Reaches(e, r, at) /\ TargetsHomed(r, to, Len(to))
    BY <1>2, <1>3, <1>4, PreallocateWorks DEF Starts
<1>6. Works(e, r, at)
    BY <1>5 DEF Reaches, Works
<1>7. ASSUME r.ok, r.scratch = <<>>, NEW v \in Value, Appears(v) = at
      PROVE  r.home[v] # None
    <2>1. PICK t \in Range(to) : v \in Range(Params(t))
        BY <1>1, <1>3, <1>7, Appearing DEF Shape
    <2>2. PICK i \in 1 .. Len(to) : t = to[i]
        BY <1>3 DEF Range
    <2> QED
        BY <1>5, <1>7, <2>1, <2>2 DEF TargetsHomed
<1> HIDE DEF r, to
<1> QED
    BY <1>1, <1>6, <1>7, Walks DEF e

\* Nothing is in place before the first point but the function's parameters.
LEMMA PrecolorFits ==
    ASSUME Shape, AllocInv, Precolor
    PROVE  AllocInv'
<1> DEFINE r == Precolored(alloc)
<1>1. /\ phase = "precoloring" /\ phase' = "allocating" /\ alloc' = r
      /\ UNCHANGED <<fn, limit, points, at, cover, skipped, live>>
    BY DEF Precolor, built
<1>2. at = 1 /\ alloc = EmptyAllocator /\ live \in [Value -> Nat] /\ Ground
    BY <1>1, GroundHolds DEF AllocInv
<1>3. Len(fn.params) \in Nat /\ DOMAIN fn.params = 1 .. Len(fn.params) /\ Room(fn.params, fn.wide) <= limit
    BY Listed DEF Shape
<1>4. \A i \in DOMAIN fn.params : Appears(fn.params[i]) = 0
    BY DEF Range, Appears
<1>5. r.ok /\ Fit(r, 0) /\ \A v \in Range(fn.params) : r.home[v] # None
    BY <1>2, <1>3, <1>4, PrecoloredFits
<1> HIDE DEF r
<1>6. Seen(r, 1)
    <2> SUFFICES ASSUME NEW v \in Value, Appears(v) < 1
                 PROVE  v \in Range(fn.params)
        BY <1>5 DEF Seen
    <2>1. Appears(v) = 0
        BY Appearing
    <2> QED
        BY <2>1, Appearing
<1>7. at' = 1 /\ at' - 1 = 0
    BY <1>1, <1>2
<1>8. Sound(alloc)' /\ Unspilled(alloc)' /\ Secure(alloc, at - 1)' /\ Seen(alloc, at)'
    BY <1>1, <1>5, <1>6, <1>7, Carried DEF Fit
<1>9. Points' = Points /\ Value' = Value /\ \A v : IsConst(v)' = IsConst(v)
    BY <1>1 DEF Points, Value, IsConst, DefinedAt
<1>10. 1 \in Points
    BY DEF Shape
<1> QED
    BY <1>1, <1>2, <1>5, <1>7, <1>8, <1>9, <1>10 DEF AllocInv

\* Before anything has a register.
LEMMA EmptyHolds ==
    ASSUME Shape, UNCHANGED <<fn, limit, points>>, alloc' = EmptyAllocator, (live \in [Value -> Nat])'
    PROVE  (alloc.ok /\ Sound(alloc) /\ Unspilled(alloc))'
<1>1. Shape'
    BY ShapeStays
<1>2. Ground'
    BY <1>1, GroundHolds, PTL
<1>3. (Ground => Fit(EmptyAllocator, 0) /\ EmptyAllocator.ok)'
    BY EmptyFits, PTL
<1>4. (EmptyAllocator = alloc)'
    <2>1. Value' = Value
        BY DEF Value, Points
    <2> QED
        BY <2>1 DEF EmptyAllocator
<1> QED
    BY <1>2, <1>3, <1>4 DEF Fit

\* The analyses leave the allocator alone.
LEMMA AnalyseKeeps ==
    ASSUME Shape, AllocInv, Analyse
    PROVE  AllocInv'
<1>1. /\ phase = "analysing" /\ phase' = "measuring"
      /\ cover' = [i \in DOMAIN fn.cleanup |-> Covered(fn.cleanup[i])]
      /\ skipped' = {v \in Value : IsConst(v) /\ ~MustBeRegister(v)}
      /\ UNCHANGED <<fn, limit, points, at, live, alloc>>
    BY DEF Analyse, emitted
<1>2. at = 1 /\ alloc = EmptyAllocator /\ live \in [Value -> Nat] /\ alloc.ok /\ Sound(alloc) /\ Unspilled(alloc)
    BY <1>1 DEF AllocInv
<1>3. Points' = Points /\ Value' = Value /\ Blocks' = Blocks /\ \A v : IsConst(v)' = IsConst(v)
    BY <1>1 DEF Points, Value, IsConst, DefinedAt, Blocks
<1>4. \A i \in DOMAIN fn.cleanup : cover'[i] \subseteq Blocks
    BY <1>1, CoversBlocks
<1>5. EmptyAllocator' = EmptyAllocator
    BY <1>1, <1>3 DEF EmptyAllocator
<1>6. (alloc.ok /\ Sound(alloc) /\ Unspilled(alloc))'
    BY <1>1, <1>2, <1>3, EmptyHolds
<1> QED
    BY <1>1, <1>2, <1>3, <1>4, <1>5, <1>6 DEF AllocInv

\* Liveness is settled before anything has a register.
LEMMA ComputeLivenessKeeps ==
    ASSUME Shape, AllocInv, ComputeLiveness
    PROVE  AllocInv'
<1>1. /\ phase = "measuring" /\ phase' = "precoloring" /\ live' = LastUse
      /\ UNCHANGED <<fn, limit, points, at, cover, skipped, alloc>>
    BY DEF ComputeLiveness, emitted
<1>2. at = 1 /\ alloc = EmptyAllocator /\ \A i \in DOMAIN fn.cleanup : cover[i] \subseteq Blocks
    BY <1>1 DEF AllocInv
<1>3. LastUse \in [Value -> Nat]
    BY <1>2, LastUses
<1>4. Points' = Points /\ Value' = Value /\ \A v : IsConst(v)' = IsConst(v)
    BY <1>1 DEF Points, Value, IsConst, DefinedAt
<1>5. EmptyAllocator' = EmptyAllocator
    BY <1>1, <1>4 DEF EmptyAllocator
<1>6. (live \in [Value -> Nat])'
    BY <1>1, <1>3, <1>4
<1>7. (alloc.ok /\ Sound(alloc) /\ Unspilled(alloc))'
    BY <1>1, <1>2, <1>6, EmptyHolds
<1> QED
    BY <1>1, <1>2, <1>4, <1>5, <1>6, <1>7 DEF AllocInv

\* A constant that emission gives the next register to has it to itself.
LEMMA EnsureKeeps ==
    ASSUME Ground, NEW a, Sound(a), Unspilled(a), NEW p, NEW v \in Value, Width(v) = 1
    PROVE  LET r == EnsureInRegister(a, p, v)
           IN  r.ok => Sound(r) /\ Unspilled(r)
<1> DEFINE r == EnsureInRegister(a, p, v)
           b == a.next
           c == [a EXCEPT !.home[v] = b,
                          !.owner = [q \in DOMAIN @ |-> IF q \in b .. b + 1 - 1 THEN v ELSE @[q]],
                          !.next = @ + 1]
<1>1. /\ a \in Allocator /\ limit \in Nat /\ b \in 0 .. limit
      /\ a.home \in [Value -> (0 .. limit - 1) \cup {None}] /\ a.owner \in [0 .. limit -> Value \cup {None}]
      /\ a.scratch \in Seq(0 .. limit - 1) /\ a.free \subseteq 0 .. limit - 1
      /\ Range(a.active) \subseteq Entry(limit) /\ Range(a.scratch) \subseteq 0 .. limit - 1
    BY Fields DEF Sound, Ground
<1>2. \/ r = a
      \/ r = Failed(a)
      \/ r = c /\ b + 1 <= limit
    <2>1. r = a \/ r = Bumped(a, v, 1)
        BY DEF EnsureInRegister
    <2>2. Bumped(a, v, 1) = IF b + 1 > limit THEN Failed(a) ELSE c
        BY DEF Bumped
    <2>3. ~(b + 1 > limit) => b + 1 <= limit
        BY <1>1
    <2> HIDE DEF r, c
    <2> QED
        BY <2>1, <2>2, <2>3
<1>3. CASE r = a
    BY <1>3
<1>4. CASE r = Failed(a)
    BY <1>4, <1>1, FailedWorks
<1>5. CASE r = c /\ b + 1 <= limit
    <2> DEFINE T == (0 .. limit - 1) \cup {None}
               D == 0 .. limit
               U == Value \cup {None}
    <2>1. b \in T /\ b + 1 \in 0 .. limit /\ v \in U
        BY <1>1, <1>5
    <2>2. /\ a.home \in [Value -> T] /\ a.owner \in [D -> U]
        BY <1>1
    <2>3. b .. b + 1 - 1 = {b} /\ b \in D
        BY <1>1
    <2>4. /\ c.home = [a.home EXCEPT ![v] = b]
          /\ c.owner = [q \in D |-> IF q \in {b} THEN v ELSE a.owner[q]]
          /\ c.next = b + 1 /\ c.active = a.active /\ c.free = a.free /\ c.scratch = a.scratch
          /\ c.slot = a.slot /\ c.slots = a.slots /\ c.ok = a.ok
        BY <1>1, <2>2, <2>3 DEF Allocator
    <2> HIDE DEF T, D, U
    <2>5. c.home \in [Value -> T] /\ c.owner \in [D -> U]
        BY <2>1, <2>2, <2>4
    <2>6. c \in Allocator
        <3>1. c.next \in 0 .. limit
            BY <2>1, <2>4
        <3> QED
            BY <1>1, <2>5, <3>1 DEF Allocator, T, D, U
    <2>7. c.home[v] = b /\ \A w \in Value : w # v => c.home[w] = a.home[w]
        BY <2>2, <2>4
    <2> HIDE DEF c, b
    <2>8. \A w \in Value : c.home[w] # None => c.home[w] + Width(w) <= c.next
        <3> SUFFICES ASSUME NEW w \in Value, c.home[w] # None
                     PROVE  c.home[w] + Width(w) <= c.next
            OBVIOUS
        <3>1. CASE w = v
            BY <1>1, <2>4, <2>7, <3>1
        <3>2. CASE w # v
            <4>1. a.home[w] # None /\ c.home[w] = a.home[w]
                BY <2>7, <3>2
            <4>2. a.home[w] \in 0 .. limit - 1 /\ a.home[w] + Width(w) <= b
                BY <4>1, Homes DEF Sound, b
            <4> QED
                BY <1>1, <2>4, <4>1, <4>2, Widths
        <3> QED
            BY <3>1, <3>2
    <2>9. \A q \in 0 .. limit : c.next <= q => c.owner[q] = None
        <3> SUFFICES ASSUME NEW q \in 0 .. limit, b + 1 <= q
                     PROVE  c.owner[q] = None
            BY <2>4
        <3>1. q # b /\ b <= q
            BY <1>1
        <3>2. c.owner[q] = a.owner[q]
            BY <2>4, <3>1 DEF D
        <3> QED
            BY <3>1, <3>2 DEF Sound, b
    <2>10. Sound(c)
        <3>1. \A e \in Range(a.active) : e.reg \in 0 .. limit
            BY <1>1 DEF Entry
        <3>2. \A e \in Range(a.active) : e.reg < c.next
            BY <1>1, <2>4, <3>1 DEF Sound, b
        <3>3. \A q \in a.free : q < c.next
            BY <1>1, <2>4 DEF Sound, b
        <3>4. \A q \in Range(a.scratch) : q < c.next
            BY <1>1, <2>4 DEF Sound, b
        <3> QED
            BY <2>4, <2>6, <2>8, <2>9, <3>2, <3>3, <3>4 DEF Sound
    <2>11. Unspilled(c)
        <3> SUFFICES ASSUME a.scratch = <<>>, NEW x \in Value, NEW y \in Value,
                            c.home[x] # None, c.home[y] # None, x # y, Overlapping(x, y)
                     PROVE  Regs(c, x) \cap Regs(c, y) = {}
            BY <2>4 DEF Unspilled
        <3>1. ASSUME NEW w \in Value, w # v, c.home[w] # None
              PROVE  Regs(c, w) = Regs(a, w) /\ a.home[w] # None /\ \A q \in Regs(a, w) : q < b
            <4>1. a.home[w] # None /\ c.home[w] = a.home[w]
                BY <2>7, <3>1
            <4> QED
                BY <4>1, Homes DEF Regs, b
        <3>2. Regs(c, v) = {b}
            BY <2>3, <2>7 DEF Regs
        <3>3. CASE x = v
            BY <1>1, <3>1, <3>2, <3>3
        <3>4. CASE y = v
            BY <1>1, <3>1, <3>2, <3>4
        <3>5. CASE x # v /\ y # v
            BY <3>1, <3>5 DEF Unspilled
        <3> QED
            BY <3>3, <3>4, <3>5
    <2> QED
        BY <1>5, <2>10, <2>11
<1> QED
    BY <1>2, <1>3, <1>4, <1>5

\* What a failed allocator is given is not looked at.
LEMMA EnsureFails ==
    ASSUME NEW a, NEW p, NEW v, ~a.ok
    PROVE  EnsureInRegister(a, p, v) = a
BY DEF EnsureInRegister

\* Emission hands out registers above all others only.
LEMMA EmitKeeps ==
    ASSUME Shape, AllocInv, Emit
    PROVE  AllocInv'
<1> DEFINE r == WithOperands(alloc, at)
<1>1. /\ phase = "emitting" /\ alloc' = r
      /\ at' = IF at = Len(points) THEN Body(1) ELSE at + 1
      /\ phase' = IF ~r.ok THEN "refused"
                  ELSE IF at = Len(points) THEN "recording" ELSE phase
      /\ UNCHANGED <<fn, limit, points, cover, skipped, live>>
    BY DEF Emit, built
<1>2. /\ at \in Points /\ live \in [Value -> Nat] /\ Ground /\ alloc.ok /\ Sound(alloc) /\ Unspilled(alloc)
    BY <1>1, GroundHolds DEF AllocInv
<1>3. r.ok => Sound(r) /\ Unspilled(r)
    <2>1. CASE ~IsRk(at)
        BY <1>2, <2>1 DEF WithOperands
    <2>2. CASE IsRk(at)
        <3> DEFINE s == points[at].uses
                   b == EnsureInRegister(alloc, at, s[1])
                   c == EnsureInRegister(b, at, s[2])
        <3>1. r = c
            BY <2>2 DEF WithOperands
        <3>2. Len(s) = 2 /\ DOMAIN s = 1 .. 2 /\ Range(s) \subseteq Value \ fn.wide
            BY <1>2, <2>2 DEF Shape, IsPointOf
        <3>3. s[1] \in Value /\ s[2] \in Value /\ Width(s[1]) = 1 /\ Width(s[2]) = 1
            BY <3>2 DEF Range, Width
        <3>4. b.ok => Sound(b) /\ Unspilled(b)
            BY <1>2, <3>3, EnsureKeeps
        <3> HIDE DEF b
        <3>5. ~b.ok => c = b
            BY EnsureFails
        <3>6. b.ok => (c.ok => Sound(c) /\ Unspilled(c))
            BY <1>2, <3>3, <3>4, EnsureKeeps
        <3> QED
            BY <3>1, <3>5, <3>6
    <2> QED
        BY <2>1, <2>2
<1> HIDE DEF r
<1>4. Points' = Points /\ Value' = Value /\ \A v : IsConst(v)' = IsConst(v)
    BY <1>1 DEF Points, Value, IsConst, DefinedAt
<1>5. phase' \in {"refused", "recording", "emitting"}
    BY <1>1
<1>6. phase' # "refused" => r.ok
    BY <1>1
<1>7. phase' # "refused" => Sound(alloc)' /\ Unspilled(alloc)'
    BY <1>1, <1>3, <1>6, Carried
<1>8. phase' = "emitting" => at' \in Points
    BY <1>1, <1>2 DEF Shape
<1> QED
    BY <1>1, <1>2, <1>4, <1>5, <1>6, <1>7, <1>8 DEF AllocInv

\* What does not touch the allocator.
LEMMA OthersKeep ==
    ASSUME Shape, AllocInv, UNCHANGED <<fn, limit, points, cover, skipped, live, alloc>>,
           \/ UNCHANGED <<phase, at>>
           \/ phase' \notin {"analysing", "measuring", "precoloring", "allocating", "emitting", "refused"}
              /\ phase # "refused"
    PROVE  AllocInv'
<1>1. Points' = Points /\ Value' = Value /\ \A v : IsConst(v)' = IsConst(v)
    BY DEF Points, Value, IsConst, DefinedAt
<1>2. Blocks' = Blocks /\ EmptyAllocator' = EmptyAllocator
    BY <1>1 DEF Blocks, EmptyAllocator
<1>3. phase' # "refused" => Sound(alloc)' /\ Unspilled(alloc)'
    BY Carried DEF AllocInv
<1>4. at' = at => (phase = "allocating" => Secure(alloc, at - 1)' /\ Seen(alloc, at)')
    BY Carried DEF AllocInv
<1> QED
    BY <1>1, <1>2, <1>3, <1>4 DEF AllocInv

-----------------------------------------------------------------------------
(* The theorems                                                              *)

\* At the start.
LEMMA InvInit ==
    ASSUME Init
    PROVE  Shape /\ AllocInv
<1>1. Shape
    BY ShapeInit
<1>2. /\ phase = "analysing" /\ at = 1 /\ skipped = {} /\ live = [v \in Value |-> 0] /\ alloc = EmptyAllocator
    BY DEF Init
<1>3. live \in [Value -> Nat]
    BY <1>2
<1>4. Ground
    BY <1>1, <1>3, GroundHolds
<1>5. alloc.ok /\ Sound(alloc) /\ Unspilled(alloc)
    BY <1>2, <1>4, EmptyFits DEF Fit
<1> QED
    BY <1>1, <1>2, <1>3, <1>5 DEF AllocInv

\* The walk and emission keep the invariant; nothing after them touches what
\* it is about.
LEMMA InvStep ==
    ASSUME Shape, AllocInv, [Next]_vars
    PROVE  (Shape /\ AllocInv)'
<1>1. UNCHANGED <<fn, limit, points>>
    BY DEF Next, vars, Analyse, ComputeLiveness, Precolor, AllocateBlockParam, AllocateResult, AllocateCall,
           AllocateTargets, Allocated, Emit, BuildCleanupRecords, Enter, Execute, Call, CallThrows, Throw,
           Return, Leave, Jump, Catch, built
<1>2. Shape'
    BY <1>1, ShapeStays
<1>3. AllocInv'
    <2>1. CASE Analyse
        BY <2>1, AnalyseKeeps
    <2>2. CASE ComputeLiveness
        BY <2>2, ComputeLivenessKeeps
    <2>3. CASE Precolor
        BY <2>3, PrecolorFits
    <2>4. CASE AllocateBlockParam
        BY <2>4, AllocateBlockParamWalks
    <2>5. CASE AllocateResult
        BY <2>5, AllocateResultWalks
    <2>6. CASE AllocateCall
        BY <2>6, AllocateCallWalks
    <2>7. CASE AllocateTargets
        BY <2>7, AllocateTargetsWalks
    <2>8. CASE Emit
        BY <2>8, EmitKeeps
    <2>9. CASE BuildCleanupRecords \/ Enter
        BY <2>9, OthersKeep DEF BuildCleanupRecords, Enter, built, emitted
    <2>10. CASE Execute \/ Call \/ CallThrows
        BY <2>10, OthersKeep DEF Execute, Call, CallThrows, built, emitted
    <2>11. CASE Throw \/ Return \/ Leave
        BY <2>11, OthersKeep DEF Throw, Return, Leave, built, emitted
    <2>12. ASSUME NEW t, Jump(t)
           PROVE  AllocInv'
        BY <2>12, OthersKeep DEF Jump, built, emitted
    <2>13. ASSUME NEW h, Catch(h)
           PROVE  AllocInv'
        BY <2>13, OthersKeep DEF Catch, built, emitted
    <2>14. CASE UNCHANGED vars
        BY <2>14, OthersKeep DEF vars
    <2> QED
        BY <2>1, <2>2, <2>3, <2>4, <2>5, <2>6, <2>7, <2>8, <2>9, <2>10, <2>11, <2>12, <2>13, <2>14 DEF Next
<1> QED
    BY <1>2, <1>3

\* The invariant of the allocator: whatever the function, its blocks, its jumps
\* and the number of registers, every list the allocator keeps agrees with every
\* other at each point of the walk, and what is needed there is where it was put.
THEOREM AllocatorInvariant == Spec => [](Shape /\ AllocInv)
<1>1. Init => Shape /\ AllocInv
    BY InvInit
<1>2. Shape /\ AllocInv /\ [Next]_vars => (Shape /\ AllocInv)'
    BY InvStep
<1> QED
    BY <1>1, <1>2, PTL DEF Spec

\* The property follows from the invariant.
LEMMA InvApart ==
    ASSUME Shape, AllocInv, alloc.scratch = <<>> \/ OneRegisterResults
    PROVE  LiveRegistersAreApart
<1> SUFFICES ASSUME phase # "refused"
             PROVE  /\ alloc.next <= limit
                    /\ \A v \in Held : Registers(v) \subseteq 0 .. alloc.next - 1
                    /\ phase = "allocating" =>
                           /\ Apart(StillNeeded)
                           /\ \A v \in StillNeeded :
                                  Registers(v) \cap (alloc.free \union Range(alloc.scratch)) = {}
                    /\ NothingOverlaps
    BY DEF LiveRegistersAreApart
<1>1. Ground /\ Sound(alloc) /\ Unspilled(alloc)
    BY GroundHolds DEF AllocInv
<1>2. alloc.next \in 0 .. limit /\ limit \in Nat
    BY <1>1, Fields DEF Ground
<1>3. \A v : Registers(v) = Regs(alloc, v)
    BY DEF Registers, Regs
<1>4. ASSUME NEW v \in Held
      PROVE  Registers(v) \subseteq 0 .. alloc.next - 1
    <2>1. \A q \in Regs(alloc, v) : q \in 0 .. limit - 1 /\ q < alloc.next
        BY <1>1, Homes DEF Held
    <2> QED
        BY <1>2, <1>3, <2>1
<1>5. ASSUME phase = "allocating"
      PROVE  /\ Apart(StillNeeded)
             /\ \A v \in StillNeeded : Registers(v) \cap (alloc.free \union Range(alloc.scratch)) = {}
    <2>1. Kept(alloc, at - 1)
        BY <1>5 DEF AllocInv, Secure
    <2>2. \A v \in StillNeeded : v \in NeededFrom(alloc, at - 1)
        <3>1. at \in Nat /\ live \in [Value -> Nat]
            BY <1>5 DEF AllocInv, Shape
        <3> QED
            BY <3>1 DEF StillNeeded, Held, NeededFrom
    <2>3. Apart(StillNeeded)
        BY <1>3, <2>1, <2>2 DEF Apart, Kept
    <2>4. ASSUME NEW v \in StillNeeded, NEW q \in Registers(v)
          PROVE  q \notin alloc.free /\ q \notin Range(alloc.scratch)
        <3>1. [reg |-> q, last |-> live[v]] \in Range(alloc.active)
            BY <1>3, <2>1, <2>2, <2>4 DEF Kept
        <3> QED
            BY <1>1, <3>1 DEF Sound
    <2> QED
        BY <2>3, <2>4
<1>6. NothingOverlaps
    <2> SUFFICES ASSUME alloc.scratch = <<>>, NEW v \in Held, NEW w \in Held,
                        Appears(v) <= live[w], Appears(w) <= live[v]
                 PROVE  Apart({v, w})
        BY DEF NothingOverlaps
    <2>1. ASSUME NEW x \in {v, w}, NEW y \in {v, w}, x # y
          PROVE  Registers(x) \cap Registers(y) = {}
        BY <1>1, <1>3, <2>1 DEF Unspilled, Overlapping, Held
    <2> QED
        BY <2>1 DEF Apart
<1> QED
    BY <1>2, <1>4, <1>5, <1>6

\* No two values that are needed at the same time share a register, as long as
\* nothing is spilled; and with values spilled too, in a function whose calls
\* each return one register.
THEOREM RegistersAreApart ==
    Spec => [](alloc.scratch = <<>> \/ OneRegisterResults => LiveRegistersAreApart)
<1>1. Shape /\ AllocInv => (alloc.scratch = <<>> \/ OneRegisterResults => LiveRegistersAreApart)
    BY InvApart
<1> QED
    BY <1>1, AllocatorInvariant, PTL

=============================================================================
