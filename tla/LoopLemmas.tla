----------------------------- MODULE LoopLemmas -----------------------------
(***************************************************************************)
(* What the proofs about the loops of the runtime need and the library     *)
(* states only for an operator: induction over the naturals, the least     *)
(* element of a set of naturals, and a function defined by recursion over  *)
(* them, all three for sets and functions, in which the provers can        *)
(* instantiate them.  They follow from the theorem that a well-founded     *)
(* relation has minimal elements.                                          *)
(***************************************************************************)
EXTENDS Integers, FiniteSetTheorems, WellFoundedInduction, TLAPS

\* A set of naturals that is not empty has a least element.
LEMMA LeastNumber ==
    ASSUME NEW T \in SUBSET Nat, T # {}
    PROVE  \E m \in T : \A k \in T : m <= k
<1> DEFINE R == OpToRel(<, Nat)
<1>1. IsWellFoundedOn(R, Nat)
    BY NatLessThanWellFounded
<1>2. \A x, y \in Nat : x < y => <<x, y>> \in R
    BY DEF OpToRel
<1> HIDE DEF R
<1>3. PICK m \in T : \A k \in T : <<k, m>> \notin R
    BY <1>1, WFMin
<1>4. m \in Nat /\ \A k \in T : k \in Nat
    OBVIOUS
<1>5. \A k \in T : ~(k < m)
    BY <1>2, <1>3, <1>4
<1> QED
    BY <1>4, <1>5

\* Induction: a set with zero and the successor of each of its naturals.
LEMMA Induction ==
    ASSUME NEW S, 0 \in S, \A n \in Nat : n \in S => n + 1 \in S
    PROVE  Nat \subseteq S
<1> DEFINE T == Nat \ S
<1> SUFFICES ASSUME T # {}
             PROVE  FALSE
    OBVIOUS
<1>1. PICK m \in T : \A k \in T : m <= k
    <2>1. T \in SUBSET Nat
        OBVIOUS
    <2> HIDE DEF T
    <2> QED
        BY <2>1, LeastNumber
<1>2. m # 0 /\ m - 1 \in Nat /\ m - 1 \notin T
    BY <1>1
<1> QED
    BY <1>1, <1>2

\* g[n] is what n applications of h make of x.
Repeats(g, h, x) == g[0] = x /\ \A n \in Nat : g[n + 1] = h[g[n]]

\* Recursion: repeating a function from a given start is a function.
LEMMA Recursion ==
    ASSUME NEW S, NEW h \in [S -> S], NEW x \in S
    PROVE  \E g \in [Nat -> S] : Repeats(g, h, x)
<1> DEFINE Upto(g, n) == /\ g \in [Nat -> S] /\ g[0] = x
                         /\ \A m \in Nat : m < n => g[m + 1] = h[g[m]]
           R == {n \in Nat : \E g \in [Nat -> S] : Upto(g, n)}
<1>1. 0 \in R
    <2>1. Upto([m \in Nat |-> x], 0)
        OBVIOUS
    <2> QED
        BY <2>1
<1>2. ASSUME NEW n \in Nat, n \in R
      PROVE  n + 1 \in R
    <2>1. PICK g \in [Nat -> S] : Upto(g, n)
        BY <1>2
    <2> DEFINE f == [m \in Nat |-> IF m = n + 1 THEN h[g[n]] ELSE g[m]]
    <2>2. f \in [Nat -> S] /\ f[0] = x
        BY <2>1
    <2>3. ASSUME NEW m \in Nat, m < n + 1
          PROVE  f[m + 1] = h[f[m]]
        BY <2>1, <2>3
    <2> HIDE DEF f
    <2> QED
        BY <2>2, <2>3
<1>3. Nat \subseteq R
    <2> HIDE DEF R
    <2> QED
        BY <1>1, <1>2, Induction
<1>4. ASSUME NEW n \in Nat, NEW f, NEW g, Upto(f, n), Upto(g, n)
      PROVE  f[n] = g[n]
    <2> DEFINE E == {m \in Nat : m <= n => f[m] = g[m]}
    <2>1. 0 \in E /\ \A m \in Nat : m \in E => m + 1 \in E
        BY <1>4
    <2>2. Nat \subseteq E
        <3> HIDE DEF E
        <3> QED
            BY <2>1, Induction
    <2> QED
        BY <2>2
<1> DEFINE pick(n) == CHOOSE g \in [Nat -> S] : Upto(g, n)
           whole == [n \in Nat |-> pick(n)[n]]
<1>5. ASSUME NEW n \in Nat
      PROVE  Upto(pick(n), n)
    BY <1>3
<1> HIDE DEF pick
<1>6. whole \in [Nat -> S] /\ whole[0] = x
    BY <1>5
<1>7. ASSUME NEW n \in Nat
      PROVE  whole[n + 1] = h[whole[n]]
    <2>1. Upto(pick(n + 1), n + 1) /\ Upto(pick(n), n)
        BY <1>5
    <2>2. Upto(pick(n + 1), n)
        BY <2>1
    <2>3. pick(n + 1)[n + 1] = h[pick(n + 1)[n]]
        BY <2>1
    <2> HIDE DEF Upto
    <2>4. pick(n + 1)[n] = pick(n)[n]
        BY <1>4, <2>1, <2>2
    <2> QED
        BY <2>3, <2>4
<1> HIDE DEF whole
<1> QED
    BY <1>6, <1>7 DEF Repeats

\* The loop whose rounds know their number: from x, round n makes h[<<n, y>>] of y.
Runs(f, h, x, C) == f[0] = x /\ \A n \in 0 .. C - 1 : f[n + 1] = h[<<n, f[n]>>]

\* A loop of C rounds is a function too.
LEMMA Rounds ==
    ASSUME NEW C \in Nat, NEW S, NEW h \in [(0 .. C - 1) \X S -> S], NEW x \in S
    PROVE  \E f \in [0 .. C -> S] : Runs(f, h, x, C)
<1> DEFINE T == Nat \X S
           k == [q \in T |-> <<q[1] + 1, IF q[1] \in 0 .. C - 1 THEN h[<<q[1], q[2]>>] ELSE q[2]>>]
<1>1. <<0, x>> \in T
    OBVIOUS
<1>2. k \in [T -> T]
    <2> SUFFICES ASSUME NEW q \in T
                 PROVE  <<q[1] + 1, IF q[1] \in 0 .. C - 1 THEN h[<<q[1], q[2]>>] ELSE q[2]>> \in T
        OBVIOUS
    <2>1. q[1] \in 0 .. C - 1 => <<q[1], q[2]>> \in (0 .. C - 1) \X S
        OBVIOUS
    <2> QED
        BY <2>1
<1>3. PICK g \in [Nat -> T] : g[0] = <<0, x>> /\ \A n \in Nat : g[n + 1] = k[g[n]]
    <2> HIDE DEF k, T
    <2>1. \E g \in [Nat -> T] : Repeats(g, k, <<0, x>>)
        BY <1>1, <1>2, Recursion
    <2> QED
        BY <2>1 DEF Repeats
<1>4. \A n \in Nat : g[n][1] = n
    <2> DEFINE R == {n \in Nat : g[n][1] = n}
    <2>1. 0 \in R
        BY <1>3
    <2>2. ASSUME NEW n \in Nat, n \in R
          PROVE  n + 1 \in R
        <3>1. g[n] \in T /\ g[n + 1] = k[g[n]] /\ g[n][1] = n
            BY <1>3, <2>2
        <3>2. k[g[n]][1] = g[n][1] + 1
            BY <3>1
        <3> QED
            BY <3>1, <3>2
    <2>3. Nat \subseteq R
        <3> HIDE DEF R
        <3> QED
            BY <2>1, <2>2, Induction
    <2> QED
        BY <2>3
<1> DEFINE f == [n \in 0 .. C |-> g[n][2]]
<1>5. f \in [0 .. C -> S] /\ f[0] = x
    <2>1. \A n \in 0 .. C : g[n] \in T
        BY <1>3
    <2> QED
        BY <1>3, <2>1
<1>6. ASSUME NEW n \in 0 .. C - 1
      PROVE  f[n + 1] = h[<<n, f[n]>>]
    <2>1. n \in Nat /\ n \in 0 .. C /\ n + 1 \in 0 .. C
        OBVIOUS
    <2>2. g[n + 1] = k[g[n]] /\ g[n] \in T /\ g[n][1] = n
        BY <1>3, <1>4, <2>1
    <2>3. k[g[n]] = <<n + 1, h[<<n, g[n][2]>>]>>
        BY <2>2
    <2>4. g[n + 1][2] = h[<<n, g[n][2]>>]
        BY <2>2, <2>3
    <2> QED
        BY <2>1, <2>4
<1> HIDE DEF f
<1> QED
    BY <1>5, <1>6 DEF Runs

=============================================================================
