--------------------------- MODULE RoxyListProofs ---------------------------
(***************************************************************************)
(* Theorems of RoxyList, for every set of elements, every initial capacity *)
(* and every bound.                                                        *)
(*                                                                         *)
(* The invariant is that of the run: a length within the buffer, elements  *)
(* that were written, borrows into the live buffer that the pin counts;    *)
(* and, to make it inductive, that a destroyed list is empty.  The lemmas  *)
(* are one for growth, which moves the buffer, and one for each kind of    *)
(* change the other operations make: the elements alone, or the borrows    *)
(* alone.                                                                  *)
(***************************************************************************)
EXTENDS RoxyList, SequenceTheorems, TLAPS

Gone == ~alive => length = 0 /\ capacity = 0

Inv == TypeOK /\ ElementsWritten /\ BorrowedElementsStay /\ Gone

LEMMA FreshSlots ==
    ASSUME NEW n \in Nat
    PROVE  Fresh(n) \in [Slots(n) -> Val \cup {Junk}]
BY DEF Fresh

LEMMA NoBorrows ==
    ASSUME TypeOK, BorrowedElementsStay, pins = 0
    PROVE  borrows = <<>>
BY EmptySeq DEF TypeOK, BorrowedElementsStay

LEMMA InitInv == Init => Inv
<1> SUFFICES ASSUME Init
             PROVE  Inv
    OBVIOUS
<1>1. /\ alive = TRUE /\ trapped = FALSE
      /\ length = 0 /\ capacity = 0 /\ buffer = 0 /\ pins = 0
    BY DEF Init
<1>2. elements \in [Slots(capacity) -> Val \cup {Junk}]
    BY <1>1, FreshSlots DEF Init
<1>3. borrows \in Seq([pos : Nat, of : Nat]) /\ Len(borrows) = 0
    BY EmptySeq DEF Init
<1>4. Slots(length) = {} /\ 1 .. Len(borrows) = {}
    BY <1>1, <1>3 DEF Slots
<1>5. TypeOK
    BY <1>1, <1>2, <1>3 DEF TypeOK
<1>6. ElementsWritten /\ BorrowedElementsStay /\ Gone
    BY <1>1, <1>3, <1>4 DEF ElementsWritten, BorrowedElementsStay, Gone
<1> QED
    BY <1>5, <1>6 DEF Inv

-----------------------------------------------------------------------------
(* The operations.                                                         *)

\* While nothing is borrowed, storing one more element keeps the invariant,
\* whether or not the buffer moves.
LEMMA StoreInv ==
    ASSUME Inv, alive, ~MutationBlocked, NEW v \in Val, Store(v),
           UNCHANGED <<alive, borrows, pins, trapped>>
    PROVE  Inv'
<1>1. /\ length \in Nat /\ capacity \in Nat /\ length <= capacity
      /\ elements \in [Slots(capacity) -> Val \cup {Junk}]
      /\ \A i \in Slots(length) : elements[i] \in Val
    BY DEF Inv, TypeOK, ElementsWritten
<1>2. borrows = <<>> /\ pins = 0
    BY DEF Inv, TypeOK, BorrowedElementsStay, MutationBlocked
<1>3. length' = length + 1
    BY DEF Store
<1>4. /\ capacity' \in Nat /\ length' <= capacity'
      /\ elements' \in [Slots(capacity') -> Val \cup {Junk}]
      /\ \A i \in Slots(length') : elements'[i] \in Val
      /\ buffer' \in Nat
    <2>1. CASE length >= capacity
        <3>1. capacity' = Growth /\ buffer' = buffer + 1
            BY <2>1 DEF Store
        <3>2. Growth \in Nat /\ length + 1 <= Growth
            BY <1>1, <2>1, CapacityAssumption DEF Growth
        <3>3. elements' = [i \in Slots(Growth) |->
                              IF i = length THEN v ELSE IF i < length THEN elements[i] ELSE Junk]
            BY <1>1, <2>1, <3>2 DEF Store, Grown, Slots
        <3>4. \A i \in Slots(length) : i < length /\ i \in Nat
            BY <1>1 DEF Slots
        <3>5. \A i \in Slots(Growth) : i < length => i \in Slots(length)
            BY <1>1, <3>2 DEF Slots
        <3>6. elements' \in [Slots(Growth) -> Val \cup {Junk}]
            BY <1>1, <3>3, <3>5
        <3>7. \A i \in Slots(length + 1) :
                 i \in Slots(Growth) /\ (i = length \/ i < length)
            BY <1>1, <3>2 DEF Slots
        <3>8. \A i \in Slots(length + 1) : elements'[i] \in Val
            BY <1>1, <3>3, <3>5, <3>7
        <3> QED
            BY <1>3, <3>1, <3>2, <3>6, <3>8 DEF Inv, TypeOK
    <2>2. CASE ~(length >= capacity)
        <3>1. /\ capacity' = capacity /\ buffer' = buffer
              /\ elements' = [elements EXCEPT ![length] = v]
            BY <2>2 DEF Store
        <3>2. length + 1 <= capacity /\ length \in Slots(capacity)
            BY <1>1, <2>2 DEF Slots
        <3>3. \A i \in Slots(length + 1) :
                 i \in Slots(capacity) /\ (i = length \/ i \in Slots(length))
            BY <1>1, <3>2 DEF Slots
        <3> QED
            BY <1>1, <1>3, <3>1, <3>2, <3>3 DEF Inv, TypeOK
    <2> QED
        BY <2>1, <2>2
<1> QED
    BY <1>1, <1>2, <1>3, <1>4
    DEF Inv, TypeOK, ElementsWritten, BorrowedElementsStay, Gone

\* Writing an element in place disturbs nothing.
LEMMA WriteInv ==
    ASSUME Inv, NEW i \in Slots(length), NEW v \in Val,
           elements' = [elements EXCEPT ![i] = v],
           UNCHANGED <<header, borrows, pins, trapped>>
    PROVE  Inv'
<1>1. i \in Slots(capacity)
    BY DEF Inv, TypeOK, ElementsWritten, Slots
<1>2. elements' \in [Slots(capacity) -> Val \cup {Junk}]
    BY <1>1 DEF Inv, TypeOK
<1>3. \A j \in Slots(length) : j \in Slots(capacity) /\ elements'[j] \in Val
    BY <1>1 DEF Inv, TypeOK, ElementsWritten, Slots
<1> QED
    BY <1>2, <1>3 DEF header, Inv, TypeOK, ElementsWritten, BorrowedElementsStay, Gone

LEMMA SameInv ==
    ASSUME Inv, UNCHANGED <<header, elements, borrows, pins>>, trapped' \in BOOLEAN
    PROVE  Inv'
BY DEF header, Inv, TypeOK, ElementsWritten, BorrowedElementsStay, Gone

LEMMA BorrowInv ==
    ASSUME Inv, NEW i, Borrow(i)
    PROVE  Inv'
<1> DEFINE b == [pos |-> i, of |-> buffer]
<1>1. alive /\ i \in Slots(length) /\ i \in Nat
    BY DEF Borrow, InBounds, Slots, Inv, TypeOK
<1>2. b \in [pos : Nat, of : Nat]
    BY <1>1 DEF Inv, TypeOK
<1>3. borrows' = Append(borrows, b) /\ pins' = pins + 1
    BY DEF Borrow
<1>4. /\ borrows \in Seq([pos : Nat, of : Nat])
      /\ borrows' \in Seq([pos : Nat, of : Nat])
      /\ Len(borrows') = Len(borrows) + 1
      /\ borrows'[Len(borrows) + 1] = b
      /\ \A n \in 1 .. Len(borrows) : borrows'[n] = borrows[n]
    BY <1>2, <1>3, AppendProperties DEF Inv, TypeOK
<1>5. Len(borrows) \in Nat
    BY <1>4, LenProperties
<1>6. \A n \in 1 .. Len(borrows') : n \in 1 .. Len(borrows) \/ n = Len(borrows) + 1
    BY <1>4, <1>5
<1>7. b.of = buffer /\ b.pos \in Slots(length)
    BY <1>1
<1>8. \A n \in 1 .. Len(borrows') :
         alive /\ borrows'[n].of = buffer /\ borrows'[n].pos \in Slots(length)
    BY <1>1, <1>4, <1>6, <1>7 DEF Inv, BorrowedElementsStay
<1>9. UNCHANGED <<alive, length, capacity, buffer, elements, trapped>>
    BY DEF Borrow, header
<1>10. pins' \in Nat /\ pins' = Len(borrows')
    BY <1>3, <1>4 DEF Inv, TypeOK, BorrowedElementsStay
<1> HIDE DEF b
<1> QED
    BY <1>1, <1>4, <1>8, <1>9, <1>10
    DEF Inv, TypeOK, ElementsWritten, BorrowedElementsStay, Gone

LEMMA UnborrowInv ==
    ASSUME Inv, Unborrow
    PROVE  Inv'
<1>1. /\ borrows # <<>>
      /\ borrows' = SubSeq(borrows, 1, Len(borrows) - 1)
      /\ UNCHANGED <<alive, length, capacity, buffer, elements, trapped>>
    BY DEF Unborrow, header
<1>2. /\ borrows \in Seq([pos : Nat, of : Nat])
      /\ Len(borrows) \in Nat \ {0}
      /\ \A n \in 1 .. Len(borrows) : borrows[n] \in [pos : Nat, of : Nat]
    BY <1>1, EmptySeq, ElementOfSeq DEF Inv, TypeOK
<1>3. /\ borrows' \in Seq([pos : Nat, of : Nat])
      /\ Len(borrows') = Len(borrows) - 1
      /\ \A n \in 1 .. Len(borrows) - 1 : borrows'[n] = borrows[n]
    <2> DEFINE R == [pos : Nat, of : Nat]
               m == Len(borrows) - 1
               s == SubSeq(borrows, 1, m)
    <2>1. m \in Nat /\ \A n \in 1 .. m : borrows[n] \in R
        BY <1>2
    <2> HIDE DEF R, m
    <2>2. /\ s \in Seq(R)
          /\ Len(s) = IF 1 <= m THEN m - 1 + 1 ELSE 0
          /\ \A n \in 1 .. m - 1 + 1 : s[n] = borrows[1 + n - 1]
        BY <2>1, SubSeqProperties
    <2>3. Len(s) = m /\ \A n \in 1 .. m : s[n] = borrows[n]
        BY <2>1, <2>2
    <2>4. borrows' = s
        BY <1>1 DEF m
    <2> QED
        BY <2>2, <2>3, <2>4 DEF R, m
<1>4. pins' = Len(borrows')
    BY <1>2, <1>3 DEF Unborrow, Inv, BorrowedElementsStay
<1>5. \A n \in 1 .. Len(borrows') :
         alive /\ borrows'[n].of = buffer /\ borrows'[n].pos \in Slots(length)
    <2>1. Len(borrows) \in Nat /\ Len(borrows') = Len(borrows) - 1
        BY <1>2, <1>3
    <2>2. \A n \in 1 .. Len(borrows') : n \in 1 .. Len(borrows) /\ n \in 1 .. Len(borrows) - 1
        BY <2>1
    <2> QED
        BY <1>3, <2>2 DEF Inv, BorrowedElementsStay
<1>6. Len(borrows') \in Nat
    BY <1>2, <1>3
<1> QED
    BY <1>1, <1>3, <1>4, <1>5, <1>6
    DEF Inv, TypeOK, ElementsWritten, BorrowedElementsStay, Gone

LEMMA PopInv ==
    ASSUME Inv, Pop
    PROVE  Inv'
<1>1. CASE length = 0 \/ MutationBlocked
    BY <1>1, SameInv DEF Pop, Refuse, Inv, TypeOK
<1>2. CASE length # 0 /\ ~MutationBlocked
    <2>1. /\ length' = length - 1
          /\ UNCHANGED <<alive, elements, capacity, buffer, borrows, pins, trapped>>
        BY <1>2 DEF Pop
    <2>2. length' \in Nat /\ length' <= capacity /\ Slots(length') \subseteq Slots(length)
        BY <1>2, <2>1 DEF Inv, TypeOK, ElementsWritten, Slots
    <2>3. borrows = <<>> /\ pins = 0
        BY <1>2 DEF Inv, TypeOK, BorrowedElementsStay, MutationBlocked
    <2>4. alive
        BY DEF Pop
    <2> QED
        BY <2>1, <2>2, <2>3, <2>4
        DEF Inv, TypeOK, ElementsWritten, BorrowedElementsStay, Gone
<1> QED
    BY <1>1, <1>2

LEMMA DestroyInv ==
    ASSUME Inv, Destroy
    PROVE  Inv'
<1>1. CASE pins # 0
    BY <1>1, SameInv DEF Destroy, Refuse
<1>2. CASE pins = 0
    <2>1. borrows = <<>>
        BY <1>2, NoBorrows DEF Inv
    <2>2. /\ alive' = FALSE /\ length' = 0 /\ capacity' = 0 /\ elements' = Fresh(0)
          /\ UNCHANGED <<buffer, borrows, pins, trapped>>
        BY <1>2 DEF Destroy
    <2>3. elements' \in [Slots(capacity') -> Val \cup {Junk}]
        BY <2>2, FreshSlots
    <2>4. Slots(length') = {}
        BY <2>2 DEF Slots
    <2>5. pins' = Len(borrows') /\ 1 .. Len(borrows') = {}
        BY <1>2, <2>1, <2>2, EmptySeq
    <2>6. TypeOK'
        BY <2>2, <2>3 DEF Inv, TypeOK
    <2>7. ElementsWritten' /\ BorrowedElementsStay' /\ Gone'
        BY <2>2, <2>4, <2>5 DEF ElementsWritten, BorrowedElementsStay, Gone
    <2> QED
        BY <2>6, <2>7 DEF Inv
<1> QED
    BY <1>1, <1>2

LEMMA CreateInv ==
    ASSUME Inv, NEW n \in Reserve, Create(n)
    PROVE  Inv'
<1>1. borrows = <<>> /\ pins = 0 /\ length = 0
    BY DEF Create, Inv, TypeOK, BorrowedElementsStay, Gone
<1>2. n \in Nat
    BY CapacityAssumption
<1> QED
    BY <1>1, <1>2
    DEF Create, Inv, TypeOK, ElementsWritten, BorrowedElementsStay, Gone, Fresh, Slots

LEMMA NextInv == Inv /\ [Next]_vars => Inv'
<1> SUFFICES ASSUME Inv, [Next]_vars
             PROVE  Inv'
    OBVIOUS
<1>0. trapped \in BOOLEAN
    BY DEF Inv, TypeOK
<1>1. ASSUME NEW v \in Val, Push(v)
      PROVE  Inv'
    <2>1. CASE MutationBlocked
        BY <1>1, <2>1, SameInv DEF Push, Refuse
    <2>2. CASE ~MutationBlocked
        BY <1>1, <2>2, StoreInv DEF Push
    <2> QED
        BY <2>1, <2>2
<1>2. ASSUME NEW v \in Val, WriteThrough(v)
      PROVE  Inv'
    <2>1. Len(borrows) \in 1 .. Len(borrows)
        BY <1>2, EmptySeq DEF WriteThrough, Inv, TypeOK
    <2>2. borrows[Len(borrows)].pos \in Slots(length)
        BY <2>1 DEF Inv, BorrowedElementsStay
    <2> QED
        BY <1>2, <2>2, WriteInv DEF WriteThrough
<1>3. ASSUME NEW i \in Position, PushOwn(i)
      PROVE  Inv'
    <2>1. elements[i] \in Val
        BY <1>3 DEF PushOwn, InBounds, Slots, Inv, ElementsWritten
    <2>2. PICK v \in Val : Store(v)
        BY <1>3, <2>1 DEF PushOwn
    <2> QED
        BY <1>3, <2>2, StoreInv DEF PushOwn
<1>4. ASSUME NEW i \in Position, NEW v \in Val, Set(i, v)
      PROVE  Inv'
    <2>1. CASE InBounds(i)
        BY <1>4, <2>1, WriteInv DEF Set, InBounds, Slots
    <2>2. CASE ~InBounds(i)
        BY <1>0, <1>4, <2>2, SameInv DEF Set
    <2> QED
        BY <2>1, <2>2
<1>5. ASSUME NEW i \in Position, Get(i)
      PROVE  Inv'
    BY <1>0, <1>5, SameInv DEF Get
<1>6. CASE Copy
    BY <1>0, <1>6, SameInv DEF Copy
<1>7. CASE UNCHANGED vars
    BY <1>0, <1>7, SameInv DEF vars, header
<1> QED
    BY <1>1, <1>2, <1>3, <1>4, <1>5, <1>6, <1>7,
       BorrowInv, UnborrowInv, PopInv, DestroyInv, CreateInv
    DEF Next

-----------------------------------------------------------------------------
(* What follows.                                                           *)

\* The invariant holds of every behaviour of the list.
THEOREM Invariance == Spec => []Inv
BY InitInv, NextInv, PTL DEF Spec

\* Every variable keeps its shape.
THEOREM TypeCorrect == Spec => []TypeOK
<1>1. Inv => TypeOK
    BY DEF Inv
<1> QED
    BY <1>1, Invariance, PTL

\* No element is read from memory that was not written, however the buffer
\* grew (roxy_list_push, roxy_list_pop, roxy_list_init).
THEOREM ElementsCorrect == Spec => []ElementsInPlace
<1>1. Inv => ElementsInPlace
    BY DEF Inv, ElementsInPlace
<1> QED
    BY <1>1, Invariance, PTL

\* An element that is lent stays where it is until the call it is lent to
\* returns (list_mutation_blocked, roxy_list_pin, roxy_list_unpin).
THEOREM BorrowsCorrect == Spec => []BorrowedElementsStay
<1>1. Inv => BorrowedElementsStay
    BY DEF Inv
<1> QED
    BY <1>1, Invariance, PTL

-----------------------------------------------------------------------------
(* The refinement.  A list of structs is left out: xs.push(xs[i]) then     *)
(* breaks it (see PushedValueIsStored).                                    *)

Contents == [i \in Slots(length) |-> elements[i]]
Positions(s) == [n \in 1 .. Len(s) |-> s[n].pos]
Lent == Positions(borrows)

LEMMA PositionsIsSequence ==
    ASSUME NEW s \in Seq([pos : Nat, of : Nat])
    PROVE  /\ Len(s) \in Nat
           /\ Positions(s) \in Seq(Nat) /\ Len(Positions(s)) = Len(s)
           /\ \A n \in 1 .. Len(s) : Positions(s)[n] = s[n].pos
<1>1. Len(s) \in Nat
    BY LenProperties
<1>2. ASSUME NEW n \in 1 .. Len(s)
      PROVE  s[n].pos \in Nat
    <2>1. s[n] \in [pos : Nat, of : Nat]
        BY ElementOfSeq
    <2> QED
        BY <2>1
<1> QED
    BY <1>1, <1>2 DEF Positions

LEMMA LentIsSequence ==
    ASSUME TypeOK
    PROVE  /\ Len(borrows) \in Nat
           /\ Lent \in Seq(Nat) /\ Len(Lent) = Len(borrows)
           /\ \A n \in 1 .. Len(borrows) : Lent[n] = borrows[n].pos
BY PositionsIsSequence DEF TypeOK, Lent

LEMMA NothingLent ==
    ASSUME TypeOK, BorrowedElementsStay
    PROVE  Lent = <<>> <=> ~MutationBlocked
<1>1. pins = Len(Lent) /\ Lent \in Seq(Nat)
    BY LentIsSequence DEF BorrowedElementsStay
<1> QED
    BY <1>1, EmptySeq DEF MutationBlocked

\* What stays of the borrows and the elements stays in the contract.
LEMMA SameLent ==
    ASSUME UNCHANGED borrows
    PROVE  UNCHANGED Lent
BY DEF Lent, Positions

LEMMA SameContents ==
    ASSUME UNCHANGED <<length, elements>>
    PROVE  UNCHANGED Contents
BY DEF Contents

LEMMA StoreContents ==
    ASSUME Inv, NEW v \in Val, Store(v)
    PROVE  Contents' = [i \in 0 .. length |-> IF i = length THEN v ELSE Contents[i]]
<1>1. /\ length \in Nat /\ capacity \in Nat /\ length <= capacity
      /\ elements \in [Slots(capacity) -> Val \cup {Junk}]
    BY DEF Inv, TypeOK, ElementsWritten
<1>2. length' = length + 1 /\ Slots(length + 1) = 0 .. length
    BY <1>1 DEF Store, Slots
<1>3. \A i \in 0 .. length : i = length \/ (i # length /\ i < length /\ i \in Slots(length))
    BY <1>1 DEF Slots
<1>4. \A i \in 0 .. length : elements'[i] = IF i = length THEN v ELSE elements[i]
    <2>1. CASE length >= capacity
        <3>1. Growth \in Nat /\ length + 1 <= Growth
            BY <1>1, <2>1, CapacityAssumption DEF Growth
        <3>2. \A i \in 0 .. length : i \in Slots(Growth)
            BY <1>1, <3>1 DEF Slots
        <3>3. elements' = [Grown(Growth) EXCEPT ![length] = v]
            BY <2>1 DEF Store
        <3>4. length \in 0 .. length
            BY <1>1
        <3> QED
            BY <1>3, <3>2, <3>3, <3>4 DEF Grown
    <2>2. CASE ~(length >= capacity)
        <3>1. elements' = [elements EXCEPT ![length] = v]
            BY <2>2 DEF Store
        <3>2. \A i \in 0 .. length : i \in Slots(capacity)
            BY <1>1, <2>2 DEF Slots
        <3> QED
            BY <1>1, <3>1, <3>2
    <2> QED
        BY <2>1, <2>2
<1>5. Contents' = [i \in 0 .. length |-> elements'[i]]
    BY <1>2 DEF Contents
<1>6. \A i \in 0 .. length :
         elements'[i] = IF i = length THEN v ELSE Contents[i]
    BY <1>3, <1>4 DEF Contents
<1> QED
    BY <1>5, <1>6

LEMMA StoreRefines ==
    ASSUME Inv, alive, ~MutationBlocked, NEW v \in Val, Store(v), last' = <<"push", v>>,
           UNCHANGED <<alive, borrows, pins, trapped>>
    PROVE  Contract!Push(v)
<1>1. Lent = <<>> /\ Lent' = Lent
    BY NothingLent, SameLent DEF Inv
<1>2. length' = length + 1
    BY DEF Store
<1> QED
    BY <1>1, <1>2, StoreContents DEF Contract!Push, Contents, Lent, Positions

LEMMA RefuseRefines ==
    ASSUME Inv, alive, MutationBlocked, Refuse
    PROVE  Contract!Refused
<1>1. Lent # <<>> /\ Lent' = Lent /\ Contents' = Contents
    BY NothingLent, SameLent, SameContents DEF Inv, Refuse, header
<1> QED
    BY <1>1 DEF Contract!Refused, Refuse, header, Contents, Lent, Positions

LEMMA WriteContents ==
    ASSUME Inv, NEW i \in Slots(length), NEW v \in Val,
           elements' = [elements EXCEPT ![i] = v], length' = length
    PROVE  Contents' = [Contents EXCEPT ![i] = v]
<1>1. \A j \in Slots(length) : j \in Slots(capacity)
    BY DEF Inv, TypeOK, ElementsWritten, Slots
<1>2. \A j \in Slots(length) : elements'[j] = IF j = i THEN v ELSE elements[j]
    BY <1>1 DEF Inv, TypeOK
<1> QED
    BY <1>2 DEF Contents

LEMMA PopRefines ==
    ASSUME ~PopsEmpty, Inv, Pop
    PROVE  Contract!Pop \/ Contract!Refused
<1>1. alive /\ length \in Nat
    BY DEF Pop, Inv, TypeOK
<1>2. length # 0
    BY DEF Pop
<1>3. CASE length # 0 /\ MutationBlocked
    BY <1>1, <1>3, RefuseRefines DEF Pop
<1>4. CASE length # 0 /\ ~MutationBlocked
    <2>1. /\ length' = length - 1
          /\ last' = <<"pop", elements[length - 1]>>
          /\ UNCHANGED <<alive, elements, borrows, trapped>>
        BY <1>4 DEF Pop
    <2>2. Lent = <<>> /\ Lent' = Lent
        BY <1>4, <2>1, NothingLent, SameLent DEF Inv
    <2>3. /\ length - 1 \in Slots(length)
          /\ Slots(length - 1) = 0 .. length - 2
          /\ Slots(length - 1) \subseteq Slots(length)
        BY <1>1, <1>4 DEF Slots
    <2>4. Contents' = [i \in Slots(length - 1) |-> elements[i]]
        BY <2>1 DEF Contents
    <2>5. Contents' = [i \in 0 .. length - 2 |-> Contents[i]]
        BY <2>3, <2>4 DEF Contents
    <2>6. Contents[length - 1] = elements[length - 1]
        BY <2>3 DEF Contents
    <2> QED
        BY <1>1, <1>4, <2>1, <2>2, <2>5, <2>6 DEF Contract!Pop, Contents, Lent, Positions
<1> QED
    BY <1>2, <1>3, <1>4

LEMMA BorrowRefines ==
    ASSUME Inv, NEW i, Borrow(i)
    PROVE  Contract!Borrow(i)
<1> DEFINE b == [pos |-> i, of |-> buffer]
           R == [pos : Nat, of : Nat]
<1>1. alive /\ i \in 0 .. length - 1 /\ i \in Nat
    BY DEF Borrow, InBounds, Inv, TypeOK
<1>2. borrows \in Seq(R) /\ b \in R /\ b.pos = i
    BY <1>1 DEF Inv, TypeOK
<1>3. borrows' = Append(borrows, b)
    BY DEF Borrow
<1>4. TypeOK /\ TypeOK'
    BY BorrowInv DEF Inv
<1> HIDE DEF b, R
<1>5. /\ Len(borrows') = Len(borrows) + 1
      /\ borrows'[Len(borrows) + 1] = b
      /\ \A n \in 1 .. Len(borrows) : borrows'[n] = borrows[n]
    BY <1>2, <1>3, AppendProperties
<1>6. /\ Len(borrows) \in Nat /\ Lent \in Seq(Nat) /\ Len(Lent) = Len(borrows)
      /\ \A n \in 1 .. Len(borrows) : Lent[n] = borrows[n].pos
    BY <1>4, LentIsSequence
<1>7. /\ Lent' \in Seq(Nat) /\ Len(Lent') = Len(borrows) + 1
      /\ \A n \in 1 .. Len(borrows) + 1 : Lent'[n] = borrows'[n].pos
    <2>1. borrows' \in Seq([pos : Nat, of : Nat])
        BY <1>4 DEF TypeOK
    <2> QED
        BY <1>5, <2>1, PositionsIsSequence DEF Lent
<1>8. /\ Append(Lent, i) \in Seq(Nat) /\ Len(Append(Lent, i)) = Len(borrows) + 1
      /\ \A n \in 1 .. Len(borrows) : Append(Lent, i)[n] = Lent[n]
      /\ Append(Lent, i)[Len(borrows) + 1] = i
    BY <1>1, <1>6, AppendProperties
<1>9. \A n \in 1 .. Len(borrows) + 1 : n \in 1 .. Len(borrows) \/ n = Len(borrows) + 1
    BY <1>6
<1>10. \A n \in 1 .. Len(borrows) + 1 : Lent'[n] = Append(Lent, i)[n]
    BY <1>2, <1>5, <1>6, <1>7, <1>8, <1>9
<1>11. Lent' = Append(Lent, i)
    BY <1>7, <1>8, <1>10, SeqEqual
<1>12. Contents' = Contents
    BY SameContents DEF Borrow, header
<1> QED
    BY <1>1, <1>11, <1>12 DEF Contract!Borrow, Borrow, header, Contents, Lent, Positions

LEMMA UnborrowRefines ==
    ASSUME Inv, Unborrow
    PROVE  Contract!Return
<1> DEFINE R == [pos : Nat, of : Nat]
           m == Len(borrows) - 1
<1>1. TypeOK /\ TypeOK'
    BY UnborrowInv DEF Inv
<1>2. /\ Len(borrows) \in Nat /\ Lent \in Seq(Nat) /\ Len(Lent) = Len(borrows)
      /\ \A n \in 1 .. Len(borrows) : Lent[n] = borrows[n].pos
    BY <1>1, LentIsSequence
<1>3. borrows # <<>> /\ borrows' = SubSeq(borrows, 1, m)
    BY DEF Unborrow
<1>4. borrows \in Seq(R) /\ \A n \in 1 .. Len(borrows) : borrows[n] \in R
    BY <1>1, ElementOfSeq DEF TypeOK
<1>5. m \in Nat /\ Len(Lent) = m + 1
    BY <1>2, <1>3, <1>4, EmptySeq
<1>6. \A n \in 1 .. m : n \in 1 .. Len(borrows) /\ 1 + n - 1 = n
    BY <1>2, <1>5
<1>7. \A n \in 1 .. m : borrows[n] \in R /\ Lent[n] \in Nat /\ Lent[n] = borrows[n].pos
    BY <1>2, <1>4, <1>6, ElementOfSeq
<1> HIDE DEF R, m
<1>8. Len(borrows') = m /\ \A n \in 1 .. m : borrows'[n] = borrows[n]
    <2>1. /\ Len(SubSeq(borrows, 1, m)) = IF 1 <= m THEN m - 1 + 1 ELSE 0
          /\ \A n \in 1 .. m - 1 + 1 : SubSeq(borrows, 1, m)[n] = borrows[1 + n - 1]
        BY <1>5, <1>7, SubSeqProperties
    <2> QED
        BY <1>3, <1>5, <2>1
<1>9. /\ SubSeq(Lent, 1, m) \in Seq(Nat) /\ Len(SubSeq(Lent, 1, m)) = m
      /\ \A n \in 1 .. m : SubSeq(Lent, 1, m)[n] = Lent[n]
    <2>1. /\ SubSeq(Lent, 1, m) \in Seq(Nat)
          /\ Len(SubSeq(Lent, 1, m)) = IF 1 <= m THEN m - 1 + 1 ELSE 0
          /\ \A n \in 1 .. m - 1 + 1 : SubSeq(Lent, 1, m)[n] = Lent[1 + n - 1]
        BY <1>5, <1>7, SubSeqProperties
    <2> QED
        BY <1>5, <2>1
<1>10. /\ Lent' \in Seq(Nat) /\ Len(Lent') = m
       /\ \A n \in 1 .. m : Lent'[n] = borrows'[n].pos
    <2>1. borrows' \in Seq([pos : Nat, of : Nat])
        BY <1>1 DEF TypeOK
    <2> QED
        BY <1>8, <2>1, PositionsIsSequence DEF Lent
<1>11. Lent' = SubSeq(Lent, 1, m)
    BY <1>7, <1>8, <1>9, <1>10, SeqEqual
<1>12. Lent # <<>> /\ m = Len(Lent) - 1
    BY <1>5, EmptySeq
<1>13. Contents' = Contents
    BY SameContents DEF Unborrow, header
<1> QED
    BY <1>11, <1>12, <1>13 DEF Contract!Return, Unborrow, header, Contents, Lent, Positions

LEMMA NextRefines ==
    ASSUME ~ByPointer, ~PopsEmpty
    PROVE  Inv /\ [Next]_vars => [Contract!Next]_Contract!vars
<1> SUFFICES ASSUME Inv, [Next]_vars
             PROVE  [Contract!Next]_Contract!vars
    OBVIOUS
<1>1. ASSUME NEW v \in Val, Push(v)
      PROVE  Contract!Push(v) \/ Contract!Refused
    BY <1>1, StoreRefines, RefuseRefines DEF Push
<1>2. ASSUME NEW v \in Val, WriteThrough(v)
      PROVE  Contract!Write(v)
    <2>1. Len(borrows) \in 1 .. Len(borrows)
        BY <1>2, EmptySeq DEF WriteThrough, Inv, TypeOK
    <2>2. /\ Lent[Len(Lent)] = borrows[Len(borrows)].pos
          /\ Lent[Len(Lent)] \in Slots(length) /\ alive /\ Lent # <<>>
        BY <2>1, LentIsSequence, EmptySeq DEF Inv, BorrowedElementsStay
    <2>3. Contents' = [Contents EXCEPT ![Lent[Len(Lent)]] = v] /\ Lent' = Lent
        BY <1>2, <2>2, WriteContents, SameLent DEF WriteThrough, header
    <2> QED
        BY <1>2, <2>2, <2>3 DEF Contract!Write, WriteThrough, header, Contents, Lent, Positions
<1>3. ASSUME NEW i \in Position, PushOwn(i)
      PROVE  \E v \in Val : Contract!Push(v)
    <2>1. elements[i] \in Val
        BY <1>3 DEF PushOwn, InBounds, Slots, Inv, ElementsWritten
    <2> QED
        BY <1>3, <2>1, StoreRefines DEF PushOwn
<1>4. ASSUME NEW i \in Position, NEW v \in Val, Set(i, v)
      PROVE  Contract!Set(i, v)
    <2>1. Lent' = Lent
        BY <1>4, SameLent DEF Set
    <2>2. CASE InBounds(i)
        <3>1. i \in Slots(length) /\ elements' = [elements EXCEPT ![i] = v] /\ length' = length
            BY <1>4, <2>2 DEF Set, InBounds, Slots, header
        <3>2. Contents' = [Contents EXCEPT ![i] = v]
            BY <3>1, WriteContents
        <3> QED
            BY <1>4, <2>1, <2>2, <3>2 DEF Contract!Set, Set, InBounds, header, Contents, Lent, Positions
    <2>3. CASE ~InBounds(i)
        <3>1. Contents' = Contents
            BY <1>4, <2>3, SameContents DEF Set, header
        <3> QED
            BY <1>4, <2>1, <2>3, <3>1 DEF Contract!Set, Set, InBounds, header, Contents, Lent, Positions
    <2> QED
        BY <2>2, <2>3
<1>5. ASSUME NEW i \in Position, Get(i)
      PROVE  Contract!Get(i)
    <2>1. Lent' = Lent /\ Contents' = Contents
        BY <1>5, SameLent, SameContents DEF Get, header
    <2>2. InBounds(i) => Contents[i] = elements[i]
        BY DEF InBounds, Contents, Slots
    <2> QED
        BY <1>5, <2>1, <2>2 DEF Contract!Get, Get, InBounds, header, Contents, Lent, Positions
<1>6. CASE Copy
    <2>1. Lent' = Lent /\ Contents' = Contents
        BY <1>6, SameLent, SameContents DEF Copy, header
    <2> QED
        BY <1>6, <2>1 DEF Contract!Next, Contract!Copy, Copy, header, Contents, Lent, Positions
<1>7. CASE Destroy
    <2>1. CASE pins # 0
        BY <1>7, <2>1, RefuseRefines DEF Destroy, MutationBlocked, Contract!Next
    <2>2. CASE pins = 0
        <3>1. /\ alive' = FALSE /\ length' = 0 /\ last' = <<"destroy">> /\ alive
              /\ UNCHANGED <<borrows, trapped>>
            BY <1>7, <2>2 DEF Destroy
        <3>2. Lent' = Lent /\ Lent = <<>>
            BY <2>2, <3>1, SameLent, NothingLent DEF Inv, MutationBlocked
        <3>3. Contents' = [i \in 0 .. -1 |-> None]
            BY <3>1 DEF Contents, Slots
        <3> QED
            BY <3>1, <3>2, <3>3 DEF Contract!Next, Contract!Destroy, Contents, Lent, Positions
    <2> QED
        BY <2>1, <2>2
<1>8. ASSUME NEW n \in Reserve, Create(n)
      PROVE  Contract!Create
    <2>1. length = 0 /\ length' = 0
        BY <1>8 DEF Create, Inv, Gone
    <2>2. Lent' = Lent
        BY <1>8, SameLent DEF Create
    <2>3. Contents' = Contents
        BY <2>1 DEF Contents, Slots
    <2> QED
        BY <1>8, <2>1, <2>2, <2>3 DEF Contract!Create, Create, Contents, Lent, Positions
<1>9. CASE UNCHANGED vars
    <2>1. Lent' = Lent /\ Contents' = Contents
        BY <1>9, SameLent, SameContents DEF vars
    <2> QED
        BY <1>9, <2>1 DEF vars, Contract!vars, Contents, Lent, Positions
<1> QED
    BY <1>1, <1>2, <1>3, <1>4, <1>5, <1>6, <1>7, <1>8, <1>9,
       PopRefines, BorrowRefines, UnborrowRefines
    DEF Next, Contract!Next

LEMMA InitRefines == Init => Contract!Init
<1> SUFFICES ASSUME Init
             PROVE  Contract!Init
    OBVIOUS
<1>1. /\ alive = TRUE /\ length = 0 /\ borrows = <<>> /\ trapped = FALSE /\ last = None
    BY DEF Init
<1>2. Contents = [i \in 0 .. -1 |-> None]
    BY <1>1 DEF Contents, Slots
<1>3. Lent = <<>>
    BY <1>1, InitInv, NothingLent DEF Init, Inv, MutationBlocked
<1> QED
    BY <1>1, <1>2, <1>3 DEF Contract!Init, Contents, Lent, Positions

\* A list whose elements are not structs is the sequence that a program takes
\* it for, if it pops none that is empty: through growth, pops and borrows
\* (rt/roxy_rt.cpp, vm/natives.cpp).
THEOREM Refinement ==
    ASSUME ~ByPointer, ~PopsEmpty
    PROVE  Spec => ImplementsContract
<1>1. Inv /\ [Next]_vars => [Contract!Next]_Contract!vars
    BY NextRefines
<1> QED
    BY <1>1, InitRefines, Invariance, PTL DEF Spec, Contract!Spec, ImplementsContract

=============================================================================
