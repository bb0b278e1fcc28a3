-------------------------- MODULE ReorderRingProof --------------------------
(***************************************************************************)
(* What the ring of ReorderRing keeps, for any capacity, any packets and    *)
(* any delays: which slots are valid, and whose payload buffers are whose;  *)
(* and that it implements the delay queue of DelayQueue.                    *)
(***************************************************************************)
EXTENDS ReorderRing, SequenceTheorems, FiniteSetTheorems, WellFoundedInduction, TLAPS

-----------------------------------------------------------------------------
(* Least and greatest numbers.                                             *)

LEMMA LeastExists ==
    ASSUME NEW S \in SUBSET Nat, S # {}
    PROVE  \E n \in S : \A m \in S : n <= m
  <1> DEFINE R == OpToRel(<, Nat)
  <1>1. IsWellFoundedOn(R, Nat)
    BY NatLessThanWellFounded
  <1>2. \A x, y \in Nat : <<y, x>> \in R <=> y < x
    BY DEF OpToRel
  <1> HIDE DEF R
  <1>3. PICK x \in S : \A y \in S : ~(<<y, x>> \in R)
    BY <1>1, WFMin
  <1>4. \A y \in S : x <= y
    <2> TAKE y \in S
    <2>1. x \in Nat /\ y \in Nat /\ ~(<<y, x>> \in R)
      BY <1>3
    <2> QED
      BY <1>2, <2>1
  <1> QED
    BY <1>4

LEMMA MinIsLeast ==
    ASSUME NEW S \in SUBSET Nat, S # {}
    PROVE  Min(S) \in S /\ \A m \in S : Min(S) <= m
  BY LeastExists DEF Min

LEMMA MinOfTwo ==
    ASSUME NEW a \in Nat, NEW b \in Nat
    PROVE  Min({a, b}) = IF a <= b THEN a ELSE b
  BY MinIsLeast

LEMMA MaxOfTwo ==
    ASSUME NEW a \in Int, NEW b \in Int
    PROVE  Max({a, b}) = IF a >= b THEN a ELSE b
  <1> DEFINE m == IF a >= b THEN a ELSE b
  <1>1. m \in {a, b} /\ \A y \in {a, b} : m >= y
    OBVIOUS
  <1>2. Max({a, b}) \in {a, b} /\ \A y \in {a, b} : Max({a, b}) >= y
    BY <1>1 DEF Max
  <1> QED
    BY <1>2

(* A finite set of numbers has a greatest one: of those that have none, one *)
(* with the fewest elements would have, with one of its elements removed.   *)
LEMMA GreatestExists ==
    ASSUME NEW S \in SUBSET Nat, IsFiniteSet(S), S # {}
    PROVE  \E n \in S : \A m \in S : n >= m
  <1> DEFINE HasMax(T) == \E n \in T : \A m \in T : n >= m
             K == {Cardinality(T) : T \in {U \in SUBSET S : U # {} /\ ~HasMax(U)}}
  <1> SUFFICES ASSUME ~HasMax(S) PROVE FALSE
    OBVIOUS
  <1>1. K # {} /\ K \in SUBSET Nat
    <2>1. \A T \in SUBSET S : Cardinality(T) \in Nat
      BY FS_Subset, FS_CardinalityType
    <2>2. Cardinality(S) \in K
      OBVIOUS
    <2> QED
      BY <2>1, <2>2
  <1>2. PICK k \in K : \A j \in K : k <= j
    BY <1>1, LeastExists
  <1>3. PICK T \in SUBSET S : T # {} /\ ~HasMax(T) /\ k = Cardinality(T)
    BY <1>2
  <1>4. PICK x \in T : TRUE
    BY <1>3
  <1>5. IsFiniteSet(T)
    BY FS_Subset
  <1>6. Cardinality(T \ {x}) = k - 1 /\ k \in Nat
    BY <1>3, <1>4, <1>5, FS_RemoveElement, FS_CardinalityType
  <1>7. HasMax(T \ {x}) \/ T \ {x} = {}
    <2> SUFFICES ASSUME ~HasMax(T \ {x}), T \ {x} # {} PROVE FALSE
      OBVIOUS
    <2>1. k - 1 \in K
      BY <1>6
    <2> QED
      BY <1>2, <1>6, <2>1
  <1>8. CASE T \ {x} = {}
    <2>1. \A m \in T : x >= m
      BY <1>4, <1>8
    <2> QED
      BY <1>3, <1>4, <2>1
  <1>9. CASE HasMax(T \ {x})
    <2>1. PICK n \in T \ {x} : \A m \in T \ {x} : n >= m
      BY <1>9
    <2>2. x \in Nat /\ n \in Nat
      BY <1>4
    <2>3. CASE n >= x
      <3>1. \A m \in T : n >= m
        BY <2>1, <2>3
      <3> QED
        BY <1>3, <3>1
    <2>4. CASE ~(n >= x)
      <3>1. \A m \in T : x >= m
        BY <2>1, <2>2, <2>4
      <3> QED
        BY <1>3, <1>4, <3>1
    <2> QED
      BY <2>3, <2>4
  <1> QED
    BY <1>7, <1>8, <1>9

LEMMA DelaysAreAges ==
    ASSUME NEW d \in Delays
    PROVE  MaxAge \in Nat /\ d \in 0 .. MaxAge
  <1>1. Delays \in SUBSET Nat /\ IsFiniteSet(Delays) /\ Delays # {}
    BY RingAssumption
  <1>2. \E n \in Delays : \A m \in Delays : n >= m
    BY <1>1, GreatestExists
  <1>3. MaxAge \in Delays /\ \A m \in Delays : MaxAge >= m
    BY <1>2 DEF MaxAge, Max
  <1> QED
    BY <1>1, <1>3

-----------------------------------------------------------------------------
(* Indices wrap around once.                                               *)

LEMMA WrapsOnce ==
    ASSUME NEW i \in 0 .. 2 * Capacity - 1
    PROVE  At(i) = IF i < Capacity THEN i ELSE i - Capacity
  BY RingAssumption DEF At

(* The slots from tail to head, without arithmetic on remainders.           *)
InUse(k) == IF head >= tail THEN tail <= k /\ k < head ELSE tail <= k \/ k < head

LEMMA OccupiedAreInUse ==
    ASSUME head \in Index, tail \in Index
    PROVE  /\ Size \in 0 .. Capacity - 1
           /\ {At(tail + i) : i \in 0 .. Size - 1} = {k \in Index : InUse(k)}
  <1> USE RingAssumption
  <1>1. Size \in 0 .. Capacity - 1
    BY DEF Size, Index
  <1>2. ASSUME NEW i \in 0 .. Size - 1
        PROVE  At(tail + i) \in {k \in Index : InUse(k)}
    <2>1. At(tail + i) = IF tail + i < Capacity THEN tail + i ELSE tail + i - Capacity
      BY <1>1, WrapsOnce DEF Index
    <2> QED
      BY <1>1, <2>1 DEF Index, InUse, Size
  <1>3. ASSUME NEW k \in Index, InUse(k)
        PROVE  \E i \in 0 .. Size - 1 : k = At(tail + i)
    <2> DEFINE i == IF k >= tail THEN k - tail ELSE k - tail + Capacity
    <2>1. i \in 0 .. Size - 1
      BY <1>3 DEF Index, InUse, Size
    <2>2. At(tail + i) = IF tail + i < Capacity THEN tail + i ELSE tail + i - Capacity
      BY <1>1, <2>1, WrapsOnce DEF Index
    <2>3. At(tail + i) = k
      BY <2>2 DEF Index
    <2> QED
      BY <2>1, <2>3
  <1> QED
    BY <1>1, <1>2, <1>3

(* The same for the invariant: a slot is valid if and only if it is in use. *)
LEMMA ValidIsInUse ==
    ASSUME TypeOK
    PROVE  OccupiedAreValid <=> \A k \in Index : slots[k].valid <=> InUse(k)
  <1>1. {At(tail + i) : i \in 0 .. Size - 1} = {k \in Index : InUse(k)}
    BY OccupiedAreInUse DEF TypeOK
  <1>2. \A k \in Index : InUse(k) \in BOOLEAN /\ slots[k].valid \in BOOLEAN
    BY DEF InUse, TypeOK
  <1> QED
    BY <1>1, <1>2 DEF OccupiedAreValid

(* And for the payload buffers: one slot refers to the traced one.          *)
LEMMA TracedOnce ==
    ASSUME TypeOK
    PROVE  PayloadsDistinct <=> \E t \in Index : \A k \in Index : slots[k].traced <=> k = t
  <1> DEFINE T == {k \in Index : slots[k].traced}
  <1>1. IsFiniteSet(T)
    <2>1. IsFiniteSet(Index)
      BY FS_Interval, RingAssumption DEF Index
    <2> QED
      BY <2>1, FS_Subset
  <1>2. \A k \in Index : slots[k].traced \in BOOLEAN
    BY DEF TypeOK
  <1>3. Cardinality(T) = 1 <=> \E x : T = {x}
    BY <1>1, FS_Singleton
  <1>4. (\E x : T = {x}) <=> \E t \in Index : \A k \in Index : slots[k].traced <=> k = t
    BY <1>2
  <1> QED
    BY <1>3, <1>4 DEF PayloadsDistinct

-----------------------------------------------------------------------------
(* The sorted insertion of rb_push.                                        *)

(* The search stops short of the oldest slot.                               *)
LEMMA ShiftIsShort ==
    ASSUME TypeOK, NEW p
    PROVE  Shift(p) \in Nat /\ (Shift(p) = 0 \/ Shift(p) <= Size - 2)
  <1> DEFINE stops == {j \in 0 .. Min({Size - 2, MaxSearch - 1}) :
                         LET s == slots[At(head - 1 - j + Capacity)]
                         IN  s.valid /\ MayFollow(p, s.packet)}
  <1>1. Size \in Nat /\ MaxSearch - 1 \in Nat
    BY OccupiedAreInUse, RingAssumption DEF TypeOK
  <1>2. Shift(p) = IF Size < 2 \/ stops = {} THEN 0 ELSE Min(stops)
    BY DEF Shift
  <1> HIDE DEF stops
  <1>3. CASE Size < 2 \/ stops = {}
    BY <1>2, <1>3
  <1>4. CASE ~(Size < 2 \/ stops = {})
    <2>1. Min({Size - 2, MaxSearch - 1}) \in Nat /\ Min({Size - 2, MaxSearch - 1}) <= Size - 2
      <3>1. Size - 2 \in Nat
        BY <1>1, <1>4
      <3> QED
        BY <1>1, <3>1, MinOfTwo
    <2>2. stops \in SUBSET Nat /\ \A j \in stops : j <= Size - 2
      BY <1>1, <2>1 DEF stops
    <2>3. Min(stops) \in stops
      BY <1>4, <2>2, MinIsLeast
    <2> QED
      BY <1>2, <1>4, <2>2, <2>3
  <1> QED
    BY <1>3, <1>4

(* The slot i places before the head.                                      *)
Back(i) == IF i <= head THEN head - i ELSE head - i + Capacity
Prev(k) == IF k = 0 THEN Capacity - 1 ELSE k - 1

LEMMA BackIsAt ==
    ASSUME head \in Index, NEW i \in 0 .. Capacity - 1
    PROVE  At(head - i + Capacity) = Back(i) /\ Back(i) \in Index
  <1>1. PICK x \in 0 .. 2 * Capacity - 1 : x = head - i + Capacity
    BY RingAssumption DEF Index
  <1>2. At(x) = IF x < Capacity THEN x ELSE x - Capacity
    BY WrapsOnce
  <1> QED
    BY <1>1, <1>2, RingAssumption DEF Back, Index

LEMMA PrevIsAt ==
    ASSUME NEW k \in Index
    PROVE  At(k - 1 + Capacity) = Prev(k) /\ Prev(k) \in Index
  <1>1. k - 1 + Capacity \in 0 .. 2 * Capacity - 1
    BY RingAssumption DEF Index
  <1> QED
    BY <1>1, WrapsOnce, RingAssumption DEF Prev, Index

(* What a slot holds after the head slot was swapped back n places.         *)
LEMMA Swapped ==
    ASSUME head \in Index, NEW n \in 0 .. Capacity - 1, NEW s, NEW k \in Index
    PROVE  SwapDown(n, s)[k] =
              IF k = Back(n) THEN [s EXCEPT !.traced = slots[head].traced]
              ELSE IF \E i \in 0 .. n - 1 : k = Back(i) THEN slots[Prev(k)] ELSE slots[k]
  <1>1. \A i \in 0 .. n : At(head - i + Capacity) = Back(i)
    BY BackIsAt, RingAssumption
  <1>2. At(k - 1 + Capacity) = Prev(k)
    BY PrevIsAt
  <1>3. (\E i \in 0 .. n - 1 : k = At(head - i + Capacity))
           <=> \E i \in 0 .. n - 1 : k = Back(i)
    BY <1>1
  <1>4. n \in 0 .. n
    OBVIOUS
  <1> QED
    BY <1>1, <1>2, <1>3, <1>4 DEF SwapDown

LEMMA PrevOfBack ==
    ASSUME head \in Index, NEW i \in 0 .. Capacity - 2
    PROVE  Prev(Back(i)) = Back(i + 1)
  BY RingAssumption DEF Prev, Back, Index

(* A packet is put into a slot that is in use from now on, and every slot   *)
(* moved comes from one that is in use.                                    *)
LEMMA BackIsInUse ==
    ASSUME head \in Index, tail \in Index, NEW i \in 1 .. Size
    PROVE  InUse(Back(i))
  BY RingAssumption DEF InUse, Back, Index, Size

LEMMA HeadMoves ==
    ASSUME head \in Index, tail \in Index, At(head + 1) # tail
    PROVE  /\ At(head + 1) \in Index
           /\ \A k \in Index :
                 (IF At(head + 1) >= tail THEN tail <= k /\ k < At(head + 1)
                  ELSE tail <= k \/ k < At(head + 1)) <=> InUse(k) \/ k = head
           /\ Size <= Capacity - 2
  <1>1. At(head + 1) = IF head + 1 < Capacity THEN head + 1 ELSE 0
    <2>1. head + 1 \in 0 .. 2 * Capacity - 1
      BY RingAssumption DEF Index
    <2> QED
      BY <2>1, WrapsOnce, RingAssumption DEF Index
  <1> QED
    BY <1>1, RingAssumption DEF InUse, Index, Size

Slot == [traced : BOOLEAN, valid : BOOLEAN, packet : Packet \cup {NoPacket}, age : 0 .. MaxAge]

(* A slot that is filled keeps its payload buffer.                          *)
LEMMA Filled ==
    ASSUME NEW r \in Slot, NEW p \in Packet, MaxAge \in Nat
    PROVE  [r EXCEPT !.valid = TRUE, !.packet = p, !.age = 0] \in Slot
  <1>1. PICK q \in Slot : q = [r EXCEPT !.valid = TRUE, !.packet = p]
    BY DEF Slot
  <1>2. [q EXCEPT !.age = 0] \in Slot
    BY DEF Slot
  <1>3. [r EXCEPT !.valid = TRUE, !.packet = p, !.age = 0]
           = [[r EXCEPT !.valid = TRUE, !.packet = p] EXCEPT !.age = 0]
    BY DEF Slot
  <1> QED
    BY <1>1, <1>2, <1>3

LEMMA PushKeepsTypes ==
    ASSUME TypeOK, NEW p \in Packet, Push(p)
    PROVE  TypeOK'
  <1> DEFINE n == Shift(p)
             s == [slots[At(head - n + Capacity)] EXCEPT
                      !.valid = TRUE, !.packet = p, !.age = 0]
  <1>0. head \in Index /\ tail \in Index /\ slots \in [Index -> Slot]
    BY DEF TypeOK, Slot
  <1>1. n \in 0 .. Capacity - 1
    BY ShiftIsShort, <1>0, OccupiedAreInUse, RingAssumption
  <1>2. At(head - n + Capacity) = Back(n) /\ Back(n) \in Index
    BY <1>0, <1>1, BackIsAt
  <1>3. slots' = SwapDown(n, s) /\ head' = At(head + 1)
    BY DEF Push
  <1>4. MaxAge \in Nat
    BY DelaysAreAges DEF TypeOK
  <1> HIDE DEF n
  <1>5. s \in Slot
    <2>1. slots[Back(n)] \in Slot
      BY <1>0, <1>2
    <2> QED
      BY <1>2, <1>4, <2>1, Filled
  <1> HIDE DEF s
  <1>6. \A k \in Index : slots'[k] \in Slot
    <2> TAKE k \in Index
    <2>1. slots'[k] = IF k = Back(n) THEN [s EXCEPT !.traced = slots[head].traced]
              ELSE IF \E i \in 0 .. n - 1 : k = Back(i) THEN slots[Prev(k)] ELSE slots[k]
      BY <1>0, <1>1, <1>3, Swapped
    <2>2. [s EXCEPT !.traced = slots[head].traced] \in Slot
      BY <1>0, <1>5 DEF Slot
    <2>3. slots[Prev(k)] \in Slot /\ slots[k] \in Slot
      BY <1>0, PrevIsAt
    <2> QED
      BY <2>1, <2>2, <2>3
  <1>7. slots' \in [Index -> Slot]
    <2>1. slots' = [k \in Index |-> slots'[k]]
      BY <1>3 DEF SwapDown
    <2> QED
      BY <1>6, <2>1
  <1>8. head' \in Index /\ UNCHANGED <<tail, delay, uiPc, sets>>
    BY <1>0, <1>3, HeadMoves DEF Push
  <1> QED
    BY <1>7, <1>8 DEF TypeOK, Slot

(* The parts of the invariant, slot by slot.                                *)
Valids == \A k \in Index : slots[k].valid <=> InUse(k)
Payloads == \E t \in Index : \A k \in Index : slots[k].traced <=> k = t

(* A slot the insertion moves is one of those that are in use, the packet   *)
(* takes the last of them, and the head is in use from now on.              *)
LEMMA PushKeepsValids ==
    ASSUME TypeOK, Valids, NEW p \in Packet, Push(p)
    PROVE  Valids'
  <1> DEFINE n == Shift(p)
             s == [slots[At(head - n + Capacity)] EXCEPT
                      !.valid = TRUE, !.packet = p, !.age = 0]
  <1>0. head \in Index /\ tail \in Index /\ slots \in [Index -> Slot]
    BY DEF TypeOK, Slot
  <1>1. n \in 0 .. Capacity - 2 /\ (n = 0 \/ n <= Size - 2)
    BY ShiftIsShort, <1>0, OccupiedAreInUse, RingAssumption
  <1>2. At(head - n + Capacity) = Back(n) /\ Back(n) \in Index
    BY <1>0, <1>1, RingAssumption, BackIsAt
  <1>3. slots' = SwapDown(n, s) /\ head' = At(head + 1) /\ tail' = tail
    BY DEF Push
  <1>4. \A k \in Index : InUse(k)' <=> InUse(k) \/ k = head
    BY <1>0, <1>3, HeadMoves DEF InUse, Push
  <1> HIDE DEF n
  <1>5. [s EXCEPT !.traced = slots[head].traced].valid
    BY <1>0, <1>2 DEF Slot
  <1> HIDE DEF s
  <1>6. ASSUME NEW k \in Index
        PROVE  slots'[k].valid <=> InUse(k)'
    <2>1. slots'[k] = IF k = Back(n) THEN [s EXCEPT !.traced = slots[head].traced]
              ELSE IF \E i \in 0 .. n - 1 : k = Back(i) THEN slots[Prev(k)] ELSE slots[k]
      BY <1>0, <1>1, <1>3, RingAssumption, Swapped
    <2>2. Back(0) = head
      BY <1>0 DEF Back, Index
    <2>3. \A i \in 0 .. n : InUse(Back(i)) \/ Back(i) = head
      <3> TAKE i \in 0 .. n
      <3>1. i = 0 \/ i \in 1 .. Size
        BY <1>0, <1>1, OccupiedAreInUse, RingAssumption
      <3> QED
        BY <1>0, <2>2, <3>1, BackIsInUse
    <2>4. CASE k = Back(n)
      BY <1>1, <1>4, <1>5, <2>1, <2>3, <2>4
    <2>5. CASE k # Back(n) /\ \E i \in 0 .. n - 1 : k = Back(i)
      <3>1. PICK i \in 0 .. n - 1 : k = Back(i)
        BY <2>5
      <3>2. slots'[k] = slots[Prev(k)]
        BY <2>1, <2>5
      <3>3. Prev(k) = Back(i + 1) /\ Back(i + 1) \in Index
        BY <1>0, <1>1, <3>1, RingAssumption, PrevOfBack, BackIsAt
      <3>4. InUse(Back(i + 1))
        <4>1. i + 1 \in 1 .. Size
          BY <1>0, <1>1, OccupiedAreInUse, RingAssumption
        <4> QED
          BY <1>0, <4>1, BackIsInUse
      <3> QED
        <4>1. slots'[k].valid
          BY <3>2, <3>3, <3>4 DEF Valids
        <4>2. InUse(k) \/ k = head
          BY <1>1, <2>3, <3>1
        <4> QED
          BY <1>4, <4>1, <4>2
    <2>6. CASE k # Back(n) /\ ~\E i \in 0 .. n - 1 : k = Back(i)
      <3>1. k # head
        BY <1>1, <2>2, <2>6
      <3> QED
        BY <1>4, <2>1, <2>6, <3>1 DEF Valids
    <2> QED
      BY <2>4, <2>5, <2>6
  <1> QED
    BY <1>6 DEF Valids

(* The head slot's payload buffer goes to where the packet goes, and every  *)
(* slot that moves takes its own along.                                    *)
LEMMA PushKeepsPayloads ==
    ASSUME TypeOK, Payloads, NEW p \in Packet, Push(p)
    PROVE  Payloads'
  <1> DEFINE n == Shift(p)
             s == [slots[At(head - n + Capacity)] EXCEPT
                      !.valid = TRUE, !.packet = p, !.age = 0]
  <1>0. head \in Index /\ tail \in Index /\ slots \in [Index -> Slot]
    BY DEF TypeOK, Slot
  <1>1. n \in 0 .. Capacity - 2
    BY ShiftIsShort, <1>0, OccupiedAreInUse, RingAssumption
  <1>2. At(head - n + Capacity) = Back(n) /\ Back(n) \in Index
    BY <1>0, <1>1, RingAssumption, BackIsAt
  <1>3. slots' = SwapDown(n, s)
    BY DEF Push
  <1> HIDE DEF n
  <1>4. [s EXCEPT !.traced = slots[head].traced].traced = slots[head].traced
    BY <1>0, <1>2 DEF Slot
  <1> HIDE DEF s
  <1>5. \A k \in Index : slots'[k].traced =
           IF k = Back(n) THEN slots[head].traced
           ELSE IF \E i \in 0 .. n - 1 : k = Back(i) THEN slots[Prev(k)].traced
           ELSE slots[k].traced
    <2> TAKE k \in Index
    <2>1. slots'[k] = IF k = Back(n) THEN [s EXCEPT !.traced = slots[head].traced]
              ELSE IF \E i \in 0 .. n - 1 : k = Back(i) THEN slots[Prev(k)] ELSE slots[k]
      BY <1>0, <1>1, <1>3, RingAssumption, Swapped
    <2> QED
      BY <1>4, <2>1
  <1>6. PICK t \in Index : \A k \in Index : slots[k].traced <=> k = t
    BY DEF Payloads
  <1>7. \A i \in 0 .. n : Back(i) \in Index
    BY <1>0, <1>1, RingAssumption, BackIsAt
  <1>8. \A i, j \in 0 .. n : Back(i) = Back(j) => i = j
    BY <1>0, <1>1, RingAssumption DEF Back, Index
  <1>9. \A i \in 0 .. n - 1 : Prev(Back(i)) = Back(i + 1)
    BY <1>0, <1>1, RingAssumption, PrevOfBack
  <1>10. Back(0) = head
    BY <1>0 DEF Back, Index
  <1>11. CASE t = head
    <2>1. ASSUME NEW k \in Index PROVE slots'[k].traced <=> k = Back(n)
      <3>1. CASE k = Back(n)
        BY <1>0, <1>5, <1>6, <1>11, <3>1
      <3>2. CASE k # Back(n) /\ \E i \in 0 .. n - 1 : k = Back(i)
        <4>1. PICK i \in 0 .. n - 1 : k = Back(i)
          BY <3>2
        <4>2. Back(i + 1) # Back(0) /\ Back(i + 1) \in Index
          BY <1>1, <1>7, <1>8, <4>1
        <4> QED
          BY <1>5, <1>6, <1>9, <1>10, <1>11, <3>2, <4>1, <4>2
      <3>3. CASE k # Back(n) /\ ~\E i \in 0 .. n - 1 : k = Back(i)
        <4>1. k # head
          BY <1>1, <1>10, <3>3
        <4> QED
          BY <1>5, <1>6, <1>11, <3>3, <4>1
      <3> QED
        BY <3>1, <3>2, <3>3
    <2> QED
      BY <1>2, <2>1 DEF Payloads
  <1>12. CASE \E i \in 0 .. n - 1 : t = Back(i + 1)
    <2> PICK i \in 0 .. n - 1 : t = Back(i + 1)
      BY <1>12
    <2>0. t # head /\ Back(i) # Back(n) /\ i \in 0 .. n /\ n \in 0 .. n
      BY <1>1, <1>8, <1>10
    <2>1. ASSUME NEW k \in Index PROVE slots'[k].traced <=> k = Back(i)
      <3>1. CASE k = Back(n)
        BY <1>0, <1>5, <1>6, <2>0, <3>1
      <3>2. CASE k # Back(n) /\ \E j \in 0 .. n - 1 : k = Back(j)
        <4>1. PICK j \in 0 .. n - 1 : k = Back(j)
          BY <3>2
        <4>2. slots'[k].traced <=> Back(j + 1) = t
          BY <1>1, <1>5, <1>6, <1>7, <1>9, <3>2, <4>1
        <4>3. Back(j + 1) = t <=> j = i
          BY <1>1, <1>8, <4>1
        <4>4. k = Back(i) <=> j = i
          BY <1>1, <1>8, <4>1
        <4> QED
          BY <4>2, <4>3, <4>4
      <3>3. CASE k # Back(n) /\ ~\E j \in 0 .. n - 1 : k = Back(j)
        <4>1. k # t
          <5>1. i + 1 = n \/ i + 1 \in 0 .. n - 1
            BY <1>1
          <5> QED
            BY <3>3, <5>1
        <4> QED
          BY <1>5, <1>6, <3>3, <4>1
      <3> QED
        BY <3>1, <3>2, <3>3
    <2> QED
      BY <1>7, <2>0, <2>1 DEF Payloads
  <1>13. CASE t # head /\ ~\E i \in 0 .. n - 1 : t = Back(i + 1)
    <2>1. ASSUME NEW k \in Index PROVE slots'[k].traced <=> k = t
      <3>1. CASE k = Back(n)
        <4>1. n = 0 \/ (n - 1 \in 0 .. n - 1 /\ n = (n - 1) + 1)
          BY <1>1
        <4>2. k # t
          BY <1>10, <1>13, <3>1, <4>1
        <4> QED
          BY <1>0, <1>5, <1>6, <1>13, <3>1, <4>2
      <3>2. CASE k # Back(n) /\ \E j \in 0 .. n - 1 : k = Back(j)
        <4>1. PICK j \in 0 .. n - 1 : k = Back(j)
          BY <3>2
        <4>2. slots'[k].traced <=> Back(j + 1) = t
          BY <1>1, <1>5, <1>6, <1>7, <1>9, <3>2, <4>1
        <4>3. j = 0 \/ (j - 1 \in 0 .. n - 1 /\ j = (j - 1) + 1)
          BY <1>1
        <4>4. k # t
          BY <1>10, <1>13, <4>1, <4>3
        <4> QED
          BY <1>13, <4>1, <4>2, <4>4
      <3>3. CASE k # Back(n) /\ ~\E j \in 0 .. n - 1 : k = Back(j)
        BY <1>5, <1>6, <3>3
      <3> QED
        BY <3>1, <3>2, <3>3
    <2> QED
      BY <2>1 DEF Payloads
  <1> QED
    BY <1>11, <1>12, <1>13

-----------------------------------------------------------------------------
(* The other steps.                                                        *)

(* An emptied slot keeps its payload buffer.                                *)
LEMMA Emptied ==
    ASSUME NEW r \in Slot, MaxAge \in Nat
    PROVE  Empty(r) \in Slot /\ ~Empty(r).valid /\ Empty(r).traced = r.traced
  <1>1. PICK q \in Slot : q = [r EXCEPT !.valid = FALSE, !.packet = NoPacket]
    BY DEF Slot
  <1>2. [q EXCEPT !.age = 0] \in Slot
    BY DEF Slot
  <1>3. [r EXCEPT !.valid = FALSE, !.packet = NoPacket, !.age = 0]
           = [[r EXCEPT !.valid = FALSE, !.packet = NoPacket] EXCEPT !.age = 0]
    BY DEF Slot
  <1>4. Empty(r).valid = FALSE /\ Empty(r).traced = r.traced
    BY DEF Empty, Slot
  <1> QED
    BY <1>1, <1>2, <1>3, <1>4 DEF Empty

(* Slots that are emptied, or only aged, keep the payload buffers apart.    *)
LEMMA PayloadsStay ==
    ASSUME Payloads, \A k \in Index : slots'[k].traced = slots[k].traced
    PROVE  Payloads'
  BY DEF Payloads

LEMMA PopKeeps ==
    ASSUME TypeOK, Valids, Payloads, Pop
    PROVE  TypeOK' /\ Valids' /\ Payloads'
  <1>0. /\ head \in Index /\ tail \in Index /\ slots \in [Index -> Slot]
        /\ MaxAge \in Nat
    BY DelaysAreAges DEF TypeOK, Slot
  <1>1. /\ slots' = [slots EXCEPT ![tail] = Empty(@)]
        /\ tail' = At(tail + 1) /\ head' = head /\ head # tail
        /\ UNCHANGED <<delay, uiPc, sets>>
    BY DEF Pop
  <1>2. tail' = IF tail + 1 < Capacity THEN tail + 1 ELSE 0
    <2>1. tail + 1 \in 0 .. 2 * Capacity - 1
      BY <1>0, RingAssumption DEF Index
    <2> QED
      BY <1>0, <1>1, <2>1, WrapsOnce, RingAssumption DEF Index
  <1>3. tail' \in Index
    BY <1>0, <1>2, RingAssumption DEF Index
  <1>4. Empty(slots[tail]) \in Slot /\ ~Empty(slots[tail]).valid
        /\ Empty(slots[tail]).traced = slots[tail].traced
    BY <1>0, Emptied
  <1>5. slots' \in [Index -> Slot]
    BY <1>0, <1>1, <1>4
  <1>6. \A k \in Index : InUse(k)' <=> InUse(k) /\ k # tail
    BY <1>0, <1>1, <1>2, RingAssumption DEF InUse, Index
  <1>7. Valids'
    BY <1>0, <1>1, <1>4, <1>6 DEF Valids
  <1>8. Payloads'
    BY <1>0, <1>1, <1>4, PayloadsStay
  <1> QED
    BY <1>1, <1>3, <1>5, <1>7, <1>8 DEF TypeOK, Slot

LEMMA ResetKeeps ==
    ASSUME TypeOK, Payloads, Reset, UNCHANGED <<delay, sets>>,
           uiPc' \in {"idle", "flush", "trim", "stamp"}
    PROVE  TypeOK' /\ Valids' /\ Payloads'
  <1>0. slots \in [Index -> Slot] /\ MaxAge \in Nat /\ 0 \in Index
    BY DelaysAreAges, RingAssumption DEF TypeOK, Slot, Index
  <1>1. \A k \in Index : /\ slots'[k] = Empty(slots[k])
                         /\ Empty(slots[k]) \in Slot
                         /\ ~Empty(slots[k]).valid
                         /\ Empty(slots[k]).traced = slots[k].traced
    BY <1>0, Emptied DEF Reset
  <1>2. slots' \in [Index -> Slot]
    BY <1>1 DEF Reset
  <1>3. \A k \in Index : ~InUse(k)'
    BY DEF InUse, Reset, Index
  <1>4. Valids'
    BY <1>1, <1>3 DEF Valids
  <1>5. Payloads'
    BY <1>1, PayloadsStay
  <1> QED
    BY <1>0, <1>2, <1>4, <1>5 DEF TypeOK, Slot, Reset

(* Trimming removes no more than there is.                                  *)
LEMMA ExcessIsHeld ==
    ASSUME TypeOK
    PROVE  Excess \in 0 .. Size
  <1>1. Size \in Nat /\ Capacity \in Nat
    BY OccupiedAreInUse, RingAssumption DEF TypeOK
  <1>2. delay * Rate \in Nat
    BY RingAssumption DEF TypeOK
  <1>3. PICK m \in Nat : m = Min({Capacity, delay * Rate})
    BY <1>1, <1>2, MinOfTwo
  <1>4. Excess = Max({0, Size - m})
    BY <1>3 DEF Excess
  <1>5. Excess = IF 0 >= Size - m THEN 0 ELSE Size - m
    BY <1>1, <1>4, MaxOfTwo
  <1> QED
    BY <1>1, <1>5

LEMMA TrimKeeps ==
    ASSUME TypeOK, Valids, Payloads, Trim
    PROVE  TypeOK' /\ Valids' /\ Payloads'
  <1> DEFINE gone == {At(tail + i) : i \in 0 .. Excess - 1}
  <1>0. /\ head \in Index /\ tail \in Index /\ slots \in [Index -> Slot]
        /\ MaxAge \in Nat /\ Size \in 0 .. Capacity - 1
    BY DelaysAreAges, OccupiedAreInUse DEF TypeOK, Slot
  <1>1. PICK x \in 0 .. Size : x = Excess
    BY ExcessIsHeld
  <1>2. /\ slots' = [k \in Index |-> IF k \in gone THEN Empty(slots[k]) ELSE slots[k]]
        /\ tail' = At(tail + x) /\ head' = head /\ uiPc' = "stamp"
        /\ UNCHANGED <<delay, sets>>
    BY <1>1 DEF Trim
  <1>3. \A i \in 0 .. x : At(tail + i) = IF tail + i < Capacity THEN tail + i
                                         ELSE tail + i - Capacity
    <2> TAKE i \in 0 .. x
    <2>1. PICK y \in 0 .. 2 * Capacity - 1 : y = tail + i
      BY <1>0, <1>1, RingAssumption DEF Index
    <2>2. At(y) = IF y < Capacity THEN y ELSE y - Capacity
      BY WrapsOnce
    <2> QED
      BY <1>0, <1>1, <2>1, <2>2, RingAssumption DEF Index
  <1>4. tail' \in Index
    BY <1>0, <1>1, <1>2, <1>3, RingAssumption DEF Index
  <1>5. \A k \in Index : k \in gone <=> InUse(k) /\ ~InUse(k)'
    <2> TAKE k \in Index
    <2>1. ASSUME NEW i \in 0 .. x - 1, k = At(tail + i)
          PROVE  InUse(k) /\ ~InUse(k)'
      <3>1. At(tail + i) = IF tail + i < Capacity THEN tail + i ELSE tail + i - Capacity
        BY <1>1, <1>3
      <3>2. At(tail + x) = IF tail + x < Capacity THEN tail + x ELSE tail + x - Capacity
        BY <1>1, <1>3
      <3>3. InUse(k)
        BY <1>0, <1>1, <2>1, <3>1, RingAssumption DEF InUse, Index, Size
      <3>4. ~(IF head >= tail' THEN tail' <= k /\ k < head ELSE tail' <= k \/ k < head)
        <4>0. /\ Capacity \in Nat /\ head \in Nat /\ tail \in Nat /\ x \in Nat /\ i \in Nat
              /\ head < Capacity /\ i < x /\ x <= Size
          BY <1>0, <1>1, RingAssumption DEF Index
        <4>1. CASE head >= tail
          <5>1. tail + x <= head
            BY <4>0, <4>1 DEF Size
          <5>2. tail' = tail + x /\ k = tail + i
            BY <1>2, <2>1, <3>1, <3>2, <4>0, <5>1
          <5> QED
            BY <4>0, <5>1, <5>2
        <4>2. CASE head < tail
          <5>1. tail + x <= Capacity + head
            BY <4>0, <4>2 DEF Size
          <5>2. CASE tail + x < Capacity
            <6>1. tail' = tail + x /\ k = tail + i
              BY <1>2, <2>1, <3>1, <3>2, <4>0, <5>2
            <6> QED
              BY <4>0, <4>2, <6>1
          <5>3. CASE tail + x >= Capacity
            <6>1. tail' = tail + x - Capacity
              BY <1>2, <3>2, <4>0, <5>3
            <6>2. k = tail + i \/ k = tail + i - Capacity
              BY <2>1, <3>1
            <6>3. tail' <= head
              BY <4>0, <5>1, <6>1
            <6> QED
              BY <4>0, <4>2, <6>1, <6>2, <6>3
          <5> QED
            BY <4>0, <5>2, <5>3
        <4> QED
          BY <4>0, <4>1, <4>2
      <3> QED
        BY <1>2, <3>3, <3>4 DEF InUse
    <2>2. ASSUME InUse(k), ~InUse(k)'
          PROVE  \E i \in 0 .. x - 1 : k = At(tail + i)
      <3> DEFINE i == IF k >= tail THEN k - tail ELSE k - tail + Capacity
      <3>1. i \in 0 .. Size - 1
        BY <1>0, <2>2, RingAssumption DEF InUse, Index, Size
      <3>2. At(tail + x) = IF tail + x < Capacity THEN tail + x ELSE tail + x - Capacity
        BY <1>1, <1>3
      <3>3. i < x
        BY <1>0, <1>1, <1>2, <2>2, <3>1, <3>2, RingAssumption DEF InUse, Index, Size
      <3>4. i \in 0 .. x - 1
        BY <1>0, <1>1, <3>1, <3>3
      <3>5. At(tail + i) = k
        <4>1. PICK y \in 0 .. 2 * Capacity - 1 : y = tail + i
          BY <1>0, <3>1, RingAssumption DEF Index
        <4> QED
          BY <1>0, <4>1, WrapsOnce, RingAssumption DEF Index
      <3> QED
        BY <3>4, <3>5
    <2> QED
      BY <1>1, <2>1, <2>2
  <1> HIDE DEF gone
  <1>6. \A k \in Index : /\ Empty(slots[k]) \in Slot /\ ~Empty(slots[k]).valid
                         /\ Empty(slots[k]).traced = slots[k].traced
    BY <1>0, Emptied
  <1>7. \A k \in Index : InUse(k)' => InUse(k)
    BY <1>0, <1>1, <1>2, <1>3, RingAssumption DEF InUse, Index, Size
  <1>8. Valids'
    BY <1>2, <1>5, <1>6, <1>7 DEF Valids
  <1>9. Payloads'
    BY <1>2, <1>6, PayloadsStay
  <1>10. slots' \in [Index -> Slot]
    BY <1>0, <1>2, <1>6
  <1> QED
    BY <1>2, <1>4, <1>8, <1>9, <1>10 DEF TypeOK, Slot

(* Time and the stamp change the ages of valid slots only.                  *)
LEMMA AgesKeep ==
    ASSUME TypeOK, Valids, Payloads, Stamp \/ Tick
    PROVE  TypeOK' /\ Valids' /\ Payloads'
  <1>0. slots \in [Index -> Slot] /\ MaxAge \in Nat /\ delay \in 0 .. MaxAge
    BY DelaysAreAges DEF TypeOK, Slot
  <1>1. \A k \in Index : /\ slots'[k] \in Slot
                         /\ slots'[k].valid = slots[k].valid
                         /\ slots'[k].traced = slots[k].traced
    BY <1>0 DEF Stamp, Tick, Slot
  <1>2. slots' = [k \in Index |-> slots'[k]]
    BY DEF Stamp, Tick
  <1>3. slots' \in [Index -> Slot]
    BY <1>1, <1>2
  <1>4. UNCHANGED <<head, tail, delay, sets>>
    BY DEF Stamp, Tick
  <1>5. Valids'
    BY <1>1, <1>4 DEF Valids, InUse
  <1>6. Payloads'
    BY <1>1, PayloadsStay
  <1>7. uiPc' \in {"idle", "flush", "trim", "stamp"}
    BY DEF Stamp, Tick, TypeOK
  <1> QED
    BY <1>3, <1>4, <1>5, <1>6, <1>7 DEF TypeOK, Slot

-----------------------------------------------------------------------------
RingIInv == TypeOK /\ Valids /\ Payloads

LEMMA RingAtFirst == ASSUME Init PROVE RingIInv
  <1>1. TypeOK
    <2>1. MaxAge \in Nat /\ 0 \in Index
      BY DelaysAreAges, RingAssumption DEF Init, Index
    <2>2. slots \in [Index -> Slot]
      BY <2>1 DEF Init, Slot
    <2> QED
      BY <2>1, <2>2, RingAssumption DEF Init, TypeOK, Slot
  <1>2. Valids
    BY DEF Init, Valids, InUse, Index
  <1>3. Payloads
    <2>1. PICK t \in Index : slots = [i \in Index |-> [traced |-> i = t, valid |-> FALSE,
                                                       packet |-> NoPacket, age |-> 0]]
      BY DEF Init
    <2>2. \A k \in Index : slots[k].traced = (k = t)
      BY <2>1
    <2> QED
      BY <2>2 DEF Payloads
  <1> QED
    BY <1>1, <1>2, <1>3 DEF RingIInv

LEMMA RingInductive ==
    ASSUME RingIInv, [Next]_vars
    PROVE  RingIInv'
  <1> USE DEF RingIInv
  <1>1. CASE \E p \in Packet : Push(p)
    BY <1>1, PushKeepsTypes, PushKeepsValids, PushKeepsPayloads
  <1>2. CASE Pop
    BY <1>2, PopKeeps
  <1>3. CASE Flush \/ FlushReduced
    <2>1. /\ Reset /\ UNCHANGED <<delay, sets>>
          /\ uiPc' \in {"idle", "flush", "trim", "stamp"}
      BY <1>3 DEF Flush, FlushReduced, TypeOK
    <2> QED
      BY <2>1, ResetKeeps
  <1>4. CASE \E d \in Delays : SetDelay(d)
    <2>1. /\ delay' \in Delays /\ sets' \in 0 .. MaxSets
          /\ uiPc' \in {"idle", "flush", "trim", "stamp"} /\ UNCHANGED <<slots, head, tail>>
      BY <1>4, RingAssumption DEF SetDelay, TypeOK
    <2> QED
      BY <2>1 DEF TypeOK, Valids, Payloads, InUse
  <1>5. CASE Trim
    BY <1>5, TrimKeeps
  <1>6. CASE Stamp \/ Tick
    BY <1>6, AgesKeep
  <1>7. CASE UNCHANGED vars
    BY <1>7 DEF vars, TypeOK, Valids, Payloads, InUse
  <1> QED
    BY <1>1, <1>2, <1>3, <1>4, <1>5, <1>6, <1>7 DEF Next, PushFull

LEMMA RingInductiveInvariant == Spec => []RingIInv
  BY RingAtFirst, RingInductive, PTL DEF Spec

(* Whatever packets arrive and however the ring wraps around, fills, is     *)
(* trimmed and is flushed: the slots between tail and head are the valid    *)
(* ones, so that the consumer never stops at a hole and no packet handed    *)
(* out is stamped; and sorted insertion permutes the payload buffers.       *)
THEOREM RingInvariant == Spec => []RingInv
  <1>1. RingIInv => RingInv
    BY ValidIsInUse, TracedOnce DEF RingIInv, RingInv, Valids, Payloads
  <1> QED
    BY <1>1, RingInductiveInvariant, PTL

-----------------------------------------------------------------------------
(* The ring implements the delay queue.  The i-th packet of the queue is in *)
(* the i-th slot from tail, the slot at head comes after the last one.      *)
Place(i) == IF tail + i - 1 < Capacity THEN tail + i - 1 ELSE tail + i - 1 - Capacity

Held == [packet : Packet \cup {NoPacket}, age : 0 .. MaxAge]

LEMMA PlaceIsAt ==
    ASSUME tail \in Index, NEW i \in 1 .. Capacity
    PROVE  At(tail + i - 1) = Place(i) /\ Place(i) \in Index
  <1>1. PICK x \in 0 .. 2 * Capacity - 1 : x = tail + i - 1
    BY RingAssumption DEF Index
  <1>2. At(x) = IF x < Capacity THEN x ELSE x - Capacity
    BY WrapsOnce
  <1> QED
    BY <1>1, <1>2, RingAssumption DEF Place, Index

LEMMA PlacesDiffer ==
    ASSUME tail \in Index, NEW i \in 1 .. Capacity, NEW j \in 1 .. Capacity,
           Place(i) = Place(j)
    PROVE  i = j
  BY RingAssumption DEF Place, Index

LEMMA BackIsPlace ==
    ASSUME head \in Index, tail \in Index, NEW i \in 1 .. Size + 1
    PROVE  Size + 1 - i \in 0 .. Size /\ Back(Size + 1 - i) = Place(i)
  BY RingAssumption DEF Back, Place, Size, Index

ContentsFacts ==
    /\ Contents \in Seq(Held) /\ Len(Contents) = Size
    /\ Size \in 0 .. Capacity - 1
    /\ \A i \in 1 .. Size :
          Contents[i] = [packet |-> slots[Place(i)].packet, age |-> slots[Place(i)].age]

LEMMA ContentsAreHeld == TypeOK => ContentsFacts
  <1> SUFFICES ASSUME TypeOK PROVE ContentsFacts
    OBVIOUS
  <1>1. Size \in 0 .. Capacity - 1 /\ tail \in Index /\ slots \in [Index -> Slot]
    BY OccupiedAreInUse DEF TypeOK, Slot
  <1>2. \A i \in 1 .. Size : At(tail + i - 1) = Place(i) /\ Place(i) \in Index
    BY <1>1, PlaceIsAt, RingAssumption
  <1>3. Contents = [i \in 1 .. Size |->
                      [packet |-> slots[Place(i)].packet, age |-> slots[Place(i)].age]]
    BY <1>2 DEF Contents
  <1>4. \A i \in 1 .. Size :
            [packet |-> slots[Place(i)].packet, age |-> slots[Place(i)].age] \in Held
    BY <1>1, <1>2 DEF Slot, Held
  <1>5. Contents \in [1 .. Size -> Held]
    BY <1>3, <1>4
  <1>6. Contents \in Seq(Held)
    BY <1>1, <1>5, SeqDef
  <1>7. Len(Contents) = Size
    BY <1>1, <1>5, <1>6, LenProperties
  <1> QED
    BY <1>1, <1>3, <1>6, <1>7 DEF ContentsFacts

(* SequencesExt's InsertAt.                                                 *)
LEMMA Inserted ==
    ASSUME NEW S, NEW q \in Seq(S), NEW i \in 1 .. Len(q) + 1, NEW e \in S
    PROVE  /\ Queue!InsertAt(q, i, e) \in Seq(S)
           /\ Len(Queue!InsertAt(q, i, e)) = Len(q) + 1
           /\ \A j \in 1 .. Len(q) + 1 :
                 Queue!InsertAt(q, i, e)[j] = IF j < i THEN q[j] ELSE IF j = i THEN e ELSE q[j - 1]
  <1>0. Len(q) \in Nat /\ \A j \in 1 .. Len(q) : q[j] \in S
    BY LenProperties, ElementOfSeq
  <1>1. /\ SubSeq(q, 1, i - 1) \in Seq(S) /\ Len(SubSeq(q, 1, i - 1)) = i - 1
        /\ \A j \in 1 .. i - 1 : SubSeq(q, 1, i - 1)[j] = q[j]
    BY <1>0, SubSeqProperties
  <1>2. /\ SubSeq(q, i, Len(q)) \in Seq(S) /\ Len(SubSeq(q, i, Len(q))) = Len(q) - i + 1
        /\ \A j \in 1 .. Len(q) - i + 1 : SubSeq(q, i, Len(q))[j] = q[i + j - 1]
    BY <1>0, SubSeqProperties
  <1>3. <<e>> \in Seq(S) /\ Len(<<e>>) = 1 /\ <<e>>[1] = e
    OBVIOUS
  <1> DEFINE a == SubSeq(q, 1, i - 1)
             b == SubSeq(q, i, Len(q))
             c == a \o <<e>>
  <1>4. Queue!InsertAt(q, i, e) = c \o b
    BY DEF Queue!InsertAt
  <1> HIDE DEF a, b
  <1>5. /\ c \in Seq(S) /\ Len(c) = Len(a) + 1
        /\ \A j \in 1 .. Len(a) + 1 : c[j] = IF j <= Len(a) THEN a[j] ELSE <<e>>[j - Len(a)]
    BY <1>1, <1>3, ConcatProperties DEF a
  <1> HIDE DEF c
  <1>6. /\ c \o b \in Seq(S) /\ Len(c \o b) = Len(c) + Len(b)
        /\ \A j \in 1 .. Len(c) + Len(b) : (c \o b)[j] = IF j <= Len(c) THEN c[j] ELSE b[j - Len(c)]
    BY <1>2, <1>5, ConcatProperties DEF b
  <1>7. Len(a) = i - 1 /\ Len(c) = i /\ Len(b) = Len(q) - i + 1 /\ Len(c) + Len(b) = Len(q) + 1
    <2>1. Len(a) = i - 1 /\ Len(b) = Len(q) - i + 1
      BY <1>1, <1>2 DEF a, b
    <2> QED
      BY <1>0, <1>5, <2>1
  <1>8. ASSUME NEW j \in 1 .. Len(q) + 1
        PROVE  (c \o b)[j] = IF j < i THEN q[j] ELSE IF j = i THEN e ELSE q[j - 1]
    <2>1. CASE j < i
      BY <1>0, <1>1, <1>5, <1>6, <1>7, <2>1 DEF a
    <2>2. CASE j = i
      <3>1. (c \o b)[j] = c[i] /\ c[i] = <<e>>[1]
        <4>1. i \in Nat /\ i >= 1 /\ Len(c) = i
          BY <1>0, <1>7
        <4>2. i \in 1 .. Len(c) + Len(b) /\ i \in 1 .. Len(a) + 1 /\ i <= Len(c) /\ ~(i <= Len(a)) /\ i - Len(a) = 1
          BY <1>0, <1>7, <4>1
        <4>3. (c \o b)[i] = c[i]
          BY <1>6, <4>2
        <4>4. c[i] = <<e>>[1]
          BY <1>5, <4>2
        <4> QED
          BY <2>2, <4>3, <4>4
      <3> QED
        BY <2>2, <3>1
    <2>3. CASE j > i
      <3>1. j - i \in 1 .. Len(q) - i + 1 /\ i + (j - i) - 1 = j - 1
        BY <1>0, <2>3
      <3>2. (c \o b)[j] = b[j - i]
        BY <1>0, <1>6, <1>7, <2>3
      <3> QED
        BY <1>0, <1>2, <2>3, <3>1, <3>2 DEF b
    <2>4. j < i \/ j = i \/ j > i
      BY <1>0
    <2> QED
      BY <2>1, <2>2, <2>3, <2>4
  <1> QED
    BY <1>4, <1>6, <1>7, <1>8

LEMMA SuccIsIndex ==
    ASSUME NEW k \in Index
    PROVE  At(k + 1) = (IF k + 1 < Capacity THEN k + 1 ELSE 0) /\ At(k + 1) \in Index
  <1>1. k + 1 \in 0 .. 2 * Capacity - 1
    BY RingAssumption DEF Index
  <1> QED
    BY <1>1, WrapsOnce, RingAssumption DEF Index

(* What rb_push chose: the packet comes behind one it may follow, or at the *)
(* end, and ahead of all it precedes.                                       *)
LEMMA ShiftIsInOrder ==
    ASSUME TypeOK, Valids, NEW p, NEW m, m = Size + 1 - Shift(p)
    PROVE  /\ m \in 1 .. Size + 1
           /\ m = Size + 1 \/ (m > 1 /\ MayFollow(p, slots[Place(m - 1)].packet))
           /\ m <= Size => \A i \in m .. Size : ~MayFollow(p, slots[Place(i)].packet)
  <1> DEFINE stops == {j \in 0 .. Min({Size - 2, MaxSearch - 1}) :
                         LET s == slots[At(head - 1 - j + Capacity)]
                         IN  s.valid /\ MayFollow(p, s.packet)}
             n == Shift(p)
  <1>1. /\ Size \in 0 .. Capacity - 1 /\ MaxSearch - 1 \in Nat /\ Capacity \in Nat
        /\ head \in Index /\ tail \in Index
    BY OccupiedAreInUse, RingAssumption DEF TypeOK
  <1>2. n = IF Size < 2 \/ stops = {} THEN 0 ELSE Min(stops)
    BY DEF Shift
  <1>3. n \in Nat /\ (n = 0 \/ n <= Size - 2)
    BY ShiftIsShort
  <1> HIDE DEF n, stops
  <1>4. CASE n = 0
    BY <1>1, <1>4 DEF n
  <1>5. CASE n # 0
    <2>1. Size >= 2 /\ stops # {} /\ n = Min(stops)
      BY <1>1, <1>2, <1>5
    <2>2. PICK u \in Nat : u = Min({Size - 2, MaxSearch - 1}) /\ u <= Size - 2
      BY <1>1, <2>1, MinOfTwo
    <2>3. stops = {j \in 0 .. u : /\ slots[At(head - 1 - j + Capacity)].valid
                                  /\ MayFollow(p, slots[At(head - 1 - j + Capacity)].packet)}
      BY <2>2 DEF stops
    <2>4. n \in stops /\ \A j \in stops : n <= j
      <3>1. stops \in SUBSET Nat
        BY <2>2, <2>3
      <3> QED
        BY <2>1, <3>1, MinIsLeast
    <2>5. ASSUME NEW j \in 0 .. u
          PROVE  /\ Size - j \in 1 .. Size
                 /\ At(head - 1 - j + Capacity) = Place(Size - j)
      <3>1. PICK i \in 1 .. Size + 1 : i = Size - j
        BY <1>1, <2>2
      <3>2. Back(Size + 1 - i) = Place(i)
        BY <1>1, BackIsPlace
      <3>3. PICK k \in 0 .. Capacity - 1 : k = Size + 1 - i /\ k = j + 1
        BY <1>1, <2>2, <3>1
      <3>4. At(head - k + Capacity) = Back(k)
        BY <1>1, BackIsAt
      <3>5. head - k + Capacity = head - 1 - j + Capacity
        BY <1>1, <3>3 DEF Index
      <3> QED
        BY <1>1, <2>2, <3>1, <3>2, <3>3, <3>4, <3>5
    <2>6. \A j \in 0 .. u : slots[Place(Size - j)].valid
      <3>1. ASSUME NEW j \in 0 .. u
            PROVE  slots[Place(Size - j)].valid
        <4>1. PICK i \in 1 .. Size + 1 : i = Size - j
          BY <1>1, <2>2
        <4>2. PICK k \in 1 .. Size : k = Size + 1 - i
          BY <1>1, <2>2, <4>1
        <4>3. Back(k) = Place(i) /\ InUse(Back(k)) /\ Back(k) \in Index
          BY <1>1, <4>2, BackIsPlace, BackIsInUse, BackIsAt
        <4> QED
          BY <4>1, <4>3 DEF Valids
      <3> QED
        BY <3>1
    <2>7. /\ n \in 0 .. u /\ MayFollow(p, slots[Place(Size - n)].packet)
          /\ \A j \in 0 .. u : j < n => ~MayFollow(p, slots[Place(Size - j)].packet)
      <3>1. \A j \in 0 .. u : j \in stops <=> MayFollow(p, slots[Place(Size - j)].packet)
        BY <2>3, <2>5, <2>6
      <3>2. n \in 0 .. u
        BY <2>3, <2>4
      <3>3. \A j \in 0 .. u : j < n => j \notin stops
        BY <1>3, <2>2, <2>4
      <3> QED
        BY <2>4, <3>1, <3>2, <3>3
    <2>8. m - 1 = Size - n /\ m \in 1 .. Size /\ m > 1
      BY <1>1, <1>3, <1>5, <2>2, <2>7 DEF n
    <2>9. ASSUME NEW i \in m .. Size
          PROVE  ~MayFollow(p, slots[Place(i)].packet)
      <3>1. PICK j \in 0 .. u : j = Size - i /\ j < n
        BY <1>1, <1>3, <2>2, <2>7, <2>8 DEF n
      <3>2. Size - j = i
        BY <1>1, <2>8, <3>1
      <3> QED
        BY <2>7, <3>1, <3>2
    <2> QED
      BY <1>1, <2>7, <2>8, <2>9
  <1> QED
    BY <1>4, <1>5

(* What the slots hold after rb_push, in the order of the queue.            *)
Moved(i, m, p) ==
    [packet |-> slots'[Place(i)].packet, age |-> slots'[Place(i)].age] =
        IF i < m
        THEN [packet |-> slots[Place(i)].packet, age |-> slots[Place(i)].age]
        ELSE IF i = m THEN [packet |-> p, age |-> 0]
        ELSE [packet |-> slots[Place(i - 1)].packet, age |-> slots[Place(i - 1)].age]

LEMMA PushedPlaces ==
    ASSUME TypeOK, NEW p \in Packet, Push(p), NEW m, m = Size + 1 - Shift(p)
    PROVE  /\ m \in 1 .. Size + 1
           /\ Size' = Size + 1
           /\ \A i \in 1 .. Size + 1 : Moved(i, m, p)
  <1> DEFINE n == Shift(p)
             s == [slots[At(head - n + Capacity)] EXCEPT
                      !.valid = TRUE, !.packet = p, !.age = 0]
             t == [s EXCEPT !.traced = slots[head].traced]
  <1>0. /\ head \in Index /\ tail \in Index /\ slots \in [Index -> Slot]
        /\ Size \in 0 .. Capacity - 2 /\ Capacity \in Nat /\ MaxAge \in Nat
    BY OccupiedAreInUse, HeadMoves, RingAssumption, DelaysAreAges DEF TypeOK, Slot, Push
  <1>1. n \in 0 .. Capacity - 2 /\ (n = 0 \/ n <= Size - 2)
    BY ShiftIsShort, <1>0, RingAssumption
  <1>2. m = Size + 1 - n /\ m \in 1 .. Size + 1
    BY <1>0, <1>1
  <1>3. /\ slots' = SwapDown(n, s) /\ head' = At(head + 1) /\ tail' = tail
        /\ At(head + 1) # tail
    BY DEF Push
  <1>4. Size' = Size + 1
    <2>1. head' = IF head + 1 < Capacity THEN head + 1 ELSE 0
      BY <1>0, <1>3, SuccIsIndex
    <2>2. /\ head \in 0 .. Capacity - 1 /\ tail \in 0 .. Capacity - 1
          /\ head' # tail /\ tail' = tail /\ Capacity \in Nat
      BY <1>0, <1>3 DEF Index
    <2>3. /\ Size = (IF head >= tail THEN head - tail ELSE Capacity - tail + head)
          /\ Size' = (IF head' >= tail' THEN head' - tail' ELSE Capacity - tail' + head')
      BY DEF Size
    <2> QED
      BY <2>1, <2>2, <2>3
  <1>5. t.packet = p /\ t.age = 0
    <2>1. At(head - n + Capacity) = Back(n) /\ Back(n) \in Index
      BY <1>0, <1>1, RingAssumption, BackIsAt
    <2>2. PICK r \in Slot : r = slots[At(head - n + Capacity)]
      BY <1>0, <2>1
    <2>3. PICK q \in Slot : q = [r EXCEPT !.valid = TRUE, !.packet = p, !.age = 0]
                            /\ q.packet = p /\ q.age = 0
      <3>1. [r EXCEPT !.valid = TRUE, !.packet = p, !.age = 0] \in Slot
        BY <1>0, Filled
      <3>2. /\ [r EXCEPT !.valid = TRUE, !.packet = p, !.age = 0].packet = p
            /\ [r EXCEPT !.valid = TRUE, !.packet = p, !.age = 0].age = 0
        BY DEF Slot
      <3> QED
        BY <3>1, <3>2
    <2>4. t = [q EXCEPT !.traced = slots[head].traced]
      BY <2>2, <2>3
    <2> QED
      BY <2>3, <2>4 DEF Slot
  <1>6. \A k \in Index : slots'[k] =
              IF k = Back(n) THEN t
              ELSE IF \E i \in 0 .. n - 1 : k = Back(i) THEN slots[Prev(k)] ELSE slots[k]
    <2>1. n \in 0 .. Capacity - 1
      BY <1>0, <1>1
    <2> HIDE DEF n, s
    <2>2. \A k \in Index : SwapDown(n, s)[k] =
              IF k = Back(n) THEN [s EXCEPT !.traced = slots[head].traced]
              ELSE IF \E i \in 0 .. n - 1 : k = Back(i) THEN slots[Prev(k)] ELSE slots[k]
      BY <1>0, <2>1, Swapped
    <2> QED
      BY <1>3, <2>2
  <1> HIDE DEF n, s, t
  <1>7. ASSUME NEW i \in 1 .. Size + 1
        PROVE  /\ Place(i) \in Index /\ i \in 1 .. Capacity
               /\ \A k \in 0 .. Size : Place(i) = Back(k) => k = Size + 1 - i
    <2>1. i \in 1 .. Capacity
      BY <1>0
    <2>2. Place(i) \in Index
      BY <1>0, <2>1, PlaceIsAt
    <2>3. ASSUME NEW k \in 0 .. Size, Place(i) = Back(k)
          PROVE  k = Size + 1 - i
      <3>1. PICK j \in 1 .. Size + 1 : j = Size + 1 - k
        BY <1>0
      <3>2. Size + 1 - j = k
        BY <1>0, <3>1
      <3>3. Back(k) = Place(j)
        BY <1>0, <3>2, BackIsPlace
      <3>4. j \in 1 .. Capacity
        BY <1>0
      <3>5. i = j
        BY <1>0, <2>1, <2>3, <3>3, <3>4, PlacesDiffer
      <3> QED
        BY <1>0, <3>1, <3>5
    <2> QED
      BY <2>1, <2>2, <2>3
  <1>8. ASSUME NEW i \in 1 .. Size + 1
        PROVE  slots'[Place(i)] = IF i < m THEN slots[Place(i)]
                                  ELSE IF i = m THEN t ELSE slots[Place(i - 1)]
    <2>0. /\ Place(i) \in Index /\ \A k \in 0 .. Size : Place(i) = Back(k) => k = Size + 1 - i
          /\ Size + 1 - i \in 0 .. Size /\ Back(Size + 1 - i) = Place(i)
          /\ n \in 0 .. Size
      BY <1>0, <1>1, <1>7, BackIsPlace
    <2>1. CASE i < m
      <3>1. Place(i) # Back(n) /\ ~\E k \in 0 .. n - 1 : Place(i) = Back(k)
        BY <1>0, <1>1, <1>2, <2>0, <2>1
      <3> QED
        BY <1>6, <2>0, <2>1, <3>1
    <2>2. CASE i = m
      <3>1. Place(i) = Back(n)
        BY <1>0, <1>1, <1>2, <2>0, <2>2
      <3> QED
        BY <1>2, <1>6, <2>0, <2>2, <3>1
    <2>3. CASE i > m
      <3>1. PICK k \in 0 .. n - 1 : k = Size + 1 - i /\ Place(i) = Back(k)
        BY <1>0, <1>1, <1>2, <2>0, <2>3
      <3>2. Place(i) # Back(n)
        BY <1>0, <1>1, <1>2, <2>0, <2>3
      <3>3. slots'[Place(i)] = slots[Prev(Back(k))]
        BY <1>6, <2>0, <3>1, <3>2
      <3>4. Prev(Back(k)) = Back(k + 1)
        BY <1>0, <1>1, PrevOfBack
      <3>5. PICK j \in 1 .. Size + 1 : j = i - 1
        BY <1>0, <1>2, <2>3
      <3>6. Size + 1 - j = k + 1 /\ Back(Size + 1 - j) = Place(j)
        BY <1>0, <3>1, <3>5, BackIsPlace
      <3> QED
        BY <1>2, <2>3, <3>3, <3>4, <3>5, <3>6
    <2>4. i < m \/ i = m \/ i > m
      BY <1>0, <1>2
    <2> QED
      BY <2>1, <2>2, <2>3, <2>4
  <1> QED
    BY <1>2, <1>4, <1>5, <1>8 DEF Moved

(* The slots after the first x, once tail has moved over those.             *)
LEMMA TailMoves ==
    ASSUME TypeOK, NEW x \in 0 .. Size, tail' = At(tail + x), head' = head
    PROVE  /\ Size' = Size - x
           /\ \A i \in 1 .. Size - x :
                 /\ Place(i)' = Place(i + x) /\ Place(i + x) \in Index
                 /\ \A j \in 0 .. x - 1 : At(tail + j) # Place(i + x)
  <1>0. /\ head \in 0 .. Capacity - 1 /\ tail \in 0 .. Capacity - 1
        /\ Size \in 0 .. Capacity - 1 /\ Capacity \in Nat /\ tail \in Index
    BY OccupiedAreInUse, RingAssumption DEF TypeOK, Index
  <1>1. \A j \in 0 .. Size : At(tail + j) = Place(j + 1)
    <2>1. ASSUME NEW j \in 0 .. Size PROVE At(tail + j) = Place(j + 1)
      <3>1. PICK i \in 1 .. Capacity : i = j + 1
        BY <1>0
      <3>2. tail + i - 1 = tail + j
        BY <1>0, <3>1
      <3> QED
        BY <1>0, <3>1, <3>2, PlaceIsAt
    <2> QED
      BY <2>1
  <1>2. tail' = IF tail + x < Capacity THEN tail + x ELSE tail + x - Capacity
    <2>1. At(tail + x) = Place(x + 1)
      BY <1>1
    <2> QED
      BY <1>0, <2>1 DEF Place
  <1>3. Size' = Size - x
    <2>1. /\ Size = (IF head >= tail THEN head - tail ELSE Capacity - tail + head)
          /\ Size' = (IF head' >= tail' THEN head' - tail' ELSE Capacity - tail' + head')
      BY DEF Size
    <2> QED
      BY <1>0, <1>2, <2>1
  <1>4. ASSUME NEW i \in 1 .. Size - x
        PROVE  /\ Place(i)' = Place(i + x) /\ Place(i + x) \in Index
               /\ \A j \in 0 .. x - 1 : At(tail + j) # Place(i + x)
    <2>1. Place(i)' = Place(i + x)
      BY <1>0, <1>2 DEF Place
    <2>2. PICK k \in 1 .. Capacity : k = i + x
      BY <1>0
    <2>3. Place(k) \in Index
      BY <1>0, PlaceIsAt
    <2>4. ASSUME NEW j \in 0 .. x - 1
          PROVE  At(tail + j) # Place(k)
      <3>1. PICK l \in 1 .. Capacity : l = j + 1
        BY <1>0
      <3>2. At(tail + j) = Place(l)
        BY <1>0, <1>1, <3>1
      <3>3. l # k
        BY <1>0, <2>2, <3>1
      <3> QED
        BY <1>0, <3>2, <3>3, PlacesDiffer
    <2> QED
      BY <2>1, <2>2, <2>3, <2>4
  <1> QED
    BY <1>3, <1>4

-----------------------------------------------------------------------------
(* The steps of the ring are those of the delay queue.                      *)

LEMMA PushImplements ==
    ASSUME TypeOK, TypeOK', Valids, NEW p \in Packet, Push(p)
    PROVE  Queue!Arrive(p)
  <1>1. ContentsFacts
    BY ContentsAreHeld
  <1>2. ContentsFacts'
    BY ContentsAreHeld, PTL
  <1>3. PICK m : m = Size + 1 - Shift(p)
    OBVIOUS
  <1>4. /\ m \in 1 .. Size + 1
        /\ m = Size + 1 \/ (m > 1 /\ MayFollow(p, slots[Place(m - 1)].packet))
        /\ m <= Size => \A i \in m .. Size : ~MayFollow(p, slots[Place(i)].packet)
    BY <1>3, ShiftIsInOrder
  <1>5. /\ Size' = Size + 1
        /\ \A i \in 1 .. Size + 1 : Moved(i, m, p)
    BY <1>3, PushedPlaces
  <1>6. Size \in Nat /\ Size < Capacity - 1
    BY HeadMoves, OccupiedAreInUse, RingAssumption DEF Push, TypeOK
  <1>7. tail' = tail /\ UNCHANGED <<delay, uiPc>>
    BY DEF Push
  <1>8. \A i : Place(i)' = Place(i)
    BY <1>7 DEF Place
  <1>9. \A i \in 1 .. Size : Contents[i].packet = slots[Place(i)].packet
    BY <1>1 DEF ContentsFacts
  <1>10. [packet |-> p, age |-> 0] \in Held
    BY DelaysAreAges DEF Held, TypeOK
  <1> DEFINE q == Queue!InsertAt(Contents, m, [packet |-> p, age |-> 0])
  <1>11. /\ q \in Seq(Held) /\ Len(q) = Size + 1
         /\ \A j \in 1 .. Size + 1 :
               q[j] = IF j < m THEN Contents[j]
                      ELSE IF j = m THEN [packet |-> p, age |-> 0] ELSE Contents[j - 1]
    <2>1. Contents \in Seq(Held) /\ Len(Contents) = Size
      BY <1>1 DEF ContentsFacts
    <2>2. m \in 1 .. Len(Contents) + 1
      BY <1>4, <2>1
    <2>3. PICK e \in Held : e = [packet |-> p, age |-> 0]
      BY <1>10
    <2>4. q = Queue!InsertAt(Contents, m, e)
      BY <2>3
    <2> HIDE DEF q
    <2>5. PICK c \in Seq(Held) : c = Contents
      BY <2>1
    <2>6. PICK i \in 1 .. Len(c) + 1 : i = m
      BY <2>2, <2>5
    <2>7. /\ Queue!InsertAt(c, i, e) \in Seq(Held)
          /\ Len(Queue!InsertAt(c, i, e)) = Len(c) + 1
          /\ \A j \in 1 .. Len(c) + 1 :
                Queue!InsertAt(c, i, e)[j] =
                    IF j < i THEN c[j] ELSE IF j = i THEN e ELSE c[j - 1]
      BY Inserted
    <2> QED
      BY <2>1, <2>3, <2>4, <2>5, <2>6, <2>7
  <1> HIDE DEF q
  <1>12. Contents' \in Seq(Held) /\ Len(Contents') = Size + 1
    BY <1>2, <1>5 DEF ContentsFacts
  <1>13. ASSUME NEW i \in 1 .. Size + 1
         PROVE  Contents'[i] = q[i]
    <2>1. Contents'[i] = [packet |-> slots'[Place(i)].packet, age |-> slots'[Place(i)].age]
      BY <1>2, <1>5, <1>8 DEF ContentsFacts
    <2>2. i < m => Contents[i] = [packet |-> slots[Place(i)].packet, age |-> slots[Place(i)].age]
      BY <1>1, <1>4, <1>6 DEF ContentsFacts
    <2>3. i > m => Contents[i - 1] = [packet |-> slots[Place(i - 1)].packet,
                                      age |-> slots[Place(i - 1)].age]
      <3>1. i > m => i - 1 \in 1 .. Size
        BY <1>4, <1>6
      <3> QED
        BY <1>1, <3>1 DEF ContentsFacts
    <2>4. i < m \/ i = m \/ i > m
      BY <1>4, <1>6
    <2>5. q[i] = IF i < m THEN Contents[i]
                 ELSE IF i = m THEN [packet |-> p, age |-> 0] ELSE Contents[i - 1]
      BY <1>11
    <2>6. [packet |-> slots'[Place(i)].packet, age |-> slots'[Place(i)].age] =
                 IF i < m
                 THEN [packet |-> slots[Place(i)].packet, age |-> slots[Place(i)].age]
                 ELSE IF i = m THEN [packet |-> p, age |-> 0]
                 ELSE [packet |-> slots[Place(i - 1)].packet, age |-> slots[Place(i - 1)].age]
      BY <1>5 DEF Moved
    <2> QED
      BY <1>4, <1>6, <2>1, <2>2, <2>3, <2>4, <2>5, <2>6
  <1>14. Contents' = q
    BY <1>11, <1>12, <1>13, SeqEqual
  <1>15. Len(Contents) = Size
    BY <1>1 DEF ContentsFacts
  <1>16. m = Size + 1 \/ (m > 1 /\ MayFollow(p, Contents[m - 1].packet))
    <2>1. m > 1 => m - 1 \in 1 .. Size
      BY <1>4, <1>6
    <2> QED
      BY <1>4, <1>9, <2>1
  <1>17. m <= Size => \A j \in m .. Size : ~MayFollow(p, Contents[j].packet)
    <2>1. \A j \in m .. Size : j \in 1 .. Size
      BY <1>4, <1>6
    <2> QED
      BY <1>4, <1>9, <2>1
  <1> QED
    BY <1>4, <1>6, <1>7, <1>14, <1>15, <1>16, <1>17
    DEF Queue!Arrive, Queue!Entry, q

(* The slots between tail and head are in use.                              *)
LEMMA PlacesInUse ==
    ASSUME TypeOK, Valids, NEW i \in 1 .. Size
    PROVE  Place(i) \in Index /\ slots[Place(i)].valid
  <1>1. Size \in 0 .. Capacity - 1 /\ head \in Index /\ tail \in Index /\ Capacity \in Nat
    BY OccupiedAreInUse, RingAssumption DEF TypeOK
  <1>2. PICK k \in 1 .. Size : k = Size + 1 - i /\ k \in 0 .. Capacity - 1
    BY <1>1
  <1>3. PICK j \in 1 .. Size + 1 : j = i
    BY <1>1
  <1>4. Back(k) = Place(i)
    BY <1>1, <1>2, <1>3, BackIsPlace
  <1>5. InUse(Back(k)) /\ Back(k) \in Index
    BY <1>1, <1>2, BackIsInUse, BackIsAt
  <1> QED
    BY <1>4, <1>5 DEF Valids

(* The first x packets are gone and the others are untouched.               *)
LEMMA FirstOnesGo ==
    ASSUME TypeOK, TypeOK', NEW x \in 0 .. Size, tail' = At(tail + x), head' = head,
           \A k \in Index : (\A j \in 0 .. x - 1 : At(tail + j) # k) => slots'[k] = slots[k]
    PROVE  Contents' = SubSeq(Contents, x + 1, Len(Contents))
  <1>1. ContentsFacts
    BY ContentsAreHeld
  <1>2. ContentsFacts'
    BY ContentsAreHeld, PTL
  <1>3. /\ Size' = Size - x
        /\ \A i \in 1 .. Size - x :
              /\ Place(i)' = Place(i + x) /\ Place(i + x) \in Index
              /\ \A j \in 0 .. x - 1 : At(tail + j) # Place(i + x)
    BY TailMoves
  <1>4. Size \in Nat /\ Len(Contents) = Size /\ Contents \in Seq(Held)
    BY <1>1, RingAssumption DEF ContentsFacts
  <1> DEFINE q == SubSeq(Contents, x + 1, Len(Contents))
  <1>5. /\ q \in Seq(Held) /\ Len(q) = Size - x
        /\ \A i \in 1 .. Size - x : q[i] = Contents[i + x]
    <2>1. PICK c \in Seq(Held) : c = Contents /\ Len(c) = Size
      BY <1>4
    <2>2. PICK a \in 1 .. Len(c) + 1 : a = x + 1
      BY <1>4, <2>1
    <2>3. PICK b \in 0 .. Len(c) : b = Len(c) /\ b >= a - 1
      BY <1>4, <2>1, <2>2
    <2>4. \A i \in a .. b : c[i] \in Held
      BY <2>1, <2>2, <2>3, <1>4, ElementOfSeq
    <2>5. /\ SubSeq(c, a, b) \in Seq(Held)
          /\ Len(SubSeq(c, a, b)) = IF a <= b THEN b - a + 1 ELSE 0
          /\ \A i \in 1 .. b - a + 1 : SubSeq(c, a, b)[i] = c[a + i - 1]
      <3>1. a \in 1 .. Len(c) + 1 /\ b \in a - 1 .. Len(c)
        BY <1>4, <2>1, <2>2, <2>3
      <3> QED
        BY <2>4, <3>1, SubSeqProperties
    <2>6. \A i \in 1 .. Size - x : a + i - 1 = i + x
      BY <1>4, <2>2
    <2>7. b - a + 1 = Size - x /\ (a <= b \/ Size - x = 0)
      BY <1>4, <2>1, <2>2, <2>3
    <2> QED
      <3>1. q = SubSeq(c, a, b)
        BY <2>1, <2>2, <2>3
      <3>2. Len(SubSeq(c, a, b)) = Size - x
        BY <2>5, <2>7
      <3>3. \A i \in 1 .. Size - x : SubSeq(c, a, b)[i] = c[i + x]
        BY <2>5, <2>6, <2>7
      <3> QED
        BY <2>1, <2>5, <3>1, <3>2, <3>3
  <1> HIDE DEF q
  <1>6. Contents' \in Seq(Held) /\ Len(Contents') = Size - x
    BY <1>2, <1>3 DEF ContentsFacts
  <1>7. ASSUME NEW i \in 1 .. Size - x
        PROVE  Contents'[i] = q[i]
    <2>1. Contents'[i] = [packet |-> slots'[Place(i)'].packet, age |-> slots'[Place(i)'].age]
      BY <1>2, <1>3 DEF ContentsFacts
    <2>2. slots'[Place(i)'] = slots[Place(i + x)]
      BY <1>3
    <2>3. i + x \in 1 .. Size
      BY <1>4
    <2>4. Contents[i + x] = [packet |-> slots[Place(i + x)].packet,
                             age |-> slots[Place(i + x)].age]
      BY <1>1, <2>3 DEF ContentsFacts
    <2> QED
      BY <1>5, <2>1, <2>2, <2>4
  <1> QED
    BY <1>4, <1>5, <1>6, <1>7, SeqEqual DEF q

LEMMA PopImplements ==
    ASSUME TypeOK, TypeOK', Pop
    PROVE  Queue!Leave
  <1>1. ContentsFacts
    BY ContentsAreHeld
  <1>2. /\ head # tail /\ slots[tail].age >= delay
        /\ slots' = [slots EXCEPT ![tail] = Empty(@)]
        /\ tail' = At(tail + 1) /\ head' = head /\ UNCHANGED <<delay, uiPc>>
    BY DEF Pop
  <1>3. /\ head \in Index /\ tail \in Index /\ slots \in [Index -> Slot]
        /\ Size \in 1 .. Capacity - 1 /\ Capacity \in Nat
    BY <1>2, RingAssumption DEF TypeOK, Slot, Size, Index
  <1>4. Place(1) = tail
    BY <1>3 DEF Place, Index
  <1>5. Contents[1].age >= delay
    BY <1>1, <1>2, <1>3, <1>4 DEF ContentsFacts
  <1>6. PICK x \in 0 .. Size : x = 1
    BY <1>3
  <1>7. tail' = At(tail + x)
    BY <1>2, <1>6
  <1>8. At(tail + 0) = tail
    <2>1. PICK y \in 0 .. 2 * Capacity - 1 : y = tail + 0 /\ y = tail
      BY <1>3 DEF Index
    <2> QED
      BY <1>3, <2>1, WrapsOnce DEF Index
  <1>9. \A k \in Index : (\A j \in 0 .. x - 1 : At(tail + j) # k) => slots'[k] = slots[k]
    <2> TAKE k \in Index
    <2> HAVE \A j \in 0 .. x - 1 : At(tail + j) # k
    <2>1. 0 \in 0 .. x - 1
      BY <1>6
    <2>2. k # tail
      BY <1>8, <2>1
    <2> QED
      BY <1>2, <1>3, <2>2
  <1>10. Contents' = SubSeq(Contents, x + 1, Len(Contents))
    BY <1>2, <1>7, <1>9, FirstOnesGo
  <1>11. Len(Contents) = Size
    BY <1>1 DEF ContentsFacts
  <1>12. Contents # << >> /\ Contents' = Tail(Contents)
    <2>1. Contents \in Seq(Held)
      BY <1>1 DEF ContentsFacts
    <2>2. Contents # << >>
      BY <1>3, <1>11, <2>1, EmptySeq
    <2>3. PICK c \in Seq(Held) : c = Contents /\ c # << >>
      BY <2>1, <2>2
    <2>4. Tail(c) = SubSeq(c, 2, Len(c))
      BY <2>3, TailIsSubSeq
    <2> QED
      BY <1>6, <1>10, <2>2, <2>3, <2>4
  <1> QED
    BY <1>2, <1>5, <1>12 DEF Queue!Leave

LEMMA TrimImplements ==
    ASSUME TypeOK, TypeOK', Trim
    PROVE  Queue!Discard \/ UNCHANGED Queue!dvars
  <1> DEFINE gone == {At(tail + i) : i \in 0 .. Excess - 1}
  <1>1. ContentsFacts
    BY ContentsAreHeld
  <1>2. PICK x \in 0 .. Size : x = Excess
    BY ExcessIsHeld
  <1>3. /\ slots' = [k \in Index |-> IF k \in gone THEN Empty(slots[k]) ELSE slots[k]]
        /\ tail' = At(tail + x) /\ head' = head /\ uiPc = "trim" /\ uiPc' = "stamp"
        /\ UNCHANGED delay
    BY <1>2 DEF Trim
  <1>4. \A k \in Index : (\A j \in 0 .. x - 1 : At(tail + j) # k) => slots'[k] = slots[k]
    BY <1>2, <1>3
  <1>5. Contents' = SubSeq(Contents, x + 1, Len(Contents))
    BY <1>3, <1>4, FirstOnesGo
  <1>6. Len(Contents) = Size /\ Contents \in Seq(Held) /\ Size \in Nat
    BY <1>1, RingAssumption DEF ContentsFacts
  <1>7. CASE x = 0
    <2>1. PICK c \in Seq(Held) : c = Contents
      BY <1>6
    <2>2. SubSeq(c, 1, Len(c)) = c
      BY SubSeqFull
    <2>3. Contents' = Contents
      BY <1>5, <1>7, <2>1, <2>2
    <2> QED
      BY <1>3, <2>3 DEF Queue!dvars
  <1>8. CASE x # 0
    BY <1>3, <1>5, <1>6, <1>8 DEF Queue!Discard
  <1> QED
    BY <1>7, <1>8

(* Only the ages change, all in the same way.                               *)
LEMMA AgesChange ==
    ASSUME TypeOK, TypeOK', Valids, UNCHANGED <<head, tail>>, NEW NewAge,
           \A k \in Index : slots[k].valid =>
              /\ slots'[k].packet = slots[k].packet
              /\ slots'[k].age = NewAge[slots[k].age]
    PROVE  Contents' = [i \in DOMAIN Contents |->
                          Queue!Entry(Contents[i].packet, NewAge[Contents[i].age])]
  <1>1. ContentsFacts
    BY ContentsAreHeld
  <1>2. ContentsFacts'
    BY ContentsAreHeld, PTL
  <1>3. Size' = Size /\ \A i : Place(i)' = Place(i)
    BY DEF Size, Place
  <1>4. Contents \in Seq(Held) /\ Len(Contents) = Size /\ DOMAIN Contents = 1 .. Size
    <2>1. Contents \in Seq(Held) /\ Len(Contents) = Size
      BY <1>1 DEF ContentsFacts
    <2> QED
      BY <2>1, LenProperties
  <1>5. DOMAIN Contents' = 1 .. Size /\ Contents' = [i \in DOMAIN Contents' |-> Contents'[i]]
    <2>1. Contents' \in Seq(Held) /\ Len(Contents') = Size
      BY <1>2, <1>3 DEF ContentsFacts
    <2> QED
      BY <2>1, LenProperties
  <1>6. ASSUME NEW i \in 1 .. Size
        PROVE  Contents'[i] = Queue!Entry(Contents[i].packet, NewAge[Contents[i].age])
    <2>1. Contents'[i] = [packet |-> slots'[Place(i)].packet, age |-> slots'[Place(i)].age]
      BY <1>2, <1>3 DEF ContentsFacts
    <2>2. Contents[i] = [packet |-> slots[Place(i)].packet, age |-> slots[Place(i)].age]
      BY <1>1 DEF ContentsFacts
    <2>3. Place(i) \in Index /\ slots[Place(i)].valid
      BY PlacesInUse
    <2> QED
      BY <2>1, <2>2, <2>3 DEF Queue!Entry
  <1> QED
    BY <1>4, <1>5, <1>6

LEMMA HeldAges ==
    ASSUME TypeOK
    PROVE  \A i \in DOMAIN Contents : Contents[i].age \in 0 .. MaxAge
  <1>1. PICK c \in Seq(Held) : c = Contents
    BY ContentsAreHeld DEF ContentsFacts
  <1>2. \A i \in DOMAIN c : c[i] \in Held
    BY LenProperties, ElementOfSeq
  <1> QED
    BY <1>1, <1>2 DEF Held

LEMMA TickImplements ==
    ASSUME TypeOK, TypeOK', Valids, Tick
    PROVE  Queue!Tick
  <1>1. /\ UNCHANGED <<head, tail, delay, uiPc>>
        /\ slots' = [i \in Index |->
                        IF slots[i].valid /\ slots[i].age < MaxAge
                        THEN [slots[i] EXCEPT !.age = @ + 1] ELSE slots[i]]
    BY DEF Tick
  <1>2. slots \in [Index -> Slot]
    BY DEF TypeOK, Slot
  <1> DEFINE NewAge == [a \in 0 .. MaxAge |-> Queue!Older(a)]
  <1>3. \A k \in Index : slots[k].valid =>
           /\ slots'[k].packet = slots[k].packet
           /\ slots'[k].age = NewAge[slots[k].age]
    BY <1>1, <1>2 DEF Slot, Queue!Older
  <1>4. Contents' = [i \in DOMAIN Contents |->
                       Queue!Entry(Contents[i].packet, NewAge[Contents[i].age])]
    <2> HIDE DEF NewAge
    <2> QED
      BY <1>1, <1>3, AgesChange
  <1>5. \A i \in DOMAIN Contents : NewAge[Contents[i].age] = Queue!Older(Contents[i].age)
    BY HeldAges
  <1>6. Contents' = [i \in DOMAIN Contents |->
                       Queue!Entry(Contents[i].packet, Queue!Older(Contents[i].age))]
    <2> HIDE DEF NewAge
    <2> QED
      BY <1>4, <1>5
  <1> QED
    BY <1>1, <1>6 DEF Queue!Tick

LEMMA StampImplements ==
    ASSUME TypeOK, TypeOK', Valids, Stamp
    PROVE  Queue!Release
  <1>1. /\ UNCHANGED <<head, tail, delay>> /\ uiPc = "stamp" /\ uiPc' = "idle"
        /\ slots' = [i \in Index |->
                        IF slots[i].valid THEN [slots[i] EXCEPT !.age = delay] ELSE slots[i]]
    BY DEF Stamp
  <1>2. slots \in [Index -> Slot]
    BY DEF TypeOK, Slot
  <1> DEFINE NewAge == [a \in 0 .. MaxAge |-> delay]
  <1>3. \A k \in Index : slots[k].valid =>
           /\ slots'[k].packet = slots[k].packet
           /\ slots'[k].age = NewAge[slots[k].age]
    BY <1>1, <1>2 DEF Slot
  <1>4. Contents' = [i \in DOMAIN Contents |->
                       Queue!Entry(Contents[i].packet, NewAge[Contents[i].age])]
    <2> HIDE DEF NewAge
    <2> QED
      BY <1>1, <1>3, AgesChange
  <1>5. \A i \in DOMAIN Contents : NewAge[Contents[i].age] = delay
    BY HeldAges
  <1>6. Contents' = [i \in DOMAIN Contents |-> Queue!Entry(Contents[i].packet, delay)]
    <2> HIDE DEF NewAge
    <2> QED
      BY <1>4, <1>5
  <1> QED
    BY <1>1, <1>6 DEF Queue!Release

LEMMA ResetImplements ==
    ASSUME TypeOK, TypeOK', Reset
    PROVE  Contents' = << >>
  <1>1. ContentsFacts'
    BY ContentsAreHeld, PTL
  <1>2. Size' = 0
    BY DEF Reset, Size
  <1> QED
    BY <1>1, <1>2, EmptySeq DEF ContentsFacts

LEMMA SetDelayImplements ==
    ASSUME TypeOK, TypeOK', NEW d \in Delays, SetDelay(d)
    PROVE  Queue!SetDelay
  <1>1. delay \in Nat /\ d \in Nat
    BY RingAssumption DEF TypeOK
  <1>2. /\ uiPc = "idle" /\ d # delay /\ delay' = d /\ UNCHANGED <<slots, head, tail>>
        /\ uiPc' = IF d > delay THEN "idle"
                   ELSE IF d = 0 /\ delay > FlushAbove THEN "flush" ELSE "trim"
    BY DEF SetDelay
  <1>3. Contents' = Contents
    BY <1>2 DEF Contents, Size
  <1>4. (uiPc' # "idle") = (delay' < delay)
    BY <1>1, <1>2
  <1> QED
    BY <1>2, <1>3, <1>4 DEF Queue!SetDelay

(* The ring of rb_push, rb_pop_oldest_locked and set_delay implements the   *)
(* delay queue, for any capacity, packets and delays: a packet enters       *)
(* behind one it may follow and ahead of all it precedes, or at the end;    *)
(* packets leave from the front, when the delay has passed; none is lost,   *)
(* duplicated or overtaken by the shifts and the wrap-around, and only a    *)
(* reduced delay or a flush gives packets up, the oldest first.             *)
THEOREM RingImplementsQueue == Spec => ImplementsQueue
  <1>1. Init => Queue!Init
    <2> SUFFICES ASSUME Init PROVE Queue!Init
      OBVIOUS
    <2>1. ContentsFacts
      BY RingAtFirst, ContentsAreHeld DEF RingIInv
    <2>2. Size = 0
      BY DEF Init, Size
    <2>3. Contents = << >>
      BY <2>1, <2>2, EmptySeq DEF ContentsFacts
    <2> QED
      BY <2>3 DEF Init, Queue!Init
  <1>2. RingIInv /\ RingIInv' /\ [Next]_vars => [Queue!Next]_(Queue!dvars)
    <2> SUFFICES ASSUME RingIInv, RingIInv', [Next]_vars
                 PROVE  Queue!Next \/ UNCHANGED Queue!dvars
      OBVIOUS
    <2>0. TypeOK /\ TypeOK' /\ Valids
      BY DEF RingIInv
    <2>1. ASSUME NEW p \in Packet, Push(p)
          PROVE  Queue!Next
      BY <2>0, <2>1, PushImplements DEF Queue!Next
    <2>2. CASE Pop
      BY <2>0, <2>2, PopImplements DEF Queue!Next
    <2>3. CASE Flush \/ FlushReduced
      <3>1. /\ Reset /\ UNCHANGED delay
            /\ (uiPc' # "idle") \in {FALSE, uiPc # "idle"}
        BY <2>3 DEF Flush, FlushReduced
      <3>2. Contents' = << >>
        BY <2>0, <3>1, ResetImplements
      <3> QED
        BY <3>1, <3>2 DEF Queue!Flush, Queue!Next
    <2>4. ASSUME NEW d \in Delays, SetDelay(d)
          PROVE  Queue!Next
      BY <2>0, <2>4, SetDelayImplements DEF Queue!Next
    <2>5. CASE Trim
      BY <2>0, <2>5, TrimImplements DEF Queue!Next
    <2>6. CASE Stamp
      BY <2>0, <2>6, StampImplements DEF Queue!Next
    <2>7. CASE Tick
      BY <2>0, <2>7, TickImplements DEF Queue!Next
    <2>8. CASE UNCHANGED vars
      BY <2>8 DEF vars, Contents, Size, Queue!dvars
    <2> QED
      BY <2>1, <2>2, <2>3, <2>4, <2>5, <2>6, <2>7, <2>8 DEF Next, PushFull
  <1> QED
    BY <1>1, <1>2, RingInductiveInvariant, PTL DEF Spec, ImplementsQueue, Queue!Spec
=============================================================================
