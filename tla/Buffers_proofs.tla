--------------------------- MODULE Buffers_proofs ---------------------------
(***************************************************************************)
(* Proofs about two buffers.  The lock-free ring of module RingBuf is the  *)
(* bounded queue of module Fifo, for every capacity that divides the range *)
(* of its indices: neither their wrap-around nor a producer and a consumer *)
(* in the middle of their copies lets an element be lost, repeated,        *)
(* reordered or torn.  The blocks of an arena of module Memory never       *)
(* overlap and its statistics are true, for every page size, every size    *)
(* and alignment asked for and every width of size_t.                      *)
(***************************************************************************)
EXTENDS RingBuf, Memory, Walks, SequenceTheorems

-----------------------------------------------------------------------------
(* Arithmetic of the indices.                                              *)

\* Division with remainder.
LEMMA DivMod ==
    ASSUME NEW n \in Nat, NEW a \in Nat \ {0}
    PROVE  /\ n \div a \in Nat /\ n % a \in Nat
           /\ n = a * (n \div a) + (n % a)
           /\ n % a < a
  BY SMT

\* A remainder is determined by any quotient that leaves it.
LEMMA Remainder ==
    ASSUME NEW n \in Nat, NEW a \in Nat \ {0}, NEW q \in Nat, NEW r \in Nat,
           n = a * q + r, r < a
    PROVE  n % a = r
<1> DEFINE p == n \div a
           s == n % a
<1>1. p \in Nat /\ s \in Nat /\ n = a * p + s /\ s < a
  BY DivMod
<1> HIDE DEF p, s
<1>2. CASE p = q
  BY <1>1, <1>2 DEF s
<1>3. CASE p < q
  <2>1. PICK d \in Nat : q = p + 1 + d
    <3>1. q - p - 1 \in Nat
      BY <1>1, <1>3
    <3> QED
      BY <3>1, <1>1
  <2>2. a * q = a * p + a + a * d /\ a * d \in Nat /\ a * p \in Nat
    BY <2>1, <1>1
  <2> QED
    BY <2>2, <1>1
<1>4. CASE q < p
  <2>1. PICK d \in Nat : p = q + 1 + d
    <3>1. p - q - 1 \in Nat
      BY <1>1, <1>4
    <3> QED
      BY <3>1, <1>1
  <2>2. a * p = a * q + a + a * d /\ a * d \in Nat /\ a * q \in Nat
    BY <2>1, <1>1
  <2> QED
    BY <2>2, <1>1
<1> QED
  BY <1>1, <1>2, <1>3, <1>4

Index == 0..(IndexMod - 1)

\* What Plus and Minus compute, with the wrap made explicit.
LEMMA PlusIs ==
    ASSUME NEW a \in Index, NEW b \in Index
    PROVE  Plus(a, b) = IF a + b < IndexMod THEN a + b ELSE a + b - IndexMod
<1>1. IndexMod \in Nat \ {0}
  BY RingBufAssumption
<1>2. CASE a + b < IndexMod
  BY <1>1, <1>2, Remainder, a + b = IndexMod * 0 + (a + b) DEF Plus, Index
<1>3. CASE a + b >= IndexMod
  <2>1. a + b - IndexMod \in Nat /\ a + b - IndexMod < IndexMod
    BY <1>1, <1>3 DEF Index
  <2>2. a + b = IndexMod * 1 + (a + b - IndexMod)
    BY <1>1 DEF Index
  <2> QED
    BY <1>1, <1>3, <2>1, <2>2, Remainder DEF Plus, Index
<1> QED
  BY <1>1, <1>2, <1>3 DEF Index

LEMMA MinusIs ==
    ASSUME NEW a \in Index, NEW b \in Index
    PROVE  Minus(a, b) = IF a < b THEN a + IndexMod - b ELSE a - b
<1>1. IndexMod \in Nat \ {0}
  BY RingBufAssumption
<1>2. CASE a < b
  <2>1. a + IndexMod - b \in Nat /\ a + IndexMod - b < IndexMod
    BY <1>1, <1>2 DEF Index
  <2>2. a + IndexMod - b = IndexMod * 0 + (a + IndexMod - b)
    BY <1>1 DEF Index
  <2> QED
    BY <1>1, <1>2, <2>1, <2>2, Remainder DEF Minus, Index
<1>3. CASE a >= b
  <2>1. a - b \in Nat /\ a - b < IndexMod /\ a + IndexMod - b \in Nat
    BY <1>1, <1>3 DEF Index
  <2>2. a + IndexMod - b = IndexMod * 1 + (a - b)
    BY <1>1 DEF Index
  <2> QED
    BY <1>1, <1>3, <2>1, <2>2, Remainder DEF Minus, Index
<1> QED
  BY <1>1, <1>2, <1>3 DEF Index

\* The steps of both sides: a push makes the distance of the indices one more,
\* a pop one less, and the oldest but i is the next oldest afterwards.
LEMMA IndexSteps ==
    ASSUME NEW h \in Index, NEW t \in Index
    PROVE  /\ Minus(t, h) \in Index
           /\ Plus(h, 1) \in Index /\ Plus(t, 1) \in Index
           /\ Plus(h, 0) = h /\ Plus(h, Minus(t, h)) = t
           /\ Minus(t, h) = 0 <=> h = t
           /\ Minus(t, h) + 1 < IndexMod => Minus(Plus(t, 1), h) = Minus(t, h) + 1
           /\ Minus(t, h) > 0 => Minus(t, Plus(h, 1)) = Minus(t, h) - 1
           /\ \A i \in 0..(IndexMod - 2) : Plus(Plus(h, 1), i) = Plus(h, i + 1)
<1>1. IndexMod \in Nat /\ IndexMod > 1 /\ 0 \in Index /\ 1 \in Index
  BY RingBufAssumption DEF Index
<1>2. /\ Minus(t, h) = IF t < h THEN t + IndexMod - h ELSE t - h
      /\ Plus(h, 1) = IF h + 1 < IndexMod THEN h + 1 ELSE h + 1 - IndexMod
      /\ Plus(t, 1) = IF t + 1 < IndexMod THEN t + 1 ELSE t + 1 - IndexMod
      /\ Plus(h, 0) = IF h + 0 < IndexMod THEN h + 0 ELSE h + 0 - IndexMod
  BY <1>1, MinusIs, PlusIs
<1>3. Minus(t, h) \in Index /\ Plus(h, 1) \in Index /\ Plus(t, 1) \in Index
  BY <1>1, <1>2 DEF Index
<1>4. /\ Minus(Plus(t, 1), h) = IF Plus(t, 1) < h THEN Plus(t, 1) + IndexMod - h ELSE Plus(t, 1) - h
      /\ Minus(t, Plus(h, 1)) = IF t < Plus(h, 1) THEN t + IndexMod - Plus(h, 1) ELSE t - Plus(h, 1)
      /\ Plus(h, Minus(t, h)) = IF h + Minus(t, h) < IndexMod THEN h + Minus(t, h)
                                ELSE h + Minus(t, h) - IndexMod
  BY <1>3, MinusIs, PlusIs
<1>5. ASSUME NEW i \in 0..(IndexMod - 2)
      PROVE  Plus(Plus(h, 1), i) = Plus(h, i + 1)
  <2>1. i \in Index /\ i + 1 \in Index
    BY <1>1 DEF Index
  <2>2. /\ Plus(Plus(h, 1), i) = IF Plus(h, 1) + i < IndexMod THEN Plus(h, 1) + i
                                 ELSE Plus(h, 1) + i - IndexMod
        /\ Plus(h, i + 1) = IF h + (i + 1) < IndexMod THEN h + (i + 1) ELSE h + (i + 1) - IndexMod
    BY <2>1, <1>3, PlusIs
  <2> QED
    BY <1>1, <1>2, <2>2 DEF Index
<1> QED
  BY <1>1, <1>2, <1>3, <1>4, <1>5 DEF Index

Slot == 0..(Capacity - 1)

\* Masking an index that has wrapped is masking the count it stands for, since
\* the capacity divides the range of the indices.
LEMMA MaskPlus ==
    ASSUME NEW h \in Index, NEW i \in Index
    PROVE  Mask(Plus(h, i)) = (h + i) % Capacity /\ Mask(Plus(h, i)) \in Slot
<1>1. Capacity \in Nat \ {0} /\ IndexMod \in Nat /\ IndexMod % Capacity = 0
  BY RingBufAssumption
<1>2. PICK k \in Nat : IndexMod = Capacity * k
  <2> DEFINE k == IndexMod \div Capacity
  <2>1. k \in Nat /\ IndexMod = Capacity * k + 0
    BY <1>1, DivMod
  <2> HIDE DEF k
  <2>2. Capacity * k \in Nat
    BY <1>1, <2>1
  <2> QED
    BY <2>1, <2>2
<1>3. h + i \in Nat /\ (h + i) % Capacity \in Slot
  <2>1. h + i \in Nat
    BY <1>1 DEF Index
  <2> QED
    BY <2>1, <1>1, DivMod DEF Slot
<1>4. CASE h + i < IndexMod
  BY <1>3, <1>4, PlusIs DEF Mask
<1>5. CASE h + i >= IndexMod
  <2> DEFINE n == h + i - IndexMod
             q == n \div Capacity
             r == n % Capacity
  <2>1. Plus(h, i) = n /\ n \in Nat
    BY <1>1, <1>5, PlusIs DEF Index
  <2>2. q \in Nat /\ r \in Nat /\ n = Capacity * q + r /\ r < Capacity
    BY Zenon, <2>1, <1>1, DivMod
  <2> HIDE DEF q, r
  <2>3. h + i = Capacity * (q + k) + r
    BY <1>1, <1>2, <2>2 DEF Index
  <2>5. q + k \in Nat
    BY <2>2
  <2>4. (h + i) % Capacity = r
    BY Zenon, <1>1, <1>2, <1>3, <2>2, <2>3, <2>5, Remainder
  <2> QED
    BY <1>3, <2>1, <2>4 DEF Mask, r
<1> QED
  BY <1>1, <1>3, <1>4, <1>5 DEF Index

\* Two elements less than the capacity apart are in different slots.
LEMMA SlotsApart ==
    ASSUME NEW h \in Index, NEW i \in Slot, NEW j \in Slot, i < j
    PROVE  Mask(Plus(h, i)) # Mask(Plus(h, j))
<1>1. Capacity \in Nat \ {0} /\ IndexMod \in Nat /\ Capacity < IndexMod
  BY RingBufAssumption
<1>2. i \in Index /\ j \in Index /\ i \in Nat /\ j \in Nat /\ h \in Nat
  BY <1>1 DEF Index, Slot
<1> DEFINE p == (h + i) \div Capacity
           q == (h + j) \div Capacity
           r == (h + i) % Capacity
           s == (h + j) % Capacity
<1>3. /\ p \in Nat /\ r \in Nat /\ h + i = Capacity * p + r
      /\ q \in Nat /\ s \in Nat /\ h + j = Capacity * q + s
  BY <1>1, <1>2, DivMod, h + i \in Nat, h + j \in Nat
<1> HIDE DEF p, q, r, s
<1>4. ASSUME r = s PROVE FALSE
  <2>1. Capacity * q = Capacity * p + (j - i) /\ 0 < j - i /\ j - i < Capacity
    BY <1>1, <1>2, <1>3, <1>4 DEF Slot
  <2>2. CASE q <= p
    <3>1. PICK d \in Nat : p = q + d
      <4>1. p - q \in Nat
        BY <1>3, <2>2
      <4> QED
        BY <4>1, <1>3
    <3>2. Capacity * p = Capacity * q + Capacity * d /\ Capacity * d \in Nat /\ Capacity * q \in Nat
      BY <1>1, <1>3, <3>1
    <3> QED
      BY <1>1, <1>2, <2>1, <3>2
  <2>3. CASE p < q
    <3>1. PICK d \in Nat : q = p + 1 + d
      <4>1. q - p - 1 \in Nat
        BY <1>3, <2>3
      <4> QED
        BY <4>1, <1>3
    <3>2. Capacity * q = Capacity * p + Capacity + Capacity * d /\ Capacity * d \in Nat /\ Capacity * p \in Nat
      BY <1>1, <1>3, <3>1
    <3> QED
      BY <1>1, <1>2, <2>1, <3>2
  <2> QED
    BY <1>3, <2>2, <2>3
<1> QED
  BY <1>2, <1>4, MaskPlus DEF r, s

-----------------------------------------------------------------------------
(* The inductive invariant.                                                *)

Size == Minus(tail, head)
Element == {<<v, v>> : v \in Values}

\* The indices are at most the capacity apart; a push under way has seen room,
\* a pop or peek an element, and what each saw the other can only increase.
Room == /\ Size <= capacity
        /\ ppc # "idle" => Size < capacity
        /\ cpc # "idle" => Size > 0

\* The slots between head and tail hold whole elements.
Whole == \A i \in Slot : i < Size => data[Mask(Plus(head, i))] \in Element

\* What a push has copied into the slot at tail, and a pop out of that at head.
Pushing == /\ ppc # "idle" => element \in Values
           /\ ppc \in {"copy2", "store"} => data[Mask(tail)][1] = element
           /\ ppc = "store" => data[Mask(tail)][2] = element
Popping == /\ cpc \in {"copy2", "store"} => out[1] = data[Mask(head)][1]
           /\ cpc = "store" => out[2] = data[Mask(head)][2]

Types == /\ capacity \in {0, Capacity}
         /\ data \in [Slot -> Torn \X Torn]
         /\ head \in Index /\ tail \in Index
         /\ element \in Torn
         /\ ppc \in {"idle", "copy1", "copy2", "store"}
         /\ cpc \in {"idle", "copy1", "copy2", "store", "peeked"}
         /\ out \in Torn \X Torn

IInv == Types /\ Room /\ Whole /\ Pushing /\ Popping

\* Facts about a state of the invariant that every step needs.
LEMMA Situation ==
    ASSUME IInv
    PROVE  /\ Capacity \in Nat \ {0} /\ IndexMod \in Nat /\ Capacity < IndexMod
           /\ Size \in Nat /\ Size <= Capacity /\ capacity \in Nat
           /\ Mask(head) \in Slot /\ Mask(tail) \in Slot
           /\ Mask(head) = Mask(Plus(head, 0)) /\ Mask(tail) = Mask(Plus(head, Size))
           /\ Slot \subseteq Index
<1>1. Capacity \in Nat \ {0} /\ IndexMod \in Nat /\ Capacity < IndexMod
  BY RingBufAssumption
<1>2. head \in Index /\ tail \in Index /\ 0 \in Index
  BY <1>1 DEF IInv, Types, Index
<1>3. Size \in Index /\ Plus(head, 0) = head /\ Plus(head, Size) = tail
  BY <1>2, IndexSteps DEF Size
<1>4. Mask(Plus(head, 0)) \in Slot /\ Mask(Plus(head, Size)) \in Slot
  BY <1>2, <1>3, MaskPlus
<1>5. Size <= Capacity /\ capacity \in Nat /\ Size \in Nat
  BY <1>1, <1>3 DEF IInv, Types, Room, Index
<1> QED
  BY <1>1, <1>3, <1>4, <1>5 DEF Slot, Index

\* The first half of a copy into the slot at tail, or the second, changes
\* neither an element of the queue nor the other half.
LEMMA CopyIn ==
    ASSUME IInv, NEW h \in Halves, PushCopy(h)
    PROVE  /\ data' \in [Slot -> Torn \X Torn]
           /\ data'[Mask(tail)][h] = element
           /\ \A g \in Halves : g # h => data'[Mask(tail)][g] = data[Mask(tail)][g]
           /\ \A i \in Slot : i < Size => data'[Mask(Plus(head, i))] = data[Mask(Plus(head, i))]
<1>1. data' = [data EXCEPT ![Mask(tail)][h] = element]
  BY DEF PushCopy
<1>2. /\ Size < Capacity /\ Mask(tail) \in Slot /\ Size \in Nat /\ Capacity \in Nat
      /\ Mask(tail) = Mask(Plus(head, Size)) /\ head \in Index /\ Slot \subseteq Index
  BY Situation DEF IInv, Types, Room, PushCopy
<1>3. data \in [Slot -> Torn \X Torn] /\ element \in Torn
  BY DEF IInv, Types
<1>4. data'[Mask(tail)] = [data[Mask(tail)] EXCEPT ![h] = element]
  BY <1>1, <1>2, <1>3
<1>5. data[Mask(tail)] \in Torn \X Torn
  BY <1>2, <1>3
<1>6. /\ data'[Mask(tail)] \in Torn \X Torn /\ data'[Mask(tail)][h] = element
      /\ \A g \in Halves : g # h => data'[Mask(tail)][g] = data[Mask(tail)][g]
  <2>1. CASE h = 1
    BY <1>3, <1>4, <1>5, <2>1 DEF Halves
  <2>2. CASE h = 2
    BY <1>3, <1>4, <1>5, <2>2 DEF Halves
  <2> QED
    BY <2>1, <2>2 DEF Halves
<1>7. \A m \in Slot : m # Mask(tail) => data'[m] = data[m]
  BY <1>1, <1>3
<1>8. data' \in [Slot -> Torn \X Torn]
  <2>1. \A m \in Slot : data'[m] \in Torn \X Torn
    BY <1>3, <1>6, <1>7
  <2>2. data' = [m \in Slot |-> data'[m]]
    BY <1>1, <1>3
  <2> QED
    BY <2>1, <2>2
<1>9. ASSUME NEW i \in Slot, i < Size
      PROVE  data'[Mask(Plus(head, i))] = data[Mask(Plus(head, i))]
  <2>1. Size \in Slot
    BY <1>2 DEF Slot
  <2>2. Mask(Plus(head, i)) # Mask(tail)
    BY <1>2, <1>9, <2>1, SlotsApart
  <2>3. Mask(Plus(head, i)) \in Slot
    BY <1>2, MaskPlus
  <2> QED
    BY <1>7, <2>2, <2>3
<1> QED
  BY <1>6, <1>8, <1>9

\* The release store of tail adds the element that was copied.
LEMMA PushStoreIInv ==
    ASSUME IInv, PushStore
    PROVE  /\ IInv' /\ Size' = Size + 1 /\ Size < capacity /\ element \in Values
           /\ data[Mask(Plus(head, Size))] = <<element, element>>
<1>0. /\ tail' = Plus(tail, 1) /\ ppc = "store" /\ ppc' = "idle" /\ element' = Empty
      /\ UNCHANGED <<capacity, data, head, cpc, out>>
  BY DEF PushStore
<1>1. /\ Size \in Nat /\ Size < capacity /\ capacity = Capacity /\ Capacity \in Nat \ {0}
      /\ Capacity < IndexMod /\ IndexMod \in Nat /\ Mask(tail) \in Slot
      /\ Mask(tail) = Mask(Plus(head, Size)) /\ element \in Values
  BY <1>0, Situation DEF IInv, Types, Room, Pushing
<1>2. tail' \in Index /\ Size' = Size + 1
  <2>1. head \in Index /\ tail \in Index
    BY DEF IInv, Types
  <2>2. Plus(tail, 1) \in Index /\ Minus(Plus(tail, 1), head) = Minus(tail, head) + 1
    <3>1. Minus(tail, head) + 1 < IndexMod
      BY <1>1 DEF Size
    <3> QED
      BY <2>1, <3>1, IndexSteps
  <2> QED
    BY <1>0, <2>2 DEF Size
<1>3. data[Mask(tail)] = <<element, element>>
  <2>1. data[Mask(tail)] \in Torn \X Torn
    BY <1>1 DEF IInv, Types
  <2>2. data[Mask(tail)][1] = element /\ data[Mask(tail)][2] = element
    BY <1>0 DEF IInv, Pushing
  <2> QED
    BY <2>1, <2>2
<1>4. Types'
  BY <1>0, <1>2 DEF IInv, Types, Torn
<1>5. Room'
  BY <1>0, <1>1, <1>2 DEF IInv, Room
<1>6. Whole'
  <2>1. ASSUME NEW i \in Slot, i < Size + 1
        PROVE  data[Mask(Plus(head, i))] \in Element
    <3>1. i \in Nat
      BY <1>1 DEF Slot
    <3>2. CASE i < Size
      BY <3>2 DEF IInv, Whole
    <3>3. CASE i = Size
      BY <3>3, <1>1, <1>3 DEF Element
    <3> QED
      BY <1>1, <2>1, <3>1, <3>2, <3>3
  <2> QED
    BY <1>0, <1>2, <2>1 DEF Whole
<1>7. Pushing' /\ Popping'
  BY <1>0 DEF IInv, Pushing, Popping
<1> QED
  BY <1>1, <1>2, <1>3, <1>4, <1>5, <1>6, <1>7 DEF IInv

\* The release store of head takes the oldest element, and out holds it.
LEMMA PopStoreIInv ==
    ASSUME IInv, PopStore
    PROVE  /\ IInv' /\ Size' = Size - 1 /\ Size > 0
           /\ out = data[Mask(Plus(head, 0))]
           /\ \A i \in Slot : Plus(head', i) = Plus(head, i + 1)
<1>0. /\ head' = Plus(head, 1) /\ cpc = "store" /\ cpc' = "idle" /\ out' = <<Empty, Empty>>
      /\ UNCHANGED <<capacity, data, tail, ppc, element>>
  BY DEF PopStore
<1>1. /\ Size \in Nat /\ Size > 0 /\ Size <= Capacity /\ Capacity \in Nat \ {0} /\ capacity \in Nat
      /\ Capacity < IndexMod /\ IndexMod \in Nat /\ Mask(head) \in Slot
      /\ Mask(head) = Mask(Plus(head, 0))
  BY <1>0, Situation DEF IInv, Room
<1>2. /\ head' \in Index /\ Size' = Size - 1
      /\ \A i \in 0..(IndexMod - 2) : Plus(head', i) = Plus(head, i + 1)
  BY <1>0, <1>1, IndexSteps DEF IInv, Types, Size
<1>3. out = data[Mask(head)]
  <2>1. data[Mask(head)] \in Torn \X Torn /\ out \in Torn \X Torn
    BY <1>1 DEF IInv, Types
  <2>2. data[Mask(head)][1] = out[1] /\ data[Mask(head)][2] = out[2]
    BY <1>0 DEF IInv, Popping
  <2> QED
    BY <2>1, <2>2
<1>4. \A i \in Slot : Plus(head', i) = Plus(head, i + 1)
  BY <1>1, <1>2 DEF Slot
<1>5. Types'
  BY <1>0, <1>2 DEF IInv, Types, Torn
<1>6. Room'
  BY <1>0, <1>1, <1>2 DEF IInv, Room
<1>7. Whole'
  <2>1. ASSUME NEW i \in Slot, i < Size - 1
        PROVE  data[Mask(Plus(head', i))] \in Element
    <3>1. i + 1 \in Slot /\ i + 1 < Size
      BY <1>1, <2>1 DEF Slot
    <3> QED
      BY <1>4, <3>1 DEF IInv, Whole
  <2> QED
    BY <1>0, <1>2, <2>1 DEF Whole
<1>8. Pushing' /\ Popping'
  BY <1>0 DEF IInv, Pushing, Popping
<1> QED
  BY <1>1, <1>2, <1>3, <1>4, <1>5, <1>6, <1>7, <1>8 DEF IInv

\* Every step preserves the invariant.
LEMMA NextIInv == IInv /\ [Next]_vars => IInv'
<1> SUFFICES ASSUME IInv, [Next]_vars PROVE IInv'
  OBVIOUS
<1> USE Situation
<1>1. ASSUME NEW v \in Values, PushLoad(v) PROVE IInv'
  <2>1. UNCHANGED <<capacity, data, head, tail, cpc, out>> /\ ppc = "idle"
    BY <1>1 DEF PushLoad
  <2>2. CASE capacity = 0 \/ Size = capacity
    BY <1>1, <2>1, <2>2 DEF PushLoad, IInv, Types, Room, Whole, Pushing, Popping, Size
  <2>3. CASE ~ (capacity = 0 \/ Size = capacity)
    <3>1. element' = v /\ ppc' = "copy1"
      BY <1>1, <2>3 DEF PushLoad, Size
    <3>2. Room'
      BY <2>1, <2>3, <3>1 DEF IInv, Room, Size
    <3> QED
      BY <2>1, <3>1, <3>2 DEF IInv, Types, Whole, Pushing, Popping, Size, Torn
  <2> QED
    BY <2>2, <2>3
<1>2. ASSUME NEW h \in Halves, PushCopy(h) PROVE IInv'
  <2>1. /\ UNCHANGED <<capacity, head, tail, element, cpc, out>>
        /\ ppc = IF h = 1 THEN "copy1" ELSE "copy2"
        /\ ppc' = IF h = 1 THEN "copy2" ELSE "store"
    BY <1>2 DEF PushCopy
  <2>2. Types' /\ Room'
    BY <1>2, <2>1, CopyIn DEF IInv, Types, Room, Size
  <2>3. Whole'
    BY <1>2, <2>1, CopyIn DEF IInv, Whole, Size
  <2>4. Pushing'
    <3>1. CASE h = 1
      BY <1>2, <2>1, <3>1, CopyIn DEF IInv, Pushing
    <3>2. CASE h = 2
      BY <1>2, <2>1, <3>2, CopyIn DEF IInv, Pushing, Halves
    <3> QED
      BY <1>2, <3>1, <3>2 DEF Halves
  <2>5. Popping'
    <3>1. CASE cpc = "idle"
      BY <2>1, <3>1 DEF Popping
    <3>2. CASE cpc # "idle"
      <4>1. 0 \in Slot /\ 0 < Size
        BY <3>2 DEF IInv, Room, Slot
      <4>2. data'[Mask(head)] = data[Mask(head)]
        BY <1>2, <4>1, CopyIn
      <4> QED
        BY <2>1, <4>2 DEF IInv, Popping
    <3> QED
      BY <3>1, <3>2
  <2> QED
    BY <2>2, <2>3, <2>4, <2>5 DEF IInv
<1>3. ASSUME NEW h \in Halves, PopCopy(h) PROVE IInv'
  <2>1. /\ UNCHANGED <<capacity, data, head, tail, ppc, element>>
        /\ cpc = IF h = 1 THEN "copy1" ELSE "copy2"
        /\ cpc' = IF h = 1 THEN "copy2" ELSE "store"
        /\ out' = [out EXCEPT ![h] = data[Mask(head)][h]]
    BY <1>3 DEF PopCopy
  <2>2. data[Mask(head)] \in Torn \X Torn /\ out \in Torn \X Torn
    BY DEF IInv, Types
  <2>3. /\ out' \in Torn \X Torn /\ out'[h] = data[Mask(head)][h]
        /\ \A g \in Halves : g # h => out'[g] = out[g]
    <3>1. CASE h = 1
      BY <2>1, <2>2, <3>1 DEF Halves
    <3>2. CASE h = 2
      BY <2>1, <2>2, <3>2 DEF Halves
    <3> QED
      BY <1>3, <3>1, <3>2 DEF Halves
  <2>4. Types' /\ Room' /\ Whole' /\ Pushing'
    BY <2>1, <2>3 DEF IInv, Types, Room, Whole, Pushing, Size
  <2>5. Popping'
    <3>1. CASE h = 1
      BY <2>1, <2>3, <3>1 DEF IInv, Popping
    <3>2. CASE h = 2
      BY <2>1, <2>3, <3>2 DEF IInv, Popping, Halves
    <3> QED
      BY SMTT(20), <1>3, <3>1, <3>2 DEF Halves
  <2> QED
    BY <2>4, <2>5 DEF IInv
<1>4. CASE PushStore
  BY <1>4, PushStoreIInv
<1>5. CASE PopStore
  BY <1>5, PopStoreIInv
<1>6. CASE PopLoad \/ Peek
  <2>1. /\ UNCHANGED <<capacity, data, head, tail, ppc, element, out>>
        /\ cpc = "idle" /\ (cpc' = cpc \/ (head # tail /\ cpc' \in {"copy1", "peeked"}))
    BY <1>6 DEF PopLoad, Peek
  <2>2. head # tail => Size > 0
    BY SMTT(20), IndexSteps DEF IInv, Types, Size
  <2> QED
    BY <2>1, <2>2 DEF IInv, Types, Room, Whole, Pushing, Popping, Size
<1>7. CASE PeekDone
  BY <1>7 DEF PeekDone, IInv, Types, Room, Whole, Pushing, Popping, Size
<1>8. ASSUME NEW left \in {capacity, 0}, Clear(left) PROVE IInv'
  <2>1. /\ UNCHANGED <<data, ppc, element, cpc, out>> /\ ppc = "idle" /\ cpc = "idle"
        /\ head' = 0 /\ tail' = 0 /\ capacity' \in {capacity, 0}
    BY <1>8 DEF Clear
  <2>2. 0 \in Index
    BY DEF Index
  <2>3. Size' = 0
    BY Zenon, <2>1, <2>2, IndexSteps DEF Size
  <2>4. Types' /\ Room'
    BY <2>1, <2>2, <2>3 DEF IInv, Types, Room
  <2>5. Whole' /\ Pushing' /\ Popping'
    BY <2>1, <2>3 DEF Whole, Pushing, Popping, Slot
  <2> QED
    BY <2>4, <2>5 DEF IInv
<1>9. CASE UNCHANGED vars
  BY <1>9 DEF vars, IInv, Types, Room, Whole, Pushing, Popping, Size
<1> QED
  BY <1>1, <1>2, <1>3, <1>4, <1>5, <1>6, <1>7, <1>8, <1>9 DEF Next

-----------------------------------------------------------------------------
(* The ring as a queue.                                                    *)

\* A function on 1..n is a sequence of length n.
LEMMA IsSequence ==
    ASSUME NEW S, NEW n \in Nat, NEW f \in [1..n -> S]
    PROVE  f \in Seq(S) /\ Len(f) = n
  BY SMT

\* The contents are a sequence of whole elements, as long as the indices are
\* apart.
LEMMA ContentsAre ==
    ASSUME IInv
    PROVE  /\ Contents \in Seq(Element) /\ Len(Contents) = Size
           /\ \A i \in 1..Size : Contents[i] = data[Mask(Plus(head, i - 1))]
<1>1. Size \in Nat /\ Size <= Capacity /\ Capacity \in Nat
  BY Situation
<1>2. Contents = [i \in 1..Size |-> data[Mask(Plus(head, i - 1))]]
  BY DEF Contents, Size
<1>3. ASSUME NEW i \in 1..Size PROVE data[Mask(Plus(head, i - 1))] \in Element
  <2>1. i - 1 \in Slot /\ i - 1 < Size
    BY <1>1 DEF Slot
  <2> QED
    BY <2>1 DEF IInv, Whole
<1>4. Contents \in [1..Size -> Element]
  BY <1>2, <1>3
<1> QED
  BY <1>1, <1>2, <1>4, IsSequence

\* Every step of the ring is one of the queue, or leaves it as it is.
LEMMA NextRefines == IInv /\ [Next]_vars => [Queue!Next]_Queue!vars
<1> SUFFICES ASSUME IInv, [Next]_vars PROVE [Queue!Next]_Queue!vars
  OBVIOUS
<1> DEFINE same == UNCHANGED <<Contents, capacity, pushed, popped>>
<1>a. IInv'
  BY NextIInv
<1>b. /\ Size \in Nat /\ capacity \in Nat
      /\ Len(Contents) = Size /\ Contents \in Seq(Element)
      /\ \A i \in 1..Size : Contents[i] = data[Mask(Plus(head, i - 1))]
  BY Situation, ContentsAre
<1>c. /\ Contents' = [i \in 1..Size' |-> data'[Mask(Plus(head', i - 1))]]
      /\ Contents = [i \in 1..Size |-> data[Mask(Plus(head, i - 1))]]
  BY DEF Contents, Size
<1>d. head # tail <=> Size > 0
  <2>1. Size = 0 <=> head = tail
    BY IndexSteps DEF IInv, Types, Size
  <2> QED
    BY <1>b, <2>1
<1>1. ASSUME NEW v \in Values, PushLoad(v) PROVE same \/ Queue!PushFull
  <2>1. UNCHANGED <<Contents, capacity, popped>>
    BY <1>1 DEF PushLoad, Contents
  <2>2. CASE capacity = 0 \/ Size = capacity
    <3>1. Len(Contents) = capacity
      BY <1>b, <2>2 DEF IInv, Room
    <3> QED
      BY <1>1, <2>1, <2>2, <3>1 DEF PushLoad, Size, Queue!PushFull
  <2>3. CASE ~ (capacity = 0 \/ Size = capacity)
    BY <1>1, <2>1, <2>3 DEF PushLoad, Size
  <2> QED
    BY <2>2, <2>3
<1>2. ASSUME NEW h \in Halves, PushCopy(h) PROVE same
  <2>1. UNCHANGED <<capacity, head, tail, pushed, popped>> /\ Size' = Size
    BY <1>2 DEF PushCopy, Size
  <2>2. ASSUME NEW i \in 1..Size
        PROVE  data'[Mask(Plus(head, i - 1))] = data[Mask(Plus(head, i - 1))]
    <3>1. i - 1 \in Slot /\ i - 1 < Size
      BY <1>b, Situation DEF Slot
    <3> QED
      BY <1>2, <3>1, CopyIn
  <2>3. Contents' = Contents
    BY <1>c, <2>1, <2>2
  <2> QED
    BY <2>1, <2>3
<1>3. ASSUME NEW h \in Halves, PopCopy(h) PROVE same
  BY <1>3 DEF PopCopy, Contents
<1>4. ASSUME PushStore PROVE \E e \in Element : Queue!Push(e)
  <2> DEFINE e == <<element, element>>
  <2>1. /\ Size' = Size + 1 /\ Size < capacity /\ e \in Element
        /\ data[Mask(Plus(head, Size))] = e
    BY <1>4, PushStoreIInv DEF Element
  <2>2. UNCHANGED <<capacity, data, head, popped>> /\ pushed' = Ok
    BY SMTT(20), <1>4 DEF PushStore
  <2> HIDE DEF e
  <2>3. Contents' = Append(Contents, e)
    <3>1. Contents' = [i \in 1..(Size + 1) |-> data[Mask(Plus(head, i - 1))]]
      BY <1>c, <2>1, <2>2
    <3>2. \A i \in 1..(Size + 1) : Contents'[i] = IF i = Size + 1 THEN e ELSE Contents[i]
      <4>1. TAKE i \in 1..(Size + 1)
      <4>2. CASE i = Size + 1
        BY <1>b, <2>1, <3>1, <4>2
      <4>3. CASE i # Size + 1
        <5>1. i \in 1..Size
          BY <1>b, <4>3
        <5> QED
          BY <1>b, <3>1, <4>3, <5>1
      <4> QED
        BY <4>2, <4>3
    <3>3. Contents' \in Seq(Element) /\ Len(Contents') = Size + 1
      <4>1. \A i \in 1..(Size + 1) : Contents'[i] \in Element
        <5>1. \A i \in 1..Size : Contents[i] \in Element
          BY <1>b
        <5> QED
          BY <1>b, <2>1, <3>2, <5>1
      <4>2. Contents' \in [1..(Size + 1) -> Element]
        BY <3>1, <4>1
      <4> QED
        BY <1>b, <4>2, IsSequence, Size + 1 \in Nat
    <3> QED
      BY <1>b, <2>1, <3>2, <3>3, AppendProperties, SeqEqual
  <2> QED
    BY <1>b, <2>1, <2>2, <2>3 DEF Queue!Push
<1>5. ASSUME PopStore PROVE Queue!Pop
  <2>1. /\ Size' = Size - 1 /\ Size > 0 /\ out = data[Mask(Plus(head, 0))]
        /\ \A i \in Slot : Plus(head', i) = Plus(head, i + 1)
    BY <1>5, PopStoreIInv
  <2>2. UNCHANGED <<capacity, data, pushed>> /\ popped' = out
    BY <1>5 DEF PopStore
  <2>3. popped' = Head(Contents) /\ Contents # <<>>
    <3>1. Contents[1] = data[Mask(Plus(head, 1 - 1))] /\ 1 - 1 = 0
      BY <1>b, <2>1
    <3> QED
      BY <1>b, <2>1, <2>2, <3>1
  <2>4. Contents' = Tail(Contents)
    <3>1. Contents' = [i \in 1..(Size - 1) |-> data[Mask(Plus(head', i - 1))]]
      BY <1>c, <2>1, <2>2
    <3>2. ASSUME NEW i \in 1..(Size - 1)
          PROVE  data[Mask(Plus(head', i - 1))] = Contents[i + 1]
      <4>1. i - 1 \in Slot /\ (i - 1) + 1 = (i + 1) - 1 /\ i + 1 \in 1..Size
        BY <1>b, Situation DEF Slot
      <4>2. Plus(head', i - 1) = Plus(head, (i + 1) - 1)
        BY <2>1, <4>1
      <4> QED
        BY <1>b, <4>1, <4>2
    <3>3. Contents' \in Seq(Element) /\ Len(Contents') = Size - 1
      <4>1. \A i \in 1..(Size - 1) : Contents[i + 1] \in Element
        BY <1>b
      <4>2. Contents' \in [1..(Size - 1) -> Element]
        BY <3>1, <3>2, <4>1
      <4> QED
        BY <1>b, <2>1, <4>2, IsSequence, Size - 1 \in Nat
    <3>4. /\ Tail(Contents) \in Seq(Element) /\ Len(Tail(Contents)) = Size - 1
          /\ \A i \in 1..(Size - 1) : Tail(Contents)[i] = Contents[i + 1]
      BY <1>b, <2>3, HeadTailProperties
    <3>5. \A i \in 1..(Size - 1) : Contents'[i] = Tail(Contents)[i]
      BY <3>1, <3>2, <3>4
    <3> QED
      BY <3>3, <3>4, <3>5, SeqEqual
  <2> QED
    BY <2>2, <2>3, <2>4 DEF Queue!Pop
<1>6. ASSUME PopLoad PROVE same \/ Queue!PopEmpty
  <2>1. UNCHANGED <<Contents, capacity, pushed>>
    BY <1>6 DEF PopLoad, Contents
  <2>2. CASE head = tail
    <3>1. Contents = <<>>
      BY <1>b, <1>d, <2>2
    <3> QED
      BY <1>6, <2>1, <2>2, <3>1 DEF PopLoad, Queue!PopEmpty
  <2>3. CASE head # tail
    BY <1>6, <2>1, <2>3 DEF PopLoad
  <2> QED
    BY <2>2, <2>3
<1>7. CASE Peek \/ PeekDone
  BY <1>7 DEF Peek, PeekDone, Contents, Queue!vars
<1>8. ASSUME NEW left \in {capacity, 0}, Clear(left) PROVE Queue!Clear
  <2>1. head' = 0 /\ tail' = 0 /\ capacity' \in {capacity, 0} /\ UNCHANGED <<pushed, popped>>
    BY <1>8 DEF Clear
  <2>2. Size' = 0
    <3>1. 0 \in Index
      BY RingBufAssumption DEF Index
    <3> QED
      BY <2>1, <3>1, IndexSteps DEF Size
  <2>3. Contents' = <<>>
    BY <1>c, <2>2
  <2> QED
    BY <2>1, <2>3 DEF Queue!Clear
<1>9. CASE UNCHANGED vars
  BY <1>9 DEF vars, Contents, Queue!vars
<1> QED
  BY <1>1, <1>2, <1>3, <1>4, <1>5, <1>6, <1>7, <1>8, <1>9 DEF Next, Queue!Next, Queue!vars,
     Element

\* No step changes the slot at head while the consumer copies or looks at it: a
\* push writes the slot at tail, which differs while there is room.
LEMMA NextHolds == IInv /\ [Next]_vars => [Holding => data'[Mask(head)] = data[Mask(head)]]_vars
<1> SUFFICES ASSUME IInv, Next, cpc # "idle" PROVE data'[Mask(head)] = data[Mask(head)]
  BY DEF Holding
<1>1. ASSUME NEW h \in Halves, PushCopy(h) PROVE data'[Mask(head)] = data[Mask(head)]
  <2>1. 0 \in Slot /\ 0 < Size /\ Mask(head) = Mask(Plus(head, 0))
    BY SMTT(20), Situation DEF IInv, Room, Slot
  <2> QED
    BY <1>1, <2>1, CopyIn
<1>2. ASSUME \A h \in Halves : ~ PushCopy(h) PROVE data' = data
  BY <1>2 DEF Next, PushLoad, PopCopy, PushStore, PopLoad, PopStore, Peek, PeekDone, Clear
<1> QED
  BY <1>1, <1>2

\* The initial states of the ring satisfy the invariant and are empty queues.
LEMMA InitHolds == Init => IInv /\ Queue!Init
<1> SUFFICES ASSUME Init PROVE IInv /\ Queue!Init
  OBVIOUS
<1>1. Capacity \in Nat \ {0} /\ IndexMod \in Nat /\ Capacity < IndexMod
  BY RingBufAssumption
<1>2. head \in Index /\ tail \in Index
  BY <1>1 DEF Init, Index
<1>3. Size = 0
  BY <1>2, IndexSteps DEF Init, Size
<1>4. Types
  BY <1>2 DEF Init, Types, Slot, Torn
<1>5. Room /\ Pushing /\ Popping
  BY <1>1, <1>3, <1>4 DEF Init, Types, Room, Pushing, Popping
<1>6. Whole
  BY <1>1, <1>3 DEF Whole, Slot
<1>7. Contents = <<>>
  BY <1>3 DEF Contents, Size
<1> QED
  BY <1>4, <1>5, <1>6, <1>7 DEF IInv, Init, Queue!Init

\* The inductive invariant holds in every state of the ring.
THEOREM RingInvariance == Spec => []IInv
<1>1. Init => IInv
  BY InitHolds
<1>2. IInv /\ [Next]_vars => IInv'
  BY NextIInv
<1> QED
  BY <1>1, <1>2, PTL DEF Spec

\* lc_ringbuf, for any capacity and any range of its indices that the capacity
\* divides: one producer and one consumer without a lock have the bounded queue
\* of module Fifo, and the slot a pop copies or a peek points at stays as it is.
THEOREM RingImplementsFifo == Spec => ImplementsFifo
<1>1. Init => Queue!Init
  BY InitHolds
<1>2. IInv /\ [Next]_vars => [Queue!Next]_Queue!vars
  BY NextRefines
<1>3. IInv /\ [Next]_vars => [Holding => data'[Mask(head)] = data[Mask(head)]]_vars
  BY NextHolds
<1> QED
  BY <1>1, <1>2, <1>3, RingInvariance, PTL DEF Spec, ImplementsFifo, Queue!Spec, HeldSlotStable

-----------------------------------------------------------------------------
(* The arena.                                                              *)

Block == [start : Nat, size : Nat, offset : Nat, alignment : Nat \ {0}]

\* What an arena and its blocks keep true: every block ends at or below the
\* mark, and the mapping lies in the lower half of the address space, so that
\* rounding the mark up cannot wrap.
Placed == \A b \in blocks : /\ b.start = base + b.offset
                            /\ b.offset + b.size <= used
                            /\ \E k \in 0..b.offset : b.offset = b.alignment * k
Apart == \A b, c \in blocks : b = c \/ b.offset + b.size <= c.offset \/ c.offset + c.size <= b.offset
Marks == /\ base \in Nat /\ arena_capacity \in Nat /\ used \in Nat
         /\ used <= arena_capacity
         /\ 2 * (base + arena_capacity) <= SizeMod
ArenaInv == Marks /\ blocks \subseteq Block /\ Placed /\ Apart

\* align_up of a mark that cannot wrap: not below the mark, and a multiple of
\* the alignment.
LEMMA AlignedUp ==
    ASSUME NEW n \in Nat, NEW a \in Nat \ {0}, n + a <= SizeMod
    PROVE  /\ AlignUp(n, a) \in Nat
           /\ n <= AlignUp(n, a)
           /\ \E k \in 0..AlignUp(n, a) : AlignUp(n, a) = a * k
<1> DEFINE sum == n + a - 1
           k == sum \div a
<1>1. sum \in Nat /\ sum < SizeMod /\ SizeMod \in Nat
  BY MemoryAssumption
<1>2. sum % SizeMod = sum
  BY <1>1
<1>3. k \in Nat /\ sum % a \in Nat /\ sum = a * k + (sum % a) /\ sum % a < a
  BY <1>1, DivMod
<1>4. AlignUp(n, a) = sum - (sum % a)
  BY <1>2 DEF AlignUp
<1> HIDE DEF k
<1>5. a * k \in Nat /\ k <= a * k
  BY <1>3
<1>6. AlignUp(n, a) = a * k
  BY <1>3, <1>4, <1>5, <1>1
<1>7. n <= a * k
  BY <1>3, <1>5
<1> QED
  BY <1>3, <1>5, <1>6, <1>7

\* lc_arena_create: a mapping in the lower half, without blocks.
LEMMA CreateKeeps ==
    ASSUME ArenaInv, NEW size \in Sizes, Create(size)
    PROVE  ArenaInv'
<1> DEFINE sum == (size + PageSize - 1) % SizeMod
           rounded == AlignUp(size, PageSize) \div PageSize
           pages == IF rounded = 0 THEN 1 ELSE rounded
<1>1. size \in Nat /\ PageSize \in Nat \ {0} /\ SizeMod \in Nat \ {0}
  BY MemoryAssumption
<1>2. sum \in Nat
  <2>1. size + PageSize - 1 \in Nat
    BY <1>1
  <2> QED
    BY <1>1, <2>1, DivMod
<1> HIDE DEF sum
<1>3. sum % PageSize \in Nat /\ sum % PageSize <= sum
  <2>1. /\ sum \div PageSize \in Nat /\ sum % PageSize \in Nat
        /\ sum = PageSize * (sum \div PageSize) + (sum % PageSize)
    BY <1>1, <1>2, DivMod
  <2>2. PageSize * (sum \div PageSize) \in Nat
    BY <1>1, <2>1
  <2> QED
    BY <1>2, <2>1, <2>2
<1>4. AlignUp(size, PageSize) \in Nat
  BY <1>2, <1>3 DEF AlignUp, sum
<1>5. pages \in Nat
  BY <1>1, <1>4, DivMod
<1>6. /\ used' = 0 /\ blocks' = {}
      /\ \/ arena_capacity' = pages * PageSize
            /\ \E k \in 1..(SizeMod \div PageSize) :
                  2 * (k * PageSize + pages * PageSize) <= SizeMod /\ base' = k * PageSize
         \/ base' = 0 /\ arena_capacity' = 0
  BY DEF Create
<1> HIDE DEF pages
<1>7. Marks'
  <2>1. CASE base' = 0 /\ arena_capacity' = 0
    BY <1>1, <1>6, <2>1 DEF Marks
  <2>2. CASE /\ arena_capacity' = pages * PageSize
             /\ \E k \in 1..(SizeMod \div PageSize) :
                  2 * (k * PageSize + pages * PageSize) <= SizeMod /\ base' = k * PageSize
    <3>1. SizeMod \div PageSize \in Nat
      BY <1>1, DivMod
    <3>2. PICK k \in 1..(SizeMod \div PageSize) :
                  2 * (k * PageSize + pages * PageSize) <= SizeMod /\ base' = k * PageSize
      BY <2>2
    <3>3. k * PageSize \in Nat /\ pages * PageSize \in Nat
      BY <1>1, <1>5, <3>1
    <3> QED
      BY <1>6, <2>2, <3>2, <3>3 DEF Marks
  <2> QED
    BY <1>6, <2>1, <2>2
<1> QED
  BY <1>6, <1>7 DEF ArenaInv, Placed, Apart

\* lc_arena_allocate_aligned cuts its block behind all others.
LEMMA AllocateKeeps ==
    ASSUME ArenaInv, NEW size \in Sizes, NEW alignment \in Alignments, AllocateAligned(size, alignment)
    PROVE  ArenaInv'
<1> DEFINE offset == AlignUp(used, alignment)
           new == [start |-> base + offset, size |-> size, offset |-> offset, alignment |-> alignment]
<1>1. size \in Nat /\ alignment \in Nat \ {0} /\ used + alignment <= SizeMod /\ SizeMod \in Nat
  BY MemoryAssumption DEF ArenaInv, Marks
<1>2. offset \in Nat /\ used <= offset /\ \E k \in 0..offset : offset = alignment * k
  BY <1>1, AlignedUp DEF ArenaInv, Marks
<1>3. base' = base /\ arena_capacity' = arena_capacity
  BY DEF AllocateAligned
<1>4. CASE ~ Fits(offset, size)
  <2>1. used' = used /\ blocks' = blocks
    BY <1>4 DEF AllocateAligned
  <2> QED
    BY <1>3, <2>1 DEF ArenaInv, Marks, Placed, Apart
<1>5. CASE Fits(offset, size)
  <2>1. used' = offset + size /\ blocks' = blocks \union {new}
    BY <1>5 DEF AllocateAligned
  <2> HIDE DEF offset
  <2>2. Marks'
    BY <1>1, <1>2, <1>3, <1>5, <2>1 DEF ArenaInv, Marks, Fits
  <2>3. new \in Block /\ new.start = base + offset /\ new.offset = offset /\ new.size = size
        /\ new.alignment = alignment
    BY <1>1, <1>2 DEF ArenaInv, Marks, Block
  <2> HIDE DEF new
  <2>4. \A b \in blocks : b.offset \in Nat /\ b.size \in Nat /\ b.offset + b.size <= used
    BY DEF ArenaInv, Placed, Block
  <2>5. Placed'
    <3>1. \A b \in blocks : b.offset + b.size <= used'
      BY <1>1, <1>2, <2>1, <2>4 DEF ArenaInv, Marks
    <3>2. /\ new.start = base + new.offset /\ new.offset + new.size <= used'
          /\ \E k \in 0..new.offset : new.offset = new.alignment * k
      BY <1>1, <1>2, <2>1, <2>3
    <3> QED
      BY <1>3, <2>1, <3>1, <3>2 DEF ArenaInv, Placed
  <2>6. Apart'
    <3>1. \A b \in blocks : b.offset + b.size <= new.offset
      BY <1>2, <2>3, <2>4 DEF ArenaInv, Marks
    <3> QED
      BY <2>1, <3>1 DEF ArenaInv, Apart
  <2> QED
    BY <2>1, <2>2, <2>3, <2>5, <2>6 DEF ArenaInv
<1> QED
  BY <1>4, <1>5

\* The invariant holds at the start and every call keeps it.
THEOREM ArenaInvariance == ArenaSpec => []ArenaInv
<1>1. ArenaInit => ArenaInv
  BY MemoryAssumption DEF ArenaInit, ArenaInv, Marks, Placed, Apart
<1>2. ArenaInv /\ [ArenaNext]_arenaVars => ArenaInv'
  <2> SUFFICES ASSUME ArenaInv, [ArenaNext]_arenaVars PROVE ArenaInv'
    OBVIOUS
  <2>1. CASE RuntimeInit
    BY <2>1 DEF RuntimeInit, arena, ArenaInv, Marks, Placed, Apart
  <2>2. ASSUME NEW size \in Sizes, Create(size) PROVE ArenaInv'
    BY <2>2, CreateKeeps
  <2>3. ASSUME NEW size \in Sizes, Allocate(size) PROVE ArenaInv'
    BY <2>3, AllocateKeeps, MemoryAssumption DEF Allocate
  <2>4. ASSUME NEW size \in Sizes, NEW alignment \in Alignments, AllocateAligned(size, alignment)
        PROVE  ArenaInv'
    BY <2>4, AllocateKeeps
  <2>5. CASE Reset
    BY <2>5 DEF Reset, ArenaInv, Marks, Placed, Apart
  <2>6. CASE Destroy
    BY <2>6, MemoryAssumption DEF Destroy, ArenaInv, Marks, Placed, Apart
  <2>7. CASE UNCHANGED arenaVars
    BY <2>7 DEF arenaVars, arena, ArenaInv, Marks, Placed, Apart
  <2> QED
    BY <2>1, <2>2, <2>3, <2>4, <2>5, <2>6, <2>7 DEF ArenaNext
<1> QED
  BY <1>1, <1>2, PTL DEF ArenaSpec

\* No two blocks of an arena share a byte, each lies inside the mapping and is
\* aligned, whatever sizes lc_arena_allocate_aligned was asked for.
THEOREM ArenaBlocksApart == ArenaSpec => []BlocksApart
<1>1. ArenaInv => BlocksApart
  <2> SUFFICES ASSUME ArenaInv PROVE BlocksApart
    OBVIOUS
  <2>1. \A b \in blocks : b.start \in Nat /\ b.size \in Nat /\ b.offset \in Nat
    BY DEF ArenaInv, Block
  <2> QED
    BY <2>1 DEF ArenaInv, Marks, Placed, Apart, BlocksApart
<1> QED
  BY <1>1, ArenaInvariance, PTL

\* The counters of lc_arena_get_stats.
Counted == /\ highest \in Nat /\ peak_used = highest /\ used <= highest
           /\ alloc_count \in Nat
           /\ IsFiniteSet(blocks) /\ Cardinality(blocks) <= alloc_count

\* Every call keeps the counters: a block adds one to alloc_count, and a reset or
\* destroy forgets blocks but not the counters.
LEMMA CountersKept == ArenaInv /\ Counted /\ [ArenaNext]_arenaVars => Counted'
<1> SUFFICES ASSUME ArenaInv, Counted, [ArenaNext]_arenaVars PROVE Counted'
  OBVIOUS
<1>1. CASE RuntimeInit \/ UNCHANGED arenaVars
  BY <1>1 DEF RuntimeInit, arenaVars, arena, Counted
<1>2. ASSUME NEW size \in Sizes, Create(size) PROVE Counted'
  BY <1>2, FS_EmptySet DEF Create, Counted
<1>3. ASSUME NEW size \in Sizes, NEW alignment \in Alignments, AllocateAligned(size, alignment)
      PROVE  Counted'
  <2> DEFINE offset == AlignUp(used, alignment)
             new == [start |-> base + offset, size |-> size, offset |-> offset,
                     alignment |-> alignment]
  <2>1. CASE ~ Fits(offset, size)
    BY <1>3, <2>1 DEF AllocateAligned, Counted
  <2>2. CASE Fits(offset, size)
    <3>1. /\ used' = offset + size /\ alloc_count' = alloc_count + 1
          /\ peak_used' = (IF used' > peak_used THEN used' ELSE peak_used)
          /\ highest' = (IF used' > highest THEN used' ELSE highest)
          /\ blocks' = blocks \union {new}
      BY <1>3, <2>2 DEF AllocateAligned
    <3>2. offset + size \in Nat
      <4>1. size \in Nat /\ alignment \in Nat \ {0} /\ used + alignment <= SizeMod
        BY MemoryAssumption DEF ArenaInv, Marks
      <4> QED BY <4>1, AlignedUp DEF ArenaInv, Marks
    <3> HIDE DEF new, offset
    <3>3. /\ IsFiniteSet(blocks') /\ Cardinality(blocks) \in Nat
          /\ Cardinality(blocks') \in {Cardinality(blocks), Cardinality(blocks) + 1}
      BY <3>1, FS_AddElement, FS_CardinalityType DEF Counted
    <3> QED BY <3>1, <3>2, <3>3 DEF Counted
  <2> QED BY <2>1, <2>2
<1>4. ASSUME NEW size \in Sizes, Allocate(size) PROVE Counted'
  BY <1>3, <1>4, MemoryAssumption DEF Allocate
<1>5. CASE Reset \/ Destroy
  <2>1. /\ used' = 0 /\ blocks' = {}
        /\ UNCHANGED <<highest, peak_used, alloc_count>>
    BY <1>5 DEF Reset, Destroy
  <2> QED BY <2>1, FS_EmptySet DEF Counted
<1> QED
  BY <1>1, <1>2, <1>3, <1>4, <1>5 DEF ArenaNext

\* lc_runtime_init finds the first AT_PAGESZ before the end of the vector.
LEMMA PageSizeOfFound ==
    ASSUME NEW aux \in Auxv
    PROVE  /\ PageSizeOf(aux) > 0
           /\ PageSizeOf(aux) # PageSize =>
                 \E i \in 1..Len(aux) : aux[i] = <<AT_PAGESZ, PageSizeOf(aux)>>
<1> DEFINE ends == {i \in 1..Len(aux) : aux[i][1] \in {AT_NULL, AT_PAGESZ}}
           at == CHOOSE i \in ends : \A j \in ends : i <= j
           known == ends # {} /\ aux[at][1] = AT_PAGESZ /\ aux[at][2] # 0
<1>1. PageSizeOf(aux) = IF known THEN aux[at][2] ELSE PageSize
  BY DEF PageSizeOf
<1>2. aux \in Seq(Nat \X Nat) /\ PageSize \in Nat \ {0}
  BY MemoryAssumption
<1>3. \A i \in 1..Len(aux) : aux[i][2] \in Nat /\ aux[i] = <<aux[i][1], aux[i][2]>>
  BY <1>2
<1>4. CASE ends # {}
  <2>1. ends \subseteq Nat
    BY <1>2
  <2> HIDE DEF ends
  <2>2. at \in ends
    BY Zenon, <1>4, <2>1, NatMin
  <2>3. at \in 1..Len(aux)
    BY <2>2 DEF ends
  <2> HIDE DEF at
  <2> QED BY <1>1, <1>2, <1>3, <2>3
<1>5. CASE ends = {}
  BY <1>1, <1>2, <1>5
<1> QED BY <1>4, <1>5

\* The counters of an arena and the page size of the program are what they are
\* said to be, whatever is allocated, reset and destroyed.
THEOREM ArenaStaysExact == ArenaSpec => []ArenaExact
<1> DEFINE Inv == Counted /\ auxv \in Auxv /\ PageSizeFound
<1>1. ArenaInit => Inv
  BY MemoryAssumption, FS_EmptySet DEF ArenaInit, Counted, PageSizeFound
<1>2. ArenaInv /\ Inv /\ [ArenaNext]_arenaVars => Inv'
  <2> SUFFICES ASSUME ArenaInv, Inv, [ArenaNext]_arenaVars PROVE Inv'
    BY SMTT(20)
  <2>1. auxv' = auxv /\ runtime_page_size' \in {runtime_page_size, PageSizeOf(auxv)}
    BY DEF ArenaNext, RuntimeInit, Create, Allocate, AllocateAligned, Reset, Destroy, arenaVars
  <2>2. PageSizeFound'
    BY Zenon, <2>1, PageSizeOfFound DEF PageSizeFound
  <2> QED BY <2>1, <2>2, CountersKept
<1>3. ArenaInv /\ Inv => ArenaExact
  <2> SUFFICES ASSUME ArenaInv, Inv PROVE StatsExact
    BY DEF ArenaExact
  <2>1. /\ Stats.used = used /\ Stats.peak_used = peak_used /\ Stats.alloc_count = alloc_count
        /\ Stats.remaining = arena_capacity - used
    BY DEF Stats
  <2> QED BY <2>1 DEF StatsExact, Counted, ArenaInv, Marks, Placed
<1> HIDE DEF Inv
<1> QED BY <1>1, <1>2, <1>3, ArenaInvariance, PTL DEF ArenaSpec

=============================================================================
