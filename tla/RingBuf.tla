------------------------------ MODULE RingBuf -------------------------------
(***************************************************************************)
(* lc_ringbuf of src/containers.c: a ring shared without locks by one      *)
(* producer and one consumer.  Elements are wider than a machine word, so  *)
(* lc_bytes_copy moves them in two halves and can be overtaken between     *)
(* them.  head and tail count for ever and wrap at IndexMod, the size_t    *)
(* range.                                                                  *)
(***************************************************************************)
EXTENDS Naturals, Sequences

CONSTANTS Values,    \* an element is a value stored in each of two halves
          Capacity,  \* next_power_of_2(min_capacity)
          IndexMod,  \* 2^64
          Full, Ok, Empty

ASSUME RingBufAssumption ==
    /\ Capacity \in Nat \ {0}
    /\ IndexMod \in Nat /\ IndexMod > Capacity /\ IndexMod % Capacity = 0

VARIABLES capacity,    \* 0 when the allocation failed or after destroy
          data, head, tail,
          ppc, element,  \* the producer, and the element it pushes
          cpc, out,      \* the consumer, and its output buffer
          pushed, popped \* what the latest push and pop returned

vars == <<capacity, data, head, tail, ppc, element, cpc, out, pushed, popped>>

Halves == {1, 2}
Torn == Values \union {Empty}
Plus(a, b) == (a + b) % IndexMod
Minus(a, b) == (a + IndexMod - b) % IndexMod
Mask(i) == i % Capacity

-----------------------------------------------------------------------------
(* Mutated forms of the operations below, for sensitivity checks only.     *)

\* The tail is published before the second half is written.
PushCopyPublishesEarly(h) ==
    /\ ppc = IF h = 1 THEN "copy1" ELSE "copy2"
    /\ data' = [data EXCEPT ![Mask(tail)][h] = element]
    /\ tail' = IF h = 1 THEN Plus(tail, 1) ELSE tail
    /\ ppc' = IF h = 1 THEN "copy2" ELSE "store"
    /\ UNCHANGED <<capacity, head, element, cpc, out, pushed, popped>>

\* The slot is released before the element was copied out of it.
PopLoadReleasesEarly ==
    /\ cpc = "idle"
    /\ IF head = tail
       THEN popped' = Empty /\ UNCHANGED <<cpc, head>>
       ELSE cpc' = "copy1" /\ head' = Plus(head, 1) /\ UNCHANGED popped
    /\ UNCHANGED <<capacity, data, tail, ppc, element, out, pushed>>

\* The emptiness test of pop is dropped.
PopLoadBlind ==
    /\ cpc = "idle"
    /\ cpc' = "copy1"
    /\ UNCHANGED <<capacity, data, head, tail, ppc, element, out, pushed, popped>>

-----------------------------------------------------------------------------
\* lc_ringbuf_push up to its fullness test.  Only the producer writes tail, so
\* the acquire load of head is the one access that races.
PushLoad(v) ==
    /\ ppc = "idle"
    /\ IF capacity = 0 \/ Minus(tail, head) = capacity
       THEN pushed' = Full /\ UNCHANGED <<ppc, element>>
       ELSE element' = v /\ ppc' = "copy1" /\ UNCHANGED pushed
    /\ UNCHANGED <<capacity, data, head, tail, cpc, out, popped>>

\* lc_bytes_copy into the slot at tail, one half at a time.
PushCopy(h) ==
    /\ ppc = IF h = 1 THEN "copy1" ELSE "copy2"
    /\ data' = [data EXCEPT ![Mask(tail)][h] = element]
    /\ ppc' = IF h = 1 THEN "copy2" ELSE "store"
    /\ UNCHANGED <<capacity, head, tail, element, cpc, out, pushed, popped>>

\* The release store of tail.
PushStore ==
    /\ ppc = "store"
    /\ tail' = Plus(tail, 1)
    /\ pushed' = Ok
    /\ ppc' = "idle"
    /\ element' = Empty
    /\ UNCHANGED <<capacity, data, head, cpc, out, popped>>

\* lc_ringbuf_pop up to its emptiness test.
PopLoad ==
    /\ cpc = "idle"
    /\ IF head = tail
       THEN popped' = Empty /\ UNCHANGED cpc
       ELSE cpc' = "copy1" /\ UNCHANGED popped
    /\ UNCHANGED <<capacity, data, head, tail, ppc, element, out, pushed>>

PopCopy(h) ==
    /\ cpc = IF h = 1 THEN "copy1" ELSE "copy2"
    /\ out' = [out EXCEPT ![h] = data[Mask(head)][h]]
    /\ cpc' = IF h = 1 THEN "copy2" ELSE "store"
    /\ UNCHANGED <<capacity, data, head, tail, ppc, element, pushed, popped>>

\* The release store of head, which gives the slot back.
PopStore ==
    /\ cpc = "store"
    /\ head' = Plus(head, 1)
    /\ popped' = out
    /\ out' = <<Empty, Empty>>
    /\ cpc' = "idle"
    /\ UNCHANGED <<capacity, data, tail, ppc, element, pushed>>

\* lc_ringbuf_peek hands the consumer a pointer into the ring, which it uses
\* until its next call.
Peek ==
    /\ cpc = "idle"
    /\ head # tail
    /\ cpc' = "peeked"
    /\ UNCHANGED <<capacity, data, head, tail, ppc, element, out, pushed, popped>>

PeekDone ==
    /\ cpc = "peeked"
    /\ cpc' = "idle"
    /\ UNCHANGED <<capacity, data, head, tail, ppc, element, out, pushed, popped>>

\* lc_ringbuf_clear and lc_ringbuf_destroy reset both indices with plain
\* stores: the owner calls them while neither side is in a call.
Clear(left) ==
    /\ ppc = "idle" /\ cpc = "idle"
    /\ head' = 0
    /\ tail' = 0
    /\ capacity' = left
    /\ UNCHANGED <<data, ppc, element, cpc, out, pushed, popped>>

-----------------------------------------------------------------------------
\* lc_ringbuf_create, which may fail to allocate.
Init ==
    /\ capacity \in {0, Capacity}
    /\ data = [i \in 0..(Capacity - 1) |-> <<Empty, Empty>>]
    /\ head = 0
    /\ tail = 0
    /\ ppc = "idle"
    /\ element = Empty
    /\ cpc = "idle"
    /\ out = <<Empty, Empty>>
    /\ pushed = Ok
    /\ popped = Empty

Next ==
    \/ \E v \in Values : PushLoad(v)
    \/ \E h \in Halves : PushCopy(h) \/ PopCopy(h)
    \/ PushStore \/ PopLoad \/ PopStore \/ Peek \/ PeekDone
    \/ \E left \in {capacity, 0} : Clear(left)

Spec == Init /\ [][Next]_vars

-----------------------------------------------------------------------------
Holding == cpc # "idle"

\* The types of the indices and slots; nothing is popped that was not pushed.
TypeOK ==
    /\ capacity \in {0, Capacity}
    /\ data \in [0..(Capacity - 1) -> Torn \X Torn]
    /\ head \in 0..(IndexMod - 1)
    /\ tail \in 0..(IndexMod - 1)
    /\ ppc \in {"idle", "copy1", "copy2", "store"}
    /\ element \in Torn
    /\ cpc \in {"idle", "copy1", "copy2", "store", "peeked"}
    /\ out \in Torn \X Torn
    /\ pushed \in {Ok, Full}
    /\ popped \in {Empty} \union (Values \X Values)

\* While the consumer copies an element out, or uses the pointer that
\* lc_ringbuf_peek gave it, no step changes the slot at head: "so the producer
\* does not overwrite it early".
HeldSlotStable == [][Holding => data'[Mask(head)] = data[Mask(head)]]_vars

\* What the ring holds, oldest first.
Contents == [i \in 1..Minus(tail, head) |-> data[Mask(Plus(head, i - 1))]]

Queue == INSTANCE Fifo WITH
    Elements <- {<<v, v>> : v \in Values}, queue <- Contents, room <- capacity

\* The ring is the bounded queue of Fifo: whole elements come out, each once,
\* in the order they went in, and push and pop fail only when the queue is full
\* or empty; and no push changes the slot that a pop copies or a peek points at.
ImplementsFifo == Queue!Spec /\ HeldSlotStable

=============================================================================
