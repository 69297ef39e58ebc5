-------------------------------- MODULE Fifo --------------------------------
(***************************************************************************)
(* What lc_ringbuf promises one producer and one consumer: a bounded queue *)
(* in which every call takes effect at one instant.                        *)
(***************************************************************************)
EXTENDS Naturals, Sequences

CONSTANTS Elements, Capacity, Full, Ok, Empty

VARIABLES queue,   \* the elements, oldest first
          room,    \* how many it may hold; none once destroyed
          pushed,  \* what the latest push returned
          popped   \* what the latest pop delivered

vars == <<queue, room, pushed, popped>>

Push(e) ==
    /\ Len(queue) < room
    /\ queue' = Append(queue, e)
    /\ pushed' = Ok
    /\ UNCHANGED <<room, popped>>

PushFull ==
    /\ Len(queue) = room
    /\ pushed' = Full
    /\ UNCHANGED <<queue, room, popped>>

Pop ==
    /\ queue # <<>>
    /\ popped' = Head(queue)
    /\ queue' = Tail(queue)
    /\ UNCHANGED <<room, pushed>>

PopEmpty ==
    /\ queue = <<>>
    /\ popped' = Empty
    /\ UNCHANGED <<queue, room, pushed>>

Clear ==
    /\ queue' = <<>>
    /\ room' \in {room, 0}
    /\ UNCHANGED <<pushed, popped>>

Init ==
    /\ queue = <<>>
    /\ room \in {0, Capacity}
    /\ pushed = Ok
    /\ popped = Empty

Next == (\E e \in Elements : Push(e)) \/ PushFull \/ Pop \/ PopEmpty \/ Clear

Spec == Init /\ [][Next]_vars

=============================================================================
