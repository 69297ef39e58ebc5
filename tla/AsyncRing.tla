----------------------------- MODULE AsyncRing ------------------------------
(***************************************************************************)
(* src/async.c: the io_uring submission and completion rings as one        *)
(* application thread and the kernel share them.  Operations are known by  *)
(* their tags; a tag is used again once its result was reaped, so runs     *)
(* wrap the ring indices, whose 32 bits are IndexMod values here.          *)
(***************************************************************************)
EXTENDS Naturals, FiniteSets, Sequences, SequencesExt

CONSTANTS Tags,        \* the operations' user_data
          Empty,       \* a zeroed SQE or CQE slot
          Entries,     \* *sq_ring_entries
          CqEntries,   \* *cq_ring_entries
          IndexMod,    \* 2^32: ring indices are kept modulo it
          MaxResults   \* the caller's max_results

RingAssumption ==
    /\ Empty \notin Tags
    /\ Entries \in Nat \ {0} /\ CqEntries \in Nat \ {0} /\ MaxResults \in Nat \ {0}
    /\ IndexMod % Entries = 0 /\ IndexMod % CqEntries = 0
    /\ IndexMod > Entries /\ IndexMod > CqEntries

VARIABLES sq_head, sq_tail, sq_pending, sqes,  \* the submission ring
          cq_head, cq_tail, cqes,              \* the completion ring
          inflight,                            \* consumed by the kernel, not completed
          pc,        \* where the application thread is
          left,      \* to_submit - submitted, while in lc_async_flush
          waiting,   \* is the flush part of lc_async_wait?
          outstanding  \* ghost: accepted operations, oldest first

vars == <<sq_head, sq_tail, sq_pending, sqes, cq_head, cq_tail, cqes, inflight,
          pc, left, waiting, outstanding>>

\* uint32_t arithmetic.
Plus(a, b) == (a + b) % IndexMod
Minus(a, b) == (a + IndexMod - b) % IndexMod

Mask(i) == i % Entries
CqMask(i) == i % CqEntries

-----------------------------------------------------------------------------
(* Mutated forms of the operations below, for sensitivity checks only.     *)

\* The fullness test forgets the staged entries.
SubmitIgnoresPending(tag) ==
    /\ pc = "idle"
    /\ tag \notin Range(outstanding)
    /\ Minus(sq_tail, sq_head) < Entries
    /\ sqes' = [sqes EXCEPT ![Mask(Plus(sq_tail, sq_pending))] = tag]
    /\ sq_pending' = sq_pending + 1
    /\ outstanding' = Append(outstanding, tag)
    /\ UNCHANGED <<sq_head, sq_tail, cq_head, cq_tail, cqes, inflight, pc, left, waiting>>

\* reap_completions stores the tail as the new head.
ReapSkipsToTail ==
    /\ pc \in {"idle", "reap"}
    /\ LET ready == Minus(cq_tail, cq_head)
           count == IF ready < MaxResults THEN ready ELSE MaxResults
           reaped == {cqes[CqMask(Plus(cq_head, i))] : i \in 0..(count - 1)}
       IN  outstanding' = SelectSeq(outstanding, LAMBDA x : x \notin reaped)
    /\ cq_head' = cq_tail
    /\ pc' = "idle"
    /\ UNCHANGED <<sq_head, sq_tail, sq_pending, sqes, cq_tail, cqes, inflight, left, waiting>>

-----------------------------------------------------------------------------
\* lc_async_get_free_slots.
FreeSlots ==
    LET used == Plus(Minus(sq_tail, sq_head), sq_pending)
    IN  IF used >= Entries THEN 0 ELSE Entries - used

\* The test of submit_rw and lc_async_submit_raw; when it holds they return
\* LC_ERR_AGAIN and change nothing.
Full == Minus(Plus(sq_tail, sq_pending), sq_head) >= Entries

\* lc_async_submit_read, _write and _raw: stage one SQE behind the tail.
Submit(tag) ==
    /\ pc = "idle"
    /\ tag \notin Range(outstanding)
    /\ ~ Full
    /\ sqes' = [sqes EXCEPT ![Mask(Plus(sq_tail, sq_pending))] = tag]
    /\ sq_pending' = sq_pending + 1
    /\ outstanding' = Append(outstanding, tag)
    /\ UNCHANGED <<sq_head, sq_tail, cq_head, cq_tail, cqes, inflight, pc, left, waiting>>

\* lc_async_flush, called by itself or by lc_async_wait: publish the tail, clear
\* the staged count.  An application waits only while it awaits results.
Flush(wait) ==
    /\ pc = "idle"
    /\ wait => outstanding # <<>>
    /\ sq_tail' = Plus(sq_tail, sq_pending)
    /\ left' = sq_pending
    /\ sq_pending' = 0
    /\ pc' = "enter"
    /\ waiting' = wait
    /\ UNCHANGED <<sq_head, sqes, cq_head, cq_tail, cqes, inflight, outstanding>>

\* The loop around io_uring_enter(to_submit - submitted): the kernel takes k
\* entries from sq_head, possibly fewer than asked, or fails and takes none.
Enter ==
    /\ pc = "enter"
    /\ left > 0
    /\ \E k \in 0..left :
          /\ sq_head' = Plus(sq_head, k)
          /\ inflight' = inflight \union {sqes[Mask(Plus(sq_head, i))] : i \in 0..(k - 1)}
          /\ left' = IF k = 0 THEN 0 ELSE left - k
    /\ UNCHANGED <<sq_tail, sq_pending, sqes, cq_head, cq_tail, cqes, pc, waiting, outstanding>>

FlushReturn ==
    /\ pc = "enter"
    /\ left = 0
    /\ pc' = IF waiting THEN "wait" ELSE "idle"
    /\ waiting' = FALSE
    /\ UNCHANGED <<sq_head, sq_tail, sq_pending, sqes, cq_head, cq_tail, cqes, inflight, left, outstanding>>

\* io_uring_enter(0, 1, GETEVENTS): returns once a completion is there.
Wait ==
    /\ pc = "wait"
    /\ cq_head # cq_tail
    /\ pc' = "reap"
    /\ UNCHANGED <<sq_head, sq_tail, sq_pending, sqes, cq_head, cq_tail, cqes, inflight, left, waiting, outstanding>>

\* reap_completions, at the end of lc_async_wait or as lc_async_peek.
Reap ==
    /\ pc \in {"idle", "reap"}
    /\ LET ready == Minus(cq_tail, cq_head)
           count == IF ready < MaxResults THEN ready ELSE MaxResults
           reaped == {cqes[CqMask(Plus(cq_head, i))] : i \in 0..(count - 1)}
       IN  /\ outstanding' = SelectSeq(outstanding, LAMBDA x : x \notin reaped)
           /\ cq_head' = Plus(cq_head, count)
    /\ pc' = "idle"
    /\ UNCHANGED <<sq_head, sq_tail, sq_pending, sqes, cq_tail, cqes, inflight, left, waiting>>

\* The kernel completes an operation; while the completion ring is full the
\* result stays with the kernel.
Complete(tag) ==
    /\ tag \in inflight
    /\ Minus(cq_tail, cq_head) < CqEntries
    /\ cqes' = [cqes EXCEPT ![CqMask(cq_tail)] = tag]
    /\ cq_tail' = Plus(cq_tail, 1)
    /\ inflight' = inflight \ {tag}
    /\ UNCHANGED <<sq_head, sq_tail, sq_pending, sqes, cq_head, pc, left, waiting, outstanding>>

-----------------------------------------------------------------------------
Init ==
    /\ sq_head = 0 /\ sq_tail = 0 /\ sq_pending = 0
    /\ sqes = [i \in 0..(Entries - 1) |-> Empty]
    /\ cq_head = 0 /\ cq_tail = 0
    /\ cqes = [i \in 0..(CqEntries - 1) |-> Empty]
    /\ inflight = {}
    /\ pc = "idle"
    /\ left = 0
    /\ waiting = FALSE
    /\ outstanding = <<>>

Step == Enter \/ FlushReturn \/ Wait \/ (pc = "reap" /\ Reap)

Next ==
    \/ \E tag \in Tags : Submit(tag) \/ Complete(tag)
    \/ \E wait \in BOOLEAN : Flush(wait)
    \/ Enter \/ FlushReturn \/ Wait \/ Reap

Spec == Init /\ [][Next]_vars

\* The kernel completes what it took, completions held back by a full ring
\* first come, first served, hence strong fairness; calls make progress, and an
\* application with results outstanding waits for them again and again.
FairSpec ==
    /\ Spec
    /\ WF_vars(Step)
    /\ SF_vars(Flush(TRUE))
    /\ \A tag \in Tags : SF_vars(Complete(tag))

-----------------------------------------------------------------------------
Slots(ring, from, n, mask(_)) == [i \in 1..n |-> ring[mask(Plus(from, i - 1))]]

\* What sits in the submission ring, published or staged, oldest first; and in
\* the completion ring.
Queued == Slots(sqes, sq_head, Plus(Minus(sq_tail, sq_head), sq_pending), Mask)
Completed == Slots(cqes, cq_head, Minus(cq_tail, cq_head), CqMask)

\* The ring's indices stay in their width and its queues within their sizes.
TypeOK ==
    /\ sq_head \in 0..(IndexMod - 1) /\ sq_tail \in 0..(IndexMod - 1)
    /\ sq_pending \in 0..Entries
    /\ sqes \in [0..(Entries - 1) -> Tags \union {Empty}]
    /\ cq_head \in 0..(IndexMod - 1) /\ cq_tail \in 0..(IndexMod - 1)
    /\ cqes \in [0..(CqEntries - 1) -> Tags \union {Empty}]
    /\ inflight \subseteq Tags
    /\ pc \in {"idle", "enter", "wait", "reap"}
    /\ left \in 0..Entries
    /\ waiting \in BOOLEAN

\* Every accepted operation is in exactly one place, the submission ring, the
\* kernel or the completion ring, and nothing else is in them: no SQE is
\* overwritten before the kernel took it, published twice, or reaped twice,
\* also when the indices wrap and after a partial or failed enter.  They wait
\* for the kernel in the order of their submission, and the slots that
\* lc_async_get_free_slots promises are those submit_rw grants.
EachOperationOnce ==
    /\ TypeOK
    /\ Len(Queued) + Cardinality(inflight) + Len(Completed) = Len(outstanding)
    /\ Range(Queued) \union inflight \union Range(Completed) = Range(outstanding)
    /\ Queued = SelectSeq(outstanding, LAMBDA x : x \in Range(Queued))
    /\ FreeSlots = Entries - Len(Queued)
    /\ Full <=> FreeSlots = 0

\* Every operation the ring accepted is completed and its result returned to an
\* application that keeps calling lc_async_wait: "Any entries the kernel
\* doesn't consume below stay queued in the ring and are submitted by a
\* subsequent io_uring_enter."
EveryOperationReaped ==
    \A tag \in Tags : tag \in Range(outstanding) ~> tag \notin Range(outstanding)

\* Entries are published that no io_uring_enter of this flush will ask for.
LeftBehind == Minus(sq_tail, sq_head) > left

\* Every operation is reaped as long as the kernel consumes, in one or several
\* calls, all it is asked to: wrapping indices, short counts, a completion
\* ring that fills up and results beyond max_results delay an operation but
\* lose none.
ReapedUnlessLeftBehind ==
    \A tag \in Tags :
        tag \in Range(outstanding) ~> (tag \notin Range(outstanding) \/ LeftBehind)

=============================================================================
