------------------------------ MODULE LightIo -------------------------------
(***************************************************************************)
(* src/lightio.c: the single-threaded event loop.  Each connection has a   *)
(* slot with its own coroutine; a coroutine that reads, writes or sleeps   *)
(* stages one operation tagged with its slot and suspends, and the loop    *)
(* resumes it when the completion is reaped.  The ring is AsyncRing, whose *)
(* tags are the slots and the accept tag.                                  *)
(***************************************************************************)
EXTENDS Naturals, FiniteSets, FiniteSetsExt, Sequences, SequencesExt

CONSTANTS MaxSlots,   \* LIO_MAX_SLOTS
          Accept,     \* LIO_TAG_ACCEPT
          NoSlot,     \* current_slot = -1
          Empty, Entries, CqEntries, IndexMod, MaxResults

Slots == 0..(MaxSlots - 1)
Tags == Slots \union {Accept}

VARIABLES state, fd, stack,  \* slots[i]: its state, is its fd open, its stack mapped
          active_count, current_slot, running, server,
          clients,           \* connections the kernel keeps open for the process
          results,           \* the batch being processed
          lpc,               \* where the loop's thread is
          index,             \* i of the loop over the slots
          sq_head, sq_tail, sq_pending, sqes, cq_head, cq_tail, cqes, inflight,
          pc, left, waiting, outstanding

ring == <<sq_head, sq_tail, sq_pending, sqes, cq_head, cq_tail, cqes, inflight,
          pc, left, waiting, outstanding>>
slots == <<state, fd, stack, active_count, clients>>
vars == <<state, fd, stack, active_count, current_slot, running, server, clients,
          results, lpc, index, ring>>

Ring == INSTANCE AsyncRing

InLoop == lpc \notin {"new", "stopped", "destroyed"}

-----------------------------------------------------------------------------
(* Mutated forms of the operations below, for sensitivity checks only.     *)

\* The coroutine suspends although nothing was queued.
RetrySuspends ==
    /\ lpc = "retry" /\ pc = "idle"
    /\ state' = [state EXCEPT ![current_slot] = "WAITING"]
    /\ lpc' = "scan"
    /\ index' = current_slot + 1
    /\ current_slot' = NoSlot
    /\ IF Ring!Full THEN UNCHANGED ring ELSE Ring!Submit(current_slot)
    /\ UNCHANGED <<fd, stack, active_count, clients, running, server, results>>

\* lio_close forgets the slot's own copy of the fd.
CloseStreamOnce ==
    /\ lpc = "coroutine"
    /\ fd[current_slot]
    /\ clients' = clients - 1
    /\ UNCHANGED <<state, fd, stack, active_count, current_slot, running, server, results,
                   lpc, index, ring>>

\* A failed accept ends the accepting.
RearmOnSuccess(accepted) ==
    IF running /\ accepted /\ ~ Ring!Full THEN Ring!Submit(Accept) ELSE UNCHANGED ring

\* The completion of a suspended read does not make its slot ready.
ResumeForgotten(tag) == UNCHANGED state

-----------------------------------------------------------------------------
\* lio_tcp_serve once the socket listens: arm the first accept.
Serve ==
    /\ lpc = "new"
    /\ ~ server
    /\ server' = TRUE
    /\ Ring!Submit(Accept)
    /\ UNCHANGED <<slots, current_slot, running, results, lpc, index>>

\* lio_loop_run, and lio_loop_stop from a handler or from another thread.
RunLoop ==
    /\ lpc = "new"
    /\ running' = TRUE
    /\ lpc' = "scan"
    /\ index' = 0
    /\ UNCHANGED <<slots, current_slot, server, results, ring>>

Stop ==
    /\ InLoop
    /\ running
    /\ running' = FALSE
    /\ UNCHANGED <<slots, current_slot, server, results, lpc, index, ring>>

\* Step 1 of the loop: the next READY slot gets the thread; behind the last one
\* the loop stops or flushes.
ReadySlots == {s \in Slots : s >= index /\ state[s] = "READY"}

Resume ==
    /\ lpc = "scan"
    /\ ReadySlots # {}
    /\ current_slot' = Min(ReadySlots)
    /\ state' = [state EXCEPT ![Min(ReadySlots)] = "RUNNING"]
    /\ lpc' = "coroutine"
    /\ UNCHANGED <<fd, stack, active_count, clients, running, server, results, index, ring>>

ScanDone ==
    /\ lpc = "scan"
    /\ ReadySlots = {}
    /\ IF running
       THEN lpc' = "flush" /\ Ring!Flush(FALSE)
       ELSE lpc' = "stopped" /\ UNCHANGED ring
    /\ UNCHANGED <<slots, current_slot, running, server, results, index>>

\* Back in the loop: the coroutine waits, or it finished and its slot is freed.
Suspend ==
    /\ Ring!Submit(current_slot)
    /\ state' = [state EXCEPT ![current_slot] = "WAITING"]
    /\ lpc' = "scan"
    /\ index' = current_slot + 1
    /\ current_slot' = NoSlot
    /\ UNCHANGED <<fd, stack, active_count, clients, running, server, results>>

\* lio_read, lio_sleep and each round of lio_write: stage an operation and
\* suspend; when the queue is full flush it, and then
SubmitOp ==
    /\ lpc = "coroutine"
    /\ IF Ring!Full
       THEN /\ lpc' = "retry"
            /\ Ring!Flush(FALSE)
            /\ UNCHANGED <<slots, current_slot, running, server, results, index>>
       ELSE Suspend

\* retry once; a second refusal is returned to the handler, which runs on.
Retry ==
    /\ lpc = "retry" /\ pc = "idle"
    /\ IF Ring!Full
       THEN /\ lpc' = "coroutine"
            /\ UNCHANGED <<slots, current_slot, running, server, results, index, ring>>
       ELSE Suspend

\* lio_close.
CloseStream ==
    /\ lpc = "coroutine"
    /\ fd[current_slot]
    /\ fd' = [fd EXCEPT ![current_slot] = FALSE]
    /\ clients' = clients - 1
    /\ UNCHANGED <<state, stack, active_count, current_slot, running, server, results,
                   lpc, index, ring>>

\* The handler returns: connection_trampoline, and the clean-up in the loop.
HandlerReturns ==
    /\ lpc = "coroutine"
    /\ state' = [state EXCEPT ![current_slot] = "FREE"]
    /\ clients' = IF fd[current_slot] THEN clients - 1 ELSE clients
    /\ fd' = [fd EXCEPT ![current_slot] = FALSE]
    /\ stack' = [stack EXCEPT ![current_slot] = FALSE]
    /\ active_count' = active_count - 1
    /\ lpc' = "scan"
    /\ index' = current_slot + 1
    /\ current_slot' = NoSlot
    /\ UNCHANGED <<running, server, results, ring>>

\* Step 3: lc_async_wait if there is something to wait for.
BeginWait ==
    /\ lpc = "flush" /\ pc = "idle"
    /\ IF active_count > 0 \/ server
       THEN lpc' = "wait" /\ Ring!Flush(TRUE)
       ELSE lpc' = "stopped" /\ UNCHANGED ring
    /\ UNCHANGED <<slots, current_slot, running, server, results, index>>

Reap ==
    /\ lpc = "wait" /\ pc = "reap"
    /\ Ring!Reap
    /\ results' = SubSeq(Ring!Completed, 1, Min({MaxResults, Len(Ring!Completed)}))
    /\ lpc' = "process"
    /\ UNCHANGED <<slots, current_slot, running, server, index>>

\* Step 4.  alloc_slot and init_coroutine_for_slot for a new connection; mmap
\* may fail, and then everything is rolled back.
Admit(s, mapped) ==
    IF mapped
    THEN /\ state' = [state EXCEPT ![s] = "READY"]
         /\ fd' = [fd EXCEPT ![s] = TRUE]
         /\ stack' = [stack EXCEPT ![s] = TRUE]
         /\ active_count' = active_count + 1
         /\ clients' = clients + 1
    ELSE UNCHANGED slots

Rearm(accepted) ==
    IF running /\ ~ Ring!Full THEN Ring!Submit(Accept) ELSE UNCHANGED ring

ProcessAccept(accepted, mapped) ==
    /\ lpc = "process"
    /\ results # <<>> /\ Head(results) = Accept
    /\ LET free == {s \in Slots : state[s] = "FREE"}
       IN  IF accepted /\ free # {} THEN Admit(Min(free), mapped) ELSE UNCHANGED slots
    /\ Rearm(accepted)
    /\ results' = Tail(results)
    /\ UNCHANGED <<current_slot, running, server, lpc, index>>

Resumed(tag) ==
    state' = IF state[tag] = "WAITING" THEN [state EXCEPT ![tag] = "READY"] ELSE state

ProcessIo ==
    /\ lpc = "process"
    /\ results # <<>> /\ Head(results) \in Slots
    /\ Resumed(Head(results))
    /\ results' = Tail(results)
    /\ UNCHANGED <<fd, stack, active_count, clients, current_slot, running, server, lpc,
                   index, ring>>

ProcessDone ==
    /\ lpc = "process"
    /\ results = <<>>
    /\ lpc' = IF running THEN "scan" ELSE "stopped"
    /\ index' = 0
    /\ UNCHANGED <<slots, current_slot, running, server, results, ring>>

\* lio_loop_destroy unmaps the stacks of the slots in use, not their fds.
Destroy ==
    /\ lpc \in {"new", "stopped"}
    /\ stack' = [s \in Slots |-> FALSE]
    /\ server' = FALSE
    /\ lpc' = "destroyed"
    /\ UNCHANGED <<state, fd, active_count, clients, current_slot, running, results, index, ring>>

-----------------------------------------------------------------------------
Init ==
    /\ state = [s \in Slots |-> "FREE"]
    /\ fd = [s \in Slots |-> FALSE]
    /\ stack = [s \in Slots |-> FALSE]
    /\ active_count = 0
    /\ current_slot = NoSlot
    /\ running = FALSE
    /\ server = FALSE
    /\ clients = 0
    /\ results = <<>>
    /\ lpc = "new"
    /\ index = 0
    /\ Ring!Init

\* The steps of the ring call the thread is in, and of the kernel.
RingCall ==
    /\ Ring!Enter \/ Ring!FlushReturn \/ Ring!Wait
    /\ UNCHANGED <<slots, current_slot, running, server, results, lpc, index>>

Complete(tag) ==
    /\ lpc # "destroyed"
    /\ Ring!Complete(tag)
    /\ UNCHANGED <<slots, current_slot, running, server, results, lpc, index>>

LoopStep ==
    \/ Resume \/ ScanDone \/ SubmitOp \/ Retry \/ HandlerReturns
    \/ BeginWait \/ Reap \/ ProcessIo \/ ProcessDone
    \/ \E accepted, mapped \in BOOLEAN : ProcessAccept(accepted, mapped)
    \/ RingCall

Next ==
    \/ Serve \/ RunLoop \/ Stop \/ CloseStream \/ Destroy
    \/ LoopStep
    \/ \E tag \in Tags : Complete(tag)

Spec == Init /\ [][Next]_vars

\* The loop's thread runs on, and a handler that has it suspends or returns.
\* The kernel posts held-back completions first come, first served, hence
\* strong fairness.  Nobody promises that a client connects.
FairSpec == Spec /\ WF_vars(LoopStep) /\ \A s \in Slots : SF_vars(Complete(s))

-----------------------------------------------------------------------------
Pending == outstanding \o results

\* The types of the loop's slots and results.
TypeOK ==
    /\ state \in [Slots -> {"FREE", "READY", "RUNNING", "WAITING"}]
    /\ fd \in [Slots -> BOOLEAN]
    /\ stack \in [Slots -> BOOLEAN]
    /\ active_count \in 0..MaxSlots
    /\ current_slot \in Slots \union {NoSlot}
    /\ running \in BOOLEAN /\ server \in BOOLEAN
    /\ clients \in 0..MaxSlots
    /\ results \in BoundedSeq(Tags, MaxResults)
    /\ lpc \in {"new", "scan", "coroutine", "retry", "flush", "wait", "process",
                "stopped", "destroyed"}
    /\ index \in 0..MaxSlots
    /\ Ring!TypeOK

\* A slot waits exactly while one operation with its tag is under way or its
\* result lies in the batch: a suspended coroutine is never forgotten ("no
\* completion will ever arrive, and the coroutine would wait forever"), and no
\* completion finds its slot gone or taken by another connection.  A ready
\* coroutine is not forgotten either: the loop blocks only when all are
\* suspended or gone.
NobodyForgotten ==
    /\ \A s \in Slots : Cardinality({i \in DOMAIN Pending : Pending[i] = s})
                        = IF state[s] = "WAITING" THEN 1 ELSE 0
    /\ lpc \in {"flush", "wait"} => \A s \in Slots : state[s] \in {"FREE", "WAITING"}

\* Until the loop is destroyed the process keeps open exactly the connections
\* its slots own, each closed once, and maps a stack for each slot in use and
\* for no other; active_count counts those slots.  Failed accepts, full slot
\* tables and failed mmaps included.
SlotsOwnResources ==
    /\ TypeOK
    /\ lpc # "destroyed" =>
        /\ clients = Cardinality({s \in Slots : fd[s]})
        /\ \A s \in Slots : stack[s] <=> state[s] # "FREE"
        /\ \A s \in Slots : fd[s] => stack[s]
        /\ active_count = Cardinality({s \in Slots : stack[s]})

\* While the server runs an accept is under way or just completed: "Re-submit
\* accept for next connection".  The kernel is assumed to consume what it is
\* asked to: an entry left behind can fill the ring and refuse the accept.
AlwaysAccepting ==
    server /\ running /\ InLoop /\ ~ Ring!LeftBehind
        => \E i \in DOMAIN Pending : Pending[i] = Accept

\* Every suspended coroutine is resumed unless the loop is stopped, under the
\* same assumption.
SuspendedResumes ==
    \A s \in Slots :
        state[s] = "WAITING" ~> (state[s] # "WAITING" \/ ~ running \/ Ring!LeftBehind)

=============================================================================
