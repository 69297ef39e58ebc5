------------------------------ MODULE MCEvents ------------------------------
(***************************************************************************)
(* Model-checking instance for the parts that run many operations in few   *)
(* threads: the scheduler of src/coroutine.c, a ring of src/async.c, the   *)
(* loop and the threaded server of src/lightio.c, and the HTTP server of   *)
(* examples/httpd.c.  part says which one a behaviour is about; the others *)
(* stay as they were initialised.                                          *)
(***************************************************************************)
EXTENDS Coroutine, LioThreaded, Httpd

CONSTANTS Operations, Empty,                          \* of the ring
          MaxSlots, AcceptTag, NoSlot                 \* of the loop

VARIABLES part,                                       \* constant in a behaviour
          \* the ring
          asq_head, asq_tail, asq_pending, asqes, acq_head, acq_tail, acqes, ainflight,
          apc, aleft, awaiting, aoutstanding,
          \* the loop, with its own ring
          lstate, lfd, lstack, lactive, current_slot, lrunning, server, lclients, lresults,
          lpc, index, sq_head, sq_tail, sq_pending, sqes, cq_head, cq_tail, cqes, inflight,
          pc, left, waiting, outstanding

A == INSTANCE AsyncRing WITH
         Tags <- Operations, Entries <- 2, CqEntries <- 2, IndexMod <- 4, MaxResults <- 1,
         sq_head <- asq_head, sq_tail <- asq_tail, sq_pending <- asq_pending, sqes <- asqes,
         cq_head <- acq_head, cq_tail <- acq_tail, cqes <- acqes, inflight <- ainflight,
         pc <- apc, left <- aleft, waiting <- awaiting, outstanding <- aoutstanding
L == INSTANCE LightIo WITH
         Entries <- 1, CqEntries <- 2, IndexMod <- 4, MaxResults <- 2, Accept <- AcceptTag,
         state <- lstate, fd <- lfd, stack <- lstack, active_count <- lactive,
         running <- lrunning, clients <- lclients, results <- lresults

ASSUME RingsAssumption == A!RingAssumption /\ L!Ring!RingAssumption

scheduler == vars
ring == <<asq_head, asq_tail, asq_pending, asqes, acq_head, acq_tail, acqes, ainflight,
          apc, aleft, awaiting, aoutstanding>>
loop == <<lstate, lfd, lstack, lactive, current_slot, lrunning, server, lclients, lresults,
          lpc, index, sq_head, sq_tail, sq_pending, sqes, cq_head, cq_tail, cqes, inflight,
          pc, left, waiting, outstanding>>
eventVars == <<part, scheduler, ring, loop, threaded, httpd>>

EventsInit ==
    /\ part \in {"scheduler", "ring", "loop", "threaded", "httpd"}
    /\ Init /\ (part # "scheduler" => capacity = Capacity)
    /\ A!Init /\ L!Init /\ ThreadedInit
    /\ HttpdInit /\ (part # "httpd" => argument = <<8, 0, 8, 0>>)

SchedulerPart == part = "scheduler" /\ Next /\ UNCHANGED <<part, ring, loop, threaded, httpd>>
RingPart == part = "ring" /\ A!Next /\ UNCHANGED <<part, scheduler, loop, threaded, httpd>>
LoopPart == part = "loop" /\ L!Next /\ UNCHANGED <<part, scheduler, ring, threaded, httpd>>
ThreadedPart ==
    part = "threaded" /\ ThreadedNext /\ UNCHANGED <<part, scheduler, ring, loop, httpd>>
HttpdPart == part = "httpd" /\ HttpdNext /\ UNCHANGED <<part, scheduler, ring, loop, threaded>>

EventsNext == SchedulerPart \/ RingPart \/ LoopPart \/ ThreadedPart \/ HttpdPart

\* The fairness of each module, for the part that moves.
EventsSpec ==
    /\ EventsInit /\ [][EventsNext]_eventVars
    /\ WF_scheduler(part = "scheduler" /\ \E i \in Indices : Yield(i) \/ Finish(i))
    /\ WF_ring(part = "ring" /\ A!Step)
    /\ SF_ring(part = "ring" /\ A!Flush(TRUE))
    /\ \A tag \in Operations : SF_ring(part = "ring" /\ A!Complete(tag))
    /\ WF_loop(part = "loop" /\ L!LoopStep)
    /\ \A s \in L!Slots : SF_loop(part = "loop" /\ L!Complete(s))
    /\ WF_threaded(part = "threaded" /\ ThreadedMainStep)
    /\ \A w \in Workers : /\ WF_threaded(part = "threaded" /\ WorkerStep(w))
                          /\ WF_threaded(part = "threaded" /\ AcceptConnection(w))
    /\ WF_httpd(part = "httpd" /\ AcceptStep)
    /\ WF_httpd(part = "httpd" /\ HttpdMainStep)
    /\ WF_httpd(part = "httpd" /\ KernelStep)

-----------------------------------------------------------------------------
\* Every operation the ring accepted is in one place, in order, until reaped.
EachOperationOnce == part = "ring" => A!EachOperationOnce

\* Every operation is reaped as long as the kernel consumes what it is asked to.
ReapedUnlessLeftBehind == part = "ring" => A!ReapedUnlessLeftBehind

\* The loop forgets no coroutine, owns exactly the connections and stacks of its
\* slots, and while it serves has an accept under way.
LoopExact == part = "loop" => L!NobodyForgotten /\ L!SlotsOwnResources /\ L!AlwaysAccepting

\* Every suspended coroutine of the loop is resumed, every unfinished one of a
\* scheduler gets the thread again, and a stop makes the threaded server return.
EverybodyGoesOn ==
    /\ part = "loop" => L!SuspendedResumes
    /\ part = "scheduler" => NobodyStarves
    /\ part = "threaded" => StopReturns

\* Every client of the HTTP server is accepted, and closed in the end.
ClientsClosed == part = "httpd" => ClosedUnlessTorn

=============================================================================
