---------------------------- MODULE LioThreaded -----------------------------
(***************************************************************************)
(* lio_loop_run_threaded and lio_worker_thread of src/lightio.c: workers   *)
(* with rings of their own accept on one listening socket, and the calling *)
(* thread stops and joins them.  A worker's loop is reduced to what the    *)
(* shutdown depends on: its accept, the I/O of the connections it serves,  *)
(* and where it looks at stop_flag.  The listening socket is its backlog.  *)
(***************************************************************************)
EXTENDS Naturals, FiniteSets

CONSTANTS ThreadCount,  \* thread_count
          MaxClients    \* how many clients connect

ASSUME ThreadedAssumption ==
    /\ ThreadCount \in Nat \ {0}
    /\ MaxClients \in Nat

Workers == 0..(ThreadCount - 1)

VARIABLES tpc, ti, created_count,  \* the calling thread and its loop variable
          trunning, stop_flag,     \* loop->running, and the flag the workers read
          wpc,       \* where each worker is; "none" where no thread was created
          accept,    \* its accept: "none", "staged", "armed" in the kernel or "done"
          io,        \* its connections' operation: "none", "staged", "armed", "done"
          backlog,   \* connections nobody accepted yet
          tclients    \* clients that may still connect

threaded == <<tpc, ti, created_count, trunning, stop_flag, wpc, accept, io,
          backlog, tclients>>
caller == <<tpc, ti, created_count>>
worker == <<wpc, accept, io>>
socket == <<backlog, tclients>>

-----------------------------------------------------------------------------
(* Mutated forms of the operations below, for sensitivity checks only.     *)

\* One connection fewer than there are workers.
ConnectTooFew ==
    /\ tpc = "connect"
    /\ IF ti + 1 < created_count
       THEN backlog' = backlog + 1 /\ ti' = ti + 1 /\ UNCHANGED tpc
       ELSE tpc' = "join" /\ ti' = 0 /\ UNCHANGED backlog
    /\ UNCHANGED <<created_count, trunning, stop_flag, worker, tclients>>

\* The calling thread does not wait for the worker it joins.
JoinAtOnce ==
    /\ tpc = "join"
    /\ IF ti < created_count
       THEN ti' = ti + 1 /\ UNCHANGED tpc
       ELSE tpc' = "returned" /\ UNCHANGED ti
    /\ UNCHANGED <<created_count, trunning, stop_flag, worker, socket>>

-----------------------------------------------------------------------------
\* One round of the spawning loop; on failure created_count stays behind i.
Spawn ==
    /\ tpc = "spawn"
    /\ IF ti < ThreadCount
       THEN /\ ti' = ti + 1
            /\ \/ /\ wpc' = [wpc EXCEPT ![ti] = "start"]
                  /\ created_count' = created_count + 1
               \/ UNCHANGED <<wpc, created_count>>
            /\ UNCHANGED <<tpc, trunning>>
       ELSE /\ trunning' = TRUE
            /\ tpc' = "wait"
            /\ UNCHANGED <<ti, wpc, created_count>>
    /\ UNCHANGED <<stop_flag, accept, io, socket>>

\* lio_loop_stop, from any thread and at any time.
Stop ==
    /\ tpc \in {"spawn", "wait"}
    /\ trunning' = FALSE
    /\ UNCHANGED <<caller, stop_flag, worker, socket>>

\* The sleeping loop ends, the flag is set.
SetStopFlag ==
    /\ tpc = "wait"
    /\ ~ trunning
    /\ stop_flag' = TRUE
    /\ tpc' = "connect"
    /\ ti' = 0
    /\ UNCHANGED <<created_count, trunning, worker, socket>>

\* lc_socket_connect_to and close: a connection more in the backlog, closed by
\* its peer or not.
Connect ==
    /\ tpc = "connect"
    /\ IF ti < created_count
       THEN backlog' = backlog + 1 /\ ti' = ti + 1 /\ UNCHANGED tpc
       ELSE tpc' = "join" /\ ti' = 0 /\ UNCHANGED backlog
    /\ UNCHANGED <<created_count, trunning, stop_flag, worker, tclients>>

\* lc_thread_join(&threads[i]).  The handle of a thread that was not created
\* holds whatever the stack held: the join returns or does not.
Join ==
    /\ tpc = "join"
    /\ IF ti < created_count
       THEN /\ wpc[ti] \in {"exited", "none"}
            /\ ti' = ti + 1
            /\ UNCHANGED tpc
       ELSE tpc' = "returned" /\ UNCHANGED ti
    /\ UNCHANGED <<created_count, trunning, stop_flag, worker, socket>>

\* A worker: create the loop and its ring (or give up), stage the accept.
Start(w) ==
    /\ wpc[w] = "start"
    /\ \/ /\ accept' = [accept EXCEPT ![w] = "staged"]
          /\ wpc' = [wpc EXCEPT ![w] = "check"]
       \/ /\ wpc' = [wpc EXCEPT ![w] = "exited"]
          /\ UNCHANGED accept
    /\ UNCHANGED <<caller, trunning, stop_flag, io, socket>>

\* The head of its loop.  The ready coroutines run between two loads of the
\* flag; their operations were staged when the completion was processed.
Check(w) ==
    /\ wpc[w] = "check"
    /\ wpc' = [wpc EXCEPT ![w] = IF stop_flag THEN "destroy" ELSE "flush"]
    /\ UNCHANGED <<caller, trunning, stop_flag, accept, io, socket>>

\* The second load, then lc_async_flush: what was staged is with the kernel.
WorkerFlush(w) ==
    /\ wpc[w] = "flush"
    /\ IF stop_flag
       THEN wpc' = [wpc EXCEPT ![w] = "destroy"] /\ UNCHANGED <<accept, io>>
       ELSE /\ wpc' = [wpc EXCEPT ![w] = "sleep"]
            /\ accept' = [accept EXCEPT ![w] = IF @ = "staged" THEN "armed" ELSE @]
            /\ io' = [io EXCEPT ![w] = IF @ = "staged" THEN "armed" ELSE @]
    /\ UNCHANGED <<caller, trunning, stop_flag, socket>>

\* lc_async_wait returns once something completed.
Wake(w) ==
    /\ wpc[w] = "sleep"
    /\ accept[w] = "done" \/ io[w] = "done"
    /\ wpc' = [wpc EXCEPT ![w] = "process"]
    /\ UNCHANGED <<caller, trunning, stop_flag, accept, io, socket>>

\* The completions are processed: accept again unless stopped; a connection
\* just accepted or resumed goes on to its next operation, or ends.
Process(w) ==
    /\ wpc[w] = "process"
    /\ accept' = [accept EXCEPT ![w] =
                     IF @ = "done" THEN IF stop_flag THEN "none" ELSE "staged" ELSE @]
    /\ \E o \in {"none", "staged"} :
          io' = [io EXCEPT ![w] = IF @ = "done" \/ (@ = "none" /\ accept[w] = "done")
                                  THEN o ELSE @]
    /\ wpc' = [wpc EXCEPT ![w] = "check"]
    /\ UNCHANGED <<caller, trunning, stop_flag, socket>>

\* lc_async_ring_destroy cancels what is armed; the thread returns.
DestroyLoop(w) ==
    /\ wpc[w] = "destroy"
    /\ accept' = [accept EXCEPT ![w] = "none"]
    /\ io' = [io EXCEPT ![w] = "none"]
    /\ wpc' = [wpc EXCEPT ![w] = "exited"]
    /\ UNCHANGED <<caller, trunning, stop_flag, socket>>

\* The kernel gives a connection to one of the armed accepts.
AcceptConnection(w) ==
    /\ accept[w] = "armed"
    /\ backlog > 0
    /\ backlog' = backlog - 1
    /\ accept' = [accept EXCEPT ![w] = "done"]
    /\ UNCHANGED <<caller, trunning, stop_flag, wpc, io, tclients>>

\* A connection's operation completes: its client sends, receives or leaves.
CompleteIo(w) ==
    /\ io[w] = "armed"
    /\ io' = [io EXCEPT ![w] = "done"]
    /\ UNCHANGED <<caller, trunning, stop_flag, wpc, accept, socket>>

Client ==
    /\ tclients > 0
    /\ tclients' = tclients - 1
    /\ backlog' = backlog + 1
    /\ UNCHANGED <<caller, trunning, stop_flag, worker>>

-----------------------------------------------------------------------------
ThreadedInit ==
    /\ tpc = "spawn" /\ ti = 0 /\ created_count = 0
    /\ trunning = FALSE
    /\ stop_flag = FALSE
    /\ wpc = [w \in Workers |-> "none"]
    /\ accept = [w \in Workers |-> "none"]
    /\ io = [w \in Workers |-> "none"]
    /\ backlog = 0
    /\ tclients = MaxClients

ThreadedMainStep == Spawn \/ SetStopFlag \/ Connect \/ Join
WorkerStep(w) == Start(w) \/ Check(w) \/ WorkerFlush(w) \/ Wake(w) \/ Process(w) \/ DestroyLoop(w)

ThreadedNext ==
    \/ Spawn \/ Stop \/ SetStopFlag \/ Connect \/ Join \/ Client
    \/ \E w \in Workers :
          Start(w) \/ Check(w) \/ WorkerFlush(w) \/ Wake(w) \/ Process(w) \/ DestroyLoop(w)
          \/ AcceptConnection(w) \/ CompleteIo(w)

ThreadedSpec == ThreadedInit /\ [][ThreadedNext]_threaded

\* Threads are scheduled and the kernel accepts while an accept is armed; no
\* client is ever obliged to do anything.
ThreadedFairSpec ==
    /\ ThreadedSpec
    /\ WF_threaded(ThreadedMainStep)
    /\ \A w \in Workers : WF_threaded(WorkerStep(w)) /\ WF_threaded(AcceptConnection(w))

-----------------------------------------------------------------------------
\* The types of the workers and of the accept queue they share.
ThreadedTypeOK ==
    /\ tpc \in {"spawn", "wait", "connect", "join", "returned"}
    /\ ti \in 0..ThreadCount
    /\ created_count \in 0..ThreadCount
    /\ trunning \in BOOLEAN /\ stop_flag \in BOOLEAN
    /\ wpc \in [Workers -> {"none", "start", "check", "flush", "sleep", "process",
                            "destroy", "exited"}]
    /\ accept \in [Workers -> {"none", "staged", "armed", "done"}]
    /\ io \in [Workers -> {"none", "staged", "armed", "done"}]
    /\ backlog \in 0..(MaxClients + ThreadCount)
    /\ tclients \in 0..MaxClients

Alive == {w \in Workers : wpc[w] \notin {"none", "exited"}}

\* A worker uses args[w] and stop_flag, which live in the frame of
\* lio_loop_run_threaded: when that returns, no worker it joined still runs.
JoinedAreGone ==
    /\ ThreadedTypeOK
    /\ tpc = "returned" => \A w \in Alive : w >= created_count

\* The inductive strengthening of JoinedAreGone: the loops count up to what was
\* created, the backlog holds what clients and the calling thread connected, and
\* the workers behind the joining loop are gone for good.
ThreadedInv ==
    /\ ThreadedTypeOK
    /\ tpc \in {"spawn", "wait"} => created_count <= ti
    /\ tpc \in {"connect", "join", "returned"} => ti <= created_count
    /\ backlog + tclients <= MaxClients + ThreadCount
    /\ tpc \in {"spawn", "wait"} => backlog + tclients <= MaxClients
    /\ tpc = "connect" => backlog + tclients <= MaxClients + ti
    /\ tpc \in {"join", "returned"} => \A w \in Alive : w >= ti
    /\ tpc = "returned" => ti = created_count

\* "Join only the threads that were actually created".
JoinsOnlyCreated == tpc = "join" /\ ti < created_count => wpc[ti] # "none"

\* A stop while lio_loop_run_threaded waits for one, every thread created,
\* wakes and joins the workers and lets the call return: "Each connect triggers
\* an accept completion, waking one worker", although clients take accepts too,
\* some workers have no ring, and others are between their loads of the flag.
StopReturns ==
    (tpc = "wait" /\ ~ trunning /\ created_count = ThreadCount) ~> tpc = "returned"

=============================================================================
