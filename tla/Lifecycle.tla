----------------------------- MODULE Lifecycle ------------------------------
(***************************************************************************)
(* src/lifecycle.c: the atexit chain, lc_exit from any thread, and the     *)
(* SIGTERM and SIGINT handlers that lead to it.  A thread is the stack of  *)
(* calls it is in; a signal pushes a frame on whichever thread it is       *)
(* delivered to.  sigaction's mask is empty, so only a signal's own        *)
(* handler holds it back.                                                  *)
(***************************************************************************)
EXTENDS Naturals, Sequences, SequencesExt

CONSTANTS Threads,
          Signals,       \* LC_SIGTERM and LC_SIGINT
          User,          \* the frame of the program's own code
          MaxHandlers,   \* LC_MAX_ATEXIT_HANDLERS
          MaxSignals     \* bound: how many signals arrive

VARIABLES handler_count, enabled, exiting,
          stack,      \* frames of each thread: whose code, where, and the index i
          delivered,  \* how many signals arrived
          ran,        \* ghost: the handlers that were called, in order
          ended       \* did exit_group end the process?

vars == <<handler_count, enabled, exiting, stack, delivered, ran, ended>>

Frame(by, at, i) == [by |-> by, at |-> at, i |-> i]
Top(t) == Last(stack[t])
Replace(t, f) == [stack EXCEPT ![t] = Front(@) \o <<f>>]

-----------------------------------------------------------------------------
(* Mutated forms of the operations below, for sensitivity checks only.     *)

\* lc_exit does not notice that it runs already.
ClaimBlind(t) ==
    /\ ~ ended /\ Top(t).at = "cas"
    /\ exiting' = TRUE
    /\ stack' = Replace(t, Frame(Top(t).by, "chain", handler_count))
    /\ UNCHANGED <<handler_count, enabled, delivered, ran, ended>>

\* A signal that finds the exit under way exits too.
CheckIgnored(t) ==
    /\ ~ ended /\ Top(t).at = "check"
    /\ stack' = Replace(t, Frame(Top(t).by, "cas", 0))
    /\ UNCHANGED <<handler_count, enabled, exiting, delivered, ran, ended>>

\* The chain is walked but never left.
ChainEndForgotten(t) == FALSE

-----------------------------------------------------------------------------
\* lc_atexit, called while the program starts up; and
\* lc_lifecycle_enable_shutdown_signals, which "must be called after setting up
\* any atexit handlers".
Atexit ==
    /\ ~ ended /\ ~ enabled /\ ~ exiting
    /\ handler_count < MaxHandlers
    /\ handler_count' = handler_count + 1
    /\ UNCHANGED <<enabled, exiting, stack, delivered, ran, ended>>

Enable ==
    /\ ~ ended /\ ~ enabled
    /\ enabled' = TRUE
    /\ UNCHANGED <<handler_count, exiting, stack, delivered, ran, ended>>

\* A thread calls lc_exit, also from inside an atexit handler.
CallExit(t) ==
    /\ ~ ended /\ enabled
    /\ Top(t).at \in {"user", "handler"}
    /\ stack' = Replace(t, Frame(Top(t).by, "cas", 0))
    /\ UNCHANGED <<handler_count, enabled, exiting, delivered, ran, ended>>

\* The compare-and-swap at its head; who comes second ends the process at once.
Claim(t) ==
    /\ ~ ended /\ Top(t).at = "cas"
    /\ exiting' = TRUE
    /\ IF exiting
       THEN ended' = TRUE /\ UNCHANGED stack
       ELSE stack' = Replace(t, Frame(Top(t).by, "chain", handler_count)) /\ UNCHANGED ended
    /\ UNCHANGED <<handler_count, enabled, delivered, ran>>

\* The walk down the chain: call a handler, have it return, end the process.
CallHandler(t) ==
    /\ ~ ended /\ Top(t).at = "chain" /\ Top(t).i > 0
    /\ stack' = Replace(t, Frame(Top(t).by, "handler", Top(t).i - 1))
    /\ ran' = Append(ran, Top(t).i)
    /\ UNCHANGED <<handler_count, enabled, exiting, delivered, ended>>

HandlerReturns(t) ==
    /\ ~ ended /\ Top(t).at = "handler"
    /\ stack' = Replace(t, Frame(Top(t).by, "chain", Top(t).i))
    /\ UNCHANGED <<handler_count, enabled, exiting, delivered, ran, ended>>

ChainEnd(t) ==
    /\ ~ ended /\ Top(t).at = "chain" /\ Top(t).i = 0
    /\ ended' = TRUE
    /\ UNCHANGED <<handler_count, enabled, exiting, stack, delivered, ran>>

\* A shutdown signal arrives, anywhere in any thread's code.
Deliver(t, s) ==
    /\ ~ ended /\ enabled
    /\ delivered < MaxSignals
    /\ \A k \in DOMAIN stack[t] : stack[t][k].by # s
    /\ delivered' = delivered + 1
    /\ stack' = [stack EXCEPT ![t] = Append(@, Frame(s, "check", 0))]
    /\ UNCHANGED <<handler_count, enabled, exiting, ran, ended>>

\* shutdown_handler: return if lc_exit is under way, else call it.
Check(t) ==
    /\ ~ ended /\ Top(t).at = "check"
    /\ stack' = IF exiting THEN [stack EXCEPT ![t] = Front(@)]
                ELSE Replace(t, Frame(Top(t).by, "cas", 0))
    /\ UNCHANGED <<handler_count, enabled, exiting, delivered, ran, ended>>

-----------------------------------------------------------------------------
Init ==
    /\ handler_count = 0
    /\ enabled = FALSE
    /\ exiting = FALSE
    /\ stack = [t \in Threads |-> <<Frame(User, "user", 0)>>]
    /\ delivered = 0
    /\ ran = <<>>
    /\ ended = FALSE

Step(t) == Claim(t) \/ CallHandler(t) \/ HandlerReturns(t) \/ ChainEnd(t) \/ Check(t)

Next ==
    \/ Atexit \/ Enable
    \/ \E t \in Threads :
          \/ CallExit(t) \/ Claim(t) \/ CallHandler(t) \/ HandlerReturns(t) \/ ChainEnd(t)
          \/ Check(t)
          \/ \E s \in Signals : Deliver(t, s)

Spec == Init /\ [][Next]_vars

\* Threads are scheduled, and atexit handlers return.
FairSpec == Spec /\ \A t \in Threads : WF_vars(Step(t))

-----------------------------------------------------------------------------
\* The types of the handler array and of each thread's stack of calls.
TypeOK ==
    /\ handler_count \in 0..MaxHandlers
    /\ enabled \in BOOLEAN /\ exiting \in BOOLEAN /\ ended \in BOOLEAN
    /\ \A t \in Threads :
          /\ stack[t] # <<>>
          /\ \A k \in DOMAIN stack[t] :
                stack[t][k] \in [by : Signals \union {User},
                                 at : {"user", "cas", "chain", "handler", "check"},
                                 i : 0..MaxHandlers]
    /\ delivered \in 0..MaxSignals

\* Only one thread walks the chain.
OneWalker ==
    \A t, u \in Threads : \A j \in DOMAIN stack[t], k \in DOMAIN stack[u] :
        (stack[t][j].at \in {"chain", "handler"} /\ stack[u][k].at \in {"chain", "handler"})
            => t = u /\ j = k

\* Handlers run in reverse registration order, each at most once and one at a
\* time, however lc_exit is re-entered: by a second thread, by signals on any thread, or from
\* a handler ("must NOT re-run the chain").
RunsLifoOnce ==
    /\ Len(ran) <= handler_count
    /\ \A k \in DOMAIN ran : ran[k] = handler_count + 1 - k
    /\ OneWalker

\* The process ends only after every handler ran, "running all registered
\* atexit handlers first", or because a second lc_exit found the first under
\* way; and that is never a signal's on top of the thread that runs the
\* handlers, "so the in-progress shutdown finishes rather than being cut short".
ShutdownFinishes ==
    /\ ended => Len(ran) = handler_count \/ \E t \in Threads : Top(t).at = "cas"
    /\ \A t \in Threads :
        Top(t).at = "cas" =>
            \A k \in DOMAIN stack[t] : stack[t][k].at \notin {"chain", "handler"}

\* A shutdown once begun ends the process.
ExitEnds == exiting ~> ended

=============================================================================
