-------------------------------- MODULE Once --------------------------------
(***************************************************************************)
(* lc_call_once of src/thread.c: any number of threads call it, some of    *)
(* them repeatedly; the function runs for a while in the winner.           *)
(***************************************************************************)
EXTENDS Naturals, FiniteSets

CONSTANT Threads

VARIABLES state,   \* once->state: 0 pending, 1 running, 2 done
          pc,      \* where each thread is
          effect   \* how much of the function's work is visible: 0, 1 or 2

vars == <<state, pc, effect>>

Sleepers == {t \in Threads : pc[t] = "sleep"}

-----------------------------------------------------------------------------
(* Mutated forms of the operations below, for sensitivity checks only.     *)

\* The winner publishes "done" before it has run the function.
ClaimPublishesEarly(t) ==
    /\ pc[t] = "cas"
    /\ state' = IF state = 0 THEN 2 ELSE state
    /\ pc' = [pc EXCEPT ![t] = IF state = 0 THEN "func" ELSE "check"]
    /\ UNCHANGED effect

\* The winner forgets the wake-up.
PublishSilent(t) ==
    /\ pc[t] = "publish"
    /\ state' = 2
    /\ pc' = [pc EXCEPT ![t] = "idle"]
    /\ UNCHANGED effect

-----------------------------------------------------------------------------
(* lc_call_once.                                                           *)

Call(t) ==
    /\ pc[t] = "idle"
    /\ pc' = [pc EXCEPT ![t] = IF state = 2 THEN "idle" ELSE "cas"]
    /\ UNCHANGED <<state, effect>>

Claim(t) ==
    /\ pc[t] = "cas"
    /\ state' = IF state = 0 THEN 1 ELSE state
    /\ pc' = [pc EXCEPT ![t] = IF state = 0 THEN "func" ELSE "check"]
    /\ UNCHANGED effect

\* func() itself, in two steps so that others see it half done.
Func(t) ==
    /\ pc[t] = "func"
    /\ effect' = effect + 1
    /\ pc' = [pc EXCEPT ![t] = IF effect = 0 THEN "func" ELSE "publish"]
    /\ UNCHANGED state

Publish(t) ==
    /\ pc[t] = "publish"
    /\ state' = 2
    /\ pc' = [pc EXCEPT ![t] = "wake"]
    /\ UNCHANGED effect

Wake(t) ==
    /\ pc[t] = "wake"
    /\ pc' = [u \in Threads |->
                CASE u = t -> "idle"
                  [] u \in Sleepers -> "check"
                  [] OTHER -> pc[u]]
    /\ UNCHANGED <<state, effect>>

Check(t) ==
    /\ pc[t] = "check"
    /\ pc' = [pc EXCEPT ![t] = IF state = 2 THEN "idle" ELSE "wait"]
    /\ UNCHANGED <<state, effect>>

Wait(t) ==
    /\ pc[t] = "wait"
    /\ pc' = [pc EXCEPT ![t] = IF state = 1 THEN "sleep" ELSE "check"]
    /\ UNCHANGED <<state, effect>>

\* A signal handler ran: futex_wait returns EINTR into the loop.
Interrupt(t) ==
    /\ pc[t] = "sleep"
    /\ pc' = [pc EXCEPT ![t] = "check"]
    /\ UNCHANGED <<state, effect>>

Init ==
    /\ state = 0
    /\ pc = [t \in Threads |-> "idle"]
    /\ effect = 0

Step(t) ==
    \/ Claim(t) \/ Func(t) \/ Publish(t) \/ Wake(t) \/ Check(t) \/ Wait(t)

Next == \E t \in Threads : Call(t) \/ Step(t) \/ Interrupt(t)

Spec == Init /\ [][Next]_vars

\* A thread inside lc_call_once that is not asleep keeps executing, and the
\* function it runs returns.
Fairness == \A t \in Threads : WF_vars(Step(t))

FairSpec == Spec /\ Fairness

-----------------------------------------------------------------------------
\* The types of the flag and of each caller's place in lc_call_once.
TypeOK ==
    /\ state \in 0..2
    /\ pc \in [Threads -> {"idle", "cas", "func", "publish", "wake",
                           "check", "wait", "sleep"}]
    /\ effect \in 0..2

\* Returned(t): the step is a return from lc_call_once in thread t.
Returned(t) ==
    \/ pc[t] \notin {"idle"} /\ pc'[t] = "idle"
    \/ pc[t] = "idle" /\ state = 2

\* The function runs once, from its beginning to its end, and no call returns
\* before, neither the winner's nor that of a thread that found it running or
\* done.
ReturnsAfterFunction ==
    [][effect' <= 2 /\ \A t \in Threads : Returned(t) => effect' = 2]_vars

\* Every call returns: no thread sleeps past the broadcast of the winner.
CallsReturn == \A t \in Threads : pc[t] # "idle" ~> pc[t] = "idle"

-----------------------------------------------------------------------------
(* The inductive invariant of the proofs in module Thread_proofs.          *)

Runs(t) == pc[t] \in {"func", "publish"}

\* While somebody sleeps, the function is running or its end is being announced:
\* no thread falls asleep behind the broadcast.
SleepersWoken ==
    \A t \in Threads : pc[t] = "sleep" => \E u \in Threads : Runs(u) \/ pc[u] = "wake"

\* One thread runs the function exactly while the state is 1; the state tells how
\* far the function has come, and who wakes has published.
IInv ==
    /\ TypeOK
    /\ \A t, u \in Threads : Runs(t) /\ Runs(u) => t = u
    /\ (\E t \in Threads : Runs(t)) <=> state = 1
    /\ state = 0 => effect = 0
    /\ state = 2 => effect = 2
    /\ \A t \in Threads : /\ pc[t] = "func" => effect < 2
                          /\ pc[t] = "publish" => effect = 2
                          /\ pc[t] = "wake" => state = 2
    /\ SleepersWoken

=============================================================================
