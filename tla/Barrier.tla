------------------------------ MODULE Barrier -------------------------------
(***************************************************************************)
(* lc_barrier of src/thread.c, one step per atomic operation or system     *)
(* call.  Threads use the barrier MaxRounds times each, re-entering it as  *)
(* soon as they are out.                                                   *)
(***************************************************************************)
EXTENDS Naturals, FiniteSets, FiniteSetsExt

CONSTANTS Threads,     \* the threads that call lc_barrier_wait
          Threshold,   \* the thread_count given to lc_barrier_init
          PhaseMod,    \* b->phase counts modulo PhaseMod (2^32 in the code)
          MaxRounds    \* bound: how often each thread waits

\* What the barrier promises it promises to as many threads as the threshold; the
\* phase has at least two values.
BarrierAssumption ==
    /\ IsFiniteSet(Threads) /\ Cardinality(Threads) = Threshold /\ Threshold # 0
    /\ PhaseMod \in Nat /\ PhaseMod > 1

VARIABLES count, phase,   \* b->count, b->phase
          pc,             \* where each thread is
          entered,        \* the local phase of each thread
          arrived,        \* history: how often each thread added itself
          passed          \* history: how often its wait returned

vars == <<count, phase, pc, entered, arrived, passed>>

Sleepers == {t \in Threads : pc[t] = "sleep"}

-----------------------------------------------------------------------------
(* Mutated forms of the operations below, for sensitivity checks only.     *)

\* The count is compared one too early.
ArriveOffByOne(t) ==
    /\ pc[t] = "add"
    /\ count' = count + 1
    /\ arrived' = [arrived EXCEPT ![t] = @ + 1]
    /\ pc' = [pc EXCEPT ![t] = IF count + 2 = Threshold THEN "reset" ELSE "check"]
    /\ UNCHANGED <<phase, entered, passed>>

\* The phase is advanced before the count is reset, in two steps: the woken
\* threads may re-enter in between and their arrival is wiped out.
ResetAfterPhase(t) ==
    \/ /\ pc[t] = "reset"
       /\ phase' = (phase + 1) % PhaseMod
       /\ pc' = [pc EXCEPT ![t] = "late_reset"]
       /\ UNCHANGED <<count, entered, arrived, passed>>
    \/ /\ pc[t] = "late_reset"
       /\ count' = 0
       /\ pc' = [pc EXCEPT ![t] = "wake"]
       /\ UNCHANGED <<phase, entered, arrived, passed>>

-----------------------------------------------------------------------------
(* lc_barrier_wait.                                                        *)

LoadPhase(t) ==
    /\ pc[t] = "idle"
    /\ arrived[t] < MaxRounds
    /\ entered' = [entered EXCEPT ![t] = phase]
    /\ pc' = [pc EXCEPT ![t] = "add"]
    /\ UNCHANGED <<count, phase, arrived, passed>>

Arrive(t) ==
    /\ pc[t] = "add"
    /\ count' = count + 1
    /\ arrived' = [arrived EXCEPT ![t] = @ + 1]
    /\ pc' = [pc EXCEPT ![t] = IF count + 1 = Threshold THEN "reset" ELSE "check"]
    /\ UNCHANGED <<phase, entered, passed>>

\* The last thread: reset the count, advance the phase, wake everybody.
Reset(t) ==
    /\ pc[t] = "reset"
    /\ count' = 0
    /\ pc' = [pc EXCEPT ![t] = "advance"]
    /\ UNCHANGED <<phase, entered, arrived, passed>>

Advance(t) ==
    /\ pc[t] = "advance"
    /\ phase' = (phase + 1) % PhaseMod
    /\ pc' = [pc EXCEPT ![t] = "wake"]
    /\ UNCHANGED <<count, entered, arrived, passed>>

Wake(t) ==
    /\ pc[t] = "wake"
    /\ pc' = [u \in Threads |->
                CASE u = t -> "idle"
                  [] u \in Sleepers -> "check"
                  [] OTHER -> pc[u]]
    /\ passed' = [passed EXCEPT ![t] = @ + 1]
    /\ UNCHANGED <<count, phase, entered, arrived>>

\* The others: leave once the phase has changed, else futex_wait.
Check(t) ==
    /\ pc[t] = "check"
    /\ \/ /\ phase = entered[t]
          /\ pc' = [pc EXCEPT ![t] = "wait"]
          /\ UNCHANGED passed
       \/ /\ phase # entered[t]
          /\ pc' = [pc EXCEPT ![t] = "idle"]
          /\ passed' = [passed EXCEPT ![t] = @ + 1]
    /\ UNCHANGED <<count, phase, entered, arrived>>

Wait(t) ==
    /\ pc[t] = "wait"
    /\ pc' = [pc EXCEPT ![t] = IF phase = entered[t] THEN "sleep" ELSE "check"]
    /\ UNCHANGED <<count, phase, entered, arrived, passed>>

\* A signal handler ran: futex_wait returns EINTR into the loop.
Interrupt(t) ==
    /\ pc[t] = "sleep"
    /\ pc' = [pc EXCEPT ![t] = "check"]
    /\ UNCHANGED <<count, phase, entered, arrived, passed>>

\* lc_barrier_init.
Init ==
    /\ count = 0
    /\ phase = 0
    /\ pc = [t \in Threads |-> "idle"]
    /\ entered = [t \in Threads |-> 0]
    /\ arrived = [t \in Threads |-> 0]
    /\ passed = [t \in Threads |-> 0]

Step(t) ==
    \/ LoadPhase(t) \/ Arrive(t) \/ Reset(t) \/ Advance(t) \/ Wake(t)
    \/ Check(t) \/ Wait(t)

Next == \E t \in Threads : Step(t) \/ Interrupt(t)

Spec == Init /\ [][Next]_vars

\* Every thread that is not asleep in the kernel keeps executing.
Fairness == \A t \in Threads : WF_vars(Step(t))

FairSpec == Spec /\ Fairness

-----------------------------------------------------------------------------
\* The types of the barrier's words and of each thread's place in lc_barrier_wait.
TypeOK ==
    /\ count \in 0..Cardinality(Threads)
    /\ phase \in 0..PhaseMod - 1
    /\ pc \in [Threads -> {"idle", "add", "reset", "advance", "wake",
                           "check", "wait", "sleep"}]
    /\ entered \in [Threads -> 0..PhaseMod - 1]
    /\ arrived \in [Threads -> 0..MaxRounds]
    /\ passed \in [Threads -> 0..MaxRounds]

\* With exactly Threshold threads, the n-th wait of a thread returns only
\* after every thread has come to its own n-th wait, although a fast thread
\* may re-enter while slow ones are still leaving and the phase is only one
\* counter that wraps around.
NobodyProceedsEarly ==
    \A t, u \in Threads : passed[t] <= arrived[u]

\* include/lightc/thread.h: "N threads must arrive before any proceed."  However
\* many threads share a barrier, waits return for whole groups of Threshold
\* arrivals only.
ProceedInGroups ==
    LET Total(f) == MapThenSumSet(LAMBDA t : f[t], Threads)
    IN  Total(passed) <= Threshold * (Total(arrived) \div Threshold)

\* Every wait returns: no wake-up is lost between the check and the sleep,
\* and no arrival is lost to the reset.
AllRoundsComplete == <>(\A t \in Threads : passed[t] = MaxRounds)

-----------------------------------------------------------------------------
(* The inductive invariant of the proofs in module Thread_proofs.          *)

Waiting(t) == pc[t] \in {"check", "wait", "sleep"}
Closing(t) == pc[t] \in {"reset", "advance"}
Came(r) == {t \in Threads : arrived[t] = r + 1}

\* The barrier is in round r: every thread has arrived r times, and is before its
\* next arrival or still leaving round r - 1, or has arrived once more and waits
\* or closes the round.  The phase a waiting thread remembers is the current one
\* exactly if it has arrived in this round.
Round(r) ==
    /\ count \in Nat /\ phase \in 0..(PhaseMod - 1)
    /\ pc \in [Threads -> {"idle", "add", "reset", "advance", "wake", "check", "wait", "sleep"}]
    /\ entered \in [Threads -> 0..(PhaseMod - 1)]
    /\ arrived \in [Threads -> Nat] /\ passed \in [Threads -> Nat]
    /\ \A t \in Threads :
          \/ /\ arrived[t] = r
             /\ \/ pc[t] \in {"idle", "add"} /\ passed[t] = r
                \/ (Waiting(t) \/ pc[t] = "wake") /\ passed[t] + 1 = r
          \/ /\ arrived[t] = r + 1 /\ passed[t] = r
             /\ Waiting(t) \/ Closing(t)
    /\ \A t \in Threads : pc[t] = "add" => entered[t] = phase
    /\ \A t \in Threads : Waiting(t) => (entered[t] = phase <=> arrived[t] = r + 1)

\* The count is the number of those who came; the last of them closes the round
\* alone, and until it has advanced the phase nobody comes.
Counted(r) ==
    /\ \A t, u \in Threads : Closing(t) => arrived[u] = r + 1 /\ (Closing(u) => u = t)
    /\ (\A t \in Threads : pc[t] # "advance") => count = Cardinality(Came(r))
    /\ \A t \in Threads : pc[t] = "advance" => count = 0
    /\ (\A t \in Threads : ~ Closing(t)) => Came(r) # Threads

IInv == \E r \in Nat : Round(r) /\ Counted(r)

=============================================================================
