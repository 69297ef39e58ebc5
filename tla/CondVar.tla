------------------------------ MODULE CondVar -------------------------------
(***************************************************************************)
(* The condition variable of src/thread.c (lc_condvar_wait, _signal and    *)
(* _broadcast) on top of the mutex of module Mutex, used the way           *)
(* include/lightc/thread.h asks for: consumers wait for items in a loop    *)
(* that re-checks the predicate under the mutex; producers add an item     *)
(* under the mutex and signal before or after they unlock it.              *)
(***************************************************************************)
EXTENDS Naturals, FiniteSets

CONSTANTS Producers, Consumers, NoThread,
          SeqMod,         \* cv->seq counts modulo SeqMod (2^32 in the code)
          MaxItems,       \* bound: how many items the producers make
          MaxInterrupts   \* bound: how many signals interrupt a futex_wait

Users == Producers \union Consumers

\* A waiter between its load of cv->seq and its futex_wait must not miss
\* SeqMod signals: the wrap-around of a 32-bit counter is out of the model.
SeqAssumption == SeqMod \in Nat /\ MaxItems \in Nat /\ MaxItems < SeqMod

VARIABLES state, pc, ret,   \* the mutex and the control points, see Mutex
          seq,              \* cv->seq
          seen,             \* the local seq of each thread in lc_condvar_wait
          items,            \* the predicate the mutex protects: items > 0
          produced,         \* how many items were ever made
          interrupts        \* how many interruptions are left

cvars == <<seq, seen, items, produced>>
vars == <<state, pc, ret, seq, seen, items, produced, interrupts>>

M == INSTANCE Mutex WITH Threads <- Users

\* The threads queued on the futex word cv->seq.
Waiters == {t \in Users : pc[t] = "cv_sleep"}

-----------------------------------------------------------------------------
(* Mutated forms of the operations below, for sensitivity checks only.     *)

\* The sequence number is read after the mutex is released, not before.
WaitSleepReloads(t) ==
    /\ pc[t] = "cv_wait"
    /\ pc' = [pc EXCEPT ![t] = "cv_sleep"]
    /\ UNCHANGED <<state, ret, interrupts, cvars>>

\* lc_condvar_wait returns without taking the mutex back.
WaitSleepNoRelock(t) ==
    /\ pc[t] = "cv_wait"
    /\ \/ /\ seq = seen[t]
          /\ pc' = [pc EXCEPT ![t] = "cv_sleep"]
       \/ /\ seq # seen[t]
          /\ pc' = [pc EXCEPT ![t] = "cs"]
    /\ UNCHANGED <<state, ret, interrupts, cvars>>

-----------------------------------------------------------------------------
(* lc_condvar_wait: load seq, unlock, futex_wait, lock.                    *)

WaitLoad(t) ==
    /\ pc[t] = "cv_load"
    /\ seen' = [seen EXCEPT ![t] = seq]
    /\ pc' = [pc EXCEPT ![t] = "unlock_sub"]
    /\ ret' = [ret EXCEPT ![t] = "cv_wait"]
    /\ UNCHANGED <<state, seq, items, produced, interrupts>>

\* Where lc_condvar_wait goes after futex_wait: lc_mutex_lock, then its caller.
Relock(t) ==
    /\ pc' = [pc EXCEPT ![t] = "lock_cas"]
    /\ ret' = [ret EXCEPT ![t] = "cs"]

WaitSleep(t) ==
    /\ pc[t] = "cv_wait"
    /\ \/ /\ seq = seen[t]
          /\ pc' = [pc EXCEPT ![t] = "cv_sleep"]
          /\ UNCHANGED ret
       \/ /\ seq # seen[t]
          /\ Relock(t)
    /\ UNCHANGED <<state, interrupts, cvars>>

(* lc_condvar_signal and lc_condvar_broadcast: increment, then wake one or *)
(* all of the threads asleep on the word.                                  *)

SignalAdd(t) ==
    /\ pc[t] = "sig_add"
    /\ seq' = (seq + 1) % SeqMod
    /\ \E wake \in {"sig_one", "sig_all"} : pc' = [pc EXCEPT ![t] = wake]
    /\ UNCHANGED <<state, ret, seen, items, produced, interrupts>>

\* The signaller t goes on: to its unlock if it signalled under the mutex.
\* The woken threads go on to lc_mutex_lock at the end of lc_condvar_wait.
Wake(t, woken) ==
    /\ pc' = [u \in Users |->
                CASE u \in woken -> "lock_cas"
                  [] u = t -> IF ret[t] = "held" THEN "unlock_sub" ELSE "idle"
                  [] OTHER -> pc[u]]
    /\ ret' = [u \in Users |->
                CASE u \in woken -> "cs"
                  [] u = t -> "idle"
                  [] OTHER -> ret[u]]
    /\ UNCHANGED <<state, interrupts, cvars>>

SignalWake(t) ==
    /\ pc[t] = "sig_one"
    /\ \/ Waiters = {} /\ Wake(t, {})
       \/ \E w \in Waiters : Wake(t, {w})

BroadcastWake(t) ==
    /\ pc[t] = "sig_all"
    /\ Wake(t, Waiters)

\* A signal handler ran: futex_wait returns EINTR, which the code ignores.
Interrupt(t) ==
    /\ interrupts > 0
    /\ interrupts' = interrupts - 1
    /\ \/ /\ pc[t] = "cv_sleep"
          /\ Relock(t)
          /\ UNCHANGED <<state, cvars>>
       \/ /\ M!Interrupt(t)
          /\ UNCHANGED cvars

-----------------------------------------------------------------------------
(* The callers.                                                            *)

\* A consumer in its critical section: take an item, or wait for one.
Consume(t) ==
    /\ t \in Consumers
    /\ pc[t] = "cs"
    /\ \/ /\ items > 0
          /\ items' = items - 1
          /\ pc' = [pc EXCEPT ![t] = "unlock_sub"]
          /\ ret' = [ret EXCEPT ![t] = "idle"]
       \/ /\ items = 0
          /\ pc' = [pc EXCEPT ![t] = "cv_load"]
          /\ UNCHANGED <<items, ret>>
    /\ UNCHANGED <<state, seq, seen, produced, interrupts>>

\* A producer in its critical section adds an item, then signals and unlocks
\* in one order or the other.
Produce(t) ==
    /\ t \in Producers
    /\ pc[t] = "cs"
    /\ items' = items + 1
    /\ produced' = produced + 1
    /\ \/ /\ pc' = [pc EXCEPT ![t] = "sig_add"]
          /\ ret' = [ret EXCEPT ![t] = "held"]
       \/ /\ pc' = [pc EXCEPT ![t] = "unlock_sub"]
          /\ ret' = [ret EXCEPT ![t] = "sig_add"]
    /\ UNCHANGED <<state, seq, seen, interrupts>>

\* Producers that have entered lc_mutex_lock for an item not yet made.
Entering == {p \in Producers : pc[p] \in M!Locking \union {"cs"}}

Call(t) ==
    /\ t \in Producers => produced + Cardinality(Entering) < MaxItems
    /\ M!CallLock(t)
    /\ UNCHANGED <<cvars, interrupts>>

MutexStep(t) ==
    /\ M!LockStep(t) \/ M!UnlockStep(t)
    /\ UNCHANGED <<cvars, interrupts>>

Init ==
    /\ M!Init
    /\ seq = 0
    /\ seen = [t \in Users |-> 0]
    /\ items = 0
    /\ produced = 0
    /\ interrupts = MaxInterrupts

Step(t) ==
    \/ Call(t) \/ MutexStep(t) \/ Consume(t) \/ Produce(t)
    \/ WaitLoad(t) \/ WaitSleep(t)
    \/ SignalAdd(t) \/ SignalWake(t) \/ BroadcastWake(t)

Next == \E t \in Users : Step(t) \/ Interrupt(t)

Spec == Init /\ [][Next]_vars

\* Every thread that is not asleep in the kernel keeps executing; nothing
\* forces an interruption.
FairSpec == Spec /\ \A t \in Users : WF_vars(Step(t))

-----------------------------------------------------------------------------
\* The types of the mutex under the condition variable and of the control.
ControlTyped ==
    /\ state \in 0..2
    /\ pc \in [Users -> {"idle", "cs", "cv_load", "cv_wait", "cv_sleep",
                           "sig_add", "sig_one", "sig_all"}
                          \union M!Locking \union M!Unlocking]
    /\ ret \in [Users -> {"idle", "cs", "cv_wait", "sig_add", "held"}]

\* The types of the condition variable, and the mutex under it.
TypeOK ==
    /\ ControlTyped
    /\ seq \in 0..SeqMod - 1
    /\ seen \in [Users -> 0..SeqMod - 1]
    /\ produced \in 0..MaxItems
    /\ items \in 0..produced

\* Threads that hold the mutex, those inside lc_condvar_wait before its
\* unlock and those that signal under the mutex included.
Holds(t) ==
    \/ M!Holds(t)
    \/ pc[t] = "cv_load"
    \/ pc[t] \in {"sig_add", "sig_one", "sig_all"} /\ ret[t] = "held"

\* lc_condvar_wait returns with the mutex held and nobody else inside: the
\* predicate is never examined or changed by two threads at once.
WaitReturnsLocked ==
    /\ \A t, u \in Users : Holds(t) /\ Holds(u) => t = u
    /\ (\E t \in Users : Holds(t)) => state # 0

\* Every item made is consumed: with all signals delivered no consumer sleeps
\* on while there is something to take.
ItemsConsumed == <>[](produced = MaxItems /\ items = 0)

-----------------------------------------------------------------------------
\* The inductive invariant of the proofs in module Mutex_proofs: where each call
\* returns to, the word that is zero exactly while nobody holds the mutex, and
\* the wake-up that every sleeper in lc_mutex_lock has ahead of it.
IInv ==
    /\ ControlTyped
    /\ \A t \in Users : pc[t] \in M!Locking => ret[t] = "cs"
    /\ \A t \in Users : pc[t] \in M!Unlocking => ret[t] \in {"idle", "cv_wait", "sig_add"}
    /\ WaitReturnsLocked
    /\ (\A t \in Users : ~ Holds(t)) => state = 0
    /\ M!NoLostWakeup

=============================================================================
