------------------------------- MODULE Mutex --------------------------------
(***************************************************************************)
(* The futex-based three-state mutex of src/thread.c: lc_mutex_lock,       *)
(* lc_mutex_unlock and lc_mutex_try_lock, one step per atomic operation or *)
(* system call, so that every interleaving of the threads between two of   *)
(* them is a behaviour of the model.                                       *)
(*                                                                         *)
(* A call remembers in ret[t] where its thread continues, because          *)
(* lc_condvar_wait (module CondVar) calls the same functions.              *)
(***************************************************************************)
EXTENDS Naturals

CONSTANTS Threads,   \* the threads that share the mutex
          NoThread   \* "no owner", for the refinement of module Lock

ASSUME NoThreadAssumption == NoThread \notin Threads

VARIABLES state,     \* m->state: 0 free, 1 locked, 2 locked with waiters
          pc,        \* where each thread is
          ret        \* where it continues when the call it is in returns

vars == <<state, pc, ret>>

\* Inside lc_mutex_lock.  A thread at "lock_sleep" is queued in the kernel.
Locking == {"lock_cas", "lock_xchg", "lock_wait", "lock_sleep"}
Unlocking == {"unlock_sub", "unlock_store", "unlock_wake"}

\* The threads queued on the futex word m->state.
Sleepers == {t \in Threads : pc[t] = "lock_sleep"}

-----------------------------------------------------------------------------
(* Mutated forms of the operations below, for sensitivity checks only.     *)

\* The slow path marks the mutex locked (1) instead of contended (2).
LockXchgUncontended(t) ==
    /\ pc[t] = "lock_xchg"
    /\ state' = IF state = 0 THEN 1 ELSE 2
    /\ pc' = [pc EXCEPT ![t] = IF state = 0 THEN ret[t] ELSE "lock_wait"]
    /\ UNCHANGED ret

\* The slow path takes a mutex that is locked without waiters.
LockXchgSteals(t) ==
    /\ pc[t] = "lock_xchg"
    /\ state' = 2
    /\ pc' = [pc EXCEPT ![t] = IF state \in {0, 1} THEN ret[t] ELSE "lock_wait"]
    /\ UNCHANGED ret

-----------------------------------------------------------------------------
(* The kernel's side of lc_kernel_futex_wait and lc_kernel_futex_wake:     *)
(* wait compares and queues in one step; wake(1) dequeues some sleeper.    *)
(* A woken or interrupted thread returns from futex_wait into the loop of  *)
(* lc_mutex_lock, back to the exchange.                                    *)

\* A signal interrupts the sleep (EINTR); the result is ignored.
Interrupt(t) ==
    /\ pc[t] = "lock_sleep"
    /\ pc' = [pc EXCEPT ![t] = "lock_xchg"]
    /\ UNCHANGED <<state, ret>>

-----------------------------------------------------------------------------
(* lc_mutex_lock.                                                          *)

LockCas(t) ==
    /\ pc[t] = "lock_cas"
    /\ state' = IF state = 0 THEN 1 ELSE state
    /\ pc' = [pc EXCEPT ![t] = IF state = 0 THEN ret[t] ELSE "lock_xchg"]
    /\ UNCHANGED ret

LockXchg(t) ==
    /\ pc[t] = "lock_xchg"
    /\ state' = 2
    /\ pc' = [pc EXCEPT ![t] = IF state = 0 THEN ret[t] ELSE "lock_wait"]
    /\ UNCHANGED ret

LockWait(t) ==
    /\ pc[t] = "lock_wait"
    /\ pc' = [pc EXCEPT ![t] = IF state = 2 THEN "lock_sleep" ELSE "lock_xchg"]
    /\ UNCHANGED <<state, ret>>

LockStep(t) == LockCas(t) \/ LockXchg(t) \/ LockWait(t)

(* lc_mutex_unlock: the decrement, then for a contended mutex the store    *)
(* and the wake, with other threads running in between.                    *)

UnlockSub(t) ==
    /\ pc[t] = "unlock_sub"
    /\ state' = state - 1
    /\ pc' = [pc EXCEPT ![t] = IF state = 2 THEN "unlock_store" ELSE ret[t]]
    /\ UNCHANGED ret

UnlockStore(t) ==
    /\ pc[t] = "unlock_store"
    /\ state' = 0
    /\ pc' = [pc EXCEPT ![t] = "unlock_wake"]
    /\ UNCHANGED ret

UnlockWake(t) ==
    /\ pc[t] = "unlock_wake"
    /\ \/ /\ Sleepers = {}
          /\ pc' = [pc EXCEPT ![t] = ret[t]]
       \/ \E w \in Sleepers :
             pc' = [pc EXCEPT ![t] = ret[t], ![w] = "lock_xchg"]
    /\ UNCHANGED <<state, ret>>

UnlockStep(t) == UnlockSub(t) \/ UnlockStore(t) \/ UnlockWake(t)

-----------------------------------------------------------------------------
(* The callers: any thread may lock or try to lock; the owner unlocks.     *)

CallLock(t) ==
    /\ pc[t] = "idle"
    /\ pc' = [pc EXCEPT ![t] = "lock_cas"]
    /\ ret' = [ret EXCEPT ![t] = "cs"]
    /\ UNCHANGED state

TryLock(t) ==
    /\ pc[t] = "idle"
    /\ state' = IF state = 0 THEN 1 ELSE state
    /\ pc' = [pc EXCEPT ![t] = IF state = 0 THEN "cs" ELSE "idle"]
    /\ UNCHANGED ret

CallUnlock(t) ==
    /\ pc[t] = "cs"
    /\ pc' = [pc EXCEPT ![t] = "unlock_sub"]
    /\ ret' = [ret EXCEPT ![t] = "idle"]
    /\ UNCHANGED state

Init ==
    /\ state = 0
    /\ pc = [t \in Threads |-> "idle"]
    /\ ret = [t \in Threads |-> "idle"]

Next ==
    \E t \in Threads :
        \/ CallLock(t) \/ TryLock(t) \/ CallUnlock(t)
        \/ LockStep(t) \/ UnlockStep(t) \/ Interrupt(t)

Spec == Init /\ [][Next]_vars

\* A thread that is not asleep keeps executing, and every owner unlocks.
Fairness ==
    \A t \in Threads :
        /\ WF_vars(LockStep(t))
        /\ WF_vars(UnlockStep(t))
        /\ WF_vars(CallUnlock(t))

FairSpec == Spec /\ Fairness

-----------------------------------------------------------------------------
\* The word is 0, 1 or 2 and each thread is at a step of a call.
TypeOK ==
    /\ state \in 0..2
    /\ pc \in [Threads -> {"idle", "cs"} \union Locking \union Unlocking]
    /\ ret \in [Threads -> {"idle", "cs"}]

\* A thread owns the mutex from the moment lock returns until the word says
\* so no longer: with waiters that is the store, not the decrement.
Holds(t) == pc[t] \in {"cs", "unlock_sub", "unlock_store"}

\* lc_mutex_lock / lc_mutex_try_lock never let two threads in, although
\* lc_mutex_unlock passes through the value 1 on its way from 2 to 0.
MutualExclusion ==
    \A t, u \in Threads : Holds(t) /\ Holds(u) => t = u

\* Whenever a thread sleeps in lc_mutex_lock, somebody is still bound to wake
\* it: the word says "waiters" (so its owner will), or a wake is on its way,
\* or a thread awake in the slow path is about to set the word to 2 again.
NoLostWakeup ==
    Sleepers # {} =>
        \/ state = 2
        \/ \E t \in Threads : pc[t] \in {"unlock_store", "unlock_wake", "lock_xchg"}

\* The strengthening that makes MutualExclusion inductive: the word is zero
\* exactly while nobody holds the mutex.
IInv ==
    /\ TypeOK
    /\ \A t \in Threads : pc[t] \in Locking => ret[t] = "cs"
    /\ \A t \in Threads : pc[t] \in Unlocking => ret[t] = "idle"
    /\ MutualExclusion
    /\ state = 0 <=> \A t \in Threads : ~Holds(t)
    /\ NoLostWakeup

\* lc_mutex_lock returns: a thread stays inside it for ever only when another
\* one goes through the mutex again and again (the lock is not fair, and does
\* not promise to be), never because its wake-up was lost.
LockReturns ==
    \A t \in Threads :
        <>[](pc[t] \in Locking) =>
            \E u \in Threads \ {t} : []<>(pc[u] = "cs") /\ []<>(pc[u] # "cs")

\* The abstract lock's owner: the thread that holds the mutex.
Owner ==
    IF \E t \in Threads : Holds(t)
    THEN CHOOSE t \in Threads : Holds(t)
    ELSE NoThread

AbstractLock == INSTANCE Lock WITH owner <- Owner

\* The mutex implements the abstract lock of module Lock: ownership changes
\* hands only at the atomic operations that free or take the word.
ImplementsLock == AbstractLock!Spec

=============================================================================
