---------------------------- MODULE Mutex_proofs ----------------------------
(***************************************************************************)
(* Proofs about lc_mutex for any set of threads: its type invariant,       *)
(* mutual exclusion, the absence of lost wake-ups, and that it implements  *)
(* the abstract lock of module Lock; and about lc_condvar, which uses it.  *)
(***************************************************************************)
EXTENDS MCMutex, TLAPS

\* The inductive invariant holds in the initial state, a zeroed lc_mutex.
LEMMA InitIInv == Init => IInv
  BY DEF Init, IInv, TypeOK, MutualExclusion, NoLostWakeup, Holds, Sleepers,
         Locking, Unlocking

\* Every step of every thread preserves the inductive invariant.
LEMMA NextIInv == IInv /\ [Next]_vars => IInv'
  <1> SUFFICES ASSUME IInv, [Next]_vars PROVE IInv'
    OBVIOUS
  <1> USE DEF IInv, TypeOK, MutualExclusion, NoLostWakeup, Holds, Sleepers,
              Locking, Unlocking
  <1>1. ASSUME NEW t \in Threads, CallLock(t) PROVE IInv'
    BY <1>1 DEF CallLock
  <1>2. ASSUME NEW t \in Threads, TryLock(t) PROVE IInv'
    BY <1>2 DEF TryLock
  <1>3. ASSUME NEW t \in Threads, CallUnlock(t) PROVE IInv'
    BY <1>3 DEF CallUnlock
  <1>4. ASSUME NEW t \in Threads, LockCas(t) PROVE IInv'
    BY <1>4 DEF LockCas
  <1>5. ASSUME NEW t \in Threads, LockXchg(t) PROVE IInv'
    BY <1>5 DEF LockXchg
  <1>6. ASSUME NEW t \in Threads, LockWait(t) PROVE IInv'
    BY <1>6 DEF LockWait
  <1>7. ASSUME NEW t \in Threads, UnlockSub(t) PROVE IInv'
    BY <1>7 DEF UnlockSub
  <1>8. ASSUME NEW t \in Threads, UnlockStore(t) PROVE IInv'
    BY <1>8 DEF UnlockStore
  <1>9. ASSUME NEW t \in Threads, UnlockWake(t) PROVE IInv'
    BY <1>9 DEF UnlockWake
  <1>10. ASSUME NEW t \in Threads, Interrupt(t) PROVE IInv'
    BY <1>10 DEF Interrupt
  <1>11. CASE UNCHANGED vars
    BY <1>11 DEF vars
  <1> QED
    BY <1>1, <1>2, <1>3, <1>4, <1>5, <1>6, <1>7, <1>8, <1>9, <1>10, <1>11
       DEF Next, LockStep, UnlockStep

\* IInv holds in every reachable state of the mutex.
THEOREM Invariance == Spec => []IInv
  BY InitIInv, NextIInv, PTL DEF Spec

\* The mutex word only ever holds 0, 1 or 2, and no thread leaves the control
\* points of lc_mutex_lock and lc_mutex_unlock.
THEOREM TypeCorrect == Spec => []TypeOK
  BY Invariance, PTL DEF IInv

\* Two threads never hold the mutex at the same time.
THEOREM MutexExcludes == Spec => []MutualExclusion
  BY Invariance, PTL DEF IInv

\* No thread sleeps in lc_mutex_lock with nobody left to wake it.
THEOREM MutexWakes == Spec => []NoLostWakeup
  BY Invariance, PTL DEF IInv

-----------------------------------------------------------------------------
(* The refinement of module Lock.                                          *)

\* While a thread holds the mutex, it is the owner of the abstract lock.
LEMMA HolderIsOwner ==
    ASSUME IInv, NEW t \in Threads, Holds(t)
    PROVE  Owner = t
  BY DEF IInv, MutualExclusion, Owner

\* While no thread holds it, the abstract lock is free.
LEMMA FreeHasNoOwner ==
    ASSUME \A t \in Threads : ~Holds(t)
    PROVE  Owner = NoThread
  BY DEF Owner

\* A step in which every thread keeps or keeps lacking the mutex leaves the
\* abstract owner alone.
LEMMA SameHolders ==
    ASSUME IInv, IInv', \A t \in Threads : Holds(t)' <=> Holds(t)
    PROVE  UNCHANGED Owner
  <1>1. CASE \E t \in Threads : Holds(t)
    <2> PICK t \in Threads : Holds(t)
      BY <1>1
    <2>1. Holds(t)'
      OBVIOUS
    <2>2. Owner = t
      BY HolderIsOwner
    <2>3. Owner' = t
      BY <2>1 DEF IInv, MutualExclusion, Owner
    <2> QED
      BY <2>2, <2>3
  <1>2. CASE \A t \in Threads : ~Holds(t)
    BY <1>2 DEF Owner
  <1> QED
    BY <1>1, <1>2

\* A step in which t comes to hold a mutex nobody held acquires the lock.
LEMMA TakesLock ==
    ASSUME IInv, IInv', NEW t \in Threads, state = 0, Holds(t)'
    PROVE  AbstractLock!Acquire(t)
  <1>1. Owner = NoThread
    BY FreeHasNoOwner DEF IInv
  <1>2. Owner' = t
    BY DEF IInv, MutualExclusion, Owner
  <1> QED
    BY <1>1, <1>2 DEF AbstractLock!Acquire

\* A step in which its holder t frees the word releases the lock.
LEMMA FreesLock ==
    ASSUME IInv, IInv', NEW t \in Threads, Holds(t), state' = 0
    PROVE  AbstractLock!Release(t)
  <1>1. Owner = t
    BY HolderIsOwner
  <1>2. Owner' = NoThread
    BY DEF IInv, Owner
  <1> QED
    BY <1>1, <1>2 DEF AbstractLock!Release

\* Every step of the mutex is a step of the abstract lock or leaves it alone.
LEMMA StepRefines ==
    IInv /\ IInv' /\ [Next]_vars => [AbstractLock!Next]_Owner
  <1> SUFFICES ASSUME IInv, IInv', [Next]_vars
               PROVE  AbstractLock!Next \/ UNCHANGED Owner
    OBVIOUS
  <1> USE DEF AbstractLock!Next
  <1>1. ASSUME NEW t \in Threads, CallLock(t) \/ CallUnlock(t) \/ LockWait(t) \/ Interrupt(t)
        PROVE  UNCHANGED Owner
    <2>1. \A u \in Threads : Holds(u)' <=> Holds(u)
      BY <1>1 DEF CallLock, CallUnlock, LockWait, Interrupt, Holds, IInv, TypeOK
    <2> QED
      BY <2>1, SameHolders
  <1>2. ASSUME NEW t \in Threads, UnlockWake(t) PROVE UNCHANGED Owner
    <2>1. \A u \in Threads : Holds(u)' <=> Holds(u)
      BY <1>2 DEF UnlockWake, Sleepers, Holds, IInv, TypeOK, Unlocking
    <2> QED
      BY <2>1, SameHolders
  <1>3. ASSUME NEW t \in Threads, TryLock(t) \/ LockCas(t) \/ LockXchg(t)
        PROVE  AbstractLock!Next \/ UNCHANGED Owner
    <2>1. CASE state = 0
      <3>1. Holds(t)'
        BY <1>3, <2>1 DEF TryLock, LockCas, LockXchg, Holds, IInv, TypeOK, Locking
      <3> QED
        BY <2>1, <3>1, TakesLock
    <2>2. CASE state # 0
      <3>1. \A u \in Threads : Holds(u)' <=> Holds(u)
        BY <1>3, <2>2 DEF TryLock, LockCas, LockXchg, Holds, IInv, TypeOK
      <3> QED
        BY <3>1, SameHolders
    <2> QED
      BY <2>1, <2>2
  <1>4. ASSUME NEW t \in Threads, UnlockSub(t)
        PROVE  AbstractLock!Next \/ UNCHANGED Owner
    <2>1. CASE state = 1
      <3>1. Holds(t) /\ state' = 0
        BY <1>4, <2>1 DEF UnlockSub, Holds
      <3> QED
        BY <3>1, FreesLock
    <2>2. CASE state # 1
      <3>1. state = 2
        BY <1>4, <2>2 DEF UnlockSub, Holds, IInv, TypeOK
      <3>2. \A u \in Threads : Holds(u)' <=> Holds(u)
        BY <1>4, <3>1 DEF UnlockSub, Holds, IInv, TypeOK
      <3> QED
        BY <3>2, SameHolders
    <2> QED
      BY <2>1, <2>2
  <1>5. ASSUME NEW t \in Threads, UnlockStore(t) PROVE AbstractLock!Next
    <2>1. Holds(t) /\ state' = 0
      BY <1>5 DEF UnlockStore, Holds
    <2> QED
      BY <2>1, FreesLock
  <1>6. CASE UNCHANGED vars
    BY <1>6, SameHolders DEF vars, Holds
  <1> QED
    BY <1>1, <1>2, <1>3, <1>4, <1>5, <1>6 DEF Next, LockStep, UnlockStep

\* lc_mutex implements the abstract lock: with Owner for its owner, every
\* behaviour of the mutex is a behaviour of module Lock.
THEOREM MutexImplementsLock == Spec => ImplementsLock
  <1>1. Init => AbstractLock!Init
    BY DEF Init, AbstractLock!Init, Owner, Holds
  <1> QED
    BY <1>1, Invariance, StepRefines, PTL DEF Spec, ImplementsLock, AbstractLock!Spec

-----------------------------------------------------------------------------
(* The condition variable on top of the mutex.                             *)

\* The invariant holds of a zeroed condition variable and mutex.
LEMMA CondVarInit == C!Init => C!IInv
  BY DEF C!Init, C!M!Init, C!IInv, C!ControlTyped, C!WaitReturnsLocked, C!Holds, C!M!Holds,
     C!M!NoLostWakeup,
         C!M!Sleepers, C!M!Locking, C!M!Unlocking

\* Every step of a producer or a consumer preserves it.
LEMMA CondVarNextKeeps == C!IInv /\ [C!Next]_C!vars => C!IInv'
  <1> SUFFICES ASSUME C!IInv, [C!Next]_C!vars PROVE C!IInv'
    OBVIOUS
  <1> USE DEF C!IInv, C!ControlTyped, C!WaitReturnsLocked, C!Holds, C!M!Holds, C!M!NoLostWakeup,
              C!M!Sleepers, C!M!Locking, C!M!Unlocking
  <1>1. ASSUME NEW t \in C!Users, C!Call(t) PROVE C!IInv'
    BY <1>1 DEF C!Call, C!M!CallLock
  <1>2. ASSUME NEW t \in C!Users, C!M!LockCas(t) PROVE C!IInv'
    BY <1>2 DEF C!M!LockCas
  <1>3. ASSUME NEW t \in C!Users, C!M!LockXchg(t) PROVE C!IInv'
    BY <1>3 DEF C!M!LockXchg
  <1>4. ASSUME NEW t \in C!Users, C!M!LockWait(t) PROVE C!IInv'
    BY <1>4 DEF C!M!LockWait
  <1>5. ASSUME NEW t \in C!Users, C!M!UnlockSub(t) PROVE C!IInv'
    BY <1>5 DEF C!M!UnlockSub
  <1>6. ASSUME NEW t \in C!Users, C!M!UnlockStore(t) PROVE C!IInv'
    BY <1>6 DEF C!M!UnlockStore
  <1>7. ASSUME NEW t \in C!Users, C!M!UnlockWake(t) PROVE C!IInv'
    BY <1>7 DEF C!M!UnlockWake
  <1>8. ASSUME NEW t \in C!Users, C!Consume(t) PROVE C!IInv'
    BY <1>8 DEF C!Consume
  <1>9. ASSUME NEW t \in C!Users, C!Produce(t) PROVE C!IInv'
    BY <1>9 DEF C!Produce
  <1>10. ASSUME NEW t \in C!Users, C!WaitLoad(t) PROVE C!IInv'
    BY <1>10 DEF C!WaitLoad
  <1>11. ASSUME NEW t \in C!Users, C!WaitSleep(t) PROVE C!IInv'
    BY <1>11 DEF C!WaitSleep, C!Relock
  <1>12. ASSUME NEW t \in C!Users, C!SignalAdd(t) PROVE C!IInv'
    BY <1>12 DEF C!SignalAdd
  <1>13. ASSUME NEW t \in C!Users, C!SignalWake(t) PROVE C!IInv'
    BY <1>13 DEF C!SignalWake, C!Wake, C!Waiters
  <1>14. ASSUME NEW t \in C!Users, C!BroadcastWake(t) PROVE C!IInv'
    BY <1>14 DEF C!BroadcastWake, C!Wake, C!Waiters
  <1>15. ASSUME NEW t \in C!Users, C!Interrupt(t) PROVE C!IInv'
    BY <1>15 DEF C!Interrupt, C!M!Interrupt, C!Relock
  <1>16. CASE UNCHANGED C!vars
    BY <1>16 DEF C!vars
  <1> QED
    BY ZenonT(30), <1>1, <1>2, <1>3, <1>4, <1>5, <1>6, <1>7, <1>8, <1>9, <1>10, <1>11, <1>12,
       <1>13, <1>14,
       <1>15, <1>16 DEF C!Next, C!Step, C!MutexStep, C!M!LockStep, C!M!UnlockStep

\* lc_condvar_wait returns with the mutex held and nobody else inside, whatever
\* the number of producers and consumers.
THEOREM CondVarExclusion == C!Spec => []C!WaitReturnsLocked
  <1>1. C!IInv => C!WaitReturnsLocked
    BY DEF C!IInv
  <1> QED
    BY <1>1, CondVarInit, CondVarNextKeeps, PTL DEF C!Spec

\* A thread asleep in the lc_mutex_lock at the end of lc_condvar_wait always has
\* its wake-up ahead of it, like one that called lc_mutex_lock itself.
THEOREM CondVarRelockWakes == C!Spec => []C!M!NoLostWakeup
  <1>1. C!IInv => C!M!NoLostWakeup
    BY DEF C!IInv
  <1> QED
    BY <1>1, CondVarInit, CondVarNextKeeps, PTL DEF C!Spec

-----------------------------------------------------------------------------
(* The specification the runs check: one object moves, the other stutters. *)

\* A behaviour of the composed specification is one of each of its parts.
THEOREM MCMutexImplementsParts == MCSpec => Spec /\ C!Spec
  <1>1. MCInit => Init /\ C!Init
    BY DEF MCInit
  <1>2. [MCNext]_mcVars => [Next]_vars
    BY DEF MCNext, MutexNext, CondVarNext, mcVars, mutex
  <1>3. [MCNext]_mcVars => [C!Next]_C!vars
    BY DEF MCNext, MutexNext, CondVarNext, mcVars, condvar, C!vars
  <1> QED
    BY <1>1, <1>2, <1>3, PTL DEF MCSpec, Spec, C!Spec

\* The run's safety property of the condition variable, for any constants.
THEOREM WaitReturnsLockedHolds == MCSpec => []WaitReturnsLocked
  <1>1. C!WaitReturnsLocked => WaitReturnsLocked
    BY DEF WaitReturnsLocked
  <1> QED
    BY <1>1, MCMutexImplementsParts, CondVarExclusion, PTL

=============================================================================
