--------------------------- MODULE Thread_proofs ----------------------------
(***************************************************************************)
(* Proofs about the read-write lock, the barrier, the once flag and the    *)
(* joins of src/thread.c, for any sets of threads, joiners and addresses   *)
(* that satisfy the assumptions of module MCThread: each part by itself,   *)
(* and the composition that MCThread makes of them.                        *)
(***************************************************************************)
EXTENDS MCThread, FiniteSetTheorems, TLAPS

-----------------------------------------------------------------------------
(* The read-write lock: the word counts the holders, a writer is alone,    *)
(* and nobody sleeps with nobody left to wake it.                          *)

\* The readers inside are finitely many, and fewer than the write bit.
LEMMA ReadersBounded ==
    /\ IsFiniteSet(Readers)
    /\ Cardinality(Readers) \in Nat
    /\ Cardinality(Readers) < WriteBit
    /\ WriteBit \in Nat \ {0}
  <1>1. Readers \subseteq Threads
    BY DEF Readers
  <1>2. Cardinality(Threads) \in Nat
    BY FS_CardinalityType, WriteBitAssumption
  <1>3. IsFiniteSet(Readers) /\ Cardinality(Readers) <= Cardinality(Threads)
    BY <1>1, FS_Subset, WriteBitAssumption
  <1>4. Cardinality(Readers) \in Nat
    BY <1>3, FS_CardinalityType
  <1> QED
    BY <1>2, <1>3, <1>4, WriteBitAssumption

\* There is a reader exactly when the count is not zero.
LEMMA ReadersEmpty == Cardinality(Readers) = 0 <=> Readers = {}
  BY ReadersBounded, FS_EmptySet

\* A thread that starts to read adds one to the count.
LEMMA ReaderEnters ==
    ASSUME NEW t \in Threads, ~Reads(t), Reads(t)',
           \A u \in Threads \ {t} : Reads(u)' <=> Reads(u)
    PROVE  Cardinality(Readers)' = Cardinality(Readers) + 1
  <1>1. Readers' = Readers \union {t} /\ t \notin Readers
    BY DEF Readers
  <1> QED
    BY <1>1, ReadersBounded, FS_AddElement

\* A thread that stops reading takes one from it.
LEMMA ReaderLeaves ==
    ASSUME NEW t \in Threads, Reads(t), ~Reads(t)',
           \A u \in Threads \ {t} : Reads(u)' <=> Reads(u)
    PROVE  Cardinality(Readers)' = Cardinality(Readers) - 1
  <1>1. Readers' = Readers \ {t} /\ t \in Readers
    BY DEF Readers
  <1> QED
    BY <1>1, ReadersBounded, FS_RemoveElement

\* A step after which the same threads read leaves the count alone.
LEMMA SameReaders ==
    ASSUME \A t \in Threads : Reads(t)' <=> Reads(t)
    PROVE  Cardinality(Readers)' = Cardinality(Readers)
  <1>1. Readers' = Readers
    BY DEF Readers
  <1> QED
    BY <1>1

\* A free lock and a lock with readers have no writer inside; a lock with the
\* write bit set has one, and no reader.
LEMMA WordMeaning ==
    ASSUME IInv
    PROVE  /\ state # WriteBit => \A t \in Threads : ~Writes(t)
           /\ state = 0 => \A t \in Threads : ~Reads(t)
           /\ state = WriteBit => \E t \in Threads : Writes(t)
           /\ state < WriteBit => state = Cardinality(Readers)
           /\ \A t \in Threads : Writes(t) => state = WriteBit
           /\ \A t \in Threads : Reads(t) => state \in 1..WriteBit - 1
  <1>1. \A t \in Threads : Reads(t) => ~(\E u \in Threads : Writes(u))
    BY DEF IInv, Exclusion, Reads, Writes
  <1>2. \A t \in Threads : Reads(t) => Cardinality(Readers) # 0
    BY ReadersEmpty DEF Readers
  <1> QED
    BY <1>1, <1>2, ReadersBounded DEF IInv, WordCountsHolders

\* The inductive invariant holds of a zeroed lc_rwlock.
LEMMA InitIInv == Init => IInv
  <1> SUFFICES ASSUME Init PROVE IInv
    OBVIOUS
  <1>1. Readers = {}
    BY DEF Init, Readers, Reads
  <1>2. Cardinality(Readers) = 0
    BY <1>1, ReadersEmpty
  <1> QED
    BY <1>2, ReadersBounded
       DEF Init, IInv, TypeOK, Exclusion, WordCountsHolders, Reads, Writes,
           ReadersNotStranded, NoLostWakeup, Sleepers, ReadLocking, WriteLocking

\* Every step of every thread preserves the inductive invariant.
LEMMA NextIInv == IInv /\ [Next]_vars => IInv'
  <1> SUFFICES ASSUME IInv, [Next]_vars PROVE IInv'
    OBVIOUS
  <1> USE ReadersBounded, WordMeaning
  <1> USE DEF IInv, TypeOK, Exclusion, WordCountsHolders, Reads, Writes,
              ReadersNotStranded, NoLostWakeup, Sleepers, Trying, Retry,
              ReadLocking, WriteLocking
  <1>1. ASSUME NEW t \in Threads, ReadLoad(t) PROVE IInv'
    BY <1>1, SameReaders DEF ReadLoad
  <1>2. ASSUME NEW t \in Threads, ReadCas(t) PROVE IInv'
    <2>1. CASE state = seen[t]
      BY <1>2, <2>1, ReaderEnters DEF ReadCas
    <2>2. CASE state # seen[t]
      BY <1>2, <2>2, SameReaders DEF ReadCas
    <2> QED
      BY <2>1, <2>2
  <1>3. ASSUME NEW t \in Threads, ReadCasSpurious(t) PROVE IInv'
    BY <1>3, SameReaders DEF ReadCasSpurious
  <1>4. ASSUME NEW t \in Threads, ReadWait(t) PROVE IInv'
    BY <1>4, SameReaders DEF ReadWait
  <1>5. ASSUME NEW t \in Threads, ReadUnlockSub(t) PROVE IInv'
    BY <1>5, ReaderLeaves DEF ReadUnlockSub
  <1>6. ASSUME NEW t \in Threads, ReadUnlockWake(t) PROVE IInv'
    BY SMTT(20), <1>6, SameReaders DEF ReadUnlockWake
  <1>7. ASSUME NEW t \in Threads, WriteCas(t) PROVE IInv'
    <2>1. CASE state = 0
      BY <1>7, <2>1, SameReaders DEF WriteCas
    <2>2. CASE state # 0
      BY <1>7, <2>2, SameReaders DEF WriteCas
    <2> QED
      BY <2>1, <2>2
  <1>8. ASSUME NEW t \in Threads, WriteWait(t) PROVE IInv'
    BY <1>8, SameReaders DEF WriteWait
  <1>9. ASSUME NEW t \in Threads, WriteUnlockStore(t) PROVE IInv'
    <2>1. \A u \in Threads : ~Reads(u) /\ ~Reads(u)' /\ ~Writes(u)'
      BY <1>9 DEF WriteUnlockStore
    <2>2. Cardinality(Readers)' = 0
      BY <2>1, SameReaders, ReadersEmpty DEF Readers
    <2> QED
      BY <1>9, <2>1, <2>2 DEF WriteUnlockStore
  <1>10. ASSUME NEW t \in Threads, WriteUnlockWake(t) PROVE IInv'
    BY <1>10, SameReaders DEF WriteUnlockWake
  <1>11. ASSUME NEW t \in Threads, Interrupt(t) PROVE IInv'
    BY <1>11, SameReaders DEF Interrupt
  <1>12. ASSUME NEW t \in Threads, CallLock(t) PROVE IInv'
    BY <1>12, SameReaders DEF CallLock
  <1>13. ASSUME NEW t \in Threads, CallUnlock(t) PROVE IInv'
    BY <1>13, SameReaders DEF CallUnlock
  <1>14. CASE UNCHANGED vars
    BY <1>14, SameReaders DEF vars
  <1> QED
    BY ZenonT(30), <1>1, <1>2, <1>3, <1>4, <1>5, <1>6, <1>7, <1>8, <1>9, <1>10, <1>11,
       <1>12, <1>13, <1>14 DEF Next, LockStep, UnlockStep

\* IInv holds in every reachable state of the read-write lock.
THEOREM Invariance == Spec => []IInv
  BY InitIInv, NextIInv, PTL DEF Spec

\* The word stays within the reader counts and the write bit.
THEOREM TypeCorrect == Spec => []TypeOK
  BY Invariance, PTL DEF IInv

\* A writer never shares the lock with a reader or another writer.
THEOREM RwLockExcludes == Spec => []Exclusion
  BY Invariance, PTL DEF IInv

\* The word always is the write bit of a writer or the number of readers.
THEOREM RwLockCounts == Spec => []WordCountsHolders
  BY Invariance, PTL DEF IInv

\* A sleeping reader always has a writer bound to wake everybody.
THEOREM RwLockWakesReaders == Spec => []ReadersNotStranded
  BY Invariance, PTL DEF IInv

\* No thread sleeps on the lock with nobody left to wake it.
THEOREM RwLockWakes == Spec => []NoLostWakeup
  BY Invariance, PTL DEF IInv

-----------------------------------------------------------------------------
(* The barrier: there is a round that everybody is in or still leaving.    *)

\* Barrier takes the operators on finite sets from an instance of their module;
\* they are the same.
LEMMA BarrierSets ==
    \A S : B!IsFiniteSet(S) = IsFiniteSet(S) /\ B!Cardinality(S) = Cardinality(S)
  BY Zenon DEF B!Cardinality, Cardinality, B!IsFiniteSet, IsFiniteSet

\* A thread that comes is counted, and the round is complete when the count says so.
LEMMA ArriveKeeps ==
    ASSUME NEW r \in Nat, B!Round(r), B!Counted(r), NEW t \in Threads, B!Arrive(t)
    PROVE  B!Round(r)' /\ B!Counted(r)'
<1>1. /\ bpc[t] = "add" /\ arrived[t] = r /\ t \notin B!Came(r)
      /\ \A u \in Threads : ~ B!Closing(u)
  BY BarrierSets DEF B!Arrive, B!Round, B!Counted, B!Waiting, B!Closing, B!Came
<1>2. count = Cardinality(B!Came(r)) /\ B!Came(r) # Threads
  BY <1>1, BarrierSets DEF B!Counted, B!Closing
<1>3. arrived' = [arrived EXCEPT ![t] = r + 1] /\ B!Came(r)' = B!Came(r) \union {t}
  BY <1>1 DEF B!Arrive, B!Came, B!Round
<1>4. /\ IsFiniteSet(B!Came(r)) /\ IsFiniteSet(B!Came(r) \union {t})
      /\ Cardinality(B!Came(r)) \in Nat
      /\ Cardinality(B!Came(r) \union {t}) = Cardinality(B!Came(r)) + 1
      /\ B!Came(r) \union {t} \subseteq Threads
  BY Zenon, <1>1, FS_Subset, FS_AddElement, FS_CardinalityType, ThreadAssumption,
     BarrierSets DEF B!BarrierAssumption, B!Came
<1>5. count' = Cardinality(B!Came(r)')
  BY <1>2, <1>3, <1>4 DEF B!Arrive
<1>6. B!Came(r)' = Threads <=> count + 1 = Threshold
  BY <1>2, <1>3, <1>4, FS_Subset, ThreadAssumption, BarrierSets DEF B!BarrierAssumption
<1>7. B!Round(r)'
  BY <1>1, <1>3 DEF B!Arrive, B!Round, B!Waiting, B!Closing
<1>8. B!Counted(r)'
  <2>1. CASE count + 1 = Threshold
    <3>1. bpc' = [bpc EXCEPT ![t] = "reset"] /\ \A u \in Threads : arrived'[u] = r + 1
      BY <1>6, <2>1 DEF B!Arrive, B!Came
    <3> QED
      BY <1>1, <1>5, <3>1, BarrierSets DEF B!Counted, B!Closing, B!Round
  <2>2. CASE count + 1 # Threshold
    <3>1. bpc' = [bpc EXCEPT ![t] = "check"]
      BY <2>2 DEF B!Arrive
    <3> QED
      BY <1>1, <1>5, <1>6, <2>2, <3>1, BarrierSets DEF B!Counted, B!Closing, B!Round
  <2> QED
    BY <2>1, <2>2
<1> QED
  BY <1>7, <1>8

\* The last thread advances the phase, and the next round begins.
LEMMA AdvanceKeeps ==
    ASSUME NEW r \in Nat, B!Round(r), B!Counted(r), NEW t \in Threads, B!Advance(t)
    PROVE  B!Round(r + 1)' /\ B!Counted(r + 1)'
<1>1. /\ bpc[t] = "advance" /\ count = 0
      /\ \A u \in Threads : arrived[u] = r + 1 /\ (B!Closing(u) => u = t)
      /\ bpc' = [bpc EXCEPT ![t] = "wake"] /\ UNCHANGED <<count, entered, arrived, passed>>
  BY BarrierSets DEF B!Advance, B!Counted, B!Closing
<1>2. phase' \in 0..(PhaseMod - 1) /\ phase' # phase
  BY ThreadAssumption, BarrierSets DEF B!Advance, B!BarrierAssumption, B!Round
<1>3. \A u \in Threads : passed[u] = r /\ (u = t \/ (B!Waiting(u) /\ entered[u] = phase))
  BY <1>1 DEF B!Round, B!Waiting, B!Closing
<1>4. B!Round(r + 1)'
  BY <1>1, <1>2, <1>3 DEF B!Round, B!Waiting, B!Closing
<1>5. B!Came(r + 1)' = {}
  BY <1>1 DEF B!Came
<1>6. B!Counted(r + 1)'
  <2>1. \A u \in Threads : ~ B!Closing(u)'
    BY <1>1, <1>3 DEF B!Closing, B!Waiting, B!Round
  <2>2. count' = Cardinality(B!Came(r + 1)') /\ B!Came(r + 1)' # Threads
    BY SMTT(20), <1>1, <1>5, FS_EmptySet
  <2> QED
    BY <2>1, <2>2, BarrierSets DEF B!Counted, B!Closing
<1> QED
  BY <1>4, <1>6

\* The other steps stay in the round.
LEMMA OthersKeep ==
    ASSUME NEW r \in Nat, B!Round(r), B!Counted(r), NEW t \in Threads,
           B!LoadPhase(t) \/ B!Reset(t) \/ B!Wake(t) \/ B!Check(t) \/ B!Wait(t) \/ B!Interrupt(t)
    PROVE  B!Round(r)' /\ B!Counted(r)'
<1> USE BarrierSets DEF B!Round, B!Counted, B!Waiting, B!Closing, B!Came
<1>1. CASE B!LoadPhase(t)
  BY <1>1 DEF B!LoadPhase
<1>2. CASE B!Reset(t)
  BY <1>2 DEF B!Reset
<1>3. CASE B!Wake(t)
  BY <1>3 DEF B!Wake, B!Sleepers
<1>4. CASE B!Check(t)
  BY <1>4 DEF B!Check
<1>5. CASE B!Wait(t)
  BY <1>5 DEF B!Wait
<1>6. CASE B!Interrupt(t)
  BY <1>6 DEF B!Interrupt
<1> QED
  BY <1>1, <1>2, <1>3, <1>4, <1>5, <1>6

\* lc_barrier_wait by exactly as many threads as the threshold, however many they
\* are: the n-th wait of a thread returns only after every thread has come to its
\* n-th wait.
THEOREM BarrierHolds == B!Spec => []B!NobodyProceedsEarly
<1>1. B!Init => B!IInv
  <2> SUFFICES ASSUME B!Init PROVE B!Round(0) /\ B!Counted(0)
    BY DEF B!IInv
  <2>1. B!Round(0)
    BY ThreadAssumption, BarrierSets DEF B!BarrierAssumption, B!Init, B!Round, B!Waiting,
       B!Closing
  <2>2. B!Came(0) = {}
    BY DEF B!Init, B!Came
  <2>3. Threads # {} /\ Cardinality({}) = 0
    BY FS_EmptySet, ThreadAssumption, BarrierSets DEF B!BarrierAssumption
  <2> QED
    BY <2>1, <2>2, <2>3, BarrierSets DEF B!Counted, B!Init, B!Closing
<1>2. B!IInv /\ [B!Next]_B!vars => B!IInv'
  <2> SUFFICES ASSUME NEW r \in Nat, B!Round(r), B!Counted(r), [B!Next]_B!vars PROVE B!IInv'
    BY DEF B!IInv
  <2>1. ASSUME NEW t \in Threads, B!Arrive(t) PROVE B!IInv'
    BY <2>1, ArriveKeeps DEF B!IInv
  <2>2. ASSUME NEW t \in Threads, B!Advance(t) PROVE B!IInv'
    BY <2>2, AdvanceKeeps, r + 1 \in Nat DEF B!IInv
  <2>3. ASSUME NEW t \in Threads,
               B!LoadPhase(t) \/ B!Reset(t) \/ B!Wake(t) \/ B!Check(t) \/ B!Wait(t) \/ B!Interrupt(t)
        PROVE  B!IInv'
    BY <2>3, OthersKeep DEF B!IInv
  <2>4. CASE UNCHANGED B!vars
    <3>1. B!Round(r)'
      BY <2>4 DEF B!vars, B!Round, B!Waiting, B!Closing
    <3>2. B!Came(r)' = B!Came(r)
      BY <2>4 DEF B!vars, B!Came
    <3>3. B!Counted(r)'
      BY <2>4, <3>2, BarrierSets DEF B!vars, B!Counted, B!Closing
    <3> QED
      BY <3>1, <3>3 DEF B!IInv
  <2> QED
    BY <2>1, <2>2, <2>3, <2>4 DEF B!Next, B!Step
<1>3. B!IInv => B!NobodyProceedsEarly
  BY SMTT(20) DEF B!IInv, B!Round, B!NobodyProceedsEarly
<1> QED
  BY <1>1, <1>2, <1>3, PTL DEF B!Spec

-----------------------------------------------------------------------------
(* The once flag: one thread runs the function, and the others wait for it.*)

\* Every step of lc_call_once preserves the invariant, and returns only after the
\* function.
LEMMA OnceStepKeeps ==
    ASSUME O!IInv, NEW t \in Threads, O!Call(t) \/ O!Step(t) \/ O!Interrupt(t)
    PROVE  O!IInv' /\ effect' <= 2 /\ \A u \in Threads : O!Returned(u) => effect' = 2
<1> USE DEF O!IInv, O!TypeOK, O!Runs, O!SleepersWoken, O!Returned
<1>1. CASE O!Call(t)
  BY <1>1 DEF O!Call
<1>2. CASE O!Claim(t)
  BY <1>2 DEF O!Claim
<1>3. CASE O!Func(t)
  BY <1>3 DEF O!Func
<1>4. CASE O!Publish(t)
  BY <1>4 DEF O!Publish
<1>5. CASE O!Wake(t)
  BY <1>5 DEF O!Wake, O!Sleepers
<1>6. CASE O!Check(t)
  BY <1>6 DEF O!Check
<1>7. CASE O!Wait(t)
  BY <1>7 DEF O!Wait
<1>8. CASE O!Interrupt(t)
  BY <1>8 DEF O!Interrupt
<1> QED
  BY <1>1, <1>2, <1>3, <1>4, <1>5, <1>6, <1>7, <1>8 DEF O!Step

\* The inductive invariant of lc_call_once.
THEOREM OnceInvariance == O!Spec => []O!IInv
<1>1. O!Init => O!IInv
  BY DEF O!Init, O!IInv, O!TypeOK, O!Runs, O!SleepersWoken
<1>2. O!IInv /\ [O!Next]_O!vars => O!IInv'
  <2>1. O!IInv /\ UNCHANGED O!vars => O!IInv'
    BY DEF O!vars, O!IInv, O!TypeOK, O!Runs, O!SleepersWoken
  <2> QED
    BY <2>1, OnceStepKeeps DEF O!Next
<1> QED
  BY <1>1, <1>2, PTL DEF O!Spec

\* However many threads call, the function runs once and no call returns before
\* its end.
THEOREM OnceReturnsAfterFunction == O!Spec => O!ReturnsAfterFunction
<1>1. O!IInv /\ [O!Next]_O!vars =>
         [effect' <= 2 /\ \A t \in Threads : O!Returned(t) => effect' = 2]_O!vars
  BY OnceStepKeeps DEF O!Next
<1> QED
  BY <1>1, OnceInvariance, PTL DEF O!Spec, O!ReturnsAfterFunction

\* However many threads call, none sleeps without somebody who will wake it.
THEOREM OnceWakes == O!Spec => []O!SleepersWoken
<1>1. O!IInv => O!SleepersWoken
  BY DEF O!IInv
<1> QED
  BY <1>1, OnceInvariance, PTL

-----------------------------------------------------------------------------
(* The joins: one of them unmaps the stack, after the thread has left it.  *)

\* Every step preserves the invariant.
LEMMA JoinNextKeeps ==
    ASSUME J!IInv, [J!Next]_J!vars
    PROVE  J!IInv'
<1> USE ThreadAssumption DEF J!JoinAssumption, J!IInv, J!TypeOK, J!Creation, J!Handover, J!Mapped
<1>1. CASE J!MapStack
  BY SMTT(20), <1>1 DEF J!MapStack
<1>2. CASE J!Protect
  BY SMTT(20), <1>2 DEF J!Protect
<1>3. CASE J!Clone
  BY SMTT(20), <1>3 DEF J!Clone
<1>4. CASE J!ChildExit
  BY SMTT(20), <1>4 DEF J!ChildExit, J!Sleepers
<1>5. CASE J!OtherMaps
  BY SMTT(20), <1>5 DEF J!OtherMaps
<1>6. ASSUME NEW j \in Joiners, J!CallJoin(j) \/ J!Load(j) \/ J!Wait(j) \/ J!Interrupt(j) PROVE J!IInv'
  BY SMTT(20), <1>6 DEF J!CallJoin, J!Load, J!Wait, J!Interrupt
<1>7. ASSUME NEW j \in Joiners, J!Claim(j) PROVE J!IInv'
  BY SMTT(20), <1>7 DEF J!Claim
<1>8. ASSUME NEW j \in Joiners, J!Unmap(j) PROVE J!IInv'
  BY SMTT(20), <1>8 DEF J!Unmap
<1>9. CASE UNCHANGED J!vars
  BY <1>9 DEF J!vars
<1> QED
  BY ZenonT(30), <1>1, <1>2, <1>3, <1>4, <1>5, <1>6, <1>7, <1>8, <1>9 DEF J!Next, J!Create,
     J!JoinStep

\* lc_thread_join, called by any number of threads in any interleaving, unmaps the
\* thread's own stack, once, after the thread has left it; and no stack stays
\* mapped when creation fails or when all joins have returned.
THEOREM JoinUnmapsOnce == J!Spec => []J!StackUnmappedOnce
<1>1. J!Init => J!IInv
  BY ThreadAssumption DEF J!JoinAssumption, J!Init, J!IInv, J!TypeOK, J!Creation, J!Handover,
     J!Mapped
<1>2. J!IInv /\ [J!Next]_J!vars => J!IInv'
  BY JoinNextKeeps
<1>3. J!IInv => J!StackUnmappedOnce
  BY ThreadAssumption DEF J!JoinAssumption, J!IInv, J!TypeOK, J!Creation, J!Handover, J!Mapped,
                          J!StackUnmappedOnce, J!UnmapsOwnStack, J!NoStackLeak
<1> QED
  BY <1>1, <1>2, <1>3, PTL DEF J!Spec

-----------------------------------------------------------------------------
(* The composition.                                                        *)

\* Every behaviour of the composition is one of each part: no part's step touches
\* another part's words.
THEOREM ThreadImplementsParts == ThreadSpec => Spec /\ B!Spec /\ O!Spec /\ J!Spec
<1>1. ThreadInit => Init /\ B!Init /\ O!Init /\ J!Init
  BY DEF ThreadInit
<1>2. [ThreadNext]_threadVars =>
         [Next]_vars /\ [B!Next]_B!vars /\ [O!Next]_O!vars /\ [J!Next]_J!vars
  BY DEF ThreadNext, RwLockNext, BarrierNext, OnceNext, JoinNext, threadVars,
         rwlock, barrier, flag, handle, vars, B!vars, O!vars, J!vars
<1> QED
  BY <1>1, <1>2, PTL DEF ThreadSpec, Spec, B!Spec, O!Spec, J!Spec

\* A writer shares the read-write lock with nobody, whatever the object.
THEOREM ThreadExclusion == ThreadSpec => []Exclusion
  BY ThreadImplementsParts, RwLockExcludes, PTL

\* The n-th lc_barrier_wait of a thread returns only after all came to theirs.
THEOREM ThreadBarrier == ThreadSpec => []NobodyProceedsEarly
  BY ThreadImplementsParts, BarrierHolds, PTL DEF NobodyProceedsEarly

\* The function given to lc_call_once runs once, and no call returns before.
THEOREM ThreadOnce == ThreadSpec => ReturnsAfterFunction
  BY ThreadImplementsParts, OnceReturnsAfterFunction, PTL DEF ReturnsAfterFunction

\* lc_thread_join unmaps the thread's own stack, once, after the thread left it.
THEOREM ThreadJoins == ThreadSpec => []StackUnmappedOnce
  BY ThreadImplementsParts, JoinUnmapsOnce, PTL DEF StackUnmappedOnce

=============================================================================
