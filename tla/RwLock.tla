------------------------------- MODULE RwLock -------------------------------
(***************************************************************************)
(* The futex-based read-write lock of src/thread.c, one step per atomic    *)
(* operation or system call.  The word holds the number of readers, or     *)
(* RWLOCK_WRITE_BIT alone while a writer is inside.                        *)
(***************************************************************************)
EXTENDS Naturals, FiniteSets

CONSTANTS Threads,
          WriteBit   \* RWLOCK_WRITE_BIT, 2^31 in the code

\* The reader count never runs into the write bit.
ASSUME WriteBitAssumption ==
    /\ WriteBit \in Nat
    /\ IsFiniteSet(Threads)
    /\ Cardinality(Threads) < WriteBit

VARIABLES state,   \* rw->state
          pc,      \* where each thread is
          seen     \* the value of the word each thread last loaded

vars == <<state, pc, seen>>

ReadLocking == {"read_load", "read_cas", "read_wait", "read_sleep"}
WriteLocking == {"write_cas", "write_wait", "write_sleep"}

\* The threads queued on the futex word rw->state, readers and writers alike.
Sleepers == {t \in Threads : pc[t] \in {"read_sleep", "write_sleep"}}

\* Where a thread continues when its futex_wait returns.
Retry(label) == IF label = "read_sleep" THEN "read_load" ELSE "write_cas"

-----------------------------------------------------------------------------
(* Mutated forms of the operations below, for sensitivity checks only.     *)

\* The reader's CAS does not compare.
ReadCasBlind(t) ==
    /\ pc[t] = "read_cas"
    /\ state' = seen[t] + 1
    /\ pc' = [pc EXCEPT ![t] = "reading"]
    /\ UNCHANGED seen

\* The writer's CAS is weak: it may fail although the lock is free.
WriteCasWeak(t) ==
    /\ pc[t] = "write_cas"
    /\ \/ /\ state = 0
          /\ state' = WriteBit
          /\ pc' = [pc EXCEPT ![t] = "writing"]
          /\ UNCHANGED seen
       \/ /\ seen' = [seen EXCEPT ![t] = state]
          /\ pc' = [pc EXCEPT ![t] = "write_wait"]
          /\ UNCHANGED state

-----------------------------------------------------------------------------
(* lc_rwlock_read_lock.                                                    *)

ReadLoad(t) ==
    /\ pc[t] = "read_load"
    /\ seen' = [seen EXCEPT ![t] = state]
    /\ pc' = [pc EXCEPT ![t] = IF state >= WriteBit THEN "read_wait" ELSE "read_cas"]
    /\ UNCHANGED state

ReadCas(t) ==
    /\ pc[t] = "read_cas"
    /\ \/ /\ state = seen[t]
          /\ state' = state + 1
          /\ pc' = [pc EXCEPT ![t] = "reading"]
       \/ /\ state # seen[t]
          /\ pc' = [pc EXCEPT ![t] = "read_load"]
          /\ UNCHANGED state
    /\ UNCHANGED seen

\* A weak compare-and-exchange may also fail for no reason.
ReadCasSpurious(t) ==
    /\ pc[t] = "read_cas"
    /\ pc' = [pc EXCEPT ![t] = "read_load"]
    /\ UNCHANGED <<state, seen>>

ReadWait(t) ==
    /\ pc[t] = "read_wait"
    /\ pc' = [pc EXCEPT ![t] = IF state = seen[t] THEN "read_sleep" ELSE "read_load"]
    /\ UNCHANGED <<state, seen>>

(* lc_rwlock_read_unlock.                                                  *)

ReadUnlockSub(t) ==
    /\ pc[t] = "runlock_sub"
    /\ state' = state - 1
    /\ pc' = [pc EXCEPT ![t] = IF state = 1 THEN "runlock_wake" ELSE "idle"]
    /\ UNCHANGED seen

ReadUnlockWake(t) ==
    /\ pc[t] = "runlock_wake"
    /\ \/ /\ Sleepers = {}
          /\ pc' = [pc EXCEPT ![t] = "idle"]
       \/ \E w \in Sleepers :
             pc' = [pc EXCEPT ![t] = "idle", ![w] = Retry(@)]
    /\ UNCHANGED <<state, seen>>

(* lc_rwlock_write_lock.                                                   *)

WriteCas(t) ==
    /\ pc[t] = "write_cas"
    /\ \/ /\ state = 0
          /\ state' = WriteBit
          /\ pc' = [pc EXCEPT ![t] = "writing"]
          /\ UNCHANGED seen
       \/ /\ state # 0
          /\ seen' = [seen EXCEPT ![t] = state]
          /\ pc' = [pc EXCEPT ![t] = "write_wait"]
          /\ UNCHANGED state

WriteWait(t) ==
    /\ pc[t] = "write_wait"
    /\ pc' = [pc EXCEPT ![t] = IF state = seen[t] THEN "write_sleep" ELSE "write_cas"]
    /\ UNCHANGED <<state, seen>>

(* lc_rwlock_write_unlock.                                                 *)

WriteUnlockStore(t) ==
    /\ pc[t] = "wunlock_store"
    /\ state' = 0
    /\ pc' = [pc EXCEPT ![t] = "wunlock_wake"]
    /\ UNCHANGED seen

WriteUnlockWake(t) ==
    /\ pc[t] = "wunlock_wake"
    /\ pc' = [u \in Threads |->
                CASE u = t -> "idle"
                  [] u \in Sleepers -> Retry(pc[u])
                  [] OTHER -> pc[u]]
    /\ UNCHANGED <<state, seen>>

-----------------------------------------------------------------------------
\* A signal handler ran: futex_wait returns EINTR, and both loops retry.
Interrupt(t) ==
    /\ t \in Sleepers
    /\ pc' = [pc EXCEPT ![t] = Retry(@)]
    /\ UNCHANGED <<state, seen>>

(* The callers.                                                            *)

CallLock(t) ==
    /\ pc[t] = "idle"
    /\ \E first \in {"read_load", "write_cas"} : pc' = [pc EXCEPT ![t] = first]
    /\ UNCHANGED <<state, seen>>

CallUnlock(t) ==
    /\ \/ pc[t] = "reading" /\ pc' = [pc EXCEPT ![t] = "runlock_sub"]
       \/ pc[t] = "writing" /\ pc' = [pc EXCEPT ![t] = "wunlock_store"]
    /\ UNCHANGED <<state, seen>>

Init ==
    /\ state = 0
    /\ pc = [t \in Threads |-> "idle"]
    /\ seen = [t \in Threads |-> 0]

LockStep(t) ==
    ReadLoad(t) \/ ReadCas(t) \/ ReadWait(t) \/ WriteCas(t) \/ WriteWait(t)

UnlockStep(t) ==
    \/ ReadUnlockSub(t) \/ ReadUnlockWake(t)
    \/ WriteUnlockStore(t) \/ WriteUnlockWake(t)

Next ==
    \E t \in Threads :
        \/ CallLock(t) \/ CallUnlock(t) \/ LockStep(t) \/ UnlockStep(t)
        \/ ReadCasSpurious(t) \/ Interrupt(t)

Spec == Init /\ [][Next]_vars

\* Threads that are not asleep keep executing and every holder unlocks.  The
\* compare-and-exchange is strongly fair: it does not fail spuriously for ever.
Fairness ==
    \A t \in Threads :
        /\ WF_vars(LockStep(t))
        /\ SF_vars(ReadCas(t))
        /\ WF_vars(UnlockStep(t))
        /\ WF_vars(CallUnlock(t))

FairSpec == Spec /\ Fairness

-----------------------------------------------------------------------------
Reads(t) == pc[t] \in {"reading", "runlock_sub"}
Writes(t) == pc[t] \in {"writing", "wunlock_store"}
Readers == {t \in Threads : Reads(t)}

\* The types of the lock word and of each thread's place in its call.
TypeOK ==
    /\ state \in 0..WriteBit
    /\ pc \in [Threads -> {"idle", "reading", "writing", "runlock_sub",
                           "runlock_wake", "wunlock_store", "wunlock_wake"}
                          \union ReadLocking \union WriteLocking]
    /\ seen \in [Threads -> 0..WriteBit]

\* A writer is alone: no reader and no second writer is inside with it.
Exclusion ==
    \A t, u \in Threads : Writes(t) /\ (Writes(u) \/ Reads(u)) => t = u

\* The word tells exactly who is inside: the write bit alone for a writer,
\* otherwise the number of readers.  A lost or double decrement, or a reader
\* counted while the write bit is set, shows here.
WordCountsHolders ==
    state = IF \E t \in Threads : Writes(t) THEN WriteBit ELSE Cardinality(Readers)

\* A reader sleeps only while a writer is inside or is about to wake everyone;
\* the single wake-up of the last reader cannot strand it.
ReadersNotStranded ==
    \A t \in Threads :
        pc[t] = "read_sleep" =>
            \E w \in Threads : pc[w] \in {"writing", "wunlock_store", "wunlock_wake"}

\* The threads that will either take the lock or look at the word again.
Trying ==
    {t \in Threads :
        pc[t] \in {"read_load", "read_cas", "read_wait", "write_cas", "write_wait"}}

\* Whenever somebody sleeps, somebody holds the lock (and wakes on leaving),
\* is about to wake, or is awake and trying.
NoLostWakeup ==
    Sleepers # {} =>
        \/ state # 0
        \/ Trying # {}
        \/ \E t \in Threads : pc[t] \in {"runlock_wake", "wunlock_wake"}

\* The inductive strengthening: what a thread remembers of the word when it is
\* about to sleep or to compare.
IInv ==
    /\ TypeOK
    /\ Exclusion
    /\ WordCountsHolders
    /\ \A t \in Threads :
        /\ pc[t] \in {"read_wait", "read_sleep"} => seen[t] = WriteBit
        /\ pc[t] = "read_cas" => seen[t] < WriteBit
        /\ pc[t] \in {"write_wait", "write_sleep"} => seen[t] # 0
    /\ ReadersNotStranded
    /\ NoLostWakeup

\* A thread stays inside a lock call for ever only if another one keeps taking
\* and giving back the lock (neither side is promised fairness).
LockReturns ==
    \A t \in Threads :
        <>[](pc[t] \in ReadLocking \union WriteLocking) =>
            \E u \in Threads \ {t} :
                []<>(Reads(u) \/ Writes(u)) /\ []<>~(Reads(u) \/ Writes(u))

=============================================================================
