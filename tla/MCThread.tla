------------------------------ MODULE MCThread ------------------------------
(***************************************************************************)
(* Model-checking instance for the lock, barrier, once and join of         *)
(* src/thread.c.  Such objects share no state, so each is explored alone:  *)
(* object says which one a behaviour is about, and the others stay as they *)
(* were initialised.                                                       *)
(***************************************************************************)
EXTENDS RwLock

CONSTANTS Threshold, PhaseMod, MaxRounds,  \* of the barrier
          Joiners, Addresses, Null         \* of the joins

VARIABLES object,                                    \* constant in a behaviour
          count, phase, bpc, entered, arrived, passed,        \* a barrier
          once, opc, effect,                                  \* a once flag
          mem, stack_base, alive, child, creator, stack, jpc, claimed  \* a handle

B == INSTANCE Barrier WITH pc <- bpc
O == INSTANCE Once WITH state <- once, pc <- opc
J == INSTANCE ThreadJoin WITH pc <- jpc

ASSUME ThreadAssumption == B!BarrierAssumption /\ J!JoinAssumption

rwlock == vars
barrier == <<count, phase, bpc, entered, arrived, passed>>
flag == <<once, opc, effect>>
handle == <<mem, stack_base, alive, child, creator, stack, jpc, claimed>>
threadVars == <<object, rwlock, barrier, flag, handle>>

ThreadInit ==
    /\ object \in {"rwlock", "barrier", "once", "join"}
    /\ Init /\ B!Init /\ O!Init /\ J!Init

RwLockNext == object = "rwlock" /\ Next /\ UNCHANGED <<object, barrier, flag, handle>>
BarrierNext == object = "barrier" /\ B!Next /\ UNCHANGED <<object, rwlock, flag, handle>>
OnceNext == object = "once" /\ O!Next /\ UNCHANGED <<object, rwlock, barrier, handle>>
JoinNext == object = "join" /\ J!Next /\ UNCHANGED <<object, rwlock, barrier, flag>>

ThreadNext == RwLockNext \/ BarrierNext \/ OnceNext \/ JoinNext

\* The fairness of each module, for the object that moves.
ThreadSpec ==
    /\ ThreadInit /\ [][ThreadNext]_threadVars
    /\ \A t \in Threads :
        /\ WF_rwlock(object = "rwlock" /\ LockStep(t))
        /\ SF_rwlock(object = "rwlock" /\ ReadCas(t))
        /\ WF_rwlock(object = "rwlock" /\ UnlockStep(t))
        /\ WF_rwlock(object = "rwlock" /\ CallUnlock(t))
        /\ WF_barrier(object = "barrier" /\ B!Step(t))
        /\ WF_flag(object = "once" /\ O!Step(t))
    /\ WF_handle(object = "join" /\ J!ChildExit)
    /\ \A j \in Joiners : WF_handle(object = "join" /\ J!JoinStep(j))

-----------------------------------------------------------------------------
\* The n-th lc_barrier_wait of a thread returns only after all came to theirs.
NobodyProceedsEarly == B!NobodyProceedsEarly

\* The function given to lc_call_once runs once, and no call returns before.
ReturnsAfterFunction == O!ReturnsAfterFunction

\* lc_thread_join unmaps the thread's own stack, once, after the thread left it,
\* and no stack stays mapped when creation failed or the joins have returned.
StackUnmappedOnce == J!StackUnmappedOnce

\* No sleeper is forgotten: every call to lock the read-write lock returns, every
\* lc_barrier_wait does, round after round, every lc_call_once does, and so does
\* a join unless another join of the handle waits at the same time.
WaitersReturn ==
    /\ object = "rwlock" => LockReturns
    /\ object = "barrier" => B!AllRoundsComplete
    /\ object = "once" => O!CallsReturn
    /\ object = "join" => J!LoneJoinReturns

=============================================================================
