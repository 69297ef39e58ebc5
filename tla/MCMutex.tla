------------------------------ MODULE MCMutex -------------------------------
(***************************************************************************)
(* Model-checking instance for the mutex and the condition variable of     *)
(* src/thread.c: object says whether a behaviour is about a mutex alone or *)
(* about a condition variable with the mutex given to lc_condvar_wait.     *)
(***************************************************************************)
EXTENDS Mutex

CONSTANTS Producers, Consumers, SeqMod, MaxItems, MaxInterrupts

VARIABLES object,                                   \* constant in a behaviour
          word, cpc, cret, seq, seen, items, produced, interrupts

C == INSTANCE CondVar WITH state <- word, pc <- cpc, ret <- cret

ASSUME C!SeqAssumption

mutex == vars
condvar == <<word, cpc, cret, seq, seen, items, produced, interrupts>>
mcVars == <<object, mutex, condvar>>

MCInit == object \in {"mutex", "condvar"} /\ Init /\ C!Init

MutexNext == object = "mutex" /\ Next /\ UNCHANGED <<object, condvar>>
CondVarNext == object = "condvar" /\ C!Next /\ UNCHANGED <<object, mutex>>

MCNext == MutexNext \/ CondVarNext

\* The fairness of each module, for the object that moves.
MCSpec ==
    /\ MCInit /\ [][MCNext]_mcVars
    /\ \A t \in Threads :
        /\ WF_mutex(object = "mutex" /\ LockStep(t))
        /\ WF_mutex(object = "mutex" /\ UnlockStep(t))
        /\ WF_mutex(object = "mutex" /\ CallUnlock(t))
    /\ \A t \in C!Users : WF_condvar(object = "condvar" /\ C!Step(t))

-----------------------------------------------------------------------------
\* lc_condvar_wait returns with the mutex held, and held by nobody else.
WaitReturnsLocked == C!WaitReturnsLocked

\* Every lc_mutex_lock returns while no holder keeps the mutex for ever, and
\* every item made under the mutex and signalled is consumed: no wake-up is lost.
NoLostWakeUp == /\ object = "mutex" => LockReturns
                /\ object = "condvar" => C!ItemsConsumed

=============================================================================
