----------------------------- MODULE Coroutine ------------------------------
(***************************************************************************)
(* src/coroutine.c: one thread, one scheduler, and the coroutines it       *)
(* switches between.  A saved context is known by what resuming it would   *)
(* do: "entry" enters the trampoline, "saved" continues a suspended call,  *)
(* and "spent" or "dead" run off into a frame that is gone, or into the    *)
(* __builtin_unreachable() behind a coroutine's last yield.                *)
(***************************************************************************)
EXTENDS Naturals, FiniteSets, FiniteSetsExt

CONSTANTS Capacity,     \* the capacity asked for
          CountMod,     \* 2^32: active_count is kept modulo it
          MainYields,   \* does main yield outside run, after a scheduler ran?
          Main,         \* the caller of lc_scheduler_run
          Wild          \* control after a switch to an unusable context

Indices == 0..(Capacity - 1)

ASSUME CoroutineAssumption ==
    /\ Capacity \in Nat \ {0}
    /\ CountMod \in Nat /\ CountMod > Capacity
    /\ MainYields \in BOOLEAN
    /\ Main \notin Indices /\ Wild \notin Indices \union {Main}

VARIABLES capacity, count, active_count, current,  \* lc_scheduler
          state, stack,  \* coroutines[i].state, and is its stack mapped
          context,       \* coroutines[i].context, and main_context at Main
          tls,           \* does the thread's scheduler key point here?
          running        \* whose instructions the thread executes

vars == <<capacity, count, active_count, current, state, stack, context, tls, running>>

Created == 0..(count - 1)
Unfinished == {i \in Created : state[i] # "FINISHED"}

\* Main and the coroutines themselves create coroutines.
MayCreate == running # Wild

\* lc_coroutine_switch(save, restore): the thread continues at `restore`.
Switch(save, as, restore) ==
    /\ context' = [context EXCEPT ![save] = as, ![restore] = "spent"]
    /\ running' = IF save = restore \/ context[restore] \in {"entry", "saved"}
                  THEN restore ELSE Wild

-----------------------------------------------------------------------------
(* Mutated forms of the operations below, for sensitivity checks only.     *)

\* run() counts and starts finished coroutines too.
RunResurrects ==
    /\ running = Main
    /\ count > 0
    /\ tls' = TRUE
    /\ active_count' = count
    /\ current' = 0
    /\ state' = [state EXCEPT ![0] = "RUNNING"]
    /\ Switch(Main, "saved", 0)
    /\ UNCHANGED <<capacity, count, stack>>

\* The search for another coroutine starts at index 0, not behind the caller.
AfterFromZero(from, st) ==
    LET ready == {k \in Created : st[k] # "FINISHED"}
    IN  IF ready = {} THEN Main
        ELSE IF ready = {from} THEN from ELSE Min(ready \ {from})

\* A refused mprotect leaves the stack mapped.
CreateLeaks ==
    /\ MayCreate
    /\ count < capacity
    /\ stack' = [stack EXCEPT ![count] = TRUE]
    /\ UNCHANGED <<capacity, count, active_count, current, state, context, tls, running>>

-----------------------------------------------------------------------------
\* The first unfinished coroutine after `from`, round-robin, `from` last; as
\* states st describe them.
After(from, st) ==
    LET steps == {k \in 1..count : st[(from + k) % count] # "FINISHED"}
    IN  IF steps = {} THEN Main ELSE (from + Min(steps)) % count

\* lc_coroutine_yield behind its first test; `as` is what the caller's saved
\* context is good for, and st the states it starts from.
SwitchToNext(st, as) ==
    LET ready == IF st[current] = "RUNNING" THEN [st EXCEPT ![current] = "READY"] ELSE st
        next == After(current, ready)
    IN  /\ Switch(current, as, next)
        /\ IF next = Main
           THEN state' = ready /\ UNCHANGED current
           ELSE state' = [ready EXCEPT ![next] = "RUNNING"] /\ current' = next

\* lc_coroutine_create, where mmap and mprotect succeed; when one of them fails
\* it restores count, unmaps and returns NULL, as it does at capacity.
Create ==
    /\ MayCreate
    /\ count < capacity
    /\ count' = count + 1
    /\ state' = [state EXCEPT ![count] = "READY"]
    /\ stack' = [stack EXCEPT ![count] = TRUE]
    /\ context' = [context EXCEPT ![count] = "entry"]
    /\ UNCHANGED <<capacity, active_count, current, tls, running>>

\* lc_scheduler_run up to its switch; it returns before that when nothing is
\* runnable, having set the key.
Run ==
    /\ running = Main
    /\ count > 0
    /\ tls' = TRUE
    /\ IF Unfinished = {}
       THEN UNCHANGED <<active_count, current, state, context, running>>
       ELSE /\ active_count' = Cardinality(Unfinished)
            /\ current' = Min(Unfinished)
            /\ state' = [state EXCEPT ![Min(Unfinished)] = "RUNNING"]
            /\ Switch(Main, "saved", Min(Unfinished))
    /\ UNCHANGED <<capacity, count, stack>>

\* lc_coroutine_yield called by a coroutine.
Yield(i) ==
    /\ running = i
    /\ SwitchToNext(state, "saved")
    /\ UNCHANGED <<capacity, count, active_count, stack, tls>>

\* The end of coroutine_trampoline: mark the coroutine finished and yield for
\* the last time.
Finish(i) ==
    /\ running = i
    /\ SwitchToNext([state EXCEPT ![i] = "FINISHED"], "dead")
    /\ active_count' = (active_count + CountMod - 1) % CountMod
    /\ UNCHANGED <<capacity, count, stack, tls>>

\* lc_coroutine_yield called by main: without a scheduler, or with an empty one,
\* it returns.
MainYield ==
    /\ running = Main
    /\ IF tls /\ count > 0
       THEN MainYields /\ SwitchToNext(state, "saved")
       ELSE UNCHANGED <<current, state, context, running>>
    /\ UNCHANGED <<capacity, count, active_count, stack, tls>>

\* lc_scheduler_destroy, and a later lc_scheduler_create_with_capacity into the
\* same lc_scheduler, whose allocation may fail.  The thread's key still points
\* at it.
Destroy ==
    /\ running = Main
    /\ stack' = [i \in Indices |-> IF i \in Created THEN FALSE ELSE stack[i]]
    /\ count' = 0
    /\ active_count' = 0
    /\ capacity' = 0
    /\ UNCHANGED <<current, state, context, tls, running>>

CreateScheduler ==
    /\ running = Main
    /\ capacity = 0
    /\ capacity' \in {0, Capacity}
    /\ current' = 0
    /\ state' = [i \in Indices |-> "READY"]
    /\ context' = [i \in Indices \union {Main} |-> "dead"]
    /\ UNCHANGED <<count, active_count, stack, tls, running>>

-----------------------------------------------------------------------------
\* The zeroed scheduler; its contexts resume nothing, LC_COROUTINE_READY is 0.
Init ==
    /\ capacity \in {0, Capacity}
    /\ count = 0
    /\ active_count = 0
    /\ current = 0
    /\ state = [i \in Indices |-> "READY"]
    /\ stack = [i \in Indices |-> FALSE]
    /\ context = [i \in Indices \union {Main} |-> "dead"]
    /\ tls = FALSE
    /\ running = Main

Next ==
    \/ Create \/ Run \/ MainYield \/ Destroy \/ CreateScheduler
    \/ \E i \in Indices : Yield(i) \/ Finish(i)

Spec == Init /\ [][Next]_vars

\* A coroutine that has the thread goes on until it yields or returns: the
\* scheduler is cooperative and relies on that.
FairSpec == Spec /\ WF_vars(\E i \in Indices : Yield(i) \/ Finish(i))

-----------------------------------------------------------------------------
\* The types of the scheduler; no more coroutines than it has room for.
TypeOK ==
    /\ capacity \in {0, Capacity}
    /\ count \in 0..capacity
    /\ active_count \in 0..(CountMod - 1)
    /\ current \in Indices
    /\ state \in [Indices -> {"READY", "RUNNING", "FINISHED"}]
    /\ stack \in [Indices -> BOOLEAN]
    /\ context \in [Indices \union {Main} -> {"entry", "saved", "spent", "dead"}]
    /\ tls \in BOOLEAN
    /\ running \in Indices \union {Main, Wild}

\* Every switch lands in a frame that exists: no finished coroutine is
\* resurrected, not by run() either, and main_context is resumed only while
\* lc_scheduler_run waits in it.  "Called outside a running scheduler ...:
\* nothing to yield to. Return".
ControlIsValid == running # Wild

\* The bookkeeping names the coroutine that executes, alone, on a mapped stack;
\* stacks are mapped for the coroutines created and for nobody else, so
\* lc_scheduler_destroy frees them all.
BookkeepingExact ==
    /\ TypeOK
    /\ \A i \in Created : state[i] = "RUNNING" <=> running = i
    /\ running \in Indices => running = current
    /\ \A i \in Indices : stack[i] <=> i \in Created

\* The inductive strengthening of both: who is suspended can be resumed, and
\* lc_scheduler_run waits in main_context while a coroutine executes.
IInv ==
    /\ BookkeepingExact
    /\ ControlIsValid
    /\ \A i \in Unfinished : running # i => context[i] \in {"entry", "saved"}
    /\ running \in Indices => running \in Created /\ context[Main] = "saved"

\* Round-robin: while the scheduler runs, every unfinished coroutine gets the
\* thread again, whatever the others do between two yields.
NobodyStarves ==
    \A i \in Indices : (running \in Indices /\ i \in Unfinished) ~> running = i

=============================================================================
