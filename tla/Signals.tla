------------------------------- MODULE Signals ------------------------------
(***************************************************************************)
(* src/signal.c in a program of one thread: what the calls ask of the      *)
(* kernel, and the handlers the kernel then runs between any two steps of  *)
(* the program.  The program keeps the rule that the library's heap        *)
(* imposes: a signal whose handler allocates is blocked around the         *)
(* program's own allocation, which holds the heap's spinlock for a while.  *)
(***************************************************************************)
EXTENDS Integers, Sequences, FiniteSets

CONSTANTS Signals,        \* signal numbers, from 1
          Crash, Shutdown,  \* the signals of lc_on_crash and lc_on_shutdown, in order
          Allocating,     \* the signal whose handler allocates
          MaxRaised       \* how many signals are sent

VARIABLES action,         \* of each signal: handler and restorer, as the kernel has them
          mask,           \* the bits of the 64-bit mask that are set
          pending, raised,
          frames,         \* signal frames, the innermost first: [signal, mask, stage]
          lock,           \* the heap's spinlock
          pc, todo,       \* the program; signals an on_* call has still to handle
          asked,          \* the signals the program has blocked (ghost)
          ended           \* "no", "killed" by a signal, or "lost" without a way back

vars == <<action, mask, pending, raised, frames, lock, pc, todo, asked, ended>>
kernel == <<pending, raised, frames>>

Default == [handler |-> "default", restorer |-> FALSE]

-----------------------------------------------------------------------------
(* Mutated forms of the operations below, for sensitivity checks only.     *)

\* The bit of the next signal.
BitOfNext(signo) == {signo}

\* The handler is installed with the flags of a reset.
NoRestorer(handler) == [handler |-> handler, restorer |-> FALSE]

-----------------------------------------------------------------------------
(* The calls of the program, which runs while no handler does.             *)

\* (uint64_t)1 << (signo - 1)
Bit(signo) == {signo - 1}

\* signal_set_action's struct: SA_RESTORER and the trampoline, an empty mask.
Action(handler) == [handler |-> handler, restorer |-> TRUE]

Running == frames = <<>> /\ ended = "no"
Install(signo, act) == action' = [action EXCEPT ![signo] = act]

Handle(signo) ==
    /\ Running /\ pc = "run"
    /\ Install(signo, Action("handler"))
    /\ UNCHANGED <<mask, kernel, lock, pc, todo, asked, ended>>

Ignore(signo) ==
    /\ Running /\ pc = "run"
    /\ Install(signo, Action("ignore"))
    /\ UNCHANGED <<mask, kernel, lock, pc, todo, asked, ended>>

Reset(signo) ==
    /\ Running /\ pc = "run"
    /\ Install(signo, Default)
    /\ UNCHANGED <<mask, kernel, lock, pc, todo, asked, ended>>

\* lc_on_crash and lc_on_shutdown handle one signal after another.
On(list) ==
    /\ Running /\ pc = "run"
    /\ pc' = "on" /\ todo' = list
    /\ UNCHANGED <<action, mask, kernel, lock, asked, ended>>

OnStep ==
    /\ Running /\ pc = "on"
    /\ Install(Head(todo), Action("handler")) /\ todo' = Tail(todo)
    /\ pc' = IF Len(todo) = 1 THEN "run" ELSE "on"
    /\ UNCHANGED <<mask, kernel, lock, asked, ended>>

Block(signo) ==
    /\ Running /\ pc = "run"
    /\ mask' = mask \union Bit(signo) /\ asked' = asked \union {signo}
    /\ UNCHANGED <<action, kernel, lock, pc, todo, ended>>

Unblock(signo) ==
    /\ Running /\ pc = "run"
    /\ mask' = mask \ Bit(signo) /\ asked' = asked \ {signo}
    /\ UNCHANGED <<action, kernel, lock, pc, todo, ended>>

\* The program allocates with the allocating handler's signal blocked.
TakeLock ==
    /\ Running /\ pc = "run" /\ Allocating \in asked
    /\ lock' = "program" /\ pc' = "locked"
    /\ UNCHANGED <<action, mask, kernel, todo, asked, ended>>

ReleaseLock ==
    /\ Running /\ pc = "locked"
    /\ lock' = "free" /\ pc' = "run"
    /\ UNCHANGED <<action, mask, kernel, todo, asked, ended>>

-----------------------------------------------------------------------------
(* The kernel, and the handlers.                                           *)

Raise(signo) ==
    /\ ended = "no" /\ raised < MaxRaised
    /\ raised' = raised + 1 /\ pending' = pending \union {signo}
    /\ UNCHANGED <<action, mask, frames, lock, pc, todo, asked, ended>>

\* A pending signal whose bit is clear is delivered between two instructions:
\* the frame keeps the mask, and the signal is blocked in its handler.
Deliver(signo) ==
    /\ ended = "no" /\ signo \in pending /\ (signo - 1) \notin mask
    /\ pending' = pending \ {signo}
    /\ IF action[signo].handler = "handler"
       THEN /\ frames' = <<[signal |-> signo, mask |-> mask, stage |-> "body"]>> \o frames
            /\ mask' = mask \union {signo - 1}
            /\ UNCHANGED ended
       ELSE /\ ended' = IF action[signo].handler = "default" THEN "killed" ELSE ended
            /\ UNCHANGED <<frames, mask>>
    /\ UNCHANGED <<action, raised, lock, pc, todo, asked>>

\* The body of a handler; the allocating one spins for the heap's lock, takes it ...
HandlerBody ==
    /\ ended = "no" /\ frames # <<>> /\ Head(frames).stage = "body"
    /\ IF Head(frames).signal # Allocating
       THEN frames' = [frames EXCEPT ![1].stage = "return"] /\ UNCHANGED lock
       ELSE lock = "free" /\ lock' = "handler" /\ frames' = [frames EXCEPT ![1].stage = "release"]
    /\ UNCHANGED <<action, mask, pending, raised, pc, todo, asked, ended>>

\* ... and gives it back.
HandlerRelease ==
    /\ ended = "no" /\ frames # <<>> /\ Head(frames).stage = "release"
    /\ lock' = "free" /\ frames' = [frames EXCEPT ![1].stage = "return"]
    /\ UNCHANGED <<action, mask, pending, raised, pc, todo, asked, ended>>

\* The handler returns into signal_restorer, whose rt_sigreturn restores the
\* interrupted context and its mask; without a restorer there is no way back.
HandlerReturn ==
    /\ ended = "no" /\ frames # <<>> /\ Head(frames).stage = "return"
    /\ IF action[Head(frames).signal].restorer
       THEN frames' = Tail(frames) /\ mask' = Head(frames).mask /\ UNCHANGED ended
       ELSE ended' = "lost" /\ UNCHANGED <<frames, mask>>
    /\ UNCHANGED <<action, pending, raised, lock, pc, todo, asked>>

-----------------------------------------------------------------------------
Init ==
    /\ action = [s \in Signals |-> Default]
    /\ mask = {} /\ pending = {} /\ raised = 0 /\ frames = <<>>
    /\ lock = "free" /\ pc = "run" /\ todo = <<>> /\ asked = {} /\ ended = "no"

ProgramStep ==
    \/ \E s \in Signals : Handle(s) \/ Ignore(s) \/ Reset(s) \/ Block(s) \/ Unblock(s)
    \/ On(Crash) \/ On(Shutdown) \/ OnStep \/ TakeLock \/ ReleaseLock
HandlerStep == HandlerBody \/ HandlerRelease \/ HandlerReturn
KernelStep == \E s \in Signals : Raise(s) \/ Deliver(s)

Next == ProgramStep \/ HandlerStep \/ KernelStep

Spec == Init /\ [][Next]_vars

\* The thread runs: a handler takes its next step when it can.
FairSpec == Spec /\ WF_vars(HandlerStep)

-----------------------------------------------------------------------------
\* Handlers nest and unwind without a trace: whatever they interrupted, when
\* none runs the kernel blocks exactly the signals the program has blocked, no
\* signal's handler is entered again before it has returned, and no handler is
\* left without a way back.
ContextRestored ==
    /\ frames = <<>> => mask = {s - 1 : s \in asked}
    /\ \A j, k \in DOMAIN frames : j # k => frames[j].signal # frames[k].signal
    /\ ended # "lost"

\* Every handler that is entered returns: one that allocates never spins for a
\* lock that the code it interrupted holds (heap.c's cold path).
HandlersReturn == [](frames # <<>> => <>(frames = <<>> \/ ended = "killed"))

=============================================================================
