----------------------------- MODULE ThreadJoin -----------------------------
(***************************************************************************)
(* lc_thread_create_with_stack and lc_thread_join of src/thread.c for one  *)
(* lc_thread handle, with the part of the kernel they rely on: mmap and    *)
(* munmap, clone with CLONE_PARENT_SETTID and CLONE_CHILD_CLEARTID, futex. *)
(* Other code of the process maps memory at the same time, so an address   *)
(* that was unmapped may at once belong to somebody else.                  *)
(***************************************************************************)
EXTENDS Naturals, FiniteSets

CONSTANTS Joiners,      \* the threads that join the handle
          Addresses,    \* where a stack can be mapped
          Null          \* the NULL pointer

JoinAssumption == Null \notin Addresses /\ Joiners # {}

VARIABLES mem,          \* who owns each address: "free", "stack" or "other"
          stack_base,   \* thread->stack_base
          alive,        \* thread->alive: 1 stands for the tid, 0 for exited
          child,        \* the created thread: "none", "running" or "exited"
          creator,      \* where lc_thread_create_with_stack is
          stack,        \* its local variable stack
          pc,           \* where each joiner is
          claimed       \* the local variable stack of each joiner

vars == <<mem, stack_base, alive, child, creator, stack, pc, claimed>>

Sleepers == {j \in Joiners : pc[j] = "sleep"}

-----------------------------------------------------------------------------
(* Mutated forms of the operations below, for sensitivity checks only.     *)

\* The stack pointer is read, not exchanged: two joins may both see it.
ClaimByLoad(j) ==
    /\ pc[j] = "claim"
    /\ claimed' = [claimed EXCEPT ![j] = stack_base]
    /\ pc' = [pc EXCEPT ![j] = IF stack_base # Null THEN "unmap" ELSE "joined"]
    /\ UNCHANGED <<mem, stack_base, alive, child, creator, stack>>

\* The kernel clears the word but is not asked to wake anybody.
ChildExitSilent ==
    /\ child = "running"
    /\ child' = "exited"
    /\ alive' = 0
    /\ UNCHANGED <<mem, stack_base, creator, stack, pc, claimed>>

\* The join unmaps without looking whether there was a stack to claim.
ClaimUnchecked(j) ==
    /\ pc[j] = "claim"
    /\ claimed' = [claimed EXCEPT ![j] = stack_base]
    /\ stack_base' = Null
    /\ pc' = [pc EXCEPT ![j] = "unmap"]
    /\ UNCHANGED <<mem, alive, child, creator, stack>>

-----------------------------------------------------------------------------
(* lc_thread_create_with_stack.                                            *)

MapStack ==
    /\ creator = "map"
    /\ \/ \E a \in Addresses :
             /\ mem[a] = "free"
             /\ mem' = [mem EXCEPT ![a] = "stack"]
             /\ stack' = a
             /\ creator' = "protect"
       \/ /\ creator' = "failed"          \* MAP_FAILED
          /\ UNCHANGED <<mem, stack>>
    /\ UNCHANGED <<stack_base, alive, child, pc, claimed>>

Protect ==
    /\ creator = "protect"
    /\ \/ /\ stack_base' = stack
          /\ creator' = "clone"
          /\ UNCHANGED mem
       \/ /\ mem' = [mem EXCEPT ![stack] = "free"]
          /\ creator' = "failed"
          /\ UNCHANGED stack_base
    /\ UNCHANGED <<alive, child, stack, pc, claimed>>

\* The kernel stores the tid in alive before either thread returns from clone.
Clone ==
    /\ creator = "clone"
    /\ \/ /\ alive' = 1
          /\ child' = "running"
          /\ creator' = "created"
          /\ UNCHANGED mem
       \/ /\ mem' = [mem EXCEPT ![stack] = "free"]
          /\ creator' = "failed"
          /\ UNCHANGED <<alive, child>>
    /\ UNCHANGED <<stack_base, stack, pc, claimed>>

\* The thread function returns: SYS_exit.  CLONE_CHILD_CLEARTID makes the
\* kernel clear the word and wake ONE thread that waits on it.
ChildExit ==
    /\ child = "running"
    /\ child' = "exited"
    /\ alive' = 0
    /\ \/ Sleepers = {} /\ UNCHANGED pc
       \/ \E j \in Sleepers : pc' = [pc EXCEPT ![j] = "load"]
    /\ UNCHANGED <<mem, stack_base, creator, stack, claimed>>

(* lc_thread_join.                                                         *)

CallJoin(j) ==
    /\ pc[j] = "idle"
    /\ creator = "created"
    /\ pc' = [pc EXCEPT ![j] = "load"]
    /\ UNCHANGED <<mem, stack_base, alive, child, creator, stack, claimed>>

Load(j) ==
    /\ pc[j] = "load"
    /\ pc' = [pc EXCEPT ![j] = IF alive # 0 THEN "wait" ELSE "claim"]
    /\ UNCHANGED <<mem, stack_base, alive, child, creator, stack, claimed>>

\* futex_wait(&alive, tid); the word holds the tid or zero.
Wait(j) ==
    /\ pc[j] = "wait"
    /\ pc' = [pc EXCEPT ![j] = IF alive = 1 THEN "sleep" ELSE "load"]
    /\ UNCHANGED <<mem, stack_base, alive, child, creator, stack, claimed>>

Claim(j) ==
    /\ pc[j] = "claim"
    /\ claimed' = [claimed EXCEPT ![j] = stack_base]
    /\ stack_base' = Null
    /\ pc' = [pc EXCEPT ![j] = IF stack_base # Null THEN "unmap" ELSE "joined"]
    /\ UNCHANGED <<mem, alive, child, creator, stack>>

\* munmap tears down whatever is at the address.
Unmap(j) ==
    /\ pc[j] = "unmap"
    /\ mem' = [mem EXCEPT ![claimed[j]] = "free"]
    /\ pc' = [pc EXCEPT ![j] = "joined"]
    /\ UNCHANGED <<stack_base, alive, child, creator, stack, claimed>>

-----------------------------------------------------------------------------
\* Some other part of the process maps or unmaps a page of its own.
OtherMaps ==
    /\ \E a \in Addresses :
          \/ mem[a] = "free" /\ mem' = [mem EXCEPT ![a] = "other"]
          \/ mem[a] = "other" /\ mem' = [mem EXCEPT ![a] = "free"]
    /\ UNCHANGED <<stack_base, alive, child, creator, stack, pc, claimed>>

\* A signal handler ran in a joiner: EINTR, back into the loop.
Interrupt(j) ==
    /\ pc[j] = "sleep"
    /\ pc' = [pc EXCEPT ![j] = "load"]
    /\ UNCHANGED <<mem, stack_base, alive, child, creator, stack, claimed>>

Init ==
    /\ mem = [a \in Addresses |-> "free"]
    /\ stack_base = Null
    /\ alive = 0
    /\ child = "none"
    /\ creator = "map"
    /\ stack = Null
    /\ pc = [j \in Joiners |-> "idle"]
    /\ claimed = [j \in Joiners |-> Null]

Create == MapStack \/ Protect \/ Clone
JoinStep(j) == Load(j) \/ Wait(j) \/ Claim(j) \/ Unmap(j)

Next ==
    \/ Create \/ ChildExit \/ OtherMaps
    \/ \E j \in Joiners : CallJoin(j) \/ JoinStep(j) \/ Interrupt(j)

Spec == Init /\ [][Next]_vars

\* The created thread ends some day, and joiners that are awake keep going.
Fairness == WF_vars(ChildExit) /\ \A j \in Joiners : WF_vars(JoinStep(j))

FairSpec == Spec /\ Fairness

-----------------------------------------------------------------------------
\* The types of the stacks and of each joiner; a joiner unmaps what it claimed.
TypeOK ==
    /\ mem \in [Addresses -> {"free", "stack", "other"}]
    /\ stack_base \in Addresses \union {Null}
    /\ alive \in {0, 1}
    /\ child \in {"none", "running", "exited"}
    /\ creator \in {"map", "protect", "clone", "created", "failed"}
    /\ stack \in Addresses \union {Null}
    /\ pc \in [Joiners -> {"idle", "load", "wait", "sleep", "claim", "unmap", "joined"}]
    /\ claimed \in [Joiners -> Addresses \union {Null}]
    /\ \A j \in Joiners : pc[j] = "unmap" => claimed[j] # Null

\* A join that is about to unmap has the thread's own stack in hand, nobody
\* else is about to unmap it too, and the thread has left it: the double
\* unmap that "would tear down whatever a later mmap has since reused" cannot
\* happen, whatever the joins' interleaving.
UnmapsOwnStack ==
    \A j \in Joiners :
        pc[j] = "unmap" =>
            /\ claimed[j] = stack /\ mem[stack] = "stack"
            /\ child = "exited"
            /\ \A k \in Joiners \ {j} : pc[k] # "unmap"

\* A running thread has its stack, and a stack outlives its thread only until
\* the join: once a join returned, or creation failed, nothing is left mapped.
NoStackLeak ==
    /\ child = "running" => mem[stack] = "stack"
    /\ creator = "failed" => \A a \in Addresses : mem[a] # "stack"
    /\ (\A j \in Joiners : pc[j] = "joined") => \A a \in Addresses : mem[a] # "stack"

\* Every join of a created thread returns: "a second (or concurrent) join is a
\* no-op".
JoinReturns == \A j \in Joiners : pc[j] = "load" ~> pc[j] = "joined"

Waiting(j) == pc[j] \in {"load", "wait", "sleep"}

\* A join returns unless another join of the handle waits at the same time:
\* the kernel's single wake-up at the thread's exit is not lost between the
\* load of alive and the sleep, and a join of an exited thread does not wait.
LoneJoinReturns ==
    \A j \in Joiners :
        pc[j] = "load" ~>
            (pc[j] = "joined" \/ \E k \in Joiners \ {j} : Waiting(j) /\ Waiting(k))

\* Both: the thread's stack is unmapped once, by a join, after the thread left
\* it, or by the failed creation.
StackUnmappedOnce == UnmapsOwnStack /\ NoStackLeak

-----------------------------------------------------------------------------
(* The inductive invariant of the proofs in module Thread_proofs.          *)

Mapped == {a \in Addresses : mem[a] = "stack"}

\* How far the creation has come, and what it holds.
Creation ==
    /\ creator \in {"map", "failed"} => Mapped = {}
    /\ creator \in {"protect", "clone"} => stack \in Addresses /\ Mapped = {stack}
    /\ creator \in {"map", "protect"} => stack_base = Null
    /\ creator = "clone" => stack_base = stack
    /\ creator # "created" => child = "none" /\ \A j \in Joiners : pc[j] = "idle"
    /\ creator = "created" => child # "none" /\ stack \in Addresses

\* The stack of a created thread belongs to the handle, to the one join that
\* claimed it, or to nobody any more; joins get that far after the thread's exit.
Handover ==
    /\ alive = 1 <=> child = "running"
    /\ \A j \in Joiners : pc[j] \in {"claim", "unmap", "joined"} => child = "exited"
    /\ \A j \in Joiners : pc[j] \in {"unmap", "joined"} => stack_base = Null
    /\ \A j \in Joiners : pc[j] = "unmap" => claimed[j] = stack /\ Mapped = {stack}
    /\ \A j, k \in Joiners : pc[j] = "unmap" /\ pc[k] = "unmap" => j = k
    /\ creator = "created" /\ stack_base # Null => stack_base = stack /\ Mapped = {stack}
    /\ creator = "created" /\ stack_base = Null =>
          /\ child = "exited"
          /\ Mapped = {} \/ \E j \in Joiners : pc[j] = "unmap"

IInv == TypeOK /\ Creation /\ Handover

=============================================================================
