----------------------------- MODULE MCLibrary ------------------------------
(***************************************************************************)
(* Model-checking instance for six parts of the library that use none of   *)
(* one another's state: the ring buffer, the hash map, the array and the   *)
(* list of src/containers.c, the exit of a process (src/lifecycle.c) and   *)
(* its log (src/log.c).  object says which one a behaviour is about; the   *)
(* others stay as they were initialised.                                   *)
(***************************************************************************)
EXTENDS RingBuf, TLC                                  \* the ring buffer

CONSTANTS Null, Threads,
          k1, k2, k3, k4, k5, k6,                     \* the keys of the hash map
          InitialCapacity, LoadPercent, MaxCapacity,
          Garbage, SizeMod, ElementSize, MaxBytes, InitialSlots,  \* of the array
          Nodes, Lists, NoNode,                       \* of the list
          Signals, User, MaxHandlers, MaxSignals,     \* of the process
          Fds, NoFd, Nobody, MaxLines                 \* of the log

\* Six keys whose home slots collide and whose probes wrap around.
MCHash == k1 :> 3 @@ k2 :> 3 @@ k3 :> 7 @@ k4 :> 0 @@ k5 :> 4 @@ k6 :> 11

VARIABLES object,                                     \* constant in a behaviour
          entries, table_size, count, copies, ref,
          block, bytes, array_count, slots, array_ref, given,
          prev, next, list_count, list_ref, iter,
          handler_count, enabled, exiting, stack, delivered, ran, ended,
          log_min_level, log_fd, log_format, log_lock, pc, lines, level,
          parts, part, wfd, outputs

H == INSTANCE HashMap WITH Keys <- {k1, k2, k3, k4, k5, k6}, Hash <- MCHash,
                           capacity <- table_size
C == INSTANCE Containers WITH Elements <- Values, data <- block, capacity <- slots
E == INSTANCE Lifecycle
G == INSTANCE Log WITH out <- outputs

ASSUME H!HashMapAssumption /\ C!ArrayAssumption

ring == vars
map == <<entries, table_size, count, copies, ref>>
array == <<block, bytes, array_count, slots, array_ref, given>>
list == <<prev, next, list_count, list_ref, iter>>
process == <<handler_count, enabled, exiting, stack, delivered, ran, ended>>
log == <<log_min_level, log_fd, log_format, log_lock, pc, lines, level,
         parts, part, wfd, outputs>>
libraryVars == <<object, ring, map, array, list, process, log>>

LibraryInit ==
    /\ object \in {"ring", "map", "array", "list", "process", "log"}
    /\ Init /\ H!Init /\ C!ArrayInit /\ C!ListInit /\ E!Init /\ G!Init
    /\ object # "ring" => capacity = 0
    /\ object # "log" => log_min_level = 0 /\ log_fd = CHOOSE fd \in Fds : TRUE

RingNext == object = "ring" /\ Next /\ UNCHANGED <<object, map, array, list, process, log>>
MapNext == object = "map" /\ H!Next /\ UNCHANGED <<object, ring, array, list, process, log>>
ArrayNext == object = "array" /\ C!ArrayNext /\ UNCHANGED <<object, ring, map, list, process, log>>
ListNext == object = "list" /\ C!ListNext /\ UNCHANGED <<object, ring, map, array, process, log>>
ProcessNext == object = "process" /\ E!Next /\ UNCHANGED <<object, ring, map, array, list, log>>
LogNext == object = "log" /\ G!Next /\ UNCHANGED <<object, ring, map, array, list, process>>

LibraryNext == RingNext \/ MapNext \/ ArrayNext \/ ListNext \/ ProcessNext \/ LogNext

\* The fairness of module Lifecycle; the others ask for none.
LibrarySpec ==
    /\ LibraryInit /\ [][LibraryNext]_libraryVars
    /\ \A t \in Threads : WF_process(object = "process" /\ E!Step(t))

-----------------------------------------------------------------------------
\* The hash map is the map its caller built, and owns its keys.
IsTheMap == H!IsTheMap

\* The array holds the sequence its caller built, moves and all, in a block as
\* large as its capacity says, whatever a size wraps to; every list is the
\* sequence its caller built in both directions, its count true, and a loop that
\* removes the node it is at visits every node once.
SequencesExact ==
    /\ object = "array" => C!IsTheSequence /\ C!CapacityAllocated
    /\ object = "list" => C!ListsExact

\* The atexit handlers run in reverse order, each at most once, one at a time,
\* and no signal to the thread that runs them cuts the shutdown short.
ShutdownExact == E!RunsLifoOnce /\ E!ShutdownFinishes

\* lc_exit ends the process.
ExitEnds == E!ExitEnds

\* A log line is complete on its output unless the output was changed under
\* it, and no other line's writes are between its own.
WholeLines == G!WholeLines

=============================================================================
