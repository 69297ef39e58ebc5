----------------------------- MODULE RingSetup ------------------------------
(***************************************************************************)
(* lc_async_ring_create and lc_async_ring_destroy of src/async.c: the      *)
(* descriptor, the two or three mappings and the block of a ring, the      *)
(* places its pointers go to, and what is given back when a step fails.    *)
(* The kernel chooses the sizes of the rings, the offsets of their fields  *)
(* and whether both rings share a mapping.                                 *)
(***************************************************************************)
EXTENDS Naturals, FiniteSets

CONSTANTS Params         \* the kernel's answers: [sq_size, cq_size, sq_entries, single]

VARIABLES pc, params,
          held,          \* the descriptor, the block and the mappings the program holds
          size,          \* the locals sq_ring_size and cq_ring_size: [sq, cq]
          ring,          \* lc_async_ring: where its pointers go, and the sizes kept
          sq_array,      \* the indirection array, once initialised
          stray          \* something was given back that is not held

vars == <<pc, params, held, size, ring, sq_array, stray>>

Thing(at, n) == [at |-> at, size |-> n]
Fd == Thing("fd", 0)
Block == Thing("block", 0)
NoRing == [sq_at |-> "none", cq_at |-> "none", sq_size |-> 0, cq_size |-> 0, pending |-> 0]
Larger(a, b) == IF b > a THEN b ELSE a

\* The local names of the three mappings, the CQ ring's only if it has its own.
Sq == Thing("sq", size.sq)
Cq == IF params.single THEN {} ELSE {Thing("cq", size.cq)}
Sqes == Thing("sqes", params.sq_entries)

\* close and munmap.
Release(things) == stray' = (stray \/ ~ things \subseteq held) /\ held' = held \ things

-----------------------------------------------------------------------------
(* Mutated forms of the operations below, for sensitivity checks only.     *)

\* A refused block forgets the separate mapping of the CQ ring.
AllocateForgetsCq ==
    /\ pc = "allocate"
    /\ Release({Sqes, Sq, Fd}) /\ pc' = "idle"
    /\ UNCHANGED <<params, size, ring, sq_array>>

-----------------------------------------------------------------------------
\* io_uring_setup, and the sizes computed from its answer: one mapping for both
\* rings has the larger size.
Setup(p) ==
    /\ pc = "idle"
    /\ held' = {Fd} /\ params' = p
    /\ LET larger == Larger(p.sq_size, p.cq_size)
       IN  size' = IF p.single THEN [sq |-> larger, cq |-> larger]
                   ELSE [sq |-> p.sq_size, cq |-> p.cq_size]
    /\ pc' = "map_sq"
    /\ UNCHANGED <<ring, sq_array, stray>>

MapSq ==
    /\ pc = "map_sq"
    /\ \/ /\ held' = held \union {Sq} /\ UNCHANGED stray
          /\ pc' = IF params.single THEN "map_sqes" ELSE "map_cq"
       \/ Release({Fd}) /\ pc' = "idle"
    /\ UNCHANGED <<params, size, ring, sq_array>>

MapCq ==
    /\ pc = "map_cq"
    /\ \/ held' = held \union Cq /\ UNCHANGED stray /\ pc' = "map_sqes"
       \/ Release({Sq, Fd}) /\ pc' = "idle"
    /\ UNCHANGED <<params, size, ring, sq_array>>

MapSqes ==
    /\ pc = "map_sqes"
    /\ \/ held' = held \union {Sqes} /\ UNCHANGED stray /\ pc' = "allocate"
       \/ Release({Sq, Fd} \union Cq) /\ pc' = "idle"
    /\ UNCHANGED <<params, size, ring, sq_array>>

\* The block, the pointers of both rings and the identity indirection array.
Allocate ==
    /\ pc = "allocate"
    /\ \/ /\ held' = held \union {Block} /\ UNCHANGED stray
          /\ ring' = [sq_at |-> "sq", cq_at |-> IF params.single THEN "sq" ELSE "cq",
                      sq_size |-> size.sq, cq_size |-> size.cq, pending |-> 0]
          /\ sq_array' = [i \in 0..(params.sq_entries - 1) |-> i]
          /\ pc' = "ready"
       \/ Release({Sqes, Sq, Fd} \union Cq) /\ pc' = "idle" /\ UNCHANGED <<ring, sq_array>>
    /\ UNCHANGED <<params, size>>

\* lc_async_ring_destroy, from what the block recorded.
Destroy ==
    /\ pc = "ready"
    /\ Release({Sqes, Thing(ring.sq_at, ring.sq_size), Fd, Block}
               \union (IF ring.cq_at # ring.sq_at THEN {Thing(ring.cq_at, ring.cq_size)} ELSE {}))
    /\ pc' = "idle" /\ ring' = NoRing /\ sq_array' = <<>>
    /\ UNCHANGED <<params, size>>

Init ==
    /\ pc = "idle" /\ params = [sq_size |-> 0, cq_size |-> 0, sq_entries |-> 0, single |-> FALSE]
    /\ held = {} /\ size = [sq |-> 0, cq |-> 0] /\ ring = NoRing /\ sq_array = <<>> /\ stray = FALSE

Next == (\E p \in Params : Setup(p)) \/ MapSq \/ MapCq \/ MapSqes \/ Allocate \/ Destroy

Spec == Init /\ [][Next]_vars

-----------------------------------------------------------------------------
\* Between calls the program holds nothing of a ring that was refused or
\* destroyed, whichever step failed; of a ring it has the descriptor, the block
\* and mappings that cover both rings whole, shared or not, with every entry of
\* the indirection array pointing at its own slot.  Nothing is given back twice.
RingWhole ==
    /\ ~ stray
    /\ pc = "idle" => held = {}
    /\ pc = "ready" =>
          /\ {Fd, Block, Sqes} \subseteq held
          /\ \E m \in held : m.at = ring.sq_at /\ m.size >= params.sq_size
          /\ \E m \in held : m.at = ring.cq_at /\ m.size >= params.cq_size
          /\ \A i \in 0..(params.sq_entries - 1) : sq_array[i] = i

=============================================================================
