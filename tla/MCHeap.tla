------------------------------- MODULE MCHeap -------------------------------
(***************************************************************************)
(* Model-checking instance for the parts of src/heap.c: the pages of small *)
(* blocks, the cache of large blocks, the table of per-thread locals, and  *)
(* the headers and statistics.  These parts have no word in common, so     *)
(* each is explored alone: part says which one a behaviour is about, and   *)
(* the others stay as they were initialised.                               *)
(***************************************************************************)
EXTENDS HeapPage, LargeCache, HeapLocal, TLC

CONSTANTS HeapBlocks, NoBlock, Sizes, SizeMod, MinShift, Doublings,
          HeaderSize, MaxCalls                      \* of the statistics

VARIABLES part,                                     \* constant in a behaviour
          header, stat, spc, call, req, old, got, active, bytes, peak, calls,
          highest, grew, raced

S == INSTANCE HeapStats WITH Threads <- Callers, Blocks <- HeapBlocks,
                             pc <- spc, cur <- got

small == vars
stats == <<header, stat, spc, call, req, old, got, active, bytes, peak, calls,
           highest, grew, raced>>
heapVars == <<part, small, large, locals, stats>>

HeapInit == part \in {"small", "large", "locals", "stats"} /\ Init /\ CacheInit /\ LocalInit /\ S!Init

SmallNext == part = "small" /\ Next /\ UNCHANGED <<part, large, locals, stats>>
LargeNext == part = "large" /\ CacheNext /\ UNCHANGED <<part, small, locals, stats>>
LocalsNext == part = "locals" /\ LocalNext /\ UNCHANGED <<part, small, large, stats>>
StatsNext == part = "stats" /\ S!Next /\ UNCHANGED <<part, small, large, locals>>
\* The threads have made the calls that the bound allows.
StatsDone == part = "stats" /\ calls = MaxCalls /\ S!Quiet /\ UNCHANGED heapVars

HeapNext == SmallNext \/ LargeNext \/ LocalsNext \/ StatsNext \/ StatsDone

HeapSpec == HeapInit /\ [][HeapNext]_heapVars

Symmetry == Permutations(Threads) \union Permutations(Callers) \union Permutations(HeapBlocks)

-----------------------------------------------------------------------------
\* A request gets the smallest class that holds it and its header, and a block
\* is never smaller than what was last asked of it; and when no call is under
\* way the counters add up to the blocks that are live, the peak of
\* active_allocs with them.
AccountsExact == S!ClassesExact /\ S!StatsAddUp

=============================================================================
