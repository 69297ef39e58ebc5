------------------------------ MODULE HeapStats -----------------------------
(***************************************************************************)
(* What src/heap.c records of its blocks: the size class of a request, the *)
(* size in a block's header, its magic number, and the statistics that all *)
(* threads update with relaxed atomic operations.  Where a block comes     *)
(* from is the business of modules HeapPage and LargeCache; here it is     *)
(* given or refused.  The classes are scaled down: four to a doubling from *)
(* 2^MinShift, as in bucket_block_sizes.                                   *)
(***************************************************************************)
EXTENDS Naturals, FiniteSets, Folds

CONSTANTS Threads, Blocks,   \* Blocks: the blocks the heap can give out
          NoBlock,
          Sizes,             \* what is asked for
          SizeMod,           \* 2^64 in the code
          MinShift, Doublings,  \* 5 and 7 in the code
          HeaderSize,        \* 16 in the code
          MaxCalls           \* bound on the calls of all threads

\* bucket_block_sizes, from index 0.
BucketCount == 4 * Doublings + 1
BlockSize(i) == 2^(MinShift + (i \div 4)) + (i % 4) * 2^(MinShift + (i \div 4) - 2)
Large == BucketCount       \* stands for BUCKET_LARGE

VARIABLES header,            \* of each block: [size, bucket, magic], and asked (ghost): its first size
          stat,              \* the stat_* counters
          pc, call, req,     \* each thread's step, its call and its new size
          old, cur,          \* the block given to reallocate or free; the one allocated
          active, bytes, peak,  \* locals of stat_track_alloc and of reset
          calls,
          highest,           \* largest active_allocs and active_bytes since a reset (ghost)
          grew, raced        \* a block grew in place; a reset overlapped a call (ghost)

vars == <<header, stat, pc, call, req, old, cur, active, bytes, peak, calls, highest, grew, raced>>
regs == <<call, req, old, cur>>
temps == <<active, bytes, peak>>
ghosts == <<calls, highest, grew, raced>>

Live == {b \in Blocks : header[b].magic = "live"}
Limit(a, b) == IF a > b THEN a ELSE b
Goto(t, l) == pc' = [pc EXCEPT ![t] = l]
Quiet == \A t \in Threads : pc[t] = "idle"

\* A call begins; it races with a reset in progress.
Called(t, name) ==
    /\ pc[t] = "idle" /\ calls < MaxCalls
    /\ calls' = calls + 1
    /\ call' = [call EXCEPT ![t] = name]
    /\ raced' = (raced \/ \E u \in Threads : call[u] = "reset" /\ pc[u] # "idle")

-----------------------------------------------------------------------------
(* Mutated forms of the operations below, for sensitivity checks only.     *)

\* The group of a request is found from its size without the header.
FindBucketUnpadded(size) ==
    LET needed == size + HeaderSize
        bit == CHOOSE k \in 0..31 : 2^k <= size /\ size < 2^(k + 1)
    IN  IF size > SizeMod - 1 - HeaderSize THEN Large
        ELSE IF needed <= 2^MinShift THEN 0
        ELSE IF needed > BlockSize(BucketCount - 1) THEN Large
        ELSE IF bit < MinShift THEN 0 ELSE 4 * (bit - MinShift)

\* The peak is stored without the compare-exchange.
PeakAllocsStore(t) ==
    /\ pc[t] = "peak_allocs"
    /\ stat' = [stat EXCEPT !.peak_allocs = IF active[t] > peak[t] THEN active[t] ELSE @]
    /\ Goto(t, "load_peak_bytes")
    /\ UNCHANGED <<header, regs, temps, ghosts>>

-----------------------------------------------------------------------------
\* find_bucket: the group from the highest bit of the needed size, then the
\* first class of the group or beyond that is large enough.
FindBucket(size) ==
    LET needed == size + HeaderSize
        bit == CHOOSE k \in 0..31 : 2^k <= needed /\ needed < 2^(k + 1)
        base == 4 * (bit - MinShift)
        fits == {i \in base..(BucketCount - 1) : needed <= BlockSize(i)}
    IN  IF size > SizeMod - 1 - HeaderSize THEN Large
        ELSE IF needed <= 2^MinShift THEN 0
        ELSE IF needed > BlockSize(BucketCount - 1) THEN Large
        ELSE CHOOSE i \in fits : \A j \in fits : i <= j

UsableSize(bucket) == BlockSize(bucket) - HeaderSize

\* What may be called: allocate (or allocate_zeroed), free, reallocate, reset.
CallAllocate(t, size) ==
    /\ Called(t, "allocate")
    /\ req' = [req EXCEPT ![t] = IF size = 0 THEN 1 ELSE size]
    /\ Goto(t, "allocate")
    /\ UNCHANGED <<header, stat, old, cur, temps, highest, grew>>

\* A thread frees or resizes a block only while no other thread does.
Held(b) == \E u \in Threads : pc[u] # "idle" /\ (old[u] = b \/ cur[u] = b)

CallFree(t, b) ==
    /\ Called(t, "free") /\ b \in Live /\ ~ Held(b)
    /\ old' = [old EXCEPT ![t] = b]
    /\ Goto(t, "free_active")
    /\ UNCHANGED <<header, stat, req, cur, temps, highest, grew>>

\* lc_heap_reallocate: in place if the class is large enough, else a new block;
\* a new size of zero frees.
CallReallocate(t, b, size) ==
    /\ Called(t, "reallocate") /\ b \in Live /\ ~ Held(b)
    /\ old' = [old EXCEPT ![t] = b]
    /\ req' = [req EXCEPT ![t] = size]
    /\ Goto(t, IF size = 0 THEN "free_active"
               ELSE IF header[b].bucket # Large /\ size <= UsableSize(header[b].bucket) THEN "in_place"
               ELSE "allocate")
    /\ UNCHANGED <<header, stat, cur, temps, highest, grew>>

\* The statistics of a change in place, and the header.
InPlace(t) ==
    LET b == old[t]
        was == header[b].size
        up == IF req[t] > was THEN req[t] - was ELSE 0
        down == IF req[t] > was THEN 0 ELSE was - req[t]
    IN  /\ pc[t] = "in_place"
        /\ stat' = [stat EXCEPT !.active_bytes = @ + up - down, !.bytes_allocated = @ + up,
                                !.bytes_freed = @ + down]
        /\ header' = [header EXCEPT ![b].size = req[t]]
        /\ highest' = [highest EXCEPT !.bytes = Limit(@, stat'.active_bytes)]
        /\ grew' = (grew \/ up > 0)
        /\ Goto(t, "idle")
        /\ UNCHANGED <<regs, temps, calls, raced>>

\* lc_heap_allocate: a block, or none, for which reallocate keeps the old one.
Allocate(t) ==
    /\ pc[t] = "allocate"
    /\ \/ \E b \in Blocks \ Live :
             /\ ~ Held(b)
             /\ FindBucket(req[t]) = Large => req[t] <= SizeMod - 1 - 2 * HeaderSize
             /\ header' = [header EXCEPT ![b] = [size |-> req[t], bucket |-> FindBucket(req[t]),
                                                 magic |-> "live", asked |-> req[t]]]
             /\ cur' = [cur EXCEPT ![t] = b]
             /\ Goto(t, "total")
       \/ Goto(t, "idle") /\ UNCHANGED <<header, cur>>
    /\ UNCHANGED <<stat, call, req, old, temps, ghosts>>

-----------------------------------------------------------------------------
(* stat_track_alloc.                                                       *)

Total(t) ==
    /\ pc[t] = "total"
    /\ stat' = [stat EXCEPT !.allocs = @ + 1, !.bytes_allocated = @ + req[t]]
    /\ Goto(t, "active")
    /\ UNCHANGED <<header, regs, temps, ghosts>>

Active(t) ==
    /\ pc[t] = "active"
    /\ stat' = [stat EXCEPT !.active_allocs = @ + 1]
    /\ active' = [active EXCEPT ![t] = stat'.active_allocs]
    /\ highest' = [highest EXCEPT !.allocs = Limit(@, stat'.active_allocs)]
    /\ Goto(t, "bytes")
    /\ UNCHANGED <<header, regs, bytes, peak, calls, grew, raced>>

Bytes(t) ==
    /\ pc[t] = "bytes"
    /\ stat' = [stat EXCEPT !.active_bytes = @ + req[t]]
    /\ bytes' = [bytes EXCEPT ![t] = stat'.active_bytes]
    /\ highest' = [highest EXCEPT !.bytes = Limit(@, stat'.active_bytes)]
    /\ Goto(t, "load_peak_allocs")
    /\ UNCHANGED <<header, regs, active, peak, calls, grew, raced>>

LoadPeak(t) ==
    /\ \/ pc[t] = "load_peak_allocs" /\ peak' = [peak EXCEPT ![t] = stat.peak_allocs]
          /\ Goto(t, "peak_allocs")
       \/ pc[t] = "load_peak_bytes" /\ peak' = [peak EXCEPT ![t] = stat.peak_bytes]
          /\ Goto(t, "peak_bytes")
    /\ UNCHANGED <<header, stat, regs, active, bytes, ghosts>>

\* The compare-exchange loops; a failing one reloads the peak.
PeakAllocs(t) ==
    /\ pc[t] = "peak_allocs"
    /\ IF active[t] <= peak[t] THEN Goto(t, "load_peak_bytes") /\ UNCHANGED <<stat, peak>>
       ELSE IF stat.peak_allocs = peak[t]
       THEN Goto(t, "load_peak_bytes") /\ stat' = [stat EXCEPT !.peak_allocs = active[t]] /\ UNCHANGED peak
       ELSE peak' = [peak EXCEPT ![t] = stat.peak_allocs] /\ UNCHANGED <<stat, pc>>
    /\ UNCHANGED <<header, regs, active, bytes, ghosts>>

\* After the statistics, reallocate copies and frees the old block.
PeakBytes(t) ==
    LET then == IF call[t] = "reallocate" THEN "free_active" ELSE "idle"
    IN  /\ pc[t] = "peak_bytes"
        /\ IF bytes[t] <= peak[t] THEN Goto(t, then) /\ UNCHANGED <<stat, peak>>
           ELSE IF stat.peak_bytes = peak[t]
           THEN Goto(t, then) /\ stat' = [stat EXCEPT !.peak_bytes = bytes[t]] /\ UNCHANGED peak
           ELSE peak' = [peak EXCEPT ![t] = stat.peak_bytes] /\ UNCHANGED <<stat, pc>>
        /\ UNCHANGED <<header, regs, active, bytes, ghosts>>

-----------------------------------------------------------------------------
\* lc_heap_free: stat_track_free with the size in the header, then the magic.
FreeActive(t) ==
    /\ pc[t] = "free_active"
    /\ stat' = [stat EXCEPT !.frees = @ + 1, !.bytes_freed = @ + header[old[t]].size,
                            !.active_allocs = @ - 1]
    /\ Goto(t, "free_bytes")
    /\ UNCHANGED <<header, regs, temps, ghosts>>

FreeBytes(t) ==
    /\ pc[t] = "free_bytes"
    /\ stat' = [stat EXCEPT !.active_bytes = @ - header[old[t]].size]
    /\ Goto(t, "poison")
    /\ UNCHANGED <<header, regs, temps, ghosts>>

Poison(t) ==
    /\ pc[t] = "poison"
    /\ header' = [header EXCEPT ![old[t]].magic = "freed"]
    /\ Goto(t, "idle")
    /\ UNCHANGED <<stat, regs, temps, ghosts>>

-----------------------------------------------------------------------------
\* lc_heap_reset_stats: the totals, then each peak from a load of what is active.
ResetTotals(t) ==
    /\ pc[t] = "idle" /\ calls < MaxCalls
    /\ calls' = calls + 1
    /\ stat' = [stat EXCEPT !.allocs = 0, !.frees = 0, !.bytes_allocated = 0, !.bytes_freed = 0]
    /\ raced' = ~ Quiet /\ grew' = FALSE
    /\ highest' = [allocs |-> stat.active_allocs, bytes |-> stat.active_bytes]
    /\ call' = [call EXCEPT ![t] = "reset"]
    /\ Goto(t, "reset_allocs")
    /\ UNCHANGED <<header, req, old, cur, temps>>

ResetLoad(t) ==
    /\ \/ pc[t] = "reset_allocs" /\ peak' = [peak EXCEPT ![t] = stat.active_allocs]
          /\ Goto(t, "store_allocs")
       \/ pc[t] = "reset_bytes" /\ peak' = [peak EXCEPT ![t] = stat.active_bytes]
          /\ Goto(t, "store_bytes")
    /\ UNCHANGED <<header, stat, regs, active, bytes, ghosts>>

ResetStore(t) ==
    /\ \/ pc[t] = "store_allocs" /\ stat' = [stat EXCEPT !.peak_allocs = peak[t]]
          /\ Goto(t, "reset_bytes")
       \/ pc[t] = "store_bytes" /\ stat' = [stat EXCEPT !.peak_bytes = peak[t]]
          /\ Goto(t, "idle")
    /\ raced' = (raced \/ \E u \in Threads \ {t} : pc[u] # "idle")
    /\ UNCHANGED <<header, regs, temps, calls, highest, grew>>

-----------------------------------------------------------------------------
Init ==
    /\ header = [b \in Blocks |-> [size |-> 0, bucket |-> 0, magic |-> "fresh", asked |-> 0]]
    /\ stat = [allocs |-> 0, frees |-> 0, bytes_allocated |-> 0, bytes_freed |-> 0,
               active_allocs |-> 0, active_bytes |-> 0, peak_allocs |-> 0, peak_bytes |-> 0]
    /\ pc = [t \in Threads |-> "idle"] /\ call = [t \in Threads |-> "none"]
    /\ req = [t \in Threads |-> 0]
    /\ old = [t \in Threads |-> NoBlock] /\ cur = [t \in Threads |-> NoBlock]
    /\ active = [t \in Threads |-> 0] /\ bytes = active /\ peak = active
    /\ calls = 0 /\ highest = [allocs |-> 0, bytes |-> 0] /\ grew = FALSE /\ raced = FALSE

Step(t) ==
    \/ InPlace(t) \/ Allocate(t) \/ Total(t) \/ Active(t) \/ Bytes(t)
    \/ LoadPeak(t) \/ PeakAllocs(t) \/ PeakBytes(t)
    \/ FreeActive(t) \/ FreeBytes(t) \/ Poison(t) \/ ResetLoad(t) \/ ResetStore(t)

Next == \E t \in Threads :
    \/ Step(t) \/ ResetTotals(t)
    \/ \E size \in Sizes : CallAllocate(t, size) \/ \E b \in Blocks : CallReallocate(t, b, size)
    \/ \E b \in Blocks : CallFree(t, b)

Spec == Init /\ [][Next]_vars

-----------------------------------------------------------------------------
\* A live block is of the smallest class that holds its header and the size it
\* had been asked for, and after any number of changes in place it still holds
\* its size; a request that would wrap never gets a block.
ClassesExact ==
    \A b \in Live :
        LET needed == header[b].size + HeaderSize
            bucket == header[b].bucket
        IN  /\ needed < SizeMod
            /\ bucket # Large => needed <= BlockSize(bucket)
            /\ bucket = Large => needed > BlockSize(BucketCount - 1)
            /\ bucket \in 1..(Large - 1) => header[b].asked + HeaderSize > BlockSize(bucket - 1)

\* When no call is in progress the counters tell what is live, and the peak of
\* the allocations is the most that were ever live at once since the last reset,
\* unless that reset overlapped another thread's call; so is the peak of the
\* bytes, unless a block has grown in place.
StatsAddUp ==
    Quiet =>
        /\ stat.active_allocs = Cardinality(Live)
        /\ stat.active_bytes = MapThenFoldSet(+, 0, LAMBDA b : header[b].size, LAMBDA s : CHOOSE x \in s : TRUE, Live)
        /\ ~ raced => stat.peak_allocs = highest.allocs
        /\ ~ raced /\ ~ grew => stat.peak_bytes = highest.bytes

\* include/lightc/heap.h of peak_active_bytes: "max active_bytes ever seen".
PeakBytesSeen == Quiet /\ ~ raced => stat.peak_bytes = highest.bytes

=============================================================================
