----------------------------- MODULE LargeCache -----------------------------
(***************************************************************************)
(* The large-block path of src/heap.c: mappings from mmap, cached on free  *)
(* and reused by best fit.  The critical sections under large_cache_lock   *)
(* are single steps; mmap and munmap happen outside the lock.              *)
(***************************************************************************)
EXTENDS Naturals, FiniteSets, Sequences

CONSTANTS Callers,
          Addresses,   \* where mmap can put a mapping
          NoMapping,
          MaxPages,    \* the largest request, in pages
          CacheSize    \* LARGE_CACHE_SIZE

ASSUME CacheAssumption ==
    NoMapping \notin Addresses /\ MaxPages \in Nat \ {0} /\ CacheSize \in Nat \ {0}

VARIABLES mapped,      \* pages mapped at each address, 0 for none
          prefix,      \* the page count stored at the start of each mapping
          large_cache, \* the entries, each a pointer and a page count
          live,        \* ghost: blocks the application holds, and for how many pages
          cpc, block, pages, block_pages   \* each thread's position and locals

large == <<mapped, prefix, large_cache, live, cpc, block, pages, block_pages>>

Entry(a, n) == [ptr |-> a, pages |-> n]

\* The first index of the cache that holds the fewest pages of those in S.
FirstSmallest(S) ==
    CHOOSE i \in S : \A j \in S :
        \/ large_cache[i].pages < large_cache[j].pages
        \/ large_cache[i].pages = large_cache[j].pages /\ i <= j

\* large_cache[i] = large_cache[--large_cache_count].
SwapRemove(i) ==
    LET last == Len(large_cache)
    IN  SubSeq([large_cache EXCEPT ![i] = large_cache[last]], 1, last - 1)

ReturnLarge(t) ==
    /\ cpc' = [cpc EXCEPT ![t] = "idle"]
    /\ block' = [block EXCEPT ![t] = NoMapping]
    /\ pages' = [pages EXCEPT ![t] = 0]
    /\ block_pages' = [block_pages EXCEPT ![t] = 0]

-----------------------------------------------------------------------------
(* Mutated forms of the operations below, for sensitivity checks only.     *)

\* The prefix records what was asked for, not what the mapping holds.
FinishRecordsRequest(t) ==
    /\ cpc[t] = "finish"
    /\ prefix' = [prefix EXCEPT ![block[t]] = pages[t]]
    /\ live' = [live EXCEPT ![block[t]] = pages[t]]
    /\ ReturnLarge(t)
    /\ UNCHANGED <<mapped, large_cache>>

\* The cache is taken to have one entry more than it has.
FreeOverflows(t) ==
    /\ cpc[t] = "idle"
    /\ \E b \in Addresses :
          /\ live[b] > 0
          /\ live' = [live EXCEPT ![b] = 0]
          /\ Len(large_cache) <= CacheSize
          /\ large_cache' = Append(large_cache, Entry(b, prefix[b]))
    /\ UNCHANGED <<mapped, prefix, cpc, block, pages, block_pages>>

-----------------------------------------------------------------------------
(* lc_heap_allocate, large path.                                           *)

\* Under the lock: the best fit leaves the cache.
Lookup(t) ==
    /\ cpc[t] = "idle"
    /\ \E n \in 1..MaxPages :
          LET fits == {i \in DOMAIN large_cache : large_cache[i].pages >= n}
          IN  /\ pages' = [pages EXCEPT ![t] = n]
              /\ IF fits = {}
                   THEN /\ cpc' = [cpc EXCEPT ![t] = "map"]
                        /\ UNCHANGED <<large_cache, block, block_pages>>
                   ELSE LET best == FirstSmallest(fits)
                        IN  /\ block' = [block EXCEPT ![t] = large_cache[best].ptr]
                            /\ block_pages' = [block_pages EXCEPT ![t] = large_cache[best].pages]
                            /\ large_cache' = SwapRemove(best)
                            /\ cpc' = [cpc EXCEPT ![t] = "finish"]
    /\ UNCHANGED <<mapped, prefix, live>>

\* lc_allocate_pages, which may fail.
MapLarge(t) ==
    /\ cpc[t] = "map"
    /\ \/ \E a \in Addresses :
             /\ mapped[a] = 0
             /\ mapped' = [mapped EXCEPT ![a] = pages[t]]
             /\ block' = [block EXCEPT ![t] = a]
             /\ block_pages' = [block_pages EXCEPT ![t] = pages[t]]
             /\ cpc' = [cpc EXCEPT ![t] = "finish"]
             /\ UNCHANGED pages
       \/ ReturnLarge(t) /\ UNCHANGED mapped
    /\ UNCHANGED <<prefix, large_cache, live>>

\* Record block_pages, the mapping's page count, and hand the block out.
Finish(t) ==
    /\ cpc[t] = "finish"
    /\ prefix' = [prefix EXCEPT ![block[t]] = block_pages[t]]
    /\ live' = [live EXCEPT ![block[t]] = pages[t]]
    /\ ReturnLarge(t)
    /\ UNCHANGED <<mapped, large_cache>>

(* lc_heap_free, large path.                                               *)

\* Under the lock: keep the block, in a free entry or in the place of the
\* smallest one if that is smaller; the loser is unmapped after the unlock.
FreeLarge(t) ==
    /\ cpc[t] = "idle"
    /\ \E b \in Addresses :
          /\ live[b] > 0
          /\ live' = [live EXCEPT ![b] = 0]
          /\ LET smallest == FirstSmallest(DOMAIN large_cache)
                 victim == large_cache[smallest]
             IN  \/ /\ Len(large_cache) < CacheSize
                    /\ large_cache' = Append(large_cache, Entry(b, prefix[b]))
                    /\ UNCHANGED <<cpc, block, pages>>
                 \/ /\ Len(large_cache) = CacheSize
                    /\ prefix[b] > victim.pages
                    /\ large_cache' = [large_cache EXCEPT ![smallest] = Entry(b, prefix[b])]
                    /\ cpc' = [cpc EXCEPT ![t] = "unmap"]
                    /\ block' = [block EXCEPT ![t] = victim.ptr]
                    /\ pages' = [pages EXCEPT ![t] = victim.pages]
                 \/ /\ Len(large_cache) = CacheSize
                    /\ prefix[b] <= victim.pages
                    /\ cpc' = [cpc EXCEPT ![t] = "unmap"]
                    /\ block' = [block EXCEPT ![t] = b]
                    /\ pages' = [pages EXCEPT ![t] = prefix[b]]
                    /\ UNCHANGED large_cache
    /\ UNCHANGED <<mapped, prefix, block_pages>>

\* lc_free_pages: munmap of that many pages.
Unmap(t) ==
    /\ cpc[t] = "unmap"
    /\ mapped' = [mapped EXCEPT ![block[t]] = IF @ > pages[t] THEN @ - pages[t] ELSE 0]
    /\ ReturnLarge(t)
    /\ UNCHANGED <<prefix, large_cache, live>>

-----------------------------------------------------------------------------
CacheInit ==
    /\ mapped = [a \in Addresses |-> 0]
    /\ prefix = [a \in Addresses |-> 0]
    /\ large_cache = <<>>
    /\ live = [a \in Addresses |-> 0]
    /\ cpc = [t \in Callers |-> "idle"]
    /\ block = [t \in Callers |-> NoMapping]
    /\ pages = [t \in Callers |-> 0]
    /\ block_pages = [t \in Callers |-> 0]

CacheNext ==
    \E t \in Callers : Lookup(t) \/ MapLarge(t) \/ Finish(t) \/ FreeLarge(t) \/ Unmap(t)

CacheSpec == CacheInit /\ [][CacheNext]_large

-----------------------------------------------------------------------------
\* The entries of the cache, which never outgrows its array.
CacheTyped ==
    /\ large_cache \in Seq([ptr : Addresses, pages : 1..MaxPages])
    /\ Len(large_cache) <= CacheSize

\* The words of each address and of each call.
WordsTyped ==
    /\ mapped \in [Addresses -> 0..MaxPages]
    /\ prefix \in [Addresses -> 0..MaxPages]
    /\ live \in [Addresses -> 0..MaxPages]
    /\ cpc \in [Callers -> {"idle", "map", "finish", "unmap"}]
    /\ block \in [Callers -> Addresses \union {NoMapping}]
    /\ pages \in [Callers -> 0..MaxPages]
    /\ block_pages \in [Callers -> 0..MaxPages]

\* The types of the cache and of each call.
CacheTypeOK == CacheTyped /\ WordsTyped

\* How many hold the mapping at a: the application, cache entries, threads.
Holders(a) ==
    Cardinality({i \in DOMAIN large_cache : large_cache[i].ptr = a})
    + Cardinality({t \in Callers : block[t] = a})
    + (IF live[a] > 0 THEN 1 ELSE 0)

\* A mapping has one holder, and what is not mapped has none: no block is
\* given to two callers, kept after its munmap, or forgotten while mapped.
OneHolder ==
    \A a \in Addresses : Holders(a) = IF mapped[a] > 0 THEN 1 ELSE 0

\* A block is at least as large as what its caller asked for.
FitsRequest ==
    \A a \in Addresses : live[a] <= mapped[a]

\* The page count that travels with a block, in its prefix while it is out and
\* in its cache entry afterwards, is the mapping's own, so that a reused
\* oversized mapping never loses its tail pages.
TruePageCount ==
    /\ \A a \in Addresses : live[a] > 0 => prefix[a] = mapped[a]
    /\ \A i \in DOMAIN large_cache : large_cache[i].pages = mapped[large_cache[i].ptr]
    /\ \A t \in Callers : cpc[t] = "unmap" => pages[t] = mapped[block[t]]

\* The mappings are accounted for: each has one holder, which knows its size,
\* and that is enough for the request it answered.
MappingsExact == OneHolder /\ FitsRequest /\ TruePageCount

-----------------------------------------------------------------------------
\* Every address is held once at most, and exactly while something is mapped:
\* OneHolder without counting.
HeldOnce ==
    /\ \A i, j \in DOMAIN large_cache : large_cache[i].ptr = large_cache[j].ptr => i = j
    /\ \A t, u \in Callers : block[t] # NoMapping /\ block[t] = block[u] => t = u
    /\ \A i \in DOMAIN large_cache :
        live[large_cache[i].ptr] = 0 /\ \A t \in Callers : block[t] # large_cache[i].ptr
    /\ \A t \in Callers : block[t] # NoMapping => live[block[t]] = 0
    /\ \A a \in Addresses :
        mapped[a] > 0 <=> \/ \E i \in DOMAIN large_cache : large_cache[i].ptr = a
                          \/ \E t \in Callers : block[t] = a
                          \/ live[a] > 0

\* What a call knows between two of its steps.
CacheCallsKnow ==
    \A t \in Callers :
        /\ block[t] # NoMapping <=> cpc[t] \in {"finish", "unmap"}
        /\ cpc[t] = "map" => pages[t] > 0
        /\ cpc[t] = "finish" => pages[t] \in 1..block_pages[t] /\ block_pages[t] = mapped[block[t]]

\* The inductive invariant of the proofs in module Heap_proofs.
CacheInv == CacheTypeOK /\ HeldOnce /\ CacheCallsKnow /\ FitsRequest /\ TruePageCount

=============================================================================
