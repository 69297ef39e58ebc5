---------------------------- MODULE Heap_proofs -----------------------------
(***************************************************************************)
(* Proofs about two parts of src/heap.c, for any number of threads: the    *)
(* cache of large blocks, of any size, and the table of per-thread locals, *)
(* with any number of slots and locals.                                    *)
(***************************************************************************)
EXTENDS LargeCache, HeapLocal, Walks, SequenceTheorems

-----------------------------------------------------------------------------
(* The cache of large blocks.                                              *)

\* An empty cache with nothing mapped satisfies the inductive invariant.
LEMMA CacheInitially == CacheInit => CacheInv
  BY CacheAssumption DEF CacheInit, CacheInv, CacheTypeOK, CacheTyped, WordsTyped, HeldOnce,
     CacheCallsKnow, FitsRequest, TruePageCount

\* The scans of the cache find an entry with the fewest pages.
LEMMA LeastPages ==
    ASSUME CacheTypeOK, NEW F \in SUBSET DOMAIN large_cache, F # {}
    PROVE  /\ FirstSmallest(F) \in F
           /\ \A j \in F : large_cache[FirstSmallest(F)].pages <= large_cache[j].pages
  <1> DEFINE P == {large_cache[i].pages : i \in F}
  <1>1. \A i \in F : i \in Nat /\ large_cache[i].pages \in Nat
    <2> DEFINE E == [ptr : Addresses, pages : 1..MaxPages]
    <2>1. large_cache \in Seq(E)
      BY DEF CacheTypeOK, CacheTyped
    <2>2. \A i \in F : i \in Nat /\ large_cache[i] \in E
      <3> HIDE DEF E
      <3>1. DOMAIN large_cache = 1..Len(large_cache) /\ Len(large_cache) \in Nat
        BY <2>1
      <3> QED BY <2>1, <3>1
    <2> QED BY <2>2
  <1>2. PICK m \in P : \A n \in P : m <= n
    <2>1. P \subseteq Nat /\ P # {}
      BY <1>1
    <2> HIDE DEF P
    <2> QED BY <2>1, NatMin
  <1> DEFINE Q == {i \in F : large_cache[i].pages = m}
  <1>3. PICK k \in Q : \A j \in Q : k <= j
    <2>1. Q \subseteq Nat /\ Q # {}
      BY <1>1, <1>2
    <2> HIDE DEF Q
    <2> QED BY <2>1, NatMin
  <1>4. \A j \in F : \/ large_cache[k].pages < large_cache[j].pages
                     \/ large_cache[k].pages = large_cache[j].pages /\ k <= j
    BY <1>1, <1>2, <1>3
  <1>5. /\ FirstSmallest(F) \in F
        /\ \A j \in F : 
            \/ large_cache[FirstSmallest(F)].pages < large_cache[j].pages
            \/ large_cache[FirstSmallest(F)].pages = large_cache[j].pages /\ FirstSmallest(F) <= j
    BY <1>4, <1>3 DEF FirstSmallest
  <1> QED BY <1>5, <1>1

\* Removing an entry by moving the last one into its place keeps the others.
LEMMA SwapRemoved ==
    ASSUME CacheTypeOK, NEW i \in DOMAIN large_cache
    PROVE  /\ SwapRemove(i) \in Seq([ptr : Addresses, pages : 1..MaxPages])
           /\ Len(SwapRemove(i)) = Len(large_cache) - 1
           /\ \A j \in 1..(Len(large_cache) - 1) : 
                SwapRemove(i)[j] = large_cache[IF j = i THEN Len(large_cache) ELSE j]
  <1> DEFINE E == [ptr : Addresses, pages : 1..MaxPages]
  <1> DEFINE n == Len(large_cache)
  <1> DEFINE s == [large_cache EXCEPT ![i] = large_cache[n]]
  <1>1. large_cache \in Seq(E) /\ n \in Nat /\ DOMAIN large_cache = 1..n /\ n >= 1
    BY DEF CacheTypeOK, CacheTyped
  <1>2. s \in Seq(E) /\ Len(s) = n /\ DOMAIN s = 1..n /\ \A j \in 1..n : s[j] = large_cache[IF j = i THEN n ELSE j]
    <2> HIDE DEF E
    <2> QED BY <1>1
  <1>3. SwapRemove(i) = SubSeq(s, 1, n - 1)
    BY DEF SwapRemove
  <1> HIDE DEF E, s
  <1>4. \A j \in 1..(n - 1) : s[j] \in E /\ j \in 1..n
    BY <1>1, <1>2
  <1>5. /\ SubSeq(s, 1, n - 1) \in Seq(E)
        /\ Len(SubSeq(s, 1, n - 1)) = n - 1
        /\ \A j \in 1..(n - 1) : SubSeq(s, 1, n - 1)[j] = s[j]
    BY <1>1, <1>4, SubSeqProperties
  <1> QED BY <1>1, <1>2, <1>3, <1>4, <1>5 DEF E

\* What the type of the cache says of its entries.
LEMMA CacheEntries ==
    ASSUME CacheTypeOK
    PROVE  /\ Len(large_cache) \in Nat /\ DOMAIN large_cache = 1..Len(large_cache)
           /\ \A i \in DOMAIN large_cache :
                large_cache[i].ptr \in Addresses /\ large_cache[i].pages \in 1..MaxPages
  <1> DEFINE E == [ptr : Addresses, pages : 1..MaxPages]
  <1>1. large_cache \in Seq(E)
    BY DEF CacheTypeOK, CacheTyped
  <1>2. /\ Len(large_cache) \in Nat /\ DOMAIN large_cache = 1..Len(large_cache)
        /\ \A i \in DOMAIN large_cache : large_cache[i] \in E
    <2> HIDE DEF E
    <2>1. DOMAIN large_cache = 1..Len(large_cache) /\ Len(large_cache) \in Nat
      BY <1>1
    <2> QED BY <1>1, <2>1
  <1> QED BY <1>2

\* A fresh mapping, or a failed one, keeps the invariant.
LEMMA CacheMapKeeps == ASSUME CacheInv, NEW t \in Callers, MapLarge(t) PROVE CacheInv'
  <1> USE CacheAssumption
  <1>a. /\ CacheTypeOK /\ CacheTyped /\ WordsTyped /\ HeldOnce /\ CacheCallsKnow
        /\ FitsRequest /\ TruePageCount
    BY DEF CacheInv, CacheTypeOK
  <1>b. /\ Len(large_cache) \in Nat /\ DOMAIN large_cache = 1..Len(large_cache)
        /\ \A i \in DOMAIN large_cache :
             large_cache[i].ptr \in Addresses /\ large_cache[i].pages \in 1..MaxPages
    BY <1>a, CacheEntries
  <1>c. CacheTyped' /\ UNCHANGED <<large_cache, prefix, live>> /\ block[t] = NoMapping
    BY <1>a DEF MapLarge, CacheTyped, CacheCallsKnow, WordsTyped
  <1>1. ASSUME NEW a \in Addresses,
               /\ mapped[a] = 0
               /\ mapped' = [mapped EXCEPT ![a] = pages[t]]
               /\ block' = [block EXCEPT ![t] = a]
               /\ block_pages' = [block_pages EXCEPT ![t] = pages[t]]
               /\ cpc' = [cpc EXCEPT ![t] = "finish"]
               /\ UNCHANGED pages
        PROVE  CacheInv'
    <2>a. /\ live[a] = 0 /\ \A i \in DOMAIN large_cache : large_cache[i].ptr # a
          /\ \A u \in Callers : block[u] # a
          /\ pages[t] > 0 /\ cpc[t] = "map" /\ pages[t] \in 1..MaxPages
      <3>1. pages[t] > 0 /\ cpc[t] = "map" /\ pages[t] \in 1..MaxPages
        BY <1>a DEF WordsTyped, CacheCallsKnow, MapLarge
      <3>2. live[a] \in Nat
        BY <1>a DEF WordsTyped
      <3> QED BY <1>1, <1>a, <1>b, <3>1, <3>2 DEF HeldOnce
    <2>b. HeldOnce'
      <3>a. /\ large_cache' = large_cache /\ live' = live
            /\ \A u \in Callers : block'[u] = IF u = t THEN a ELSE block[u]
            /\ \A x \in Addresses : mapped'[x] = IF x = a THEN pages[t] ELSE mapped[x]
        BY <1>a, <1>1, <1>c DEF WordsTyped
      <3>1. \A i, j \in DOMAIN large_cache' : large_cache'[i].ptr = large_cache'[j].ptr => i = j
        BY <1>a, <3>a DEF HeldOnce
      <3>2. \A u, v \in Callers : block'[u] # NoMapping /\ block'[u] = block'[v] => u = v
        BY <1>a, <1>b, <1>c, <2>a, <3>a DEF HeldOnce
      <3>3. \A i \in DOMAIN large_cache' :
           live'[large_cache'[i].ptr] = 0 /\ \A u \in Callers : block'[u] # large_cache'[i].ptr
        BY <1>a, <1>b, <1>c, <2>a, <3>a DEF HeldOnce
      <3>4. \A u \in Callers : block'[u] # NoMapping => live'[block'[u]] = 0
        BY <1>a, <1>b, <1>c, <2>a, <3>a DEF HeldOnce
      <3>5. \A x \in Addresses :
           mapped'[x] > 0 <=> \/ \E i \in DOMAIN large_cache' : large_cache'[i].ptr = x
                              \/ \E u \in Callers : block'[u] = x
                              \/ live'[x] > 0
        BY <1>a, <1>b, <1>c, <2>a, <3>a DEF HeldOnce
      <3> QED BY <3>1, <3>2, <3>3, <3>4, <3>5 DEF HeldOnce
    <2>c. WordsTyped' /\ CacheCallsKnow' /\ FitsRequest'
      BY <1>1, <1>a, <1>c, <2>a DEF WordsTyped, CacheCallsKnow, HeldOnce, FitsRequest
    <2>d. TruePageCount'
      BY <1>1, <1>a, <1>b, <1>c, <2>a DEF WordsTyped, CacheCallsKnow, HeldOnce,
         TruePageCount
    <2> QED BY <1>c, <2>b, <2>c, <2>d DEF CacheInv, CacheTypeOK
  <1>2. CASE ReturnLarge(t) /\ UNCHANGED mapped
    <2>a. block' = block
      BY <1>2, <1>a, <1>c DEF ReturnLarge, WordsTyped
    <2>b. HeldOnce'
      BY <1>2, <1>a, <1>c, <2>a DEF HeldOnce
    <2>c. WordsTyped' /\ CacheCallsKnow' /\ FitsRequest'
      BY <1>2, <1>a, <1>c, <2>a DEF WordsTyped, CacheCallsKnow, FitsRequest, ReturnLarge
    <2>d. TruePageCount'
      BY <1>2, <1>a, <1>c, <2>a DEF WordsTyped, TruePageCount, ReturnLarge
    <2> QED BY <1>c, <2>b, <2>c, <2>d DEF CacheInv, CacheTypeOK
  <1> QED BY <1>1, <1>2 DEF MapLarge

\* Writing the prefix and returning the block keeps the invariant.
LEMMA CacheFinishKeeps == ASSUME CacheInv, NEW t \in Callers, Finish(t) PROVE CacheInv'
  <1> USE CacheAssumption
  <1>a. /\ CacheTypeOK /\ CacheTyped /\ WordsTyped /\ HeldOnce /\ CacheCallsKnow
        /\ FitsRequest /\ TruePageCount
    BY DEF CacheInv, CacheTypeOK
  <1>b. /\ Len(large_cache) \in Nat /\ DOMAIN large_cache = 1..Len(large_cache)
        /\ \A i \in DOMAIN large_cache :
             large_cache[i].ptr \in Addresses /\ large_cache[i].pages \in 1..MaxPages
    BY <1>a, CacheEntries
  <1>1. CacheTyped' /\ DOMAIN large_cache' = DOMAIN large_cache /\ large_cache' = large_cache
    BY <1>a DEF Finish, CacheTyped
  <1>2. WordsTyped'
    BY <1>a DEF Finish, WordsTyped, ReturnLarge, CacheCallsKnow
  <1>3. HeldOnce'
    <2>1. \A i, j \in DOMAIN large_cache' : large_cache'[i].ptr = large_cache'[j].ptr => i = j
      BY <1>a, <1>b, <1>1 DEF WordsTyped, CacheCallsKnow, HeldOnce, Finish, ReturnLarge,
         TruePageCount
    <2>2. \A u, v \in Callers : block'[u] # NoMapping /\ block'[u] = block'[v] => u = v
      BY <1>a, <1>b, <1>1 DEF WordsTyped, CacheCallsKnow, HeldOnce, Finish, ReturnLarge,
         TruePageCount
    <2>3. \A i \in DOMAIN large_cache' :
           live'[large_cache'[i].ptr] = 0 /\ \A u \in Callers : block'[u] # large_cache'[i].ptr
      BY <1>a, <1>b, <1>1 DEF WordsTyped, CacheCallsKnow, HeldOnce, Finish, ReturnLarge,
         TruePageCount
    <2>4. \A u \in Callers : block'[u] # NoMapping => live'[block'[u]] = 0
      BY <1>a, <1>b, <1>1 DEF WordsTyped, CacheCallsKnow, HeldOnce, Finish, ReturnLarge,
         TruePageCount
    <2>5. \A a \in Addresses :
           mapped'[a] > 0 <=> \/ \E i \in DOMAIN large_cache' : large_cache'[i].ptr = a
                              \/ \E u \in Callers : block'[u] = a
                              \/ live'[a] > 0
      <3> TAKE a \in Addresses
      <3>1. block[t] \in Addresses /\ block'[t] = NoMapping /\ \A u \in Callers \ {t} : block'[u] = block[u]
        BY <1>a DEF WordsTyped, CacheCallsKnow, Finish, ReturnLarge
      <3>2. CASE a = block[t]
        BY <3>1, <3>2, <1>a, <1>1 DEF WordsTyped, CacheCallsKnow, HeldOnce, Finish,
           TruePageCount
      <3>3. CASE a # block[t]
        <4>1. (\E u \in Callers : block'[u] = a) <=> (\E u \in Callers : block[u] = a)
          BY <3>1, <3>3
        <4>2. mapped'[a] = mapped[a] /\ live'[a] = live[a]
          BY <3>3, <1>a DEF Finish, WordsTyped
        <4> QED BY <4>1, <4>2, <1>a, <1>1 DEF HeldOnce
      <3> QED BY <3>2, <3>3
    <2> QED BY <2>1, <2>2, <2>3, <2>4, <2>5 DEF HeldOnce
  <1>4. CacheCallsKnow'
    BY <1>a, <1>b DEF Finish, WordsTyped, ReturnLarge, CacheCallsKnow, HeldOnce
  <1>5. FitsRequest'
    BY <1>a, <1>b DEF Finish, WordsTyped, ReturnLarge, CacheCallsKnow, HeldOnce,
       FitsRequest
  <1>6. TruePageCount'
    BY <1>a, <1>b, <1>1 DEF Finish, WordsTyped, ReturnLarge, CacheCallsKnow, HeldOnce,
       TruePageCount
  <1> QED
    BY <1>1, <1>2, <1>3, <1>4, <1>5, <1>6 DEF CacheInv, CacheTypeOK

\* Unmapping an evicted or a refused block keeps the invariant.
LEMMA CacheUnmapKeeps == ASSUME CacheInv, NEW t \in Callers, Unmap(t) PROVE CacheInv'
  <1> USE CacheAssumption
  <1>a. /\ CacheTypeOK /\ CacheTyped /\ WordsTyped /\ HeldOnce /\ CacheCallsKnow
        /\ FitsRequest /\ TruePageCount
    BY DEF CacheInv, CacheTypeOK
  <1>b. /\ Len(large_cache) \in Nat /\ DOMAIN large_cache = 1..Len(large_cache)
        /\ \A i \in DOMAIN large_cache :
             large_cache[i].ptr \in Addresses /\ large_cache[i].pages \in 1..MaxPages
    BY <1>a, CacheEntries
  <1>1. CacheTyped' /\ DOMAIN large_cache' = DOMAIN large_cache /\ large_cache' = large_cache
    BY <1>a DEF Unmap, CacheTyped
  <1>2. WordsTyped'
    BY <1>a DEF Unmap, WordsTyped, ReturnLarge, CacheCallsKnow
  <1>3. HeldOnce'
    <2>1. \A i, j \in DOMAIN large_cache' : large_cache'[i].ptr = large_cache'[j].ptr => i = j
      BY <1>a, <1>b, <1>1 DEF WordsTyped, CacheCallsKnow, HeldOnce, Unmap, ReturnLarge,
         TruePageCount
    <2>2. \A u, v \in Callers : block'[u] # NoMapping /\ block'[u] = block'[v] => u = v
      BY <1>a, <1>b, <1>1 DEF WordsTyped, CacheCallsKnow, HeldOnce, Unmap, ReturnLarge,
         TruePageCount
    <2>3. \A i \in DOMAIN large_cache' :
           live'[large_cache'[i].ptr] = 0 /\ \A u \in Callers : block'[u] # large_cache'[i].ptr
      BY <1>a, <1>b, <1>1 DEF WordsTyped, CacheCallsKnow, HeldOnce, Unmap, ReturnLarge,
         TruePageCount
    <2>4. \A u \in Callers : block'[u] # NoMapping => live'[block'[u]] = 0
      BY <1>a, <1>b, <1>1 DEF WordsTyped, CacheCallsKnow, HeldOnce, Unmap, ReturnLarge,
         TruePageCount
    <2>5. \A a \in Addresses :
           mapped'[a] > 0 <=> \/ \E i \in DOMAIN large_cache' : large_cache'[i].ptr = a
                              \/ \E u \in Callers : block'[u] = a
                              \/ live'[a] > 0
      <3> TAKE a \in Addresses
      <3>1. block[t] \in Addresses /\ block'[t] = NoMapping /\ \A u \in Callers \ {t} : block'[u] = block[u]
        BY <1>a DEF WordsTyped, CacheCallsKnow, Unmap, ReturnLarge
      <3>2. CASE a = block[t]
        BY <3>1, <3>2, <1>a, <1>1 DEF WordsTyped, CacheCallsKnow, HeldOnce, Unmap,
           TruePageCount
      <3>3. CASE a # block[t]
        <4>1. (\E u \in Callers : block'[u] = a) <=> (\E u \in Callers : block[u] = a)
          BY <3>1, <3>3
        <4>2. mapped'[a] = mapped[a] /\ live'[a] = live[a]
          BY <3>3, <1>a DEF Unmap, WordsTyped
        <4> QED BY <4>1, <4>2, <1>a, <1>1 DEF HeldOnce
      <3> QED BY <3>2, <3>3
    <2> QED BY <2>1, <2>2, <2>3, <2>4, <2>5 DEF HeldOnce
  <1>4. CacheCallsKnow'
    BY <1>a, <1>b DEF Unmap, WordsTyped, ReturnLarge, CacheCallsKnow, HeldOnce
  <1>5. FitsRequest'
    BY <1>a, <1>b DEF Unmap, WordsTyped, ReturnLarge, CacheCallsKnow, HeldOnce,
       FitsRequest
  <1>6. TruePageCount'
    BY <1>a, <1>b, <1>1 DEF Unmap, WordsTyped, ReturnLarge, CacheCallsKnow, HeldOnce,
       TruePageCount
  <1> QED
    BY <1>1, <1>2, <1>3, <1>4, <1>5, <1>6 DEF CacheInv, CacheTypeOK

\* Taking the best entry out of the cache, or none, keeps the invariant.
LEMMA CacheLookupKeeps == ASSUME CacheInv, NEW t \in Callers, Lookup(t) PROVE CacheInv'
  <1> USE CacheAssumption
  <1>a. /\ CacheTypeOK /\ CacheTyped /\ WordsTyped /\ HeldOnce /\ CacheCallsKnow
        /\ FitsRequest /\ TruePageCount
    BY DEF CacheInv, CacheTypeOK
  <1>b. /\ Len(large_cache) \in Nat /\ DOMAIN large_cache = 1..Len(large_cache)
        /\ \A i \in DOMAIN large_cache :
             large_cache[i].ptr \in Addresses /\ large_cache[i].pages \in 1..MaxPages
    BY <1>a, CacheEntries
  <1>1. PICK n \in 1..MaxPages :
          LET fits == {i \in DOMAIN large_cache : large_cache[i].pages >= n}
          IN  /\ pages' = [pages EXCEPT ![t] = n]
              /\ IF fits = {}
                   THEN /\ cpc' = [cpc EXCEPT ![t] = "map"]
                        /\ UNCHANGED <<large_cache, block, block_pages>>
                   ELSE LET best == FirstSmallest(fits)
                        IN  /\ block' = [block EXCEPT ![t] = large_cache[best].ptr]
                            /\ block_pages' = [block_pages EXCEPT ![t] = large_cache[best].pages]
                            /\ large_cache' = SwapRemove(best)
                            /\ cpc' = [cpc EXCEPT ![t] = "finish"]
    BY Zenon DEF Lookup
  <1>2. UNCHANGED <<mapped, prefix, live>> /\ cpc[t] = "idle" /\ block[t] = NoMapping
    BY <1>a DEF Lookup, WordsTyped, CacheCallsKnow
  <1> DEFINE fits == {i \in DOMAIN large_cache : large_cache[i].pages >= n}
  <1>3. CASE fits = {}
    <2>1. /\ pages' = [pages EXCEPT ![t] = n] /\ cpc' = [cpc EXCEPT ![t] = "map"]
          /\ UNCHANGED <<large_cache, block, block_pages>>
      BY <1>1, <1>3
    <2>2. CacheTyped' /\ HeldOnce' /\ FitsRequest'
      BY <1>a, <1>2, <2>1 DEF CacheTyped, HeldOnce, FitsRequest
    <2>3. WordsTyped' /\ CacheCallsKnow' /\ TruePageCount'
      BY <1>a, <1>2, <2>1 DEF WordsTyped, CacheCallsKnow, TruePageCount
    <2> QED BY <2>2, <2>3 DEF CacheInv, CacheTypeOK
  <1>4. CASE fits # {}
    <2> DEFINE best == FirstSmallest(fits)
    <2>1. best \in DOMAIN large_cache /\ large_cache[best].pages >= n
      <3>1. fits \subseteq DOMAIN large_cache
        OBVIOUS
      <3>2. best \in fits
        <4> HIDE DEF fits
        <4> QED BY <1>4, <1>a, <3>1, LeastPages
      <3> QED BY <3>2
    <2>2. /\ block' = [block EXCEPT ![t] = large_cache[best].ptr]
          /\ block_pages' = [block_pages EXCEPT ![t] = large_cache[best].pages]
          /\ large_cache' = SwapRemove(best)
          /\ cpc' = [cpc EXCEPT ![t] = "finish"]
          /\ pages' = [pages EXCEPT ![t] = n]
      BY <1>1, <1>4
    <2> HIDE DEF best
    <2>3. /\ large_cache' \in Seq([ptr : Addresses, pages : 1..MaxPages])
          /\ Len(large_cache') = Len(large_cache) - 1
          /\ \A j \in 1..(Len(large_cache) - 1) :
                large_cache'[j] = large_cache[IF j = best THEN Len(large_cache) ELSE j]
      BY Zenon, <1>a, <2>1, <2>2, SwapRemoved
    <2>4. CacheTyped'
      BY <1>a, <1>b, <2>1, <2>3 DEF CacheTyped
    <2>5. DOMAIN large_cache' = 1..(Len(large_cache) - 1)
      <3> DEFINE E == [ptr : Addresses, pages : 1..MaxPages]
      <3>1. large_cache' \in Seq(E)
        BY <2>3
      <3> HIDE DEF E
      <3> QED BY <2>3, <3>1
    <2>6. ASSUME NEW j \in DOMAIN large_cache'
          PROVE  LET k == IF j = best THEN Len(large_cache) ELSE j
                 IN  k \in DOMAIN large_cache /\ k # best /\ large_cache'[j] = large_cache[k]
      <3>1. /\ j \in 1..(Len(large_cache) - 1) /\ best \in 1..Len(large_cache)
            /\ large_cache'[j] = large_cache[IF j = best THEN Len(large_cache) ELSE j]
        BY <2>1, <2>3, <2>5, <1>b
      <3>2. CASE j = best
        BY <3>1, <3>2, <1>b
      <3>3. CASE j # best
        BY <3>1, <3>3, <1>b
      <3> QED BY <3>2, <3>3
    <2>7. ASSUME NEW k \in DOMAIN large_cache, k # best
          PROVE \E j \in DOMAIN large_cache' : large_cache'[j] = large_cache[k]
      <3>1. CASE k = Len(large_cache)
        <4>1. best \in 1..(Len(large_cache) - 1)
          BY <3>1, <2>1, <2>7, <1>b
        <4> QED BY Zenon, <3>1, <4>1, <2>3, <2>5
      <3>2. CASE k # Len(large_cache)
        <4>1. k \in 1..(Len(large_cache) - 1)
          BY <3>2, <2>7, <1>b
        <4> QED BY <4>1, <2>3, <2>5, <2>7
      <3> QED BY <3>1, <3>2
    <2>8. \A i, j \in DOMAIN large_cache' : large_cache'[i].ptr = large_cache'[j].ptr => i = j
      <3> TAKE i, j \in DOMAIN large_cache'
      <3> HAVE large_cache'[i].ptr = large_cache'[j].ptr
      <3> DEFINE k(x) == IF x = best THEN Len(large_cache) ELSE x
      <3>1. k(i) \in DOMAIN large_cache /\ k(i) # best /\ large_cache'[i] = large_cache[k(i)]
        BY <2>6
      <3>2. k(j) \in DOMAIN large_cache /\ k(j) # best /\ large_cache'[j] = large_cache[k(j)]
        BY <2>6
      <3>3. k(i) = k(j)
        <4> HIDE DEF k
        <4> QED BY <3>1, <3>2, <1>a DEF HeldOnce
      <3>4. i # Len(large_cache) /\ j # Len(large_cache)
        BY <2>5, <1>b
      <3> QED BY <3>3, <3>4
    <2>9. \A u, v \in Callers : block'[u] # NoMapping /\ block'[u] = block'[v] => u = v
      BY <2>1, <2>2, <1>a, <1>b DEF HeldOnce, WordsTyped
    <2>10. \A i \in DOMAIN large_cache' :
        live'[large_cache'[i].ptr] = 0 /\ \A u \in Callers : block'[u] # large_cache'[i].ptr
      <3> TAKE i \in DOMAIN large_cache'
      <3>1. PICK k \in DOMAIN large_cache : k # best /\ large_cache'[i] = large_cache[k]
        BY <2>6
      <3> QED BY <3>1, <2>1, <2>2, <1>2, <1>a DEF HeldOnce, WordsTyped
    <2>11. \A u \in Callers : block'[u] # NoMapping => live'[block'[u]] = 0
      BY SMTT(20), <2>1, <2>2, <1>2, <1>a DEF HeldOnce, WordsTyped
    <2>12. \A a \in Addresses :
        mapped'[a] > 0 <=> \/ \E i \in DOMAIN large_cache' : large_cache'[i].ptr = a
                           \/ \E u \in Callers : block'[u] = a
                           \/ live'[a] > 0
      <3> TAKE a \in Addresses
      <3>1. (\E i \in DOMAIN large_cache : large_cache[i].ptr = a)
              <=> (\E i \in DOMAIN large_cache' : large_cache'[i].ptr = a) \/ a = large_cache[best].ptr
        BY SMTT(20), <2>1, <2>6, <2>7
      <3>2. (\E u \in Callers : block'[u] = a) <=> (\E u \in Callers : block[u] = a) \/ a = large_cache[best].ptr
        BY <2>1, <2>2, <1>b, <1>2, <1>a DEF WordsTyped
      <3>3. mapped' = mapped /\ live' = live
        BY SMTT(20), <1>2
      <3> QED BY <3>1, <3>2, <3>3, <1>a DEF HeldOnce
    <2>13. HeldOnce'
      BY <2>8, <2>9, <2>10, <2>11, <2>12 DEF HeldOnce
    <2>14. WordsTyped' /\ FitsRequest'
      BY SMTT(20), <2>1, <2>2, <1>b, <1>2, <1>a DEF WordsTyped, FitsRequest
    <2>15. CacheCallsKnow'
      BY <2>1, <2>2, <1>b, <1>2, <1>a DEF WordsTyped, CacheCallsKnow, TruePageCount
    <2>16. TruePageCount'
      <3>1. \A i \in DOMAIN large_cache' : large_cache'[i].pages = mapped'[large_cache'[i].ptr]
        <4> TAKE i \in DOMAIN large_cache'
        <4>1. PICK k \in DOMAIN large_cache : k # best /\ large_cache'[i] = large_cache[k]
          BY SMTT(20), <2>6
        <4> QED BY <4>1, <1>2, <1>a DEF TruePageCount
      <3> QED BY SMTT(20), <3>1, <2>2, <1>2, <1>a DEF TruePageCount, WordsTyped
    <2> QED BY <2>4, <2>13, <2>14, <2>15, <2>16 DEF CacheInv, CacheTypeOK
  <1> QED BY <1>3, <1>4

\* Freeing into the cache, with or without eviction, keeps the invariant.
LEMMA CacheFreeKeeps == ASSUME CacheInv, NEW t \in Callers, FreeLarge(t) PROVE CacheInv'
  <1> USE CacheAssumption
  <1>a. /\ CacheTypeOK /\ CacheTyped /\ WordsTyped /\ HeldOnce /\ CacheCallsKnow
        /\ FitsRequest /\ TruePageCount
    BY DEF CacheInv, CacheTypeOK
  <1>b. /\ Len(large_cache) \in Nat /\ DOMAIN large_cache = 1..Len(large_cache)
        /\ \A i \in DOMAIN large_cache :
             large_cache[i].ptr \in Addresses /\ large_cache[i].pages \in 1..MaxPages
    BY SMTT(20), <1>a, CacheEntries
  <1> DEFINE smallest == FirstSmallest(DOMAIN large_cache)
  <1> DEFINE victim == large_cache[smallest]
  <1>1. PICK b \in Addresses :
          /\ live[b] > 0
          /\ live' = [live EXCEPT ![b] = 0]
          /\ \/ /\ Len(large_cache) < CacheSize
                /\ large_cache' = Append(large_cache, Entry(b, prefix[b]))
                /\ UNCHANGED <<cpc, block, pages>>
             \/ /\ Len(large_cache) = CacheSize
                /\ prefix[b] > victim.pages
                /\ large_cache' = [large_cache EXCEPT ![smallest] = Entry(b, prefix[b])]
                /\ cpc' = [cpc EXCEPT ![t] = "unmap"]
                /\ block' = [block EXCEPT ![t] = victim.ptr]
                /\ pages' = [pages EXCEPT ![t] = victim.pages]
             \/ /\ Len(large_cache) = CacheSize
                /\ prefix[b] <= victim.pages
                /\ cpc' = [cpc EXCEPT ![t] = "unmap"]
                /\ block' = [block EXCEPT ![t] = b]
                /\ pages' = [pages EXCEPT ![t] = prefix[b]]
                /\ UNCHANGED large_cache
    BY ZenonT(30) DEF FreeLarge
  <1>2. /\ UNCHANGED <<mapped, prefix, block_pages>> /\ cpc[t] = "idle" /\ block[t] = NoMapping
        /\ prefix[b] = mapped[b] /\ prefix[b] \in 1..MaxPages
        /\ \A i \in DOMAIN large_cache : large_cache[i].ptr # b
        /\ \A u \in Callers : block[u] # b
    BY <1>1, <1>a DEF FreeLarge, WordsTyped, CacheCallsKnow, TruePageCount, HeldOnce
  <1> DEFINE E == [ptr : Addresses, pages : 1..MaxPages]
  <1> DEFINE new == Entry(b, prefix[b])
  <1>c. new \in E /\ new.ptr = b /\ new.pages = prefix[b]
    BY <1>2 DEF Entry
  <1>d. large_cache \in Seq(E)
    BY <1>a DEF CacheTyped
  <1> HIDE DEF E, new, smallest
  <1>3. CASE /\ Len(large_cache) < CacheSize
             /\ large_cache' = Append(large_cache, new)
             /\ UNCHANGED <<cpc, block, pages>>
    <2>1. /\ large_cache' \in Seq(E) /\ Len(large_cache') = Len(large_cache) + 1
          /\ DOMAIN large_cache' = 1..(Len(large_cache) + 1)
          /\ large_cache'[Len(large_cache) + 1] = new
          /\ \A i \in 1..Len(large_cache) : large_cache'[i] = large_cache[i]
      BY <1>3, <1>b, <1>c, <1>d, AppendProperties
    <2>2. CacheTyped'
      BY SMTT(20), <2>1, <1>3, <1>b DEF CacheTyped, E
    <2>3. WordsTyped' /\ CacheCallsKnow' /\ FitsRequest'
      BY SMTT(20), <1>1, <1>2, <1>3, <1>a DEF WordsTyped, CacheCallsKnow, FitsRequest
    <2>4. TruePageCount'
      BY SMTT(20), <1>1, <1>2, <1>3, <1>a, <1>b, <1>c, <2>1 DEF WordsTyped, TruePageCount
    <2>5. \A i, j \in DOMAIN large_cache' : large_cache'[i].ptr = large_cache'[j].ptr => i = j
      BY SMTT(20), <1>2, <1>a, <1>b, <1>c, <2>1 DEF HeldOnce
    <2>6. \A i \in DOMAIN large_cache' :
            live'[large_cache'[i].ptr] = 0 /\ \A u \in Callers : block'[u] # large_cache'[i].ptr
      BY SMTT(20), <1>1, <1>2, <1>3, <1>a, <1>b, <1>c, <2>1 DEF HeldOnce, WordsTyped
    <2>7. \A a \in Addresses :
            mapped'[a] > 0 <=> \/ \E i \in DOMAIN large_cache' : large_cache'[i].ptr = a
                               \/ \E u \in Callers : block'[u] = a
                               \/ live'[a] > 0
      <3> TAKE a \in Addresses
      <3>1. (\E i \in DOMAIN large_cache' : large_cache'[i].ptr = a)
               <=> (\E i \in DOMAIN large_cache : large_cache[i].ptr = a) \/ a = b
        BY <1>b, <1>c, <2>1
      <3>2. mapped'[a] = mapped[a] /\ live'[a] = IF a = b THEN 0 ELSE live[a]
        BY SMTT(20), <1>1, <1>2, <1>a DEF WordsTyped
      <3>3. /\ mapped[a] > 0 <=> \/ \E i \in DOMAIN large_cache : large_cache[i].ptr = a
                                 \/ \E u \in Callers : block[u] = a
                                 \/ live[a] > 0
            /\ a = b => mapped[a] > 0
        BY Zenon, <1>1, <1>2, <1>a DEF HeldOnce, WordsTyped
      <3> QED BY <3>1, <3>2, <3>3, <1>1, <1>2, <1>3
    <2>8. HeldOnce'
      <3>1. \A u, v \in Callers : block'[u] # NoMapping /\ block'[u] = block'[v] => u = v
        BY <1>3, <1>a DEF HeldOnce
      <3>2. \A u \in Callers : block'[u] # NoMapping => live'[block'[u]] = 0
        BY <1>1, <1>2, <1>3, <1>a DEF HeldOnce, WordsTyped
      <3> QED BY <2>5, <2>6, <2>7, <3>1, <3>2 DEF HeldOnce
    <2> QED BY <2>2, <2>3, <2>4, <2>8 DEF CacheInv, CacheTypeOK
  <1>4. CASE /\ Len(large_cache) = CacheSize
             /\ large_cache' = [large_cache EXCEPT ![smallest] = new]
             /\ cpc' = [cpc EXCEPT ![t] = "unmap"]
             /\ block' = [block EXCEPT ![t] = victim.ptr]
             /\ pages' = [pages EXCEPT ![t] = victim.pages]
    <2>0. smallest \in DOMAIN large_cache
      <3> DEFINE D == DOMAIN large_cache
      <3>1. D # {} /\ D \subseteq DOMAIN large_cache
        BY <1>4, <1>b
      <3>2. FirstSmallest(D) \in D
        <4> HIDE DEF D
        <4> QED BY SMTT(20), <3>1, <1>a, LeastPages
      <3> QED BY <3>2 DEF smallest
    <2>a. victim.ptr \in Addresses /\ victim.pages \in 1..MaxPages /\ victim.pages = mapped[victim.ptr]
          /\ victim.ptr # b /\ live[victim.ptr] = 0 /\ \A u \in Callers : block[u] # victim.ptr
      BY <2>0, <1>a, <1>b, <1>2 DEF TruePageCount, HeldOnce
    <2>1. /\ large_cache' \in Seq(E) /\ Len(large_cache') = Len(large_cache)
          /\ DOMAIN large_cache' = DOMAIN large_cache
          /\ \A i \in DOMAIN large_cache : large_cache'[i] = IF i = smallest THEN new ELSE large_cache[i]
      BY <1>4, <1>b, <1>c, <1>d, <2>0
    <2>2. CacheTyped'
      BY SMTT(20), <2>1, <1>4, <1>b DEF CacheTyped, E
    <2>3. WordsTyped' /\ CacheCallsKnow' /\ FitsRequest'
      BY SMTT(20), <1>1, <1>2, <1>4, <1>a, <2>a DEF WordsTyped, CacheCallsKnow, FitsRequest
    <2>4. TruePageCount'
      BY SMTT(20), <1>1, <1>2, <1>4, <1>a, <1>b, <1>c, <2>1, <2>a DEF WordsTyped, TruePageCount
    <2>5. \A i, j \in DOMAIN large_cache' : large_cache'[i].ptr = large_cache'[j].ptr => i = j
      BY SMTT(20), <1>2, <1>a, <1>b, <1>c, <2>0, <2>1 DEF HeldOnce
    <2>6. \A i \in DOMAIN large_cache' :
            live'[large_cache'[i].ptr] = 0 /\ \A u \in Callers : block'[u] # large_cache'[i].ptr
      BY <1>1, <1>2, <1>4, <1>a, <1>b, <1>c, <2>0, <2>1, <2>a DEF HeldOnce, WordsTyped
    <2>7. \A a \in Addresses :
            mapped'[a] > 0 <=> \/ \E i \in DOMAIN large_cache' : large_cache'[i].ptr = a
                               \/ \E u \in Callers : block'[u] = a
                               \/ live'[a] > 0
      <3> TAKE a \in Addresses
      <3>1. (\E i \in DOMAIN large_cache' : large_cache'[i].ptr = a)
               <=> (\E i \in DOMAIN large_cache : i # smallest /\ large_cache[i].ptr = a) \/ a = b
        BY <1>b, <1>c, <2>0, <2>1
      <3>2. mapped'[a] = mapped[a] /\ live'[a] = IF a = b THEN 0 ELSE live[a]
        BY SMTT(20), <1>1, <1>2, <1>a DEF WordsTyped
      <3>3. (\E u \in Callers : block'[u] = a) <=> (\E u \in Callers : block[u] = a) \/ a = victim.ptr
        BY <1>2, <1>4, <1>a, <2>a DEF WordsTyped
      <3> QED BY <3>1, <3>2, <3>3, <1>1, <1>2, <1>a, <2>0, <2>a, Zenon DEF HeldOnce, WordsTyped
    <2>8. HeldOnce'
      <3>1. \A u, v \in Callers : block'[u] # NoMapping /\ block'[u] = block'[v] => u = v
        BY SMTT(20), <1>2, <1>4, <1>a, <2>a DEF HeldOnce, WordsTyped
      <3>2. \A u \in Callers : block'[u] # NoMapping => live'[block'[u]] = 0
        BY <1>1, <1>2, <1>4, <1>a, <2>a DEF HeldOnce, WordsTyped
      <3> QED BY SMTT(20), <3>1, <3>2, <2>5, <2>6, <2>7 DEF HeldOnce
    <2> QED BY <2>2, <2>3, <2>4, <2>8 DEF CacheInv, CacheTypeOK
  <1>5. CASE /\ cpc' = [cpc EXCEPT ![t] = "unmap"]
             /\ block' = [block EXCEPT ![t] = b]
             /\ pages' = [pages EXCEPT ![t] = prefix[b]]
             /\ UNCHANGED large_cache
    <2>1. CacheTyped'
      BY SMTT(20), <1>5, <1>a DEF CacheTyped
    <2>2. WordsTyped' /\ CacheCallsKnow' /\ FitsRequest'
      BY SMTT(20), <1>1, <1>2, <1>5, <1>a DEF WordsTyped, CacheCallsKnow, FitsRequest
    <2>3. TruePageCount'
      BY SMTT(20), <1>1, <1>2, <1>5, <1>a, <1>b DEF WordsTyped, TruePageCount
    <2>4. HeldOnce'
      <3>1. \A u, v \in Callers : block'[u] # NoMapping /\ block'[u] = block'[v] => u = v
        BY <1>2, <1>5, <1>a DEF HeldOnce, WordsTyped
      <3>2. \A u \in Callers : block'[u] # NoMapping => live'[block'[u]] = 0
        BY <1>1, <1>2, <1>5, <1>a DEF HeldOnce, WordsTyped
      <3>3. \A i \in DOMAIN large_cache' :
              live'[large_cache'[i].ptr] = 0 /\ \A u \in Callers : block'[u] # large_cache'[i].ptr
        BY <1>1, <1>2, <1>5, <1>a, <1>b DEF HeldOnce, WordsTyped
      <3>4. ASSUME NEW a \in Addresses
            PROVE  mapped'[a] > 0 <=> \/ \E i \in DOMAIN large_cache' : large_cache'[i].ptr = a
                                      \/ \E u \in Callers : block'[u] = a
                                      \/ live'[a] > 0
        <4>1. mapped'[a] = mapped[a] /\ live'[a] = IF a = b THEN 0 ELSE live[a]
          BY <1>1, <1>2, <1>a DEF WordsTyped
        <4>2. (\E u \in Callers : block'[u] = a) <=> (\E u \in Callers : block[u] = a) \/ a = b
          BY <1>2, <1>5, <1>a DEF WordsTyped
        <4> QED BY <4>1, <4>2, <1>1, <1>2, <1>5, <1>a DEF HeldOnce, WordsTyped
      <3>5. \A i, j \in DOMAIN large_cache' : large_cache'[i].ptr = large_cache'[j].ptr => i = j
        BY <1>5, <1>a DEF HeldOnce
      <3> QED BY <3>1, <3>2, <3>3, <3>4, <3>5 DEF HeldOnce
    <2> QED BY <2>1, <2>2, <2>3, <2>4 DEF CacheInv, CacheTypeOK
  <1> QED BY <1>1, <1>3, <1>4, <1>5 DEF new, smallest

\* So do the steps of the other parts of the heap.
LEMMA CacheStutters == ASSUME CacheInv, UNCHANGED large PROVE CacheInv'
  <1>1. CacheTyped' /\ WordsTyped'
    BY DEF large, CacheInv, CacheTypeOK, CacheTyped, WordsTyped
  <1>2. HeldOnce'
    BY DEF large, CacheInv, HeldOnce
  <1>3. CacheCallsKnow' /\ FitsRequest' /\ TruePageCount'
    BY DEF large, CacheInv, CacheCallsKnow, FitsRequest, TruePageCount
  <1> QED BY <1>1, <1>2, <1>3 DEF CacheInv, CacheTypeOK

\* Holding once, counted.
LEMMA HeldOnceCounts == CacheInv => OneHolder
  <1> SUFFICES ASSUME CacheInv, NEW a \in Addresses PROVE Holders(a) = IF mapped[a] > 0 THEN 1 ELSE 0
    BY DEF OneHolder
  <1> DEFINE I == {i \in DOMAIN large_cache : large_cache[i].ptr = a}
  <1> DEFINE T == {t \in Callers : block[t] = a}
  <1>1. /\ I = {} \/ \E i \in DOMAIN large_cache : I = {i}
        /\ T = {} \/ \E t \in Callers : T = {t}
    BY CacheAssumption DEF CacheInv, HeldOnce
  <1>2. Cardinality({}) = 0 /\ \A x : Cardinality({x}) = 1
    BY Zenon, FS_EmptySet, FS_Singleton
  <1>3. \A F : Cardinality(F) = Cardinality(F)
    BY Zenon DEF Cardinality, Cardinality, IsFiniteSet, IsFiniteSet
  <1>4. /\ Cardinality(I) = IF I = {} THEN 0 ELSE 1
        /\ Cardinality(T) = IF T = {} THEN 0 ELSE 1
    BY Zenon, <1>1, <1>2
  <1>5. mapped[a] > 0 <=> I # {} \/ T # {} \/ live[a] > 0
    BY DEF CacheInv, HeldOnce
  <1>6. (I # {} => T = {} /\ ~ live[a] > 0) /\ (T # {} => ~ live[a] > 0)
    BY CacheAssumption DEF CacheInv, HeldOnce
  <1>7. Holders(a) = Cardinality(I) + Cardinality(T) + (IF live[a] > 0 THEN 1 ELSE 0)
    BY <1>3 DEF Holders
  <1> QED BY <1>4, <1>5, <1>6, <1>7

\* A large mapping has one holder, whose record of its page count is true and as
\* large as the request, for any number of callers, addresses and cache entries.
THEOREM CacheExact == CacheSpec => []MappingsExact
  <1>2. CacheInv /\ [CacheNext]_large => CacheInv'
    BY CacheLookupKeeps, CacheMapKeeps, CacheFinishKeeps, CacheFreeKeeps, CacheUnmapKeeps,
       CacheStutters DEF CacheNext
  <1>3. CacheInv => MappingsExact
    BY HeldOnceCounts DEF MappingsExact, CacheInv
  <1> QED BY CacheInitially, <1>2, <1>3, PTL DEF CacheSpec

-----------------------------------------------------------------------------
(* The table of per-thread locals.                                         *)

\* A tid hashes to a slot of the table.
LEMMA SlotOfTid == ASSUME NEW t \in Tids PROVE Slot(t) \in 0..(TableSize - 1)
  BY LocalAssumption DEF Slot

\* The slot of a tid, and what is not a tid or a local.
LEMMA LocalNames ==
    ASSUME NEW t \in Tids
    PROVE  /\ Slot(t) \in 0..(TableSize - 1)
           /\ Nil \notin Locals /\ Nil \notin Tids /\ NoTid \notin Tids
  <1>1. Locals \subseteq Nat
    BY DEF Locals
  <1> QED BY Zenon, <1>1, SlotOfTid, LocalAssumption

\* Following a link does not lose the local that is looked for.
LEMMA LocalLeadsOn ==
    ASSUME NEW c \in Locals, NEW l \in Locals, ChainLeads(c, l), c # l, next \in [Locals -> Locals \union {Nil}]
    PROVE  next[c] # Nil /\ ChainLeads(next[c], l)
  <1>1. next[c] # Nil
    <2>1. SUFFICES ASSUME next[c] = Nil PROVE FALSE
      OBVIOUS
    <2>2. {c} \in SUBSET Locals /\ c \in {c} /\ (\A x \in {c} : next[x] # Nil => next[x] \in {c})
      BY <2>1
    <2>3. l \in {c}
      BY <2>2 DEF ChainLeads
    <2> QED BY <2>3
  <1>2. ASSUME NEW X \in SUBSET Locals, next[c] \in X,
               \A x \in X : next[x] # Nil => next[x] \in X
        PROVE  l \in X
    <2> DEFINE Y == X \union {c}
    <2>1. Y \in SUBSET Locals /\ c \in Y /\ (\A x \in Y : next[x] # Nil => next[x] \in Y)
      BY <1>2
    <2>2. l \in Y
      <3> HIDE DEF Y
      <3> QED BY <2>1 DEF ChainLeads
    <2> QED BY <2>2
  <1> QED BY <1>1, <1>2 DEF ChainLeads

\* Changing the link of a local that readers cannot meet changes no chain.
LEMMA LocalLeadsKept ==
    ASSUME NEW P \in SUBSET Locals, NEW c \in P, NEW l \in Locals, ChainLeads(c, l),
           \A x \in P : next'[x] = next[x] /\ (next[x] # Nil => next[x] \in P)
    PROVE  ChainLeads(c, l)'
  <1> SUFFICES ASSUME NEW X \in SUBSET Locals, c \in X,
                      \A x \in X : next'[x] # Nil => next'[x] \in X
               PROVE  l \in X
    BY DEF ChainLeads, Locals
  <1> DEFINE Y == X \cap P
  <1>1. Y \in SUBSET Locals /\ c \in Y /\ (\A x \in Y : next[x] # Nil => next[x] \in Y)
    OBVIOUS
  <1>2. l \in Y
    <2> HIDE DEF Y
    <2> QED BY <1>1 DEF ChainLeads
  <1> QED BY <1>2

\* With the links unchanged, so is where they lead.
LEMMA LocalLeadsSame ==
    ASSUME next' = next, NEW c, NEW l
    PROVE  ChainLeads(c, l)' <=> ChainLeads(c, l)
  BY SMTT(20) DEF ChainLeads, Locals

\* An empty table satisfies the inductive invariant.
LEMMA LocalInitially == LocalInit => LocalInv
  BY LocalAssumption, SlotOfTid
  DEF LocalInit, LocalInv, LocalTypeOK, ChainsWhole, LocalCallsKnow,
      OneLocalPerTid, ReadsOwnValue, Published, Inserting, Locals

\* A thread that starts keeps the invariant.
LEMMA LocalStartKeeps == ASSUME LocalInv, NEW t \in Tids, Start(t) PROVE LocalInv'
  <1> USE LocalAssumption
  <1>a. LocalTypeOK /\ ChainsWhole /\ LocalCallsKnow /\ OneLocalPerTid /\ ReadsOwnValue
    BY DEF LocalInv
  <1>b. /\ Slot(t) \in 0..(TableSize - 1)
        /\ Nil \notin Locals /\ Nil \notin Tids /\ NoTid \notin Tids
    BY LocalNames
  <1>1. LocalTypeOK'
    BY <1>a, <1>b DEF LocalTypeOK, Start, memory
  <1>2. Published' = Published
    BY <1>a, <1>b DEF Start, memory, Published, Inserting, LocalTypeOK
  <1>3. ChainsWhole'
    BY SMTT(30), <1>a, <1>b, <1>2 DEF Start, memory, ChainsWhole, LocalTypeOK, ChainLeads
  <1>4. LocalCallsKnow'
    BY <1>a, <1>b, <1>2 DEF Start, memory, LocalCallsKnow, LocalTypeOK, Inserting
  <1>5. OneLocalPerTid'
    BY <1>a DEF Start, memory, OneLocalPerTid
  <1>6. ReadsOwnValue'
    <2>1. \A u \in Tids \ {t} : lpc'[u] = lpc[u] /\ wrote'[u] = wrote[u] /\ tls'[u] = tls[u]
      BY <1>a DEF Start, LocalTypeOK
    <2>2. lpc'[t] = "fresh" /\ slots' = slots
      BY <1>a DEF Start, LocalTypeOK, memory
    <2> QED BY <1>a, <2>1, <2>2 DEF ReadsOwnValue, TlsGet
  <1> QED
    BY <1>1, <1>3, <1>4, <1>5, <1>6 DEF LocalInv

\* Loading the head of a chain keeps the invariant.
LEMMA LocalLoadKeeps == ASSUME LocalInv, NEW t \in Tids, Load(t) PROVE LocalInv'
  <1> USE LocalAssumption
  <1>a. LocalTypeOK /\ ChainsWhole /\ LocalCallsKnow /\ OneLocalPerTid /\ ReadsOwnValue
    BY DEF LocalInv
  <1>b. /\ Slot(t) \in 0..(TableSize - 1)
        /\ Nil \notin Locals /\ Nil \notin Tids /\ NoTid \notin Tids
    BY SMTT(20), LocalNames
  <1>1. LocalTypeOK'
    BY <1>a, <1>b DEF LocalTypeOK, Load, memory
  <1>2. Published' = Published
    BY SMTT(20), <1>a, <1>b DEF Load, memory, Published, Inserting, LocalTypeOK
  <1>3. ChainsWhole'
    BY SMTT(30), <1>a, <1>b, <1>2 DEF Load, memory, ChainsWhole, LocalTypeOK, ChainLeads
  <1>4. LocalCallsKnow'
    BY <1>a, <1>b, <1>2 DEF Load, memory, LocalCallsKnow, LocalTypeOK, Inserting
  <1>5. OneLocalPerTid'
    BY SMTT(20), <1>a DEF Load, memory, OneLocalPerTid
  <1>6. ReadsOwnValue'
    BY <1>a, <1>b DEF Load, memory, ReadsOwnValue, TlsGet, LocalCallsKnow, LocalTypeOK
  <1> QED
    BY <1>1, <1>3, <1>4, <1>5, <1>6 DEF LocalInv

\* Taking heap_local_table_lock keeps the invariant.
LEMMA LocalAcquireKeeps == ASSUME LocalInv, NEW t \in Tids, Acquire(t) PROVE LocalInv'
  <1> USE LocalAssumption
  <1>a. LocalTypeOK /\ ChainsWhole /\ LocalCallsKnow /\ OneLocalPerTid /\ ReadsOwnValue
    BY DEF LocalInv
  <1>b. /\ Slot(t) \in 0..(TableSize - 1)
        /\ Nil \notin Locals /\ Nil \notin Tids /\ NoTid \notin Tids
    BY SMTT(20), LocalNames
  <1>1. LocalTypeOK'
    BY SMTT(20), <1>a, <1>b DEF LocalTypeOK, Acquire
  <1>2. Published' = Published
    BY SMTT(20), <1>a, <1>b DEF Acquire, Published, Inserting, LocalTypeOK
  <1>3. ChainsWhole'
    BY SMTT(30), <1>a, <1>b, <1>2 DEF Acquire, ChainsWhole, LocalTypeOK, ChainLeads
  <1>4. LocalCallsKnow'
    BY <1>a, <1>b, <1>2 DEF Acquire, LocalCallsKnow, LocalTypeOK, Inserting
  <1>5. OneLocalPerTid'
    BY <1>a DEF Acquire, OneLocalPerTid
  <1>6. ReadsOwnValue'
    BY <1>a, <1>b DEF Acquire, ReadsOwnValue, TlsGet, LocalCallsKnow, LocalTypeOK
  <1> QED
    BY <1>1, <1>3, <1>4, <1>5, <1>6 DEF LocalInv

\* lc_tls_set keeps the invariant.
LEMMA LocalTlsSetKeeps == ASSUME LocalInv, NEW t \in Tids, TlsSet(t) PROVE LocalInv'
  <1> USE LocalAssumption
  <1>a. LocalTypeOK /\ ChainsWhole /\ LocalCallsKnow /\ OneLocalPerTid /\ ReadsOwnValue
    BY DEF LocalInv
  <1>b. /\ Slot(t) \in 0..(TableSize - 1)
        /\ Nil \notin Locals /\ Nil \notin Tids /\ NoTid \notin Tids
    BY LocalNames
  <1>1. LocalTypeOK'
    BY SMTT(20), <1>a, <1>b DEF LocalTypeOK, TlsSet, LocalCallsKnow, Published, Inserting
  <1>2. Published' = Published
    BY SMTT(20), <1>a, <1>b DEF TlsSet, Published, Inserting, LocalTypeOK
  <1>3. ChainsWhole'
    BY SMTT(30), <1>a, <1>b, <1>2 DEF TlsSet, ChainsWhole, LocalTypeOK, ChainLeads
  <1>4. LocalCallsKnow'
    BY <1>a, <1>b, <1>2 DEF TlsSet, LocalCallsKnow, LocalTypeOK, Inserting
  <1>5. OneLocalPerTid'
    BY SMTT(20), <1>a DEF TlsSet, OneLocalPerTid
  <1>6. ReadsOwnValue'
    BY <1>a, <1>b DEF TlsSet, ReadsOwnValue, TlsGet, LocalCallsKnow, LocalTypeOK
  <1> QED
    BY <1>1, <1>3, <1>4, <1>5, <1>6 DEF LocalInv

\* A thread that ends keeps the invariant.
LEMMA LocalExitKeeps == ASSUME LocalInv, NEW t \in Tids, Exit(t) PROVE LocalInv'
  <1> USE LocalAssumption
  <1>a. LocalTypeOK /\ ChainsWhole /\ LocalCallsKnow /\ OneLocalPerTid /\ ReadsOwnValue
    BY DEF LocalInv
  <1>b. /\ Slot(t) \in 0..(TableSize - 1)
        /\ Nil \notin Locals /\ Nil \notin Tids /\ NoTid \notin Tids
    BY SMTT(20), LocalNames
  <1>1. LocalTypeOK'
    BY SMTT(20), <1>a, <1>b DEF LocalTypeOK, Exit, memory
  <1>2. Published' = Published
    BY SMTT(20), <1>a, <1>b DEF Exit, memory, Published, Inserting, LocalTypeOK
  <1>3. ChainsWhole'
    BY SMTT(30), <1>a, <1>b, <1>2 DEF Exit, memory, ChainsWhole, LocalTypeOK, ChainLeads
  <1>4. LocalCallsKnow'
    BY SMTT(20), <1>a, <1>b, <1>2 DEF Exit, memory, LocalCallsKnow, LocalTypeOK, Inserting
  <1>5. OneLocalPerTid'
    BY SMTT(20), <1>a DEF Exit, memory, OneLocalPerTid
  <1>6. ReadsOwnValue'
    BY <1>a, <1>b DEF Exit, memory, ReadsOwnValue, TlsGet, LocalCallsKnow, LocalTypeOK
  <1> QED
    BY <1>1, <1>3, <1>4, <1>5, <1>6 DEF LocalInv

\* A step of the walk without a lock keeps the invariant.
LEMMA LocalWalkKeeps == ASSUME LocalInv, NEW t \in Tids, WalkChain(t) PROVE LocalInv'
  <1> USE LocalAssumption
  <1>a. LocalTypeOK /\ ChainsWhole /\ LocalCallsKnow /\ OneLocalPerTid /\ ReadsOwnValue
    BY DEF LocalInv
  <1>b. /\ Slot(t) \in 0..(TableSize - 1)
        /\ Nil \notin Locals /\ Nil \notin Tids /\ NoTid \notin Tids
    BY LocalNames
  <1>c. lpc[t] = "walk" /\ UNCHANGED <<table, next, tid, slots, table_lock, wrote>>
    BY DEF WalkChain, memory
  <1>5. OneLocalPerTid'
    BY <1>a, <1>c DEF OneLocalPerTid
  <1>1. CASE cur[t] = Nil /\ lpc' = [lpc EXCEPT ![t] = "map"] /\ UNCHANGED <<tls, cur>>
    <2>1. LocalTypeOK'
      BY <1>a, <1>c, <1>1 DEF LocalTypeOK
    <2>2. Published' = Published
      BY SMTT(20), <1>a, <1>c, <1>1 DEF Published, Inserting, LocalTypeOK
    <2>3. ChainsWhole'
      BY SMTT(20), <1>a, <1>c, <1>1, <2>2 DEF ChainsWhole, LocalTypeOK, ChainLeads
    <2>4. \A l \in Locals : tid[l] # t
      BY SMTT(20), <1>a, <1>b, <1>c, <1>1 DEF ChainsWhole, Published, Inserting
    <2>5. LocalCallsKnow'
      BY <1>a, <1>c, <1>1, <2>2, <2>4 DEF LocalCallsKnow, LocalTypeOK, Inserting
    <2>6. ReadsOwnValue'
      BY <1>a, <1>c, <1>1 DEF ReadsOwnValue, TlsGet, LocalTypeOK
    <2> QED BY SMTT(20), <1>5, <2>1, <2>3, <2>5, <2>6 DEF LocalInv
  <1>2. CASE /\ cur[t] # Nil /\ tid[cur[t]] = t
             /\ tls' = [tls EXCEPT ![t] = cur[t]]
             /\ lpc' = [lpc EXCEPT ![t] = "ready"]
             /\ UNCHANGED cur
    <2>1. LocalTypeOK'
      BY <1>a, <1>c, <1>2 DEF LocalTypeOK
    <2>2. Published' = Published
      BY <1>a, <1>c, <1>2 DEF Published, Inserting, LocalTypeOK
    <2>3. ChainsWhole'
      BY <1>a, <1>c, <1>2, <2>2, ZenonT(30) DEF ChainsWhole, LocalTypeOK, ChainLeads
    <2>5. LocalCallsKnow'
      <3>1. /\ \A u \in Tids : /\ lpc'[u] = IF u = t THEN "ready" ELSE lpc[u]
                               /\ tls'[u] = IF u = t THEN cur[t] ELSE tls[u]
            /\ cur[t] \in Published
        BY SMTT(20), <1>a, <1>c, <1>2 DEF LocalTypeOK, ChainsWhole
      <3> SUFFICES ASSUME NEW u \in Tids
                   PROVE  /\ Inserting(u)' => cur'[u] \in Locals /\ tid'[cur'[u]] = u
                          /\ lpc'[u] = "map" => \A l \in Locals : tid'[l] # u
                          /\ lpc'[u] \in {"link", "publish"} <=> table_lock' = u
                          /\ lpc'[u] = "publish" => next'[cur'[u]] = table'[Slot(u)]
                          /\ tls'[u] # Nil => tls'[u] \in Published' /\ tid'[tls'[u]] = u
                          /\ lpc'[u] \notin {"none", "ready"} => ~ wrote'[u]
        BY DEF LocalCallsKnow, Inserting
      <3> QED BY <1>a, <1>c, <1>2, <2>2, <3>1 DEF LocalCallsKnow, Inserting
    <2>6. ReadsOwnValue'
      BY <1>a, <1>c, <1>2 DEF ReadsOwnValue, TlsGet, LocalTypeOK, LocalCallsKnow
    <2> QED BY SMTT(20), <1>5, <2>1, <2>3, <2>5, <2>6 DEF LocalInv
  <1>3. CASE /\ cur[t] # Nil /\ tid[cur[t]] # t
             /\ cur' = [cur EXCEPT ![t] = next[cur[t]]]
             /\ UNCHANGED <<tls, lpc>>
    <2>1. LocalTypeOK'
      BY <1>a, <1>c, <1>3 DEF LocalTypeOK
    <2>2. Published' = Published
      BY SMTT(20), <1>a, <1>c, <1>3 DEF Published, Inserting, LocalTypeOK
    <2>3. /\ next[cur[t]] # Nil => next[cur[t]] \in Published
          /\ \A l \in Published : tid[l] = t => next[cur[t]] # Nil /\ ChainLeads(next[cur[t]], l)
      BY SMTT(20), <1>a, <1>b, <1>c, <1>3, LocalLeadsOn DEF ChainsWhole, LocalTypeOK, Published
    <2>4. ChainsWhole'
      <3>1. \A c, l : ChainLeads(c, l)' <=> ChainLeads(c, l)
        BY <1>c, LocalLeadsSame
      <3>2. \A u \in Tids \ {t} : cur'[u] = cur[u]
        BY <1>a, <1>3 DEF LocalTypeOK
      <3>3. cur'[t] = next[cur[t]]
        BY <1>a, <1>3 DEF LocalTypeOK
      <3>4. \A l \in Published' :
              /\ next'[l] # Nil => next'[l] \in Published'
              /\ table'[Slot(tid'[l])] # Nil /\ ChainLeads(table[Slot(tid[l])], l)'
        BY SMTT(20), <1>a, <1>c, <2>2, LocalLeadsSame DEF ChainsWhole
      <3>5. \A u \in Tids : lpc'[u] = "walk" =>
              /\ cur'[u] # Nil => cur'[u] \in Published'
              /\ \A l \in Published' : tid'[l] = u => cur'[u] # Nil /\ ChainLeads(cur[u], l)'
        BY SMTT(20), <1>a, <1>c, <1>3, <2>2, <2>3, <3>2, <3>3, LocalLeadsSame DEF ChainsWhole
      <3> QED BY <3>4, <3>5, <1>a, <1>c, <2>2 DEF ChainsWhole
    <2>5. LocalCallsKnow'
      BY <1>a, <1>c, <1>3, <2>2 DEF LocalCallsKnow, LocalTypeOK, Inserting
    <2>6. ReadsOwnValue'
      BY <1>a, <1>c, <1>3 DEF ReadsOwnValue, TlsGet, LocalTypeOK
    <2> QED BY <1>5, <2>1, <2>4, <2>5, <2>6 DEF LocalInv
  <1> QED BY <1>1, <1>2, <1>3 DEF WalkChain

\* Mapping a local, or failing to, keeps the invariant.
LEMMA LocalMapKeeps == ASSUME LocalInv, NEW t \in Tids, MapLocal(t) PROVE LocalInv'
  <1> USE LocalAssumption
  <1>a. LocalTypeOK /\ ChainsWhole /\ LocalCallsKnow /\ OneLocalPerTid /\ ReadsOwnValue
    BY DEF LocalInv
  <1>b. /\ Slot(t) \in 0..(TableSize - 1)
        /\ Nil \notin Locals /\ Nil \notin Tids /\ NoTid \notin Tids
    BY LocalNames
  <1>c. lpc[t] = "map" /\ UNCHANGED <<table, next, table_lock, tls, wrote>>
    BY DEF MapLocal
  <1>1. ASSUME NEW l \in Locals,
               /\ tid[l] = Nil
               /\ tid' = [tid EXCEPT ![l] = t]
               /\ slots' = [slots EXCEPT ![l] = Nil]
               /\ cur' = [cur EXCEPT ![t] = l]
               /\ lpc' = [lpc EXCEPT ![t] = "lock"]
        PROVE  LocalInv'
    <2>1. LocalTypeOK'
      BY <1>a, <1>b, <1>c, <1>1, SMTT(20) DEF LocalTypeOK
    <2>2. \A k \in Locals : tid[k] # t
      BY SMTT(20), <1>a, <1>c DEF LocalCallsKnow
    <2>3. Published' = Published /\ l \notin Published
      BY SMTT(20), <1>a, <1>b, <1>c, <1>1, <2>2 DEF Published, Inserting, LocalTypeOK
    <2>4. \A k \in Published : tid'[k] = tid[k]
      BY SMTT(20), <1>a, <1>1, <2>3 DEF LocalTypeOK, Published
    <2>5. ChainsWhole'
      <3>1. \A u \in Tids : lpc'[u] = "walk" => lpc[u] = "walk" /\ cur'[u] = cur[u]
        BY SMTT(20), <1>a, <1>1 DEF LocalTypeOK
      <3>2. \A k \in Published' :
              /\ next'[k] # Nil => next'[k] \in Published'
              /\ table'[Slot(tid'[k])] # Nil /\ ChainLeads(table[Slot(tid[k])], k)'
        BY SMTT(20), <1>a, <1>c, <2>3, <2>4, LocalLeadsSame DEF ChainsWhole
      <3>3. \A u \in Tids : lpc'[u] = "walk" =>
              /\ cur'[u] # Nil => cur'[u] \in Published'
              /\ \A k \in Published' : tid'[k] = u => cur'[u] # Nil /\ ChainLeads(cur[u], k)'
        BY SMTT(20), <1>a, <1>c, <2>3, <2>4, <3>1, LocalLeadsSame DEF ChainsWhole
      <3> QED BY SMTT(20), <3>2, <3>3, <1>a, <1>c, <2>3 DEF ChainsWhole
    <2>6. LocalCallsKnow'
      BY SMTT(20), <1>a, <1>b, <1>c, <1>1, <2>2, <2>3, <2>4 DEF LocalCallsKnow, LocalTypeOK,
         Inserting
    <2>7. OneLocalPerTid'
      BY SMTT(20), <1>a, <1>1, <2>2 DEF OneLocalPerTid, LocalTypeOK
    <2>8. ReadsOwnValue'
      BY <1>a, <1>c, <1>1, <2>3 DEF ReadsOwnValue, TlsGet, LocalTypeOK, LocalCallsKnow
    <2> QED BY SMTT(20), <2>1, <2>5, <2>6, <2>7, <2>8 DEF LocalInv
  <1>2. CASE lpc' = [lpc EXCEPT ![t] = "fresh"] /\ UNCHANGED <<tid, slots, cur>>
    <2>1. LocalTypeOK'
      BY SMTT(20), <1>a, <1>c, <1>2 DEF LocalTypeOK
    <2>2. Published' = Published
      BY SMTT(20), <1>a, <1>c, <1>2 DEF Published, Inserting, LocalTypeOK
    <2>3. ChainsWhole'
      BY SMTT(20), <1>a, <1>c, <1>2, <2>2 DEF ChainsWhole, LocalTypeOK, ChainLeads
    <2>5. LocalCallsKnow' /\ OneLocalPerTid'
      BY SMTT(20), <1>a, <1>c, <1>2, <2>2 DEF LocalCallsKnow, LocalTypeOK, Inserting,
         OneLocalPerTid
    <2>6. ReadsOwnValue'
      BY <1>a, <1>c, <1>2 DEF ReadsOwnValue, TlsGet, LocalTypeOK
    <2> QED BY SMTT(20), <2>1, <2>3, <2>5, <2>6 DEF LocalInv
  <1> QED BY <1>1, <1>2 DEF MapLocal

\* Linking the new local to the head of its chain keeps the invariant.
LEMMA LocalLinkKeeps == ASSUME LocalInv, NEW t \in Tids, Link(t) PROVE LocalInv'
  <1> USE LocalAssumption
  <1>a. LocalTypeOK /\ ChainsWhole /\ LocalCallsKnow /\ OneLocalPerTid /\ ReadsOwnValue
    BY DEF LocalInv
  <1>b. /\ Slot(t) \in 0..(TableSize - 1)
        /\ Nil \notin Locals /\ Nil \notin Tids /\ NoTid \notin Tids
    BY SMTT(20), LocalNames
  <1>c. /\ lpc[t] = "link" /\ lpc' = [lpc EXCEPT ![t] = "publish"]
        /\ next' = [next EXCEPT ![cur[t]] = table[Slot(t)]]
        /\ UNCHANGED <<table, tid, slots, table_lock, tls, cur, wrote>>
        /\ table_lock = t /\ cur[t] \in Locals /\ tid[cur[t]] = t
    BY SMTT(20), <1>a DEF Link, LocalCallsKnow, Inserting
  <1>1. LocalTypeOK'
    BY SMTT(20), <1>a, <1>b, <1>c DEF LocalTypeOK
  <1>2. Published' = Published /\ Published \subseteq Locals /\ cur[t] \notin Published
    BY SMTT(20), <1>a, <1>b, <1>c DEF Published, Inserting, LocalTypeOK
  <1>3. \A x \in Published : next'[x] = next[x] /\ (next[x] # Nil => next[x] \in Published)
    BY <1>a, <1>c, <1>2 DEF ChainsWhole, LocalTypeOK
  <1>4. \A c \in Published, l \in Published : ChainLeads(c, l) => ChainLeads(c, l)'
    BY <1>2, <1>3, LocalLeadsKept
  <1>5. ChainsWhole'
    <2>1. \A i \in 0..(TableSize - 1) : table'[i] # Nil => table'[i] \in Published'
      BY SMTT(20), <1>a, <1>c, <1>2 DEF ChainsWhole
    <2>2. \A l \in Published' :
            /\ next'[l] # Nil => next'[l] \in Published'
            /\ table'[Slot(tid'[l])] # Nil /\ ChainLeads(table[Slot(tid[l])], l)'
      <3> TAKE l \in Published'
      <3>1. Slot(tid[l]) \in 0..(TableSize - 1)
        BY <1>a, <1>2, SlotOfTid, Zenon DEF Published, LocalTypeOK
      <3>2. table[Slot(tid[l])] \in Published /\ ChainLeads(table[Slot(tid[l])], l)
        <4>1. l \in Published
          BY <1>2
        <4> QED BY <1>a, <3>1, <4>1 DEF ChainsWhole
      <3>3. table'[Slot(tid'[l])] = table[Slot(tid[l])]
        BY <1>c, Zenon
      <3>4. ChainLeads(table[Slot(tid[l])], l)'
        BY ZenonT(30), <3>2, <3>3, <1>2, <1>4 DEF ChainLeads
      <3> QED BY SMTT(20), <1>2, <1>3, <3>2, <3>3, <3>4, <1>a, <1>c, <1>b DEF ChainsWhole
    <2>3. \A u \in Tids : lpc'[u] = "walk" =>
            /\ cur'[u] # Nil => cur'[u] \in Published'
            /\ \A l \in Published' : tid'[l] = u => cur'[u] # Nil /\ ChainLeads(cur[u], l)'
      <3> SUFFICES ASSUME NEW u \in Tids, lpc'[u] = "walk"
                   PROVE  /\ cur'[u] # Nil => cur'[u] \in Published'
                          /\ \A l \in Published' : tid'[l] = u => cur'[u] # Nil /\ ChainLeads(cur[u], l)'
        OBVIOUS
      <3>1. lpc[u] = "walk" /\ cur'[u] = cur[u] /\ tid' = tid
        BY <1>a, <1>c DEF LocalTypeOK
      <3>2. ASSUME NEW l \in Published, tid[l] = u PROVE cur[u] \in Published /\ ChainLeads(cur[u], l)'
        BY <3>1, <3>2, <1>a, <1>2, <1>4 DEF ChainsWhole
      <3>3. ASSUME NEW l \in Published, tid[l] = u PROVE cur'[u] # Nil /\ ChainLeads(cur[u], l)'
        BY SMTT(20), <3>1, <3>2, <3>3, <1>2, <1>b DEF ChainLeads
      <3> QED BY <3>1, <3>3, <1>2, <1>a DEF ChainsWhole
    <2> QED BY SMTT(20), <2>1, <2>2, <2>3 DEF ChainsWhole
  <1>6. LocalCallsKnow'
    BY SMTT(20), <1>a, <1>b, <1>c, <1>2 DEF LocalCallsKnow, LocalTypeOK, Inserting
  <1>7. OneLocalPerTid' /\ ReadsOwnValue'
    BY <1>a, <1>c DEF ReadsOwnValue, TlsGet, LocalTypeOK, OneLocalPerTid
  <1> QED BY <1>1, <1>5, <1>6, <1>7 DEF LocalInv

\* Publishing it as the head keeps the invariant, concurrent walks included.
LEMMA LocalPublishKeeps == ASSUME LocalInv, NEW t \in Tids, Publish(t) PROVE LocalInv'
  <1> USE LocalAssumption
  <1>a. LocalTypeOK /\ ChainsWhole /\ LocalCallsKnow /\ OneLocalPerTid /\ ReadsOwnValue
    BY DEF LocalInv
  <1>b. /\ Slot(t) \in 0..(TableSize - 1)
        /\ Nil \notin Locals /\ Nil \notin Tids /\ NoTid \notin Tids
    BY SMTT(20), LocalNames
  <1>c. /\ lpc[t] = "publish" /\ lpc' = [lpc EXCEPT ![t] = "ready"]
        /\ table' = [table EXCEPT ![Slot(t)] = cur[t]]
        /\ table_lock' = NoTid
        /\ tls' = [tls EXCEPT ![t] = cur[t]]
        /\ UNCHANGED <<next, tid, slots, cur, wrote>>
        /\ table_lock = t /\ cur[t] \in Locals /\ tid[cur[t]] = t /\ next[cur[t]] = table[Slot(t)]
        /\ \A u \in Tids \ {t} : lpc[u] \notin {"link", "publish"}
    BY SMTT(20), <1>a DEF Publish, LocalCallsKnow, Inserting
  <1> DEFINE new == cur[t]
  <1>1. LocalTypeOK'
    BY SMTT(20), <1>a, <1>b, <1>c DEF LocalTypeOK
  <1>2. Published' = Published \union {new} /\ Published \subseteq Locals /\ new \notin Published
    BY <1>a, <1>b, <1>c DEF Published, Inserting, LocalTypeOK, OneLocalPerTid
  <1>3. \A l \in Published : tid[l] # t
    BY SMTT(20), <1>a, <1>b, <1>c, <1>2 DEF OneLocalPerTid
  <1>4. table'[Slot(t)] = new /\ \A i \in 0..(TableSize - 1) : i # Slot(t) => table'[i] = table[i]
    BY SMTT(20), <1>a, <1>b, <1>c DEF LocalTypeOK
  <1>5. ChainLeads(new, new) /\ \A l \in Published : Slot(tid[l]) = Slot(t) => ChainLeads(new, l)
    <2>1. ChainLeads(new, new)
      BY DEF ChainLeads
    <2>2. ASSUME NEW l \in Published, Slot(tid[l]) = Slot(t) PROVE ChainLeads(new, l)
      <3>1. table[Slot(t)] # Nil /\ ChainLeads(table[Slot(t)], l)
        BY <1>a, <2>2 DEF ChainsWhole
      <3>2. next[new] # Nil /\ ChainLeads(next[new], l)
        BY <3>1, <1>c
      <3> QED BY <3>2 DEF ChainLeads
    <2> QED BY <2>1, <2>2
  <1>6. ChainsWhole'
    <2>1. \A i \in 0..(TableSize - 1) : table'[i] # Nil => table'[i] \in Published'
      BY <1>a, <1>2, <1>4 DEF ChainsWhole
    <2>2. ASSUME NEW l \in Published'
          PROVE  /\ next'[l] # Nil => next'[l] \in Published'
                 /\ table'[Slot(tid'[l])] # Nil /\ ChainLeads(table[Slot(tid[l])], l)'
      <3>1. next' = next /\ tid' = tid
        BY SMTT(20), <1>c
      <3>2. next[l] # Nil => next[l] \in Published
        BY <1>a, <1>b, <1>c, <1>2 DEF ChainsWhole
      <3>3. Slot(tid[l]) \in 0..(TableSize - 1)
        BY <1>a, <1>2, <1>c, SlotOfTid, Zenon DEF Published, LocalTypeOK
      <3>4. CASE Slot(tid[l]) = Slot(t)
        <4>1. ChainLeads(new, l)
          BY <1>2, <1>5, <3>4
        <4>2. table'[Slot(tid'[l])] = new
          BY <3>1, <3>4, <1>4
        <4> HIDE DEF new
        <4>3. ChainLeads(table'[Slot(tid'[l])], l)
          BY <4>1, <4>2
        <4>4. ChainLeads(table[Slot(tid[l])], l)'
          BY SMTT(20), <4>3, <3>1 DEF ChainLeads, Locals
        <4> QED BY SMTT(20), <4>2, <4>4, <3>1, <3>2, <1>2, <1>b, <1>c DEF new
      <3>5. CASE Slot(tid[l]) # Slot(t)
        <4>1. l \in Published /\ table'[Slot(tid'[l])] = table[Slot(tid[l])]
          BY <3>1, <3>3, <3>5, <1>2, <1>4, <1>c
        <4>2. table[Slot(tid[l])] # Nil /\ ChainLeads(table[Slot(tid[l])], l)
          BY SMTT(20), <4>1, <1>a DEF ChainsWhole
        <4>3. ChainLeads(table[Slot(tid[l])], l)'
          BY <4>1, <4>2, <3>1 DEF ChainLeads, Locals
        <4> QED BY SMTT(20), <4>1, <4>2, <4>3, <3>1, <3>2, <1>2
      <3> QED BY SMTT(20), <3>4, <3>5
    <2>3. ASSUME NEW u \in Tids, lpc'[u] = "walk"
          PROVE  /\ cur'[u] # Nil => cur'[u] \in Published'
                 /\ \A l \in Published' : tid'[l] = u => cur'[u] # Nil /\ ChainLeads(cur[u], l)'
      <3>1. u # t /\ lpc[u] = "walk" /\ cur'[u] = cur[u] /\ tid' = tid /\ next' = next
        BY <2>3, <1>a, <1>c DEF LocalTypeOK
      <3>2. \A l \in Published : tid[l] = u => cur[u] # Nil /\ ChainLeads(cur[u], l)
        BY <3>1, <1>a DEF ChainsWhole
      <3>3. \A l \in Published' : tid'[l] = u => l \in Published
        BY <3>1, <1>2, <1>c
      <3>4. \A l : ChainLeads(cur[u], l) => ChainLeads(cur[u], l)'
        BY SMTT(20), <3>1 DEF ChainLeads, Locals
      <3> QED BY SMTT(20), <3>1, <3>2, <3>3, <3>4, <1>2, <1>a DEF ChainsWhole
    <2> QED BY <2>1, <2>2, <2>3 DEF ChainsWhole
  <1>7. LocalCallsKnow'
    BY SMTT(20), <1>a, <1>b, <1>c, <1>2 DEF LocalCallsKnow, LocalTypeOK, Inserting
  <1>8. OneLocalPerTid' /\ ReadsOwnValue'
    BY <1>a, <1>c DEF ReadsOwnValue, TlsGet, LocalTypeOK, OneLocalPerTid, LocalCallsKnow
  <1> QED BY <1>1, <1>6, <1>7, <1>8 DEF LocalInv

\* So do the steps of the other parts of the heap.
LEMMA LocalStutters == ASSUME LocalInv, UNCHANGED locals PROVE LocalInv'
  <1>1. LocalTypeOK'
    BY SMTT(20) DEF locals, LocalInv, LocalTypeOK, Locals
  <1>2. ChainsWhole'
    BY SMTT(20) DEF locals, LocalInv, ChainsWhole, ChainLeads, Published, Inserting, Slot,
       Locals
  <1>3. LocalCallsKnow'
    BY SMTT(20) DEF locals, LocalInv, LocalCallsKnow, Published, Inserting, Slot, Locals
  <1>4. OneLocalPerTid' /\ ReadsOwnValue'
    BY DEF locals, LocalInv, OneLocalPerTid, ReadsOwnValue, TlsGet, Locals
  <1> QED BY SMTT(20), <1>1, <1>2, <1>3, <1>4 DEF LocalInv

\* A walk of MaxLocals links meets every local that the head leads to.
LEMMA LocalWalkMeetsAll ==
    ASSUME LocalTypeOK, NEW i \in 0..(TableSize - 1), NEW l \in Locals, table[i] # Nil,
           ChainLeads(table[i], l)
    PROVE  l \in Reachable(i)
  <1> USE LocalAssumption
  <1> DEFINE w == ChainWalked(i)
  <1>1. IsWalk(w, MaxLocals, table[i], Nil, next)
    <2>1. w = CHOOSE f : IsWalk(f, MaxLocals, table[i], Nil, next)
      BY Zenon DEF ChainWalked, IsWalk
    <2>2. \E f : IsWalk(f, MaxLocals, table[i], Nil, next)
      BY WalkExists
    <2> HIDE DEF w
    <2> QED BY <2>1, <2>2
  <1> HIDE DEF w
  <1>2. IsFiniteSet(Locals) /\ Cardinality(Locals) <= MaxLocals
    <2>1. 1 \in Int /\ MaxLocals \in Int
      OBVIOUS
    <2>2. /\ IsFiniteSet(1..MaxLocals)
          /\ Cardinality(1..MaxLocals) = IF 1 > MaxLocals THEN 0 ELSE MaxLocals - 1 + 1
      BY SMTT(20), <2>1, FS_Interval
    <2> QED BY <2>2 DEF Locals
  <1>3. Nil \notin Locals /\ MaxLocals \in Nat
    BY DEF Locals
  <1>4. table[i] \in Locals /\ \A x \in Locals : next[x] = Nil \/ next[x] \in Locals
    BY DEF LocalTypeOK
  <1>5. \A X \in SUBSET Locals :
          table[i] \in X /\ (\A x \in X : next[x] # Nil => next[x] \in X) => l \in X
    BY DEF ChainLeads
  <1>6. l \in Met(w, MaxLocals, Nil)
    <2> DEFINE c == table[i]
    <2>1. /\ IsWalk(w, MaxLocals, c, Nil, next) /\ c \in Locals
          /\ \A X \in SUBSET Locals :
               c \in X /\ (\A x \in X : next[x] # Nil => next[x] \in X) => l \in X
      BY <1>1, <1>4, <1>5
    <2> HIDE DEF c
    <2> QED BY <2>1, <1>2, <1>3, <1>4, WalkMeets
  <1> QED BY <1>6 DEF Met, Reachable, w

\* The invariant implies what get_local and the TLS slots promise.
LEMMA LocalsAreExact == LocalInv => LocalsExact
  <1> SUFFICES ASSUME LocalInv PROVE LocalsExact
    BY SMTT(20)
  <1>a. \A t \in Tids : tls[t] # Nil => tls[t] \in Published /\ tid[tls[t]] = t
    BY DEF LocalInv, LocalCallsKnow
  <1>1. LocalsPrivate
    <2> SUFFICES ASSUME NEW t \in Tids, NEW u \in Tids, tls[t] # Nil, tls[t] = tls[u]
                 PROVE  t = u
      BY DEF LocalsPrivate
    <2> QED BY <1>a
  <1>2. ASSUME NEW t \in Tids, tls[t] # Nil PROVE tls[t] \in Reachable(Slot(t))
    <2>1. tls[t] \in Published /\ tid[tls[t]] = t /\ tls[t] \in Locals
      BY SMTT(20), <1>2, <1>a DEF Published
    <2>2. table[Slot(t)] # Nil /\ ChainLeads(table[Slot(t)], tls[t])
      BY <2>1 DEF LocalInv, ChainsWhole
    <2> QED BY SMTT(20), <2>1, <2>2, SlotOfTid, LocalWalkMeetsAll DEF LocalInv
  <1> QED BY <1>1, <1>2 DEF LocalInv, LocalsExact, NoLocalLost

\* Whatever the interleaving of lookups, insertions, exits and reused tids, a tid
\* has one local of its own, found on its chain, and its TLS value, for any number
\* of threads, slots and locals.
THEOREM LocalsStayExact == LocalSpec => []LocalsExact
  <1>1. LocalInv /\ [LocalNext]_locals => LocalInv'
    BY LocalStartKeeps, LocalLoadKeeps, LocalWalkKeeps, LocalMapKeeps, LocalAcquireKeeps,
       LocalLinkKeeps, LocalPublishKeeps, LocalTlsSetKeeps, LocalExitKeeps, LocalStutters
    DEF LocalNext, GetLocal
  <1> QED BY <1>1, LocalInitially, LocalsAreExact, PTL DEF LocalSpec

=============================================================================
