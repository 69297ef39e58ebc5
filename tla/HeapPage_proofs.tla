-------------------------- MODULE HeapPage_proofs --------------------------
(***************************************************************************)
(* Proofs about HeapPage: IInv is inductive for any number of threads,     *)
(* segments, pages and blocks, no block is ever handed out twice, and the  *)
(* lists of freed blocks hold what was freed, neither more nor less.       *)
(***************************************************************************)
EXTENDS HeapPage, Walks

-----------------------------------------------------------------------------
(* Pages, blocks and counts; the initial states; an allocation up to the   *)
(* page it takes its block from.                                           *)

\* What a page and a block are made of.
LEMMA Shapes ==
    /\ \A p \in Pages : p[1] \in Segments /\ p # Null
    /\ \A b \in Blocks : /\ b[1] \in Pages /\ b[2] \in Bits
                         /\ b = <<b[1], b[2]>> /\ b # Null
    /\ \A p \in Pages, i \in Bits :
          <<p, i>> \in Blocks /\ <<p, i>>[1] = p /\ <<p, i>>[2] = i
    /\ \A s \in Segments : <<s, 0>> \in Pages /\ <<s, 0>>[1] = s
BY HeapAssumption DEF Pages, Segments, Bits, Blocks

\* Counting bits.
LEMMA Counting ==
    ASSUME NEW S \in SUBSET Bits
    PROVE  /\ IsFiniteSet(S) /\ Cardinality(S) \in 0..BlockCount
           /\ (S # Bits => Cardinality(S) < BlockCount)
           /\ (S = Bits => Cardinality(S) = BlockCount)
           /\ \A i \in Bits \ S : Cardinality(S \union {i}) = Cardinality(S) + 1
           /\ \A i \in S : Cardinality(S \ {i}) = Cardinality(S) - 1
<1>1. IsFiniteSet(Bits) /\ Cardinality(Bits) = BlockCount
  BY FS_Interval, HeapAssumption DEF Bits
<1>2. IsFiniteSet(S) /\ Cardinality(S) <= BlockCount /\ Cardinality(S) \in Nat
  BY HeapAssumption, <1>1, FS_Subset, FS_CardinalityType
<1>3. S # Bits => Cardinality(S) < BlockCount
  BY HeapAssumption, <1>1, <1>2, FS_Subset, FS_CardinalityType
<1>4. \A i \in Bits \ S : Cardinality(S \union {i}) = Cardinality(S) + 1
  BY Zenon, <1>2, FS_AddElement
<1>5. \A i \in S : Cardinality(S \ {i}) = Cardinality(S) - 1
  BY <1>2, FS_RemoveElement
<1> QED
  BY HeapAssumption, <1>1, <1>2, <1>3, <1>4, <1>5

\* The heap before its first segment satisfies the inductive invariant.
THEOREM InitIInv == Init => IInv
<1> SUFFICES ASSUME Init PROVE IInv
  OBVIOUS
<1>1. TypeOK
  BY HeapAssumption DEF Init, TypeOK, Blocks, Pages, Bits, Segments
<1>2. BitmapExact
  BY FS_EmptySet, Shapes DEF Init, BitmapExact
<1>3. PageLocals /\ PageLists /\ UnusedPages /\ Pushes /\ Links /\ Heads
  BY Shapes DEF Init, PageLocals, PageLists, UnusedPages, Pushes, Links, Heads, Pushing, Listed
<1> QED
  BY <1>1, <1>2, <1>3 DEF IInv

\* A bit that is cleared while its block becomes free, and one that is set
\* while a free block becomes live, keep bitmaps and counts exact.
LEMMA ClearBit ==
    ASSUME TypeOK, BitmapExact, NEW b \in Blocks, where[b] # "free",
           bitmap' = [bitmap EXCEPT ![b[1]] = @ \ {b[2]}],
           used_count' = [used_count EXCEPT ![b[1]] = @ - 1],
           where' = [where EXCEPT ![b] = "free"]
    PROVE  /\ BitmapExact' /\ b[2] \in bitmap[b[1]]
           /\ bitmap' \in [Pages -> SUBSET Bits]
           /\ used_count' \in [Pages -> 0..BlockCount]
<1>1. b[1] \in Pages /\ b[2] \in Bits /\ b = <<b[1], b[2]>>
  BY Shapes
<1>2. bitmap' \in [Pages -> SUBSET Bits]
  BY <1>1 DEF TypeOK
<1>3. b[2] \in bitmap[b[1]]
  BY <1>1 DEF BitmapExact
<1>4. ASSUME NEW p \in Pages
      PROVE  /\ bitmap'[p] = {i \in Bits : where'[<<p, i>>] # "free"}
             /\ used_count'[p] = Cardinality(bitmap'[p])
  <2>1. bitmap'[p] = {i \in Bits : where'[<<p, i>>] # "free"}
    BY <1>1, Shapes DEF TypeOK, BitmapExact
  <2>2. CASE p = b[1]
    <3>1. Cardinality(bitmap[p] \ {b[2]}) = Cardinality(bitmap[p]) - 1
      BY Zenon, <1>3, <2>2, Counting DEF TypeOK
    <3> QED
      BY <1>1, <2>1, <2>2, <3>1 DEF TypeOK, BitmapExact
  <2>3. CASE p # b[1]
    BY <1>1, <2>1, <2>3 DEF TypeOK, BitmapExact
  <2> QED
    BY <2>1, <2>2, <2>3
<1>5. \A p \in Pages : used_count'[p] \in 0..BlockCount
  BY <1>2, <1>4, Counting
<1> QED
  BY Zenon, <1>1, <1>2, <1>3, <1>4, <1>5 DEF BitmapExact, TypeOK

\* A bit set for a free block, as bitmap_allocate_block does, keeps bitmaps and
\* counts exact.
LEMMA SetBit ==
    ASSUME TypeOK, BitmapExact, NEW p \in Pages, NEW i \in Bits \ bitmap[p],
           bitmap' = [bitmap EXCEPT ![p] = @ \union {i}],
           used_count' = [used_count EXCEPT ![p] = @ + 1],
           where' = [where EXCEPT ![<<p, i>>] = "live"]
    PROVE  /\ BitmapExact' /\ where[<<p, i>>] = "free"
           /\ bitmap' \in [Pages -> SUBSET Bits]
           /\ used_count' \in [Pages -> 0..BlockCount]
<1>1. <<p, i>> \in Blocks
  BY Shapes
<1>2. bitmap' \in [Pages -> SUBSET Bits]
  BY DEF TypeOK
<1>3. where[<<p, i>>] = "free"
  BY <1>1 DEF BitmapExact
<1>4. ASSUME NEW q \in Pages
      PROVE  /\ bitmap'[q] = {j \in Bits : where'[<<q, j>>] # "free"}
             /\ used_count'[q] = Cardinality(bitmap'[q])
  <2>1. bitmap'[q] = {j \in Bits : where'[<<q, j>>] # "free"}
    BY <1>1, Shapes DEF TypeOK, BitmapExact
  <2>2. CASE q = p
    <3>1. Cardinality(bitmap[p] \union {i}) = Cardinality(bitmap[p]) + 1
      BY Counting DEF TypeOK
    <3> QED
      BY <2>1, <2>2, <3>1 DEF TypeOK, BitmapExact
  <2>3. CASE q # p
    BY <2>1, <2>3 DEF TypeOK, BitmapExact
  <2> QED
    BY <2>1, <2>2, <2>3
<1>5. \A q \in Pages : used_count'[q] \in 0..BlockCount
  BY <1>2, <1>4, Counting
<1> QED
  BY Zenon, <1>2, <1>3, <1>4, <1>5 DEF BitmapExact, TypeOK

\* The walk along a thread's own list stays on its own pages.
LEMMA NextPageIsMine ==
    ASSUME TypeOK, PageLists, NEW t \in Threads, NEW p \in Pages,
           \E i \in DOMAIN mine[t] : mine[t][i] = p
    PROVE  \/ NextPage(t, p) = Null
           \/ /\ NextPage(t, p) \in Pages /\ owner[NextPage(t, p)] = t
              /\ \E i \in DOMAIN mine[t] : mine[t][i] = NextPage(t, p)
<1> DEFINE k == CHOOSE i \in DOMAIN mine[t] : mine[t][i] = p
<1>1. mine[t] \in Seq(Pages)
  BY DEF TypeOK
<1>2. k \in DOMAIN mine[t]
  OBVIOUS
<1>3. NextPage(t, p) = IF k < Len(mine[t]) THEN mine[t][k + 1] ELSE Null
  BY DEF NextPage
<1> HIDE DEF k
<1>4. k < Len(mine[t]) => k + 1 \in DOMAIN mine[t]
  BY <1>1, <1>2
<1> QED
  BY <1>1, <1>3, <1>4 DEF PageLists

\* Entering lc_heap_allocate preserves the invariant.
LEMMA CallAllocateIInv == ASSUME IInv, NEW t \in Threads, CallAllocate(t) PROVE IInv'
<1>1. TypeOK'
  BY Shapes DEF IInv, CallAllocate, Goto, shared, TypeOK, PageLocals
<1>2. BitmapExact'
  BY Shapes DEF IInv, CallAllocate, Goto, shared, TypeOK, BitmapExact
<1>3. PageLocals'
  BY Shapes DEF IInv, CallAllocate, Goto, shared, TypeOK, PageLocals, PageLists
<1>4. PageLists'
  BY Shapes DEF IInv, CallAllocate, Goto, shared, TypeOK, PageLists
<1>5. UnusedPages'
  BY Shapes DEF IInv, CallAllocate, Goto, shared, TypeOK, UnusedPages, PageLocals
<1>6. Pushes'
  BY Shapes DEF IInv, CallAllocate, Goto, shared, TypeOK, Pushes, Pushing
<1>7. Links'
  BY DEF IInv, CallAllocate, Links, Listed
<1>8. Heads'
  BY DEF IInv, CallAllocate, Goto, TypeOK, Heads, Listed
<1> QED
  BY <1>1, <1>2, <1>3, <1>4, <1>5, <1>6, <1>7, <1>8 DEF IInv

\* Taking a page's whole remote list, the exchange of drain_remote_frees,
\* preserves the invariant.
LEMMA DrainIInv == ASSUME IInv, NEW t \in Threads, Drain(t) PROVE IInv'
<1>1. TypeOK'
  BY Shapes DEF IInv, Drain, Goto, shared, TypeOK, PageLocals
<1>2. BitmapExact'
  BY Shapes DEF IInv, Drain, Goto, shared, TypeOK, BitmapExact
<1>3. PageLocals'
  BY Shapes DEF IInv, Drain, Goto, shared, TypeOK, PageLocals, PageLists
<1>4. PageLists'
  BY Shapes DEF IInv, Drain, Goto, shared, TypeOK, PageLists
<1>5. UnusedPages'
  BY Shapes DEF IInv, Drain, Goto, shared, TypeOK, UnusedPages, PageLocals
<1>6. Pushes'
  BY Shapes DEF IInv, Drain, Goto, shared, TypeOK, Pushes, Pushing
<1>7. Links'
  BY Shapes DEF IInv, Drain, Goto, shared, TypeOK, PageLocals, Links, Heads, Listed
<1>8. Heads'
  BY Shapes DEF IInv, Drain, Goto, shared, TypeOK, PageLocals, Links, Heads, Listed
<1> QED
  BY <1>1, <1>2, <1>3, <1>4, <1>5, <1>6, <1>7, <1>8 DEF IInv

\* Putting one drained block back into the bitmap preserves the invariant.
LEMMA UnlinkIInv == ASSUME IInv, NEW t \in Threads, Unlink(t) PROVE IInv'
<1>1. TypeOK' /\ BitmapExact'
  <2>1. /\ node[t] \in Blocks /\ where[node[t]] # "free" /\ node[t][1] = page[t]
        /\ page[t] \in Pages
    BY DEF IInv, TypeOK, PageLocals, Heads, Unlink
  <2>2. BitmapExact' /\ bitmap' \in [Pages -> SUBSET Bits]
        /\ used_count' \in [Pages -> 0..BlockCount]
    BY Zenon, <2>1, ClearBit DEF IInv, Unlink
  <2> QED
    BY <2>1, <2>2 DEF IInv, TypeOK, Unlink, shared
<1>3. PageLocals'
  BY Shapes DEF IInv, Unlink, shared, TypeOK, PageLocals, PageLists
<1>4. PageLists'
  BY Shapes DEF IInv, Unlink, shared, TypeOK, PageLists
<1>5. UnusedPages'
  BY Shapes DEF IInv, Unlink, shared, TypeOK, UnusedPages, PageLocals
<1>6. Pushes'
  BY Shapes DEF IInv, Unlink, shared, TypeOK, Pushes, Pushing, Heads
<1>7. Links'
  BY Shapes DEF IInv, Unlink, shared, TypeOK, PageLocals, Links, Heads, Listed
<1>8. Heads'
  BY Shapes DEF IInv, Unlink, shared, TypeOK, PageLocals, Links, Heads, Listed
<1> QED
  BY <1>1, <1>3, <1>4, <1>5, <1>6, <1>7, <1>8 DEF IInv

\* The step of lc_heap_allocate to the next page of its list preserves it.
LEMMA WalkIInv == ASSUME IInv, NEW t \in Threads, Walk(t) PROVE IInv'
<1>0. /\ page[t] \in Pages
      /\ \/ NextPage(t, page[t]) = Null
         \/ /\ NextPage(t, page[t]) \in Pages /\ owner[NextPage(t, page[t])] = t
            /\ \E i \in DOMAIN mine[t] : mine[t][i] = NextPage(t, page[t])
  BY NextPageIsMine DEF IInv, Walk, PageLocals
<1>1. TypeOK'
  <2>1. page' \in [Threads -> Pages \union {Null}]
    BY Zenon, <1>0 DEF IInv, Walk, TypeOK
  <2>2. \E l \in {"take", "drain", "lock"} : pc' = [pc EXCEPT ![t] = l]
    BY DEF Walk, Goto
  <2> QED
    BY <2>1, <2>2 DEF IInv, Walk, shared, TypeOK
<1>2. BitmapExact'
  BY Shapes DEF IInv, Walk, Goto, shared, TypeOK, BitmapExact
<1>3. PageLocals'
  BY <1>0, Shapes DEF IInv, Walk, Goto, shared, TypeOK, PageLocals
<1>4. PageLists'
  BY Shapes DEF IInv, Walk, Goto, shared, TypeOK, PageLists
<1>5. UnusedPages'
  BY Shapes DEF IInv, Walk, Goto, shared, TypeOK, UnusedPages, PageLocals
<1>6. Pushes'
  BY Shapes DEF IInv, Walk, Goto, shared, TypeOK, Pushes, Pushing
<1>7. Links'
  BY DEF IInv, Walk, Links, Listed
<1>8. Heads'
  BY DEF IInv, Walk, Goto, TypeOK, Heads, Listed
<1> QED
  BY <1>1, <1>2, <1>3, <1>4, <1>5, <1>6, <1>7, <1>8 DEF IInv

\* Taking heap_global_lock preserves the invariant.
LEMMA LockIInv == ASSUME IInv, NEW t \in Threads, Lock(t) PROVE IInv'
<1>1. TypeOK'
  BY Shapes DEF IInv, Lock, Goto, TypeOK, PageLocals
<1>2. BitmapExact'
  BY Shapes DEF IInv, Lock, Goto, TypeOK, BitmapExact
<1>3. PageLocals'
  BY HeapAssumption DEF IInv, Lock, Goto, TypeOK, PageLocals
<1>4. PageLists'
  BY Shapes DEF IInv, Lock, Goto, TypeOK, PageLists
<1>5. UnusedPages'
  BY Shapes DEF IInv, Lock, Goto, TypeOK, UnusedPages, PageLocals
<1>6. Pushes'
  BY Shapes DEF IInv, Lock, Goto, TypeOK, Pushes, Pushing
<1>7. Links'
  BY DEF IInv, Lock, Links, Listed
<1>8. Heads'
  BY DEF IInv, Lock, Goto, TypeOK, Heads, Listed
<1> QED
  BY <1>1, <1>2, <1>3, <1>4, <1>5, <1>6, <1>7, <1>8 DEF IInv

\* The search of get_fresh_page, and segment_create, preserve the invariant.
LEMMA FindPageIInv == ASSUME IInv, NEW t \in Threads, FindPage(t) PROVE IInv'
<1>0. \/ /\ page'[t] = Null /\ pc' = [pc EXCEPT ![t] = "unlock"]
         /\ segments' = segments
      \/ /\ page'[t] \in Pages /\ pc' = [pc EXCEPT ![t] = "init"]
         /\ owner[page'[t]] = NoThread /\ page'[t][1] < segments'
         /\ used_pages[page'[t][1]] < PagesPerSegment
         /\ segments' \in segments..MaxSegments
  <2>1. CASE segments < MaxSegments /\ segments' = segments + 1
             /\ page' = [page EXCEPT ![t] = <<segments, 0>>] /\ Goto(t, "init")
    <3>1. segments \in Segments /\ segments <= segments
      BY <2>1, HeapAssumption DEF IInv, TypeOK, Segments
    <3>2. /\ <<segments, 0>> \in Pages /\ <<segments, 0>>[1] = segments
          /\ owner[<<segments, 0>>] = NoThread /\ used_pages[segments] = 0
      BY <3>1, Shapes DEF IInv, UnusedPages, TypeOK
    <3> QED
      BY <2>1, <3>1, <3>2, HeapAssumption DEF Goto, IInv, TypeOK
  <2>2. CASE (\E p \in Unused : page' = [page EXCEPT ![t] = p])
             /\ Goto(t, "init") /\ segments' = segments
    BY <2>2 DEF Unused, Goto, IInv, TypeOK
  <2>3. CASE page' = [page EXCEPT ![t] = Null] /\ Goto(t, "unlock") /\ segments' = segments
    BY <2>3 DEF Goto, IInv, TypeOK
  <2> QED
    BY <2>1, <2>2, <2>3 DEF FindPage
<1>a. page' = [page EXCEPT ![t] = page'[t]] /\ segments <= segments' /\ segments' \in 0..MaxSegments
  BY <1>0 DEF IInv, FindPage, TypeOK
<1>b. UNCHANGED <<used_pages, owner, lock, mine, bitmap, used_count, remote,
                  link, node, old_head, where>>
  BY DEF FindPage
<1>1. TypeOK'
  <2>1. page' \in [Threads -> Pages \union {Null}]
    BY Zenon, <1>0, <1>a DEF IInv, TypeOK
  <2>2. \E l \in {"init", "unlock"} : pc' = [pc EXCEPT ![t] = l]
    BY <1>0
  <2> QED
    BY <1>a, <1>b, <2>1, <2>2 DEF IInv, TypeOK
<1>2. BitmapExact'
  BY Shapes DEF IInv, FindPage, Goto, TypeOK, BitmapExact
<1>3. PageLocals'
  <2>1. pc[t] = "find" /\ lock = t
    BY DEF IInv, PageLocals, FindPage
  <2>2. ASSUME NEW u \in Threads \ {t}
        PROVE  /\ pc'[u] = pc[u] /\ page'[u] = page[u]
               /\ pc[u] \notin {"find", "init", "unlock"}
    BY <1>0, <1>a, <2>1 DEF IInv, TypeOK, PageLocals
  <2>3. \/ pc'[t] = "unlock" /\ page'[t] = Null
        \/ /\ pc'[t] = "init" /\ page'[t] \in Pages
           /\ owner[page'[t]] = NoThread /\ page'[t][1] < segments'
           /\ used_pages[page'[t][1]] < PagesPerSegment
    BY <1>0 DEF IInv, TypeOK
  <2> QED
    BY <1>b, <2>1, <2>2, <2>3 DEF IInv, PageLocals
<1>4. PageLists'
  BY Shapes DEF IInv, FindPage, Goto, TypeOK, PageLists
<1>5. UnusedPages'
  BY <1>a, <1>b, Shapes DEF IInv, TypeOK, UnusedPages, Segments
<1>6. Pushes'
  BY Shapes DEF IInv, FindPage, Goto, TypeOK, Pushes, Pushing
<1>7. Links'
  BY DEF IInv, FindPage, Links, Listed
<1>8. Heads'
  BY DEF IInv, FindPage, Goto, TypeOK, Heads, Listed
<1> QED
  BY <1>1, <1>2, <1>3, <1>4, <1>5, <1>6, <1>7, <1>8 DEF IInv

\* page_init_for_bucket preserves the invariant.
LEMMA InitPageIInv == ASSUME IInv, NEW t \in Threads, InitPage(t) PROVE IInv'
<1>1. TypeOK'
  <2>1. /\ page[t] \in Pages /\ page[t][1] \in Segments
        /\ used_pages[page[t][1]] + 1 \in 0..PagesPerSegment
    BY Shapes, HeapAssumption DEF IInv, InitPage, TypeOK, PageLocals
  <2> QED
    BY <2>1, HeapAssumption DEF IInv, InitPage, Goto, TypeOK
<1>2. BitmapExact'
  <2>1. page[t] \in Pages /\ bitmap[page[t]] = {}
    BY DEF IInv, InitPage, PageLocals, UnusedPages
  <2>2. bitmap' = bitmap
    BY <2>1 DEF IInv, InitPage, TypeOK
  <2>3. used_count' = used_count
    <3>1. used_count[page[t]] = 0
      BY Zenon, <2>1, FS_EmptySet DEF IInv, BitmapExact
    <3> QED
      BY <2>1, <3>1 DEF IInv, InitPage, TypeOK
  <2>4. where' = where
    BY DEF InitPage
  <2> QED
    BY <2>2, <2>3, <2>4 DEF IInv, BitmapExact
<1>3. PageLocals'
  <2>1. /\ page[t] \in Pages /\ owner[page[t]] = NoThread /\ lock = t
        /\ pc' = [pc EXCEPT ![t] = "unlock"] /\ owner' = [owner EXCEPT ![page[t]] = t]
        /\ UNCHANGED <<lock, mine, page>>
    BY DEF IInv, InitPage, Goto, PageLocals
  <2>2. ASSUME NEW u \in Threads \ {t}
        PROVE  pc'[u] = pc[u] /\ pc[u] \notin {"find", "init", "unlock"}
    BY <2>1 DEF IInv, TypeOK, PageLocals
  <2>3. \A q \in Pages, u \in Threads : owner[q] = u => owner'[q] = u
    BY <2>1, HeapAssumption DEF IInv, TypeOK
  <2>4. pc'[t] = "unlock" /\ owner'[page[t]] = t
    BY <2>1 DEF IInv, TypeOK
  <2> QED
    BY <2>1, <2>2, <2>3, <2>4 DEF IInv, PageLocals
<1>4. PageLists'
  <2>1. page[t] \in Pages /\ owner[page[t]] \notin Threads
    BY HeapAssumption DEF IInv, InitPage, PageLocals
  <2>2. ASSUME NEW u \in Threads, NEW i \in DOMAIN mine[u] PROVE owner'[mine[u][i]] = u
    <3>1. mine[u][i] \in Pages /\ owner[mine[u][i]] = u
      BY DEF IInv, TypeOK, PageLists
    <3> QED
      BY <2>1, <3>1 DEF IInv, InitPage, TypeOK
  <2> QED
    BY <2>2 DEF InitPage, PageLists
<1>5. UnusedPages'
  <2>1. page[t] \in Pages /\ page[t][1] \in Segments /\ page[t][1] < segments
    BY Shapes DEF IInv, InitPage, PageLocals
  <2>2. ASSUME NEW s \in Segments, segments <= s PROVE used_pages'[s] = 0
    BY <2>1, <2>2 DEF IInv, InitPage, UnusedPages, TypeOK, Segments
  <2>3. ASSUME NEW p \in Pages
        PROVE  /\ segments <= p[1] => owner'[p] = NoThread
               /\ owner'[p] = NoThread => bitmap'[p] = {} /\ remote'[p] = Null
    BY <2>1, Shapes DEF IInv, InitPage, UnusedPages, TypeOK, Segments
  <2> QED
    BY <2>2, <2>3 DEF InitPage, UnusedPages
<1>6. Pushes'
  BY Shapes DEF IInv, InitPage, Goto, TypeOK, Pushes, Pushing
<1>7. Links'
  BY DEF IInv, InitPage, Links, Listed
<1>8. Heads'
  BY DEF IInv, InitPage, Goto, TypeOK, Heads, Listed, UnusedPages, PageLocals
<1> QED
  BY <1>1, <1>2, <1>3, <1>4, <1>5, <1>6, <1>7, <1>8 DEF IInv

\* Releasing the lock and prepending the fresh page preserves the invariant.
LEMMA UnlockIInv == ASSUME IInv, NEW t \in Threads, Unlock(t) PROVE IInv'
<1>0. \/ page[t] = Null /\ mine' = mine /\ pc' = [pc EXCEPT ![t] = "idle"]
      \/ /\ page[t] \in Pages /\ owner[page[t]] = t
         /\ mine' = [mine EXCEPT ![t] = <<page[t]>> \o mine[t]]
         /\ pc' = [pc EXCEPT ![t] = "take"]
         /\ UNCHANGED <<page, node, old_head>>
  BY DEF IInv, Unlock, Goto, Return, PageLocals
<1>1. TypeOK'
  <2>1. mine' \in [Threads -> Seq(Pages)]
    <3>1. mine \in [Threads -> Seq(Pages)]
      BY DEF IInv, TypeOK
    <3>2. page[t] \in Pages => <<page[t]>> \o mine[t] \in Seq(Pages)
      BY <3>1
    <3> QED
      BY Zenon, <1>0, <3>1, <3>2
  <2> QED
    BY Zenon, <1>0, <2>1 DEF IInv, TypeOK, Unlock, Return
<1>2. BitmapExact'
  BY Shapes DEF IInv, Unlock, Goto, Return, TypeOK, BitmapExact
<1>3. PageLocals'
  <2>1. ASSUME NEW u \in Threads \ {t}
        PROVE  pc'[u] = pc[u] /\ page'[u] = page[u] /\ mine'[u] = mine[u]
    BY <1>0 DEF IInv, Unlock, Return, TypeOK
  <2>2. pc'[t] \in {"idle", "take"} /\ (pc'[t] = "take" => page'[t] \in Pages /\ owner[page'[t]] = t)
    BY <1>0 DEF IInv, TypeOK
  <2>3. lock = t /\ UNCHANGED <<owner, segments, used_pages>>
    BY DEF IInv, Unlock, PageLocals
  <2>4. \A u \in Threads \ {t} : pc[u] \notin {"find", "init", "unlock"}
    BY <2>3 DEF IInv, PageLocals
  <2> QED
    BY <2>1, <2>2, <2>3, <2>4 DEF IInv, PageLocals
<1>4. PageLists'
  <2>1. ASSUME NEW u \in Threads, NEW i \in DOMAIN mine'[u] PROVE owner[mine'[u][i]] = u
    <3>1. CASE mine'[u] = mine[u]
      BY <3>1 DEF IInv, PageLists
    <3>2. CASE u = t /\ page[t] \in Pages /\ owner[page[t]] = t
               /\ mine'[t] = <<page[t]>> \o mine[t]
      <4>1. mine[t] \in Seq(Pages)
        BY DEF IInv, TypeOK
      <4>2. \/ i = 1 /\ mine'[t][i] = page[t]
            \/ i - 1 \in DOMAIN mine[t] /\ mine'[t][i] = mine[t][i - 1]
        <5>1. i \in 1..(Len(mine[t]) + 1)
          BY <3>2, <4>1
        <5>2. CASE i = 1
          <6>1. (<<page[t]>> \o mine[t])[1] = page[t]
            BY <3>2, <4>1
          <6> QED
            BY <3>2, <5>2, <6>1
        <5>3. CASE i # 1
          BY <3>2, <4>1, <5>1, <5>3
        <5> QED
          BY <5>2, <5>3
      <4> QED
        BY <3>2, <4>2 DEF IInv, PageLists
    <3> QED
      BY <1>0, <3>1, <3>2 DEF IInv, TypeOK
  <2> QED
    BY <2>1 DEF Unlock, PageLists
<1>5. UnusedPages'
  BY SMTT(20), Shapes DEF IInv, Unlock, Goto, Return, TypeOK, UnusedPages, PageLocals
<1>6. Pushes'
  <2>1. \A u \in Threads : Pushing(u)' => /\ Pushing(u) /\ pc'[u] = pc[u] /\ node'[u] = node[u]
                                          /\ old_head'[u] = old_head[u]
    BY <1>0 DEF IInv, TypeOK, Pushing, Unlock, Return
  <2> QED
    BY <2>1 DEF IInv, Pushes, Pushing, Unlock
<1>7. Links'
  BY DEF IInv, Unlock, Links, Listed
<1>8. Heads'
  <2>1. \A u \in Threads : pc'[u] = "unlink" => /\ pc[u] = "unlink" /\ node'[u] = node[u]
                                               /\ page'[u] = page[u]
    BY <1>0 DEF IInv, TypeOK, Unlock, Return
  <2> QED
    BY <2>1 DEF IInv, Heads, Listed, Unlock
<1> QED
  BY <1>1, <1>2, <1>3, <1>4, <1>5, <1>6, <1>7, <1>8 DEF IInv

-----------------------------------------------------------------------------
(* Taking the block, freeing, and the theorems.                            *)

\* bitmap_allocate_block, which hands a block out, preserves the invariant.
LEMMA TakeIInv == ASSUME IInv, NEW t \in Threads, Take(t) PROVE IInv'
<1>0. page[t] \in Pages
  BY DEF IInv, Take, PageLocals
<1>a. /\ pc' = [pc EXCEPT ![t] = "idle"] /\ page' = [page EXCEPT ![t] = Null]
      /\ node' = [node EXCEPT ![t] = Null] /\ old_head' = [old_head EXCEPT ![t] = Null]
      /\ UNCHANGED <<segments, used_pages, owner, lock, mine, remote>>
  BY DEF Take, Return, Goto, shared
<1>d. PageLocals' /\ PageLists'
  <2>1. \A u \in Threads \ {t} : pc'[u] = pc[u] /\ page'[u] = page[u]
    BY <1>a DEF IInv, TypeOK
  <2>2. pc'[t] = "idle"
    BY <1>a DEF IInv, TypeOK
  <2> QED
    BY <1>a, <2>1, <2>2 DEF IInv, PageLocals, PageLists
<1>b. CASE UNCHANGED <<bitmap, used_count, link, where>>
  <2>1. TypeOK' /\ BitmapExact'
    BY <1>a, <1>b DEF IInv, TypeOK, BitmapExact
  <2>2. UnusedPages'
    BY SMTT(20), <1>a, <1>b DEF IInv, TypeOK, UnusedPages
  <2>3. Pushes' /\ Links' /\ Heads'
    BY SMTT(20), <1>a, <1>b DEF IInv, TypeOK, Pushes, Links, Heads, Pushing, Listed
  <2> QED
    BY <1>d, <2>1, <2>2, <2>3 DEF IInv
<1>c. ASSUME NEW i \in Bits \ bitmap[page[t]],
             bitmap' = [bitmap EXCEPT ![page[t]] = @ \union {i}],
             used_count' = [used_count EXCEPT ![page[t]] = @ + 1],
             link' = [link EXCEPT ![<<page[t], i>>] = Null],
             where' = [where EXCEPT ![<<page[t], i>>] = "live"]
      PROVE  IInv'
  <2> DEFINE b == <<page[t], i>>
  <2>0. b \in Blocks /\ b[1] = page[t]
    BY <1>0, Shapes
  <2>1. /\ BitmapExact' /\ where[b] = "free"
        /\ bitmap' \in [Pages -> SUBSET Bits] /\ used_count' \in [Pages -> 0..BlockCount]
    BY Zenon, <1>0, <1>c, SetBit DEF IInv
  <2>a. link' = [link EXCEPT ![b] = Null] /\ where' = [where EXCEPT ![b] = "live"]
    BY <1>c
  <2> HIDE DEF b
  <2>2. TypeOK'
    BY <1>a, <2>0, <2>1, <2>a DEF IInv, TypeOK
  <2>4. UnusedPages'
    <3>1. owner[page[t]] = t
      BY DEF IInv, Take, PageLocals
    <3>2. \A p \in Pages : owner[p] = NoThread => bitmap'[p] = bitmap[p]
      BY <1>0, <1>c, <3>1, HeapAssumption DEF IInv, TypeOK
    <3> QED
      BY <1>a, <3>2 DEF IInv, UnusedPages
  <2>5. Pushes'
    BY <1>a, <2>0, <2>1, <2>a DEF IInv, TypeOK, Pushes, Pushing
  <2>6. \A c \in Blocks : Listed(c)' <=> Listed(c)
    BY <2>0, <2>1, <2>a DEF IInv, TypeOK, Listed
  <2>7. \A c \in Blocks : Listed(c) => link'[c] = link[c] /\ where'[c] = where[c] /\ c # b
    BY <2>0, <2>1, <2>a DEF IInv, TypeOK, Listed
  <2>8. Links'
    BY SMTT(20), <2>6, <2>7 DEF IInv, TypeOK, Links, Listed
  <2>9. Heads'
    BY SMTT(20), <1>a, <2>6, <2>7 DEF IInv, TypeOK, Heads, Listed
  <2> QED
    BY <1>d, <2>1, <2>2, <2>4, <2>5, <2>8, <2>9 DEF IInv
<1> QED
  BY Zenon, <1>b, <1>c DEF Take

\* lc_heap_free, of a block of one's own or of another thread, preserves it.
LEMMA FreeIInv == ASSUME IInv, NEW t \in Threads, Free(t) PROVE IInv'
<1> PICK b \in Blocks :
      /\ where[b] = "live"
      /\ IF owner[b[1]] = t
           THEN /\ bitmap' = [bitmap EXCEPT ![b[1]] = @ \ {b[2]}]
                /\ used_count' = [used_count EXCEPT ![b[1]] = @ - 1]
                /\ where' = [where EXCEPT ![b] = "free"]
                /\ UNCHANGED <<pc, node>>
           ELSE /\ node' = [node EXCEPT ![t] = b]
                /\ where' = [where EXCEPT ![b] = "freeing"]
                /\ pc' = [pc EXCEPT ![t] = "push_load"]
                /\ UNCHANGED <<bitmap, used_count>>
  BY DEF Free, Goto
<1>0. /\ pc[t] = "idle"
      /\ UNCHANGED <<segments, used_pages, owner, lock, mine, remote, link, page, old_head>>
  BY DEF Free, shared
<1>1. TypeOK' /\ BitmapExact'
  <2>1. CASE owner[b[1]] = t
    <3>1. BitmapExact' /\ bitmap' \in [Pages -> SUBSET Bits]
          /\ used_count' \in [Pages -> 0..BlockCount]
      BY <2>1, ClearBit DEF IInv
    <3> QED
      BY Zenon, <1>0, <2>1, <3>1 DEF IInv, TypeOK
  <2>2. CASE owner[b[1]] # t
    <3>a. /\ node' = [node EXCEPT ![t] = b] /\ where' = [where EXCEPT ![b] = "freeing"]
          /\ pc' = [pc EXCEPT ![t] = "push_load"] /\ UNCHANGED <<bitmap, used_count>>
      BY <2>2
    <3>1. TypeOK'
      BY <1>0, <3>a DEF IInv, TypeOK
    <3>2. \A c \in Blocks : where'[c] # "free" <=> where[c] # "free"
      BY <2>2 DEF IInv, TypeOK
    <3> QED
      BY <2>2, <3>1, <3>2, Shapes DEF IInv, BitmapExact
  <2> QED
    BY <2>1, <2>2
<1>2. PageLocals' /\ PageLists'
  BY <1>0 DEF IInv, TypeOK, PageLocals, PageLists
<1>3. UnusedPages'
  <2>1. ASSUME NEW p \in Pages, bitmap[p] = {} PROVE bitmap'[p] = {}
    <3>1. CASE owner[b[1]] = t
      <4>1. bitmap' = [bitmap EXCEPT ![b[1]] = @ \ {b[2]}] /\ b[1] \in Pages
        BY <3>1, Shapes
      <4> QED
        BY <2>1, <4>1 DEF IInv, TypeOK
    <3>2. CASE owner[b[1]] # t
      BY <2>1, <3>2
    <3> QED
      BY <3>1, <3>2
  <2> QED
    BY <1>0, <2>1 DEF IInv, UnusedPages
<1>4. Pushes'
  <2>1. CASE owner[b[1]] = t
    BY <1>0, <2>1 DEF IInv, TypeOK, Pushes, Pushing
  <2>2. CASE owner[b[1]] # t
    <3>1. \A u \in Threads : Pushing(u)' => \/ u = t /\ node'[u] = b /\ pc'[u] = "push_load"
                                           \/ /\ Pushing(u) /\ node'[u] = node[u] /\ node[u] # b
                                              /\ pc'[u] = pc[u] /\ u # t
      BY <1>0, <2>2 DEF IInv, TypeOK, Pushes, Pushing
    <3>2. where' = [where EXCEPT ![b] = "freeing"]
      BY <2>2
    <3> QED
      BY <1>0, <3>1, <3>2 DEF IInv, TypeOK, Pushes, Pushing
  <2> QED
    BY <2>1, <2>2
<1>5. \A c \in Blocks : Listed(c)' <=> Listed(c)
  BY DEF IInv, TypeOK, Listed
<1>6. \A c \in Blocks : Listed(c) => where'[c] = where[c]
  BY DEF IInv, TypeOK, Listed
<1>7. Links'
  BY SMTT(20), <1>0, <1>5, <1>6 DEF IInv, TypeOK, Links, Listed
<1>8. Heads'
  <2>1. \A u \in Threads : pc'[u] = "unlink" => pc[u] = "unlink" /\ node'[u] = node[u]
    BY <1>0 DEF IInv, TypeOK
  <2> QED
    BY <1>0, <1>5, <1>6, <2>1 DEF IInv, TypeOK, Heads, Listed
<1> QED
  BY <1>1, <1>2, <1>3, <1>4, <1>7, <1>8 DEF IInv

\* The load of the head in remote_free_push preserves the invariant.
LEMMA PushLoadIInv == ASSUME IInv, NEW t \in Threads, PushLoad(t) PROVE IInv'
<1>1. TypeOK'
  BY Shapes DEF IInv, PushLoad, Goto, shared, TypeOK, Pushes, Pushing
<1>2. BitmapExact'
  BY SMTT(20), Shapes DEF IInv, PushLoad, Goto, shared, TypeOK, BitmapExact
<1>3. PageLocals'
  BY Shapes DEF IInv, PushLoad, Goto, shared, TypeOK, PageLocals, PageLists
<1>4. PageLists'
  BY SMTT(20), Shapes DEF IInv, PushLoad, Goto, shared, TypeOK, PageLists
<1>5. UnusedPages'
  BY Shapes DEF IInv, PushLoad, Goto, shared, TypeOK, UnusedPages, PageLocals
<1>6. Pushes'
  BY SMTT(20), Shapes DEF IInv, PushLoad, Goto, shared, TypeOK, Pushes, Pushing
<1>7. Links'
  BY SMTT(20), Shapes DEF IInv, PushLoad, Goto, shared, TypeOK, Pushes, Pushing, Links, Heads,
     Listed
<1>8. Heads'
  BY SMTT(20), Shapes DEF IInv, PushLoad, Goto, shared, TypeOK, Pushes, Pushing, Links, Heads,
     Listed
<1> QED
  BY <1>1, <1>2, <1>3, <1>4, <1>5, <1>6, <1>7, <1>8 DEF IInv

\* Its compare-and-swap, successful or not, preserves the invariant.
LEMMA PushCasIInv == ASSUME IInv, NEW t \in Threads, PushCas(t) PROVE IInv'
<1>a. CASE Goto(t, "push_load") /\ UNCHANGED <<remote, page, node, old_head, where>>
  <2>1. TypeOK' /\ BitmapExact' /\ PageLists' /\ UnusedPages'
    BY SMTT(20), <1>a DEF IInv, TypeOK, BitmapExact, PageLists, UnusedPages, PushCas, Goto, shared
  <2>2. PageLocals' /\ Pushes'
    BY <1>a DEF IInv, TypeOK, PageLocals, Pushes, Pushing, PushCas, Goto, shared
  <2>3. Links' /\ Heads'
    BY <1>a DEF IInv, TypeOK, Links, Heads, Listed, PushCas, Goto, shared
  <2> QED
    BY <2>1, <2>2, <2>3 DEF IInv
<1>b. CASE /\ remote[node[t][1]] = old_head[t]
           /\ remote' = [remote EXCEPT ![node[t][1]] = node[t]]
           /\ where' = [where EXCEPT ![node[t]] = "remote"]
           /\ Return(t)
  <2> DEFINE n == node[t]
  <2>0. /\ n \in Blocks /\ n[1] \in Pages /\ where[n] = "freeing"
        /\ link[n] = remote[n[1]]
    BY <1>b, Shapes DEF IInv, Pushes, Pushing, PushCas
  <2>a. /\ pc' = [pc EXCEPT ![t] = "idle"] /\ page' = [page EXCEPT ![t] = Null]
        /\ node' = [node EXCEPT ![t] = Null] /\ old_head' = [old_head EXCEPT ![t] = Null]
        /\ remote' = [remote EXCEPT ![n[1]] = n] /\ where' = [where EXCEPT ![n] = "remote"]
        /\ UNCHANGED <<segments, used_pages, owner, lock, mine, bitmap, used_count, link>>
    BY <1>b DEF Return, Goto, PushCas, shared
  <2> HIDE DEF n
  <2>1. TypeOK'
    BY <2>0, <2>a DEF IInv, TypeOK
  <2>2. BitmapExact'
    <3>1. \A c \in Blocks : where'[c] # "free" <=> where[c] # "free"
      BY SMTT(20), <2>0, <2>a DEF IInv, TypeOK
    <3> QED
      BY <2>a, <3>1, Shapes DEF IInv, BitmapExact
  <2>3. PageLocals' /\ PageLists'
    BY <2>a DEF IInv, TypeOK, PageLocals, PageLists
  <2>4. UnusedPages'
    <3>1. n[2] \in bitmap[n[1]]
      BY <2>0, Shapes DEF IInv, BitmapExact
    <3>2. owner[n[1]] # NoThread
      BY SMTT(20), <2>0, <3>1 DEF IInv, UnusedPages
    <3> QED
      BY <2>0, <2>a, <3>2 DEF IInv, TypeOK, UnusedPages
  <2>5. Pushes'
    <3>1. \A u \in Threads : Pushing(u)' => /\ Pushing(u) /\ u # t /\ pc'[u] = pc[u]
                                           /\ node'[u] = node[u] /\ old_head'[u] = old_head[u]
      BY <2>a DEF IInv, TypeOK, Pushing
    <3>2. \A u \in Threads : Pushing(u) /\ u # t => node[u] # n
      BY <1>b DEF IInv, Pushes, Pushing, n, PushCas
    <3> QED
      BY <2>0, <2>a, <3>1, <3>2 DEF IInv, TypeOK, Pushes, Pushing
  <2>6. \A c \in Blocks : Listed(c)' <=> Listed(c) \/ c = n
    BY <2>0, <2>a DEF IInv, TypeOK, Listed
  <2>7. \A c \in Blocks : Listed(c) => where'[c] = where[c] /\ c # n
    BY <2>0, <2>a DEF IInv, TypeOK, Listed
  <2>8. \A c \in Blocks : Listed(c) => link[c] # n
    BY <2>0, Shapes DEF IInv, TypeOK, Links, Listed
  <2>9. link[n] # Null => /\ link[n] \in Blocks /\ link[n][1] = n[1] /\ where[link[n]] = "remote"
                          /\ \A c \in Blocks : Listed(c) => link[c] # link[n]
    BY SMTT(20), <2>0 DEF IInv, TypeOK, Heads
  <2>10. Links'
    <3>1. ASSUME NEW c \in Blocks, Listed(c)', link'[c] # Null
          PROVE  /\ link'[c][1] = c[1] /\ where'[link'[c]] = where'[c]
                 /\ \A d \in Blocks : Listed(d)' /\ link'[d] = link'[c] => d = c
      <4>1. CASE c = n
        BY <2>0, <2>a, <2>6, <2>7, <2>9, <3>1, <4>1 DEF IInv, TypeOK, Listed
      <4>2. CASE Listed(c)
        <5>1. /\ link[c] \in Blocks /\ link[c][1] = c[1] /\ where[link[c]] = where[c]
              /\ \A d \in Blocks : Listed(d) /\ link[d] = link[c] => d = c
          BY <2>a, <3>1, <4>2 DEF IInv, TypeOK, Links
        <5>2. link[n] # link[c]
          BY <2>a, <2>9, <3>1, <4>2
        <5>3. Listed(link[c])
          BY <4>2, <5>1 DEF Listed
        <5> QED
          BY SMTT(20), <2>a, <2>6, <2>7, <4>2, <5>1, <5>2, <5>3
      <4> QED
        BY SMTT(20), <2>6, <3>1, <4>1, <4>2
    <3> QED
      BY <3>1 DEF Links
  <2>11. Heads'
    <3>1. ASSUME NEW p \in Pages, remote'[p] # Null
          PROVE  /\ remote'[p][1] = p /\ where'[remote'[p]] = "remote"
                 /\ \A c \in Blocks : Listed(c)' => link'[c] # remote'[p]
      <4>1. CASE p = n[1]
        <5>1. link[n] # n
          BY SMTT(20), <2>0, <2>9, Shapes
        <5> QED
          BY <2>0, <2>a, <2>6, <2>8, <4>1, <5>1 DEF IInv, TypeOK
      <4>2. CASE p # n[1]
        <5>1. /\ remote[p] \in Blocks /\ remote[p][1] = p /\ where[remote[p]] = "remote"
              /\ \A c \in Blocks : Listed(c) => link[c] # remote[p]
          BY <2>0, <2>a, <3>1, <4>2 DEF IInv, TypeOK, Heads
        <5>2. link[n] # remote[p]
          BY <2>0, <2>9, <4>2, <5>1, Shapes
        <5>3. Listed(remote[p])
          BY <5>1 DEF Listed
        <5> QED
          BY <2>0, <2>a, <2>6, <2>7, <4>2, <5>1, <5>2, <5>3 DEF IInv, TypeOK
      <4> QED
        BY SMTT(20), <4>1, <4>2
    <3>2. ASSUME NEW u \in Threads, pc'[u] = "unlink", node'[u] # Null
          PROVE  /\ node'[u][1] = page'[u] /\ where'[node'[u]] = "draining"
                 /\ \A c \in Blocks : Listed(c)' => link'[c] # node'[u]
      <4>1. /\ u # t /\ pc[u] = "unlink" /\ node'[u] = node[u] /\ page'[u] = page[u]
            /\ node[u] \in Blocks
        BY SMTT(20), <2>a, <3>2 DEF IInv, TypeOK
      <4>2. /\ node[u][1] = page[u] /\ where[node[u]] = "draining"
            /\ \A c \in Blocks : Listed(c) => link[c] # node[u]
        BY <3>2, <4>1 DEF IInv, Heads
      <4> QED
        <5>1. Listed(node[u]) /\ link[n] # node[u]
          BY <2>9, <4>1, <4>2, Shapes DEF Listed
        <5> QED
          BY <2>a, <2>6, <2>7, <4>1, <4>2, <5>1
    <3> QED
      BY <3>1, <3>2 DEF Heads
  <2> QED
    BY <2>1, <2>2, <2>3, <2>4, <2>5, <2>10, <2>11 DEF IInv
<1> QED
  BY <1>a, <1>b DEF PushCas

\* Every step of every thread preserves the inductive invariant.
THEOREM NextIInv == IInv /\ [Next]_vars => IInv'
<1> SUFFICES ASSUME IInv, [Next]_vars PROVE IInv'
  OBVIOUS
<1>1. CASE UNCHANGED vars
  <2>1. TypeOK' /\ BitmapExact' /\ PageLists' /\ UnusedPages'
    BY <1>1 DEF vars, IInv, TypeOK, BitmapExact, PageLists, UnusedPages
  <2>2. PageLocals'
    BY Zenon, <1>1 DEF vars, IInv, PageLocals
  <2>3. Pushes' /\ Links' /\ Heads'
    BY <1>1 DEF vars, IInv, Pushes, Links, Heads, Pushing, Listed
  <2> QED
    BY SMTT(20), <2>1, <2>2, <2>3 DEF IInv
<1>2. CASE Next
  BY <1>2, CallAllocateIInv, DrainIInv, UnlinkIInv, WalkIInv, LockIInv, FindPageIInv,
     InitPageIInv, UnlockIInv, TakeIInv, FreeIInv, PushLoadIInv, PushCasIInv
     DEF Next, AllocateStep, FreeStep
<1> QED
  BY <1>1, <1>2

\* The inductive invariant holds in every behaviour of the heap.
THEOREM Invariance == Spec => []IInv
BY InitIInv, NextIInv, PTL DEF Spec

\* Every variable of the heap keeps its type; the counts in particular never
\* pass their bounds.
THEOREM TypeCorrect == Spec => []TypeOK
<1>1. IInv => TypeOK
  BY DEF IInv
<1> QED
  BY <1>1, Invariance, PTL

\* bitmap and used_count agree with the blocks that are out
\* (bitmap_allocate_block, bitmap_free_block, drain_remote_frees).
THEOREM BitmapsAreExact == Spec => []BitmapExact
<1>1. IInv => BitmapExact
  BY DEF IInv
<1> QED
  BY <1>1, Invariance, PTL

\* A block that a step of lc_heap_allocate hands out was free before it.
LEMMA StepHandsOutFree ==
    ASSUME IInv, Next, NEW b \in Blocks, where'[b] = "live", where[b] # "live"
    PROVE  where[b] = "free"
<1> PICK t \in Threads : CallAllocate(t) \/ AllocateStep(t) \/ Free(t) \/ FreeStep(t)
  BY SMTT(20) DEF Next
<1>1. CASE Take(t)
  <2>1. page[t] \in Pages
    BY Zenon, <1>1 DEF IInv, Take, PageLocals
  <2>2. PICK i \in Bits \ bitmap[page[t]] : where' = [where EXCEPT ![<<page[t], i>>] = "live"]
    BY Zenon, <1>1 DEF Take
  <2>3. b = <<page[t], i>>
    BY SMTT(20), <2>2 DEF IInv, TypeOK
  <2>4. bitmap[page[t]] = {j \in Bits : where[<<page[t], j>>] # "free"}
    BY <2>1 DEF IInv, BitmapExact
  <2> QED
    BY <2>2, <2>3, <2>4
<1>2. CASE Free(t)
  BY SMTT(20), <1>2 DEF IInv, TypeOK, Free
<1>3. CASE Drain(t) \/ Unlink(t) \/ PushCas(t)
  BY Zenon, <1>3 DEF IInv, TypeOK, Drain, Unlink, PushCas
<1>4. CASE UNCHANGED where
  BY <1>4
<1> QED
  BY Zenon, <1>1, <1>2, <1>3, <1>4 DEF AllocateStep, FreeStep, CallAllocate, Walk, Lock, FindPage,
     InitPage, Unlock, PushLoad

\* The allocator's promise: lc_heap_allocate never returns a block that the
\* application still holds, that a thread is freeing, or that waits on a list.
THEOREM NeverHandedOutTwice == Spec => NoDoubleHandout
<1>1. IInv /\ [Next]_vars
        => [\A b \in Blocks : where'[b] = "live" /\ where[b] # "live" => where[b] = "free"]_vars
  BY StepHandsOutFree
<1> QED
  BY <1>1, Invariance, PTL DEF Spec, NoDoubleHandout

-----------------------------------------------------------------------------
(* The lists of freed blocks, the counts and the pages.                    *)

\* Where the links lead from a block of a set they stay in does not change when
\* links outside the set do.
LEMMA LeadsKept ==
    ASSUME NEW P \in SUBSET Blocks, NEW c \in P, NEW b, Leads(c, b),
           \A x \in P : link'[x] = link[x] /\ (link[x] # Null => link[x] \in P)
    PROVE  Leads(c, b)'
<1> SUFFICES ASSUME NEW X \in SUBSET Blocks, c \in X,
                    \A x \in X : link'[x] # Null => link'[x] \in X
             PROVE  b \in X
  BY DEF Leads, Blocks, Pages, Bits, Segments
<1> DEFINE Y == X \cap P
<1>1. Y \in SUBSET Blocks /\ c \in Y /\ (\A x \in Y : link[x] # Null => link[x] \in Y)
  OBVIOUS
<1>2. b \in Y
  <2> HIDE DEF Y
  <2> QED
    BY <1>1 DEF Leads
<1> QED
  BY <1>2

\* Following a link does not lose a block further on.
LEMMA LeadsOn ==
    ASSUME NEW c \in Blocks, NEW b, Leads(c, b), c # b, link[c] # Null => link[c] \in Blocks
    PROVE  link[c] # Null /\ Leads(link[c], b)
<1>1. link[c] # Null
  <2>1. SUFFICES ASSUME link[c] = Null PROVE FALSE
    OBVIOUS
  <2>2. {c} \in SUBSET Blocks /\ c \in {c} /\ (\A x \in {c} : link[x] # Null => link[x] \in {c})
    BY <2>1
  <2>3. b \in {c}
    BY Zenon, <2>2 DEF Leads
  <2> QED
    BY <2>3
<1>2. ASSUME NEW X \in SUBSET Blocks, link[c] \in X, \A x \in X : link[x] # Null => link[x] \in X
      PROVE  b \in X
  <2> DEFINE Y == X \union {c}
  <2>1. Y \in SUBSET Blocks /\ c \in Y /\ (\A x \in Y : link[x] # Null => link[x] \in Y)
    BY <1>2
  <2>2. b \in Y
    <3> HIDE DEF Y
    <3> QED
      BY SMTT(20), <2>1 DEF Leads
  <2> QED
    BY <2>2
<1> QED
  BY <1>1, <1>2 DEF Leads

\* A step that touches no listed block, no head of a remote list and nobody's
\* draining keeps the lists whole.
LEMMA ListsUntouched ==
    ASSUME IInv, ListsWhole, remote' = remote,
           \A b \in Blocks : Listed(b)' => where'[b] = where[b],
           \A b \in Blocks : Listed(b) => link'[b] = link[b],
           \A u \in Threads : pc[u] = "unlink" /\ node[u] # Null =>
               pc'[u] = pc[u] /\ page'[u] = page[u] /\ node'[u] = node[u]
    PROVE  ListsWhole'
<1> DEFINE P == {b \in Blocks : Listed(b)}
<1>1. \A x \in P : link'[x] = link[x] /\ (link[x] # Null => link[x] \in P)
  BY DEF IInv, TypeOK, Links, Listed
<1>2. P \in SUBSET Blocks
  BY SMTT(20)
<1>3. \A c \in P : \A b : Leads(c, b) => Leads(c, b)'
  <2> HIDE DEF P
  <2> QED
    BY SMTT(20), <1>1, <1>2, LeadsKept
<1>4. ASSUME NEW b \in Blocks, where'[b] = "remote"
      PROVE  remote'[b[1]] # Null /\ Leads(remote[b[1]], b)'
  <2>1. where[b] = "remote"
    BY <1>4 DEF Listed
  <2>2. remote[b[1]] # Null /\ Leads(remote[b[1]], b) /\ b[1] \in Pages
    BY <2>1, Shapes DEF ListsWhole
  <2>3. remote[b[1]] \in P
    BY SMTT(20), <2>2 DEF IInv, TypeOK, Heads, Listed
  <2>4. Leads(remote[b[1]], b)'
    BY Zenon, <2>2, <2>3, <1>3 DEF Leads
  <2> QED
    BY <2>2, <2>4
<1>5. ASSUME NEW b \in Blocks, where'[b] = "draining"
      PROVE  \E t \in Threads : /\ pc'[t] = "unlink" /\ page'[t] = b[1]
                                /\ node'[t] # Null /\ Leads(node[t], b)'
  <2>1. where[b] = "draining"
    BY <1>5 DEF Listed
  <2>2. PICK t \in Threads : pc[t] = "unlink" /\ page[t] = b[1] /\ node[t] # Null /\ Leads(node[t], b)
    BY Zenon, <2>1 DEF ListsWhole
  <2>3. node[t] \in P
    BY <2>2 DEF IInv, TypeOK, Heads, Listed
  <2>4. pc'[t] = pc[t] /\ page'[t] = page[t] /\ node'[t] = node[t]
    BY Zenon, <2>2
  <2>5. Leads(node[t], b)'
    BY ZenonT(30), <2>2, <2>3, <2>4, <1>3 DEF Leads
  <2> QED
    BY Zenon, <2>2, <2>4, <2>5
<1> QED
  BY SMTT(20), <1>4, <1>5 DEF ListsWhole, Blocks, Pages, Bits, Segments


\* The exchange of drain_remote_frees moves the whole list to its thread.
LEMMA DrainListsWhole == ASSUME IInv, ListsWhole, NEW t \in Threads, Drain(t) PROVE ListsWhole'
<1>1. /\ page[t] \in Pages /\ owner[page[t]] = t /\ pc[t] = "drain"
      /\ node' = [node EXCEPT ![t] = remote[page[t]]]
      /\ remote' = [remote EXCEPT ![page[t]] = Null]
      /\ where' = [b \in Blocks |->
                     IF b[1] = page[t] /\ where[b] = "remote" THEN "draining" ELSE where[b]]
      /\ pc' = [pc EXCEPT ![t] = "unlink"] /\ UNCHANGED <<link, page>>
  BY DEF IInv, PageLocals, Drain, Goto
<1>2. \A c, b : Leads(c, b) => Leads(c, b)'
  BY <1>1 DEF Leads, Blocks, Pages, Bits, Segments
<1>3. ASSUME NEW b \in Blocks, where'[b] = "remote"
      PROVE  remote'[b[1]] # Null /\ Leads(remote[b[1]], b)'
  <2>1. where[b] = "remote" /\ b[1] # page[t] /\ b[1] \in Pages
    BY SMTT(20), <1>1, <1>3, Shapes
  <2>2. remote'[b[1]] = remote[b[1]]
    BY SMTT(20), <1>1, <2>1 DEF IInv, TypeOK
  <2>3. remote[b[1]] # Null /\ Leads(remote[b[1]], b)
    BY <2>1 DEF ListsWhole
  <2> QED
    BY Zenon, <1>2, <2>2, <2>3 DEF Leads
<1>4. ASSUME NEW b \in Blocks, where'[b] = "draining"
      PROVE  \E u \in Threads : /\ pc'[u] = "unlink" /\ page'[u] = b[1]
                                /\ node'[u] # Null /\ Leads(node[u], b)'
  <2>1. CASE b[1] = page[t] /\ where[b] = "remote"
    <3>1. remote[page[t]] # Null /\ Leads(remote[page[t]], b)
      BY SMTT(20), <2>1 DEF ListsWhole
    <3>2. node'[t] = remote[page[t]] /\ pc'[t] = "unlink"
      BY SMTT(20), <1>1 DEF IInv, TypeOK
    <3>3. Leads(node[t], b)'
      BY <1>1, <3>1, <3>2 DEF Leads, Blocks, Pages, Bits, Segments
    <3> QED
      BY SMTT(20), <1>1, <2>1, <3>1, <3>2, <3>3
  <2>2. CASE where[b] = "draining"
    <3>1. PICK u \in Threads : /\ pc[u] = "unlink" /\ page[u] = b[1]
                               /\ node[u] # Null /\ Leads(node[u], b)
      BY SMTT(20), <2>2 DEF ListsWhole
    <3>2. u # t /\ pc'[u] = pc[u] /\ node'[u] = node[u] /\ page' = page
      BY SMTT(20), <1>1, <3>1 DEF IInv, TypeOK
    <3>3. Leads(node[u], b)'
      BY <1>1, <3>1, <3>2 DEF Leads, Blocks, Pages, Bits, Segments
    <3> QED
      BY <3>1, <3>2, <3>3
  <2> QED
    BY SMTT(20), <1>1, <1>4, <2>1, <2>2
<1> QED
  BY <1>3, <1>4 DEF ListsWhole, Blocks, Pages, Bits, Segments

\* Putting the first drained block back leaves the others reachable.
LEMMA UnlinkListsWhole == ASSUME IInv, ListsWhole, NEW t \in Threads, Unlink(t) PROVE ListsWhole'
<1>1. /\ page[t] \in Pages /\ owner[page[t]] = t /\ pc[t] = "unlink" /\ node[t] \in Blocks
      /\ node[t][1] = page[t] /\ where[node[t]] = "draining"
      /\ node' = [node EXCEPT ![t] = link[node[t]]]
      /\ where' = [where EXCEPT ![node[t]] = "free"]
      /\ UNCHANGED <<link, page, pc, remote>>
  BY DEF IInv, TypeOK, PageLocals, Heads, Unlink
<1>2. ASSUME NEW b \in Blocks, where'[b] = "remote"
      PROVE  remote'[b[1]] # Null /\ Leads(remote[b[1]], b)'
  <2>1. where[b] = "remote"
    BY <1>1, <1>2 DEF IInv, TypeOK
  <2>2. remote[b[1]] # Null /\ Leads(remote[b[1]], b)
    BY <2>1 DEF ListsWhole
  <2> QED
    BY Zenon, <1>1, <2>2 DEF Leads, Blocks, Pages, Bits, Segments
<1>3. ASSUME NEW b \in Blocks, where'[b] = "draining"
      PROVE  \E u \in Threads : /\ pc'[u] = "unlink" /\ page'[u] = b[1]
                                /\ node'[u] # Null /\ Leads(node[u], b)'
  <2>1. where[b] = "draining" /\ b # node[t]
    BY SMTT(20), <1>1, <1>3 DEF IInv, TypeOK
  <2>2. PICK u \in Threads : /\ pc[u] = "unlink" /\ page[u] = b[1]
                             /\ node[u] # Null /\ Leads(node[u], b)
    BY SMTT(20), <2>1 DEF ListsWhole
  <2>3. CASE u = t
    <3>1. link[node[t]] # Null /\ Leads(link[node[t]], b)
      BY <1>1, <2>1, <2>2, <2>3, LeadsOn DEF IInv, TypeOK
    <3>2. node'[t] = link[node[t]]
      BY SMTT(20), <1>1 DEF IInv, TypeOK
    <3>3. Leads(node[t], b)'
      BY SMTT(20), <1>1, <3>1, <3>2 DEF Leads, Blocks, Pages, Bits, Segments
    <3> QED
      BY <1>1, <2>2, <2>3, <3>1, <3>2, <3>3
  <2>4. CASE u # t
    <3>1. node'[u] = node[u]
      BY SMTT(20), <1>1, <2>4 DEF IInv, TypeOK
    <3>2. Leads(node[u], b)'
      BY <1>1, <2>2, <3>1 DEF Leads, Blocks, Pages, Bits, Segments
    <3> QED
      BY <1>1, <2>2, <3>1, <3>2
  <2> QED
    BY <2>3, <2>4
<1> QED
  BY SMTT(20), <1>2, <1>3 DEF ListsWhole, Blocks, Pages, Bits, Segments

\* The successful compare-and-swap of remote_free_push puts its block in front
\* of the list it linked to.
LEMMA PushListsWhole == ASSUME IInv, ListsWhole, NEW t \in Threads, PushCas(t) PROVE ListsWhole'
<1>a. CASE Goto(t, "push_load") /\ UNCHANGED <<remote, page, node, old_head, where>>
  BY <1>a, ListsUntouched DEF IInv, TypeOK, PushCas, Goto, Listed
<1>b. CASE /\ remote[node[t][1]] = old_head[t]
           /\ remote' = [remote EXCEPT ![node[t][1]] = node[t]]
           /\ where' = [where EXCEPT ![node[t]] = "remote"]
           /\ Return(t)
  <2> DEFINE n == node[t]
  <2>0. /\ n \in Blocks /\ n[1] \in Pages /\ where[n] = "freeing" /\ link[n] = remote[n[1]]
    BY SMTT(20), <1>b, Shapes DEF IInv, Pushes, Pushing, PushCas
  <2>1. /\ remote' = [remote EXCEPT ![n[1]] = n] /\ where' = [where EXCEPT ![n] = "remote"]
        /\ link' = link
        /\ \A u \in Threads : pc[u] = "unlink" =>
              u # t /\ pc'[u] = pc[u] /\ page'[u] = page[u] /\ node'[u] = node[u]
    BY <1>b DEF PushCas, Return, Goto, IInv, TypeOK
  <2> HIDE DEF n
  <2>2. ASSUME NEW b \in Blocks, where'[b] = "remote"
        PROVE  remote'[b[1]] # Null /\ Leads(remote[b[1]], b)'
    <3>1. CASE b[1] = n[1]
      <4>1. remote'[b[1]] = n /\ n # Null
        BY <2>0, <2>1, <3>1, Shapes DEF IInv, TypeOK
      <4>2. Leads(n, b)
        <5>1. CASE b = n
          BY <5>1 DEF Leads
        <5>2. CASE b # n
          <6>1. where[b] = "remote"
            BY <2>0, <2>1, <2>2, <5>2 DEF IInv, TypeOK
          <6>2. link[n] # Null /\ Leads(link[n], b)
            BY <2>0, <3>1, <6>1 DEF ListsWhole
          <6> QED
            BY <2>0, <6>2 DEF Leads
        <5> QED
          BY <5>1, <5>2
      <4>3. Leads(remote[b[1]], b)'
        BY <2>1, <4>1, <4>2 DEF Leads, Blocks, Pages, Bits, Segments
      <4> QED
        BY <4>1, <4>3
    <3>2. CASE b[1] # n[1]
      <4>1. where[b] = "remote" /\ b[1] \in Pages
        BY <2>0, <2>1, <2>2, <3>2, Shapes DEF IInv, TypeOK
      <4>2. remote[b[1]] # Null /\ Leads(remote[b[1]], b)
        BY <4>1 DEF ListsWhole
      <4>3. remote'[b[1]] = remote[b[1]]
        BY <2>0, <2>1, <3>2, <4>1 DEF IInv, TypeOK
      <4>4. Leads(remote[b[1]], b)'
        BY <2>1, <4>2, <4>3 DEF Leads, Blocks, Pages, Bits, Segments
      <4> QED
        BY SMTT(20), <4>2, <4>3, <4>4
    <3> QED
      BY <3>1, <3>2
  <2>3. ASSUME NEW b \in Blocks, where'[b] = "draining"
        PROVE  \E u \in Threads : /\ pc'[u] = "unlink" /\ page'[u] = b[1]
                                  /\ node'[u] # Null /\ Leads(node[u], b)'
    <3>1. where[b] = "draining"
      BY SMTT(20), <2>0, <2>1, <2>3 DEF IInv, TypeOK
    <3>2. PICK u \in Threads : /\ pc[u] = "unlink" /\ page[u] = b[1]
                               /\ node[u] # Null /\ Leads(node[u], b)
      BY <3>1 DEF ListsWhole
    <3>3. pc'[u] = pc[u] /\ page'[u] = page[u] /\ node'[u] = node[u]
      BY <2>1, <3>2
    <3>4. Leads(node[u], b)'
      BY <2>1, <3>2, <3>3 DEF Leads, Blocks, Pages, Bits, Segments
    <3> QED
      BY <3>2, <3>3, <3>4
  <2> QED
    BY Zenon, <2>2, <2>3 DEF ListsWhole, Blocks, Pages, Bits, Segments
<1> QED
  BY SMTT(20), <1>a, <1>b DEF PushCas


\* The lists stay whole at every step.
LEMMA NextListsWhole == ASSUME IInv, ListsWhole, Next PROVE ListsWhole'
<1> PICK t \in Threads : CallAllocate(t) \/ AllocateStep(t) \/ Free(t) \/ FreeStep(t)
  BY SMTT(20) DEF Next
<1>1. CASE CallAllocate(t)
  BY SMTT(20), <1>1, ListsUntouched DEF IInv, TypeOK, CallAllocate, Goto, shared, Listed
<1>2. CASE Walk(t)
  BY SMTT(20), <1>2, ListsUntouched DEF IInv, TypeOK, Walk, Goto, shared, Listed
<1>3. CASE Lock(t)
  BY <1>3, ListsUntouched DEF IInv, TypeOK, Lock, Goto, Listed
<1>4. CASE FindPage(t)
  <2>1. UNCHANGED <<remote, link, node, where>> /\ pc[t] = "find"
    BY Zenon, <1>4 DEF FindPage
  <2>2. \A u \in Threads \ {t} : pc'[u] = pc[u] /\ page'[u] = page[u]
    BY ZenonT(30), <1>4 DEF FindPage, Goto, IInv, TypeOK
  <2> QED
    BY Zenon, <2>1, <2>2, ListsUntouched DEF Listed
<1>5. CASE InitPage(t)
  <2>1. remote' = remote
    <3>1. remote' = [remote EXCEPT ![page[t]] = Null] /\ pc[t] = "init"
      BY Zenon, <1>5 DEF InitPage
    <3>2. page[t] \in Pages /\ owner[page[t]] = NoThread
      BY Zenon, <3>1 DEF IInv, PageLocals
    <3>3. remote[page[t]] = Null /\ remote \in [Pages -> Blocks \union {Null}]
      BY Zenon, <3>2 DEF IInv, UnusedPages, TypeOK
    <3> QED BY <3>1, <3>2, <3>3
  <2> QED
    BY SMTT(20), <1>5, <2>1, ListsUntouched DEF IInv, TypeOK, InitPage, Goto, Listed
<1>6. CASE Unlock(t)
  <2>1. UNCHANGED <<remote, link, where>> /\ pc[t] = "unlock"
    BY Zenon, <1>6 DEF Unlock
  <2>2. \A u \in Threads \ {t} : pc'[u] = pc[u] /\ page'[u] = page[u] /\ node'[u] = node[u]
    BY <1>6 DEF Unlock, Goto, Return, IInv, TypeOK
  <2> QED
    BY Zenon, <2>1, <2>2, ListsUntouched DEF Listed
<1>7. CASE Take(t)
  <2>1. \A u \in Threads \ {t} : pc'[u] = pc[u] /\ page'[u] = page[u] /\ node'[u] = node[u]
    BY ZenonT(30), <1>7 DEF Take, Goto, Return, IInv, TypeOK
  <2>2. pc[t] = "take" /\ remote' = remote /\ page[t] \in Pages
    BY <1>7 DEF Take, IInv, PageLocals
  <2>3. CASE UNCHANGED <<bitmap, used_count, link, where>>
    BY Zenon, <2>1, <2>2, <2>3, ListsUntouched DEF Listed
  <2>4. ASSUME NEW i \in Bits \ bitmap[page[t]],
               link' = [link EXCEPT ![<<page[t], i>>] = Null],
               where' = [where EXCEPT ![<<page[t], i>>] = "live"]
        PROVE  ListsWhole'
    <3>1. <<page[t], i>> \in Blocks /\ where[<<page[t], i>>] = "free"
      BY SMTT(20), <2>2, Shapes DEF IInv, BitmapExact
    <3>2. \A b \in Blocks : /\ Listed(b) => link'[b] = link[b]
                            /\ Listed(b)' => where'[b] = where[b]
      BY ZenonT(30), <2>4, <3>1 DEF Listed, IInv, TypeOK
    <3> QED
      BY Zenon, <2>1, <2>2, <3>2, ListsUntouched
  <2> QED
    BY Zenon, <1>7, <2>3, <2>4 DEF Take
<1>8. CASE Free(t)
  <2>1. pc[t] = "idle" /\ UNCHANGED <<remote, link, page>>
    BY ZenonT(30), <1>8 DEF Free, shared
  <2>2. \A u \in Threads \ {t} : pc'[u] = pc[u] /\ node'[u] = node[u]
    BY SMTT(20), <1>8 DEF Free, Goto, IInv, TypeOK
  <2>3. \A b \in Blocks : Listed(b)' => where'[b] = where[b]
    BY SMTT(20), <1>8 DEF Free, Listed, IInv, TypeOK
  <2> QED
    BY Zenon, <2>1, <2>2, <2>3, ListsUntouched
<1>9. CASE PushLoad(t)
  <2>1. node[t] \in Blocks /\ where[node[t]] = "freeing"
    BY Zenon, <1>9 DEF PushLoad, IInv, Pushes, Pushing
  <2>2. \A b \in Blocks : Listed(b) => link'[b] = link[b]
    BY <1>9, <2>1 DEF PushLoad, Listed, IInv, TypeOK
  <2> QED
    BY <1>9, <2>2, ListsUntouched DEF PushLoad, Goto, Listed, IInv, TypeOK
<1> QED
  BY <1>1, <1>2, <1>3, <1>4, <1>5, <1>6, <1>7, <1>8, <1>9,
     DrainListsWhole, UnlinkListsWhole, PushListsWhole DEF AllocateStep, FreeStep

\* The pages of a segment are finitely many.
LEMMA SegmentFinite ==
    ASSUME NEW s \in Segments, NEW Q \in SUBSET {p \in Pages : p[1] = s}
    PROVE  IsFiniteSet(Q)
<1>1. IsFiniteSet(0..(PagesPerSegment - 1)) /\ IsFiniteSet(Segments)
  BY FS_Interval, HeapAssumption DEF Segments
<1>2. IsFiniteSet(Pages)
  BY Zenon, <1>1, FS_Product DEF Pages
<1> QED
  BY SMTT(20), <1>2, FS_Subset

\* used_page_count follows the owners: only page_init_for_bucket changes either.
LEMMA NextPagesCounted == ASSUME IInv, PagesCounted, Next PROVE PagesCounted'
<1> PICK t \in Threads : CallAllocate(t) \/ AllocateStep(t) \/ Free(t) \/ FreeStep(t)
  BY DEF Next
<1>1. CASE UNCHANGED <<used_pages, owner>>
  BY <1>1 DEF PagesCounted, Pages, Segments
<1>2. CASE InitPage(t)
  <2>1. /\ page[t] \in Pages /\ page[t][1] \in Segments /\ owner[page[t]] = NoThread
        /\ used_pages' = [used_pages EXCEPT ![page[t][1]] = @ + 1]
        /\ owner' = [owner EXCEPT ![page[t]] = t]
    BY <1>2, Shapes DEF InitPage, IInv, PageLocals
  <2>2. ASSUME NEW s \in Segments
        PROVE  used_pages'[s] = Cardinality({p \in Pages : p[1] = s /\ owner'[p] # NoThread})
    <3> DEFINE Q == {p \in Pages : p[1] = s /\ owner[p] # NoThread}
    <3>1. used_pages[s] = Cardinality(Q) /\ IsFiniteSet(Q)
      BY Zenon, SegmentFinite DEF PagesCounted
    <3>2. CASE s = page[t][1]
      <4>1. /\ {p \in Pages : p[1] = s /\ owner'[p] # NoThread} = Q \union {page[t]}
            /\ page[t] \notin Q
        <5>1. owner \in [Pages -> Threads \union {NoThread}] /\ NoThread \notin Threads
          BY Zenon, HeapAssumption DEF IInv, TypeOK
        <5> QED BY <2>1, <3>2, <5>1
      <4>2. Cardinality(Q \union {page[t]}) = Cardinality(Q) + 1
        <5> HIDE DEF Q
        <5> QED
          BY Zenon, <3>1, <4>1, FS_AddElement
      <4>3. used_pages'[s] = used_pages[s] + 1
        BY <2>1, <3>2 DEF IInv, TypeOK
      <4> HIDE DEF Q
      <4> QED
        BY ZenonT(30), <3>1, <4>1, <4>2, <4>3
    <3>3. CASE s # page[t][1]
      <4>1. {p \in Pages : p[1] = s /\ owner'[p] # NoThread} = Q
        BY <2>1, <3>3 DEF IInv, TypeOK
      <4>2. used_pages'[s] = used_pages[s]
        BY SMTT(20), <2>1, <3>3 DEF IInv, TypeOK
      <4> QED
        BY Zenon, <3>1, <4>1, <4>2
    <3> QED
      BY Zenon, <3>2, <3>3
  <2> QED
    BY SMTT(20), <2>2 DEF PagesCounted, Pages, Segments
<1> QED
  BY Zenon, <1>1, <1>2 DEF AllocateStep, FreeStep, CallAllocate, Drain, Unlink, Walk, Lock,
     FindPage, Unlock, Take, Free, PushLoad, PushCas, shared


\* No step sets a bit of a page that another thread owns.
LEMMA OthersOnlyClear ==
    ASSUME IInv, NEW t \in Threads,
           CallAllocate(t) \/ AllocateStep(t) \/ Free(t) \/ FreeStep(t),
           NEW p \in Pages, owner[p] # t
    PROVE  bitmap'[p] \subseteq bitmap[p]
<1>1. CASE Unlink(t)
  <2>1. page[t] \in Pages
    BY Zenon, <1>1 DEF Unlink, IInv, PageLocals
  <2> QED
    BY <1>1, <2>1 DEF Unlink, IInv, TypeOK
<1>2. CASE Take(t)
  <2>1. page[t] \in Pages /\ owner[page[t]] = t
    BY <1>2 DEF Take, IInv, PageLocals
  <2> QED
    BY ZenonT(30), <1>2, <2>1 DEF Take, IInv, TypeOK
<1>3. CASE Free(t)
  <2>1. \A b \in Blocks : b[1] \in Pages
    BY Shapes
  <2> QED
    BY Zenon, <1>3, <2>1 DEF Free, IInv, TypeOK
<1>4. CASE InitPage(t)
  BY Zenon, <1>4 DEF InitPage, IInv, TypeOK, PageLocals
<1> QED
  BY ZenonT(30), <1>1, <1>2, <1>3, <1>4 DEF AllocateStep, FreeStep, CallAllocate, Drain, Walk,
     Lock,
     FindPage, Unlock, PushLoad, PushCas, shared

\* A step of one thread leaves the position, the page and the list of the others.
LEMMA OthersStay ==
    ASSUME IInv, NEW t \in Threads,
           CallAllocate(t) \/ AllocateStep(t) \/ Free(t) \/ FreeStep(t),
           NEW u \in Threads, u # t
    PROVE  pc'[u] = pc[u] /\ page'[u] = page[u] /\ mine'[u] = mine[u]
<1>1. CASE CallAllocate(t) \/ Drain(t) \/ Unlink(t) \/ Walk(t)
  BY <1>1 DEF CallAllocate, Drain, Unlink, Walk, Goto, shared, IInv, TypeOK
<1>2. CASE Lock(t) \/ FindPage(t) \/ InitPage(t)
  BY Zenon, <1>2 DEF Lock, FindPage, InitPage, Goto, shared, IInv, TypeOK
<1>3. CASE Unlock(t) \/ Take(t)
  BY Zenon, <1>3 DEF Unlock, Take, Return, Goto, shared, IInv, TypeOK
<1>4. CASE Free(t) \/ FreeStep(t)
  BY Zenon, <1>4 DEF Free, FreeStep, PushLoad, PushCas, Return, Goto, shared, IInv, TypeOK
<1> QED
  BY ZenonT(30), <1>1, <1>2, <1>3, <1>4 DEF AllocateStep

\* A page that the walk stops at, or that is fresh, has a clear bit until its
\* thread takes it.
LEMMA NextTakeSucceeds == ASSUME IInv, PagesOnce, TakeSucceeds, Next PROVE TakeSucceeds'
<1> PICK t \in Threads : CallAllocate(t) \/ AllocateStep(t) \/ Free(t) \/ FreeStep(t)
  BY DEF Next
<1>1. ASSUME NEW u \in Threads, pc'[u] = "take" PROVE Bits \ bitmap'[page'[u]] # {}
  <2>1. CASE u # t
    <3>1. pc[u] = "take" /\ page'[u] = page[u]
      BY ZenonT(30), <1>1, <2>1, OthersStay
    <3>2. page[u] \in Pages /\ owner[page[u]] # t
      <4>1. PageLocals
        BY Zenon DEF IInv
      <4>2. page[u] \in Pages /\ owner[page[u]] = u
        BY Zenon, <4>1, <3>1 DEF PageLocals
      <4> QED
        BY Zenon, <4>2, <2>1
    <3> QED
      BY Zenon, <3>1, <3>2, OthersOnlyClear DEF TakeSucceeds
  <2>2. CASE u = t
    <3>1. CASE Walk(t)
      <4>1. page[t] \in Pages /\ page' = page /\ bitmap' = bitmap /\ used_count[page[t]] < BlockCount
        BY Zenon, <1>1, <2>2, <3>1 DEF Walk, Goto, IInv, TypeOK, PageLocals
      <4>2. Cardinality(bitmap[page[t]]) < BlockCount /\ bitmap[page[t]] \subseteq Bits
        BY SMTT(20), <4>1 DEF IInv, BitmapExact, TypeOK
      <4>3. bitmap[page[t]] # Bits
        BY <4>2, Counting, HeapAssumption
      <4> QED
        BY <2>2, <4>1, <4>2, <4>3
    <3>2. CASE Unlock(t)
      <4>1. page[t] # Null /\ page' = page /\ bitmap' = bitmap /\ bitmap[page[t]] = {}
        BY ZenonT(30), <1>1, <2>2, <3>2 DEF Unlock, Return, Goto, IInv, TypeOK, PagesOnce
      <4>2. 0 \in Bits
        BY HeapAssumption DEF Bits
      <4> QED
        BY Zenon, <2>2, <4>1, <4>2
    <3>3. CASE FindPage(t) \/ Take(t)
      BY Zenon, <1>1, <2>2, <3>3 DEF FindPage, Take, Return, Goto, IInv, TypeOK
    <3>4. CASE CallAllocate(t) \/ Drain(t) \/ Unlink(t) \/ Lock(t) \/ InitPage(t)
      BY Zenon, <1>1, <2>2, <3>4 DEF CallAllocate, Drain, Unlink, Lock, InitPage, Goto, IInv,
         TypeOK
    <3>5. CASE Free(t) \/ FreeStep(t)
      BY Zenon, <1>1, <2>2, <3>5 DEF Free, FreeStep, PushLoad, PushCas, Return, Goto, IInv, TypeOK
    <3> QED
      BY Zenon, <3>1, <3>2, <3>3, <3>4, <3>5 DEF AllocateStep
  <2> QED
    BY Zenon, <2>1, <2>2
<1> QED
  BY Zenon, <1>1 DEF TakeSucceeds, Bits

\* A thread's list never gets a page it has.
LEMMA NextPagesOnce == ASSUME IInv, PagesOnce, Next PROVE PagesOnce'
<1> PICK t \in Threads : CallAllocate(t) \/ AllocateStep(t) \/ Free(t) \/ FreeStep(t)
  BY SMTT(20) DEF Next
<1>1. ASSUME NEW u \in Threads, u # t
      PROVE  /\ \A i, j \in DOMAIN mine'[u] : mine'[u][i] = mine'[u][j] => i = j
             /\ pc'[u] = "unlock" /\ page'[u] # Null =>
                  bitmap'[page'[u]] = {} /\ \A i \in DOMAIN mine'[u] : mine'[u][i] # page'[u]
  <2>1. pc'[u] = pc[u] /\ page'[u] = page[u] /\ mine'[u] = mine[u]
    BY <1>1, OthersStay
  <2>2. ASSUME pc[u] = "unlock", page[u] # Null PROVE bitmap'[page[u]] = {}
    <3>1. page[u] \in Pages /\ owner[page[u]] # t /\ bitmap[page[u]] = {}
      BY <1>1, <2>2 DEF IInv, PageLocals, PagesOnce
    <3> QED
      BY SMTT(20), <3>1, OthersOnlyClear
  <2> QED
    BY SMTT(20), <2>1, <2>2 DEF PagesOnce
<1>2. \A i, j \in DOMAIN mine'[t] : mine'[t][i] = mine'[t][j] => i = j
  <2>1. CASE mine' = mine
    BY Zenon, <2>1 DEF PagesOnce
  <2>2. CASE /\ pc[t] = "unlock" /\ page[t] # Null
             /\ mine' = [mine EXCEPT ![t] = <<page[t]>> \o mine[t]]
    <3>1. mine[t] \in Seq(Pages) /\ page[t] \in Pages /\ mine'[t] = <<page[t]>> \o mine[t]
      BY <2>2 DEF IInv, TypeOK
    <3>2. /\ Len(mine[t]) \in Nat /\ DOMAIN mine[t] = 1..Len(mine[t])
          /\ DOMAIN mine'[t] = 1..(Len(mine[t]) + 1)
      BY <3>1
    <3>3. mine'[t][1] = page[t] /\ \A i \in 2..(Len(mine[t]) + 1) : mine'[t][i] = mine[t][i - 1]
      BY <3>1
    <3>4. \A i \in 2..(Len(mine[t]) + 1) : i - 1 \in DOMAIN mine[t]
      BY <3>2
    <3>5. ASSUME NEW i \in DOMAIN mine'[t], NEW j \in DOMAIN mine'[t], mine'[t][i] = mine'[t][j]
          PROVE  i = j
      <4>1. CASE i = 1 /\ j = 1
        BY <4>1
      <4>2. CASE i # 1 /\ j # 1
        <5>1. i \in 2..(Len(mine[t]) + 1) /\ j \in 2..(Len(mine[t]) + 1)
          BY <3>2, <4>2
        <5>2. mine[t][i - 1] = mine[t][j - 1]
          BY Zenon, <3>3, <3>5, <5>1
        <5>3. i - 1 = j - 1
          BY ZenonT(30), <3>4, <5>1, <5>2 DEF PagesOnce
        <5> QED
          BY <5>1, <5>3
      <4>3. CASE (i = 1 /\ j # 1) \/ (i # 1 /\ j = 1)
        <5>1. PICK k \in 2..(Len(mine[t]) + 1) : mine[t][k - 1] = page[t]
          BY SMTT(20), <3>2, <3>3, <3>5, <4>3
        <5> QED
          BY <2>2, <3>4, <5>1 DEF PagesOnce
      <4> QED
        BY <4>1, <4>2, <4>3
    <3> QED
      BY <3>5
  <2> QED
    BY Zenon, <2>1, <2>2 DEF AllocateStep, FreeStep, CallAllocate, Drain, Unlink, Walk, Lock,
       FindPage, InitPage, Unlock, Take, Free, PushLoad, PushCas, Return, Goto, shared
<1>3. ASSUME pc'[t] = "unlock", page'[t] # Null
      PROVE  bitmap'[page'[t]] = {} /\ \A i \in DOMAIN mine'[t] : mine'[t][i] # page'[t]
  <2>1. InitPage(t)
    <3>1. CASE FindPage(t) \/ Take(t) \/ Unlock(t)
      BY ZenonT(30), <1>3, <3>1 DEF FindPage, Take, Unlock, Return, Goto, IInv, TypeOK
    <3>2. CASE CallAllocate(t) \/ Drain(t) \/ Unlink(t) \/ Walk(t) \/ Lock(t)
      BY <1>3, <3>2 DEF CallAllocate, Drain, Unlink, Walk, Lock, Goto, IInv, TypeOK
    <3>3. CASE Free(t) \/ FreeStep(t)
      BY Zenon, <1>3, <3>3 DEF Free, FreeStep, PushLoad, PushCas, Return, Goto, IInv, TypeOK
    <3> QED
      BY <3>1, <3>2, <3>3 DEF AllocateStep
  <2>2. page[t] \in Pages /\ owner[page[t]] = NoThread /\ page' = page /\ mine' = mine
    BY Zenon, <2>1 DEF InitPage, IInv, PageLocals
  <2>3. bitmap'[page[t]] = {}
    BY <2>1, <2>2 DEF InitPage, IInv, TypeOK
  <2> QED
    BY <2>2, <2>3, HeapAssumption DEF IInv, PageLists
<1> QED
  BY Zenon, <1>1, <1>2, <1>3 DEF PagesOnce


\* The lists, counts and pages of the empty heap are in order.
LEMMA InitPInv == ASSUME Init, IInv PROVE PInv
<1>1. PagesOnce /\ ListsWhole /\ TakeSucceeds
  <2>1. /\ \A t \in Threads : DOMAIN mine[t] = {} /\ pc[t] = "idle"
        /\ \A b \in Blocks : where[b] = "free"
    BY SMTT(20) DEF Init
  <2>2. PagesOnce
    BY SMTT(20), <2>1 DEF PagesOnce
  <2>3. ListsWhole
    BY SMTT(20), <2>1 DEF ListsWhole
  <2>4. TakeSucceeds
    BY SMTT(20), <2>1 DEF TakeSucceeds
  <2> QED BY <2>2, <2>3, <2>4
<1>2. \A s \in Segments : {p \in Pages : p[1] = s /\ owner[p] # NoThread} = {}
  BY DEF Init
<1>3. PagesCounted
  BY Zenon, <1>2, FS_EmptySet DEF Init, PagesCounted
<1> QED
  BY SMTT(20), <1>1, <1>3 DEF PInv

\* Lists, counts and pages stay in order at every step.
LEMMA NextPInv == ASSUME IInv, PInv, [Next]_vars PROVE PInv'
<1>1. CASE Next
  BY <1>1, NextListsWhole, NextPagesCounted, NextTakeSucceeds, NextPagesOnce DEF PInv
<1>2. CASE UNCHANGED vars
  <2>a. UNCHANGED <<mine, pc, page, bitmap>> /\ PagesOnce /\ TakeSucceeds
    BY <1>2 DEF vars, PInv
  <2>b. PagesOnce'
    BY Zenon, <2>a DEF PagesOnce
  <2>c. TakeSucceeds'
    BY Zenon, <2>a DEF TakeSucceeds, Bits
  <2>1. PagesOnce' /\ TakeSucceeds'
    BY <2>b, <2>c
  <2>2. PagesCounted'
    BY <1>2 DEF vars, PInv, PagesCounted, Segments, Pages
  <2>3. ListsWhole'
    BY <1>2, ListsUntouched DEF vars, PInv, Listed
  <2> QED
    BY SMTT(20), <2>1, <2>2, <2>3 DEF PInv
<1> QED
  BY <1>1, <1>2

\* A walk of BlockCount links, from Null or from a block of a set of one page's
\* blocks that the links stay in, meets blocks of the set only, and all that
\* its start leads to.
LEMMA ChainMeets ==
    ASSUME IInv, NEW p \in Pages, NEW S \in SUBSET {b \in Blocks : b[1] = p},
           \A x \in S : link[x] = Null \/ link[x] \in S,
           NEW c \in S \union {Null}
    PROVE  /\ Chain(c) \subseteq S
           /\ \A b : c # Null /\ Leads(c, b) => b \in Chain(c)
<1> DEFINE w == Walked(c)
<1>0. BlockCount \in Nat
  BY HeapAssumption
<1>1. IsWalk(w, BlockCount, c, Null, link)
  <2>1. w = CHOOSE f : IsWalk(f, BlockCount, c, Null, link)
    BY Zenon DEF Walked, IsWalk
  <2>2. \E f : IsWalk(f, BlockCount, c, Null, link)
    BY <1>0, WalkExists
  <2> HIDE DEF w
  <2> QED
    BY <2>1, <2>2
<1>2. IsFiniteSet(S) /\ Cardinality(S) <= BlockCount
  <2>1. IsFiniteSet(Bits) /\ Cardinality(Bits) = BlockCount
    BY FS_Interval, HeapAssumption DEF Bits
  <2>2. IsFiniteSet({p}) /\ Cardinality({p}) = 1
    BY Zenon, FS_Singleton
  <2>3. IsFiniteSet({p} \X Bits) /\ Cardinality({p} \X Bits) = BlockCount
    BY <2>1, <2>2, FS_Product, HeapAssumption
  <2>4. S \subseteq {p} \X Bits
    BY Shapes
  <2> QED
    BY <2>3, <2>4, FS_Subset
<1>3. Null \notin S
  BY SMTT(20), Shapes
<1> HIDE DEF w
<1>4. /\ Met(w, BlockCount, Null) \subseteq S
      /\ \A b : c # Null /\ (\A X \in SUBSET S :
                    c \in X /\ (\A x \in X : link[x] # Null => link[x] \in X) => b \in X)
                => b \in Met(w, BlockCount, Null)
  BY Zenon, <1>0, <1>1, <1>2, <1>3, WalkMeets
<1>5. Chain(c) = Met(w, BlockCount, Null)
  BY DEF Chain, Met, w
<1>6. ASSUME NEW b, Leads(c, b), NEW X \in SUBSET S, c \in X,
             \A x \in X : link[x] # Null => link[x] \in X
      PROVE  b \in X
  <2>1. X \in SUBSET Blocks
    OBVIOUS
  <2> QED
    BY <1>6, <2>1 DEF Leads
<1> QED
  BY <1>4, <1>5, <1>6

\* The invariants give the lists exactly the blocks that belong on them.
LEMMA ListsAreExact == ASSUME IInv, PInv PROVE ListsExact
<1> SUFFICES ASSUME NEW p \in Pages
             PROVE  /\ Chain(remote[p]) = {b \in Blocks : b[1] = p /\ where[b] = "remote"}
                    /\ UNION {Chain(node[t]) :
                                t \in {u \in Threads : pc[u] = "unlink" /\ page[u] = p}}
                         = {b \in Blocks : b[1] = p /\ where[b] = "draining"}
  BY SMTT(20) DEF ListsExact
<1> DEFINE R == {b \in Blocks : b[1] = p /\ where[b] = "remote"}
<1> DEFINE D == {b \in Blocks : b[1] = p /\ where[b] = "draining"}
<1>1. /\ R \subseteq {b \in Blocks : b[1] = p} /\ D \subseteq {b \in Blocks : b[1] = p}
      /\ \A x \in R : link[x] = Null \/ link[x] \in R
      /\ \A x \in D : link[x] = Null \/ link[x] \in D
  BY DEF IInv, TypeOK, Links, Listed
<1>2. remote[p] \in R \union {Null}
  BY DEF IInv, TypeOK, Heads
<1>3. \A b \in R : remote[p] # Null /\ Leads(remote[p], b)
  BY DEF PInv, ListsWhole
<1>4. \A t \in Threads : pc[t] = "unlink" /\ page[t] = p => node[t] \in D \union {Null}
  BY SMTT(20) DEF IInv, TypeOK, Heads
<1>5. \A b \in D : \E t \in Threads : /\ pc[t] = "unlink" /\ page[t] = p
                                      /\ node[t] # Null /\ Leads(node[t], b)
  BY DEF PInv, ListsWhole
<1> HIDE DEF R, D
<1>6. Chain(remote[p]) = R
  <2>1. /\ Chain(remote[p]) \subseteq R
        /\ \A b : remote[p] # Null /\ Leads(remote[p], b) => b \in Chain(remote[p])
    BY Zenon, <1>1, <1>2, ChainMeets
  <2> QED
    BY <1>3, <2>1
<1>7. ASSUME NEW t \in Threads, pc[t] = "unlink", page[t] = p
      PROVE  Chain(node[t]) \subseteq D /\ \A b : node[t] # Null /\ Leads(node[t], b) => b \in Chain(node[t])
  BY Zenon, <1>1, <1>4, <1>7, ChainMeets
<1> DEFINE T == {u \in Threads : pc[u] = "unlink" /\ page[u] = p}
<1>8. UNION {Chain(node[t]) : t \in T} = D
  BY <1>5, <1>7
<1> QED
  BY <1>6, <1>8 DEF R, D

\* Each page is its owner's alone and counted, its lists hold exactly what was
\* freed to it, and a page that an allocation settles on has room
\* (lc_heap_allocate, lc_heap_free, get_fresh_page, drain_remote_frees).
THEOREM PagesStayExact == Spec => []PagesExact
<1>1. Spec => []PInv
  BY InitIInv, InitPInv, NextPInv, Invariance, PTL DEF Spec
<1>2. ASSUME IInv, PInv PROVE PagesExact
  <2>1. PagesPrivate
    <3>1. ASSUME NEW t \in Threads, NEW u \in Threads,
                 NEW i \in DOMAIN mine[t], NEW j \in DOMAIN mine[u], mine[t][i] = mine[u][j]
          PROVE  t = u /\ i = j
      <4>1. t = u
        BY <1>2, <3>1 DEF IInv, PageLists
      <4> QED
        BY <1>2, <3>1, <4>1 DEF PInv, PagesOnce
    <3> QED
      BY <1>2, <3>1 DEF IInv, PageLists, PInv, PagesCounted, PagesPrivate
  <2> QED
    BY <1>2, <2>1, ListsAreExact DEF PInv, PagesExact
<1> QED
  BY <1>1, <1>2, Invariance, PTL

=============================================================================
