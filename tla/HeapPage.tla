------------------------------ MODULE HeapPage ------------------------------
(***************************************************************************)
(* The small-block path of src/heap.c for one size class: every thread     *)
(* owns the pages it took and allocates from their bitmaps without a lock; *)
(* a block freed by another thread goes through the page's lock-free       *)
(* remote free list, which the owner drains; fresh pages come from the     *)
(* segments under heap_global_lock.                                        *)
(*                                                                         *)
(* The application is any thread allocating, and freeing any block that is *)
(* live.  "where" is a ghost: it follows each block through its life and   *)
(* no guard of the heap reads it.                                          *)
(***************************************************************************)
EXTENDS Naturals, FiniteSets, Sequences

CONSTANTS Threads,
          NoThread,          \* owner_tid of a page with bucket BUCKET_NONE
          Null,              \* the NULL pointer
          MaxSegments,       \* mmap fails beyond this many segments
          PagesPerSegment,
          BlockCount         \* page->block_count

ASSUME HeapAssumption ==
    /\ NoThread \notin Threads
    /\ MaxSegments \in Nat
    /\ PagesPerSegment \in Nat \ {0} /\ BlockCount \in Nat \ {0}
    /\ Null \notin (Nat \X Nat) \union ((Nat \X Nat) \X Nat)

Segments == 0..(MaxSegments - 1)
Pages == Segments \X (0..(PagesPerSegment - 1))   \* a segment and an index
Bits == 0..(BlockCount - 1)
Blocks == Pages \X Bits                           \* a page and a bit

VARIABLES segments,    \* how many segments all_segments holds
          used_pages,  \* used_page_count of each segment
          owner,       \* page->owner_tid
          bitmap,      \* the set bits of page->bitmap
          used_count,  \* page->used_count
          remote,      \* page->remote_free_list: the head
          link,        \* node->next, stored inside each freed block
          lock,        \* heap_global_lock
          mine,        \* local->pages: each thread's list, newest first
          pc, page, node, old_head,  \* each thread's position and locals
          where        \* ghost: where each block is

vars == <<segments, used_pages, owner, bitmap, used_count, remote, link, lock,
          mine, pc, page, node, old_head, where>>

shared == <<segments, used_pages, owner, lock, mine>>

\* The page after p on thread t's list, NULL at the end.
NextPage(t, p) ==
    LET i == CHOOSE i \in DOMAIN mine[t] : mine[t][i] = p
    IN  IF i < Len(mine[t]) THEN mine[t][i + 1] ELSE Null

Goto(t, l) == pc' = [pc EXCEPT ![t] = l]

\* The call returns, and its locals are gone.
Return(t) ==
    /\ Goto(t, "idle")
    /\ page' = [page EXCEPT ![t] = Null]
    /\ node' = [node EXCEPT ![t] = Null]
    /\ old_head' = [old_head EXCEPT ![t] = Null]

-----------------------------------------------------------------------------
(* Mutated forms of the operations below, for sensitivity checks only.     *)

\* The push stores the head it read without comparing.
PushStores(t) ==
    /\ pc[t] = "push_cas"
    /\ remote' = [remote EXCEPT ![node[t][1]] = node[t]]
    /\ where' = [where EXCEPT ![node[t]] = "remote"]
    /\ Return(t)
    /\ UNCHANGED <<shared, bitmap, used_count, link>>

\* A foreign free clears the bit itself, without the remote list.
FreeIgnoresOwner(t) ==
    /\ pc[t] = "idle"
    /\ \E b \in Blocks :
          /\ where[b] = "live"
          /\ bitmap' = [bitmap EXCEPT ![b[1]] = @ \ {b[2]}]
          /\ used_count' = [used_count EXCEPT
                              ![b[1]] = IF owner[b[1]] = t THEN @ - 1 ELSE @]
          /\ where' = [where EXCEPT ![b] = "free"]
    /\ UNCHANGED <<shared, remote, link, pc, page, node, old_head>>

\* The list head is read but not taken off the page: later drains see it again.
DrainKeepsList(t) ==
    /\ pc[t] = "drain"
    /\ node' = [node EXCEPT ![t] = remote[page[t]]]
    /\ where' = [b \in Blocks |->
                   IF b[1] = page[t] /\ where[b] = "remote" THEN "draining" ELSE where[b]]
    /\ Goto(t, "unlink")
    /\ UNCHANGED <<shared, bitmap, used_count, remote, link, page, old_head>>

-----------------------------------------------------------------------------
(* lc_heap_allocate.                                                       *)

CallAllocate(t) ==
    /\ pc[t] = "idle"
    /\ page' = [page EXCEPT ![t] = IF mine[t] = <<>> THEN Null ELSE Head(mine[t])]
    /\ Goto(t, IF mine[t] = <<>> THEN "lock" ELSE "drain")
    /\ UNCHANGED <<shared, bitmap, used_count, remote, link, node, old_head, where>>

\* drain_remote_frees: one atomic exchange takes the whole list ...
Drain(t) ==
    /\ pc[t] = "drain"
    /\ node' = [node EXCEPT ![t] = remote[page[t]]]
    /\ remote' = [remote EXCEPT ![page[t]] = Null]
    /\ where' = [b \in Blocks |->
                   IF b[1] = page[t] /\ where[b] = "remote" THEN "draining" ELSE where[b]]
    /\ Goto(t, "unlink")
    /\ UNCHANGED <<shared, bitmap, used_count, link, page, old_head>>

\* ... and each node of it is given back to the bitmap;
Unlink(t) ==
    /\ pc[t] = "unlink"
    /\ node[t] # Null
    /\ node' = [node EXCEPT ![t] = link[node[t]]]
    /\ bitmap' = [bitmap EXCEPT ![page[t]] = @ \ {node[t][2]}]
    /\ used_count' = [used_count EXCEPT ![page[t]] = @ - 1]
    /\ where' = [where EXCEPT ![node[t]] = "free"]
    /\ UNCHANGED <<shared, remote, link, pc, page, old_head>>

\* then the walk stops at this page or goes on to the next.
Walk(t) ==
    /\ pc[t] = "unlink"
    /\ node[t] = Null
    /\ LET next == NextPage(t, page[t])
       IN  IF used_count[page[t]] < BlockCount
             THEN Goto(t, "take") /\ UNCHANGED page
             ELSE /\ page' = [page EXCEPT ![t] = next]
                  /\ Goto(t, IF next = Null THEN "lock" ELSE "drain")
    /\ UNCHANGED <<shared, bitmap, used_count, remote, link, node, old_head, where>>

Lock(t) ==
    /\ pc[t] = "lock"
    /\ lock = NoThread
    /\ lock' = t
    /\ Goto(t, "find")
    /\ UNCHANGED <<segments, used_pages, owner, mine, bitmap, used_count, remote,
                   link, page, node, old_head, where>>

\* get_fresh_page: the newest segment with room, its first unused page; or a
\* new segment (segment_create), whose mmap may fail.
Unused == {p \in Pages : p[1] < segments /\ owner[p] = NoThread
                         /\ used_pages[p[1]] < PagesPerSegment}

FindPage(t) ==
    /\ pc[t] = "find"
    /\ \/ /\ \E p \in Unused :
                /\ \A q \in Unused : q[1] < p[1] \/ (q[1] = p[1] /\ p[2] <= q[2])
                /\ page' = [page EXCEPT ![t] = p]
          /\ Goto(t, "init")
          /\ UNCHANGED segments
       \/ /\ Unused = {} /\ segments < MaxSegments
          /\ segments' = segments + 1
          /\ page' = [page EXCEPT ![t] = <<segments, 0>>]
          /\ Goto(t, "init")
       \/ /\ Unused = {}
          /\ page' = [page EXCEPT ![t] = Null]
          /\ Goto(t, "unlock")
          /\ UNCHANGED segments
    /\ UNCHANGED <<used_pages, owner, lock, mine, bitmap, used_count, remote,
                   link, node, old_head, where>>

\* page_init_for_bucket.
InitPage(t) ==
    /\ pc[t] = "init"
    /\ used_pages' = [used_pages EXCEPT ![page[t][1]] = @ + 1]
    /\ owner' = [owner EXCEPT ![page[t]] = t]
    /\ bitmap' = [bitmap EXCEPT ![page[t]] = {}]
    /\ used_count' = [used_count EXCEPT ![page[t]] = 0]
    /\ remote' = [remote EXCEPT ![page[t]] = Null]
    /\ Goto(t, "unlock")
    /\ UNCHANGED <<segments, lock, mine, link, page, node, old_head, where>>

\* Release the lock; without a page the call fails with LC_ERR_NOMEM.
Unlock(t) ==
    /\ pc[t] = "unlock"
    /\ lock' = NoThread
    /\ \/ /\ page[t] = Null
          /\ Return(t)
          /\ UNCHANGED mine
       \/ /\ page[t] # Null
          /\ mine' = [mine EXCEPT ![t] = <<page[t]>> \o @]
          /\ Goto(t, "take")
          /\ UNCHANGED <<page, node, old_head>>
    /\ UNCHANGED <<segments, used_pages, owner, bitmap, used_count, remote, link, where>>

\* bitmap_allocate_block: the lowest clear bit, or NULL when there is none.
\* The block's header is then written over whatever link it held.
Take(t) ==
    /\ pc[t] = "take"
    /\ LET clear == Bits \ bitmap[page[t]]
       IN  \/ \E i \in clear :
                 /\ \A j \in clear : i <= j
                 /\ bitmap' = [bitmap EXCEPT ![page[t]] = @ \union {i}]
                 /\ used_count' = [used_count EXCEPT ![page[t]] = @ + 1]
                 /\ link' = [link EXCEPT ![<<page[t], i>>] = Null]
                 /\ where' = [where EXCEPT ![<<page[t], i>>] = "live"]
           \/ clear = {} /\ UNCHANGED <<bitmap, used_count, link, where>>
    /\ Return(t)
    /\ UNCHANGED <<shared, remote>>

-----------------------------------------------------------------------------
(* lc_heap_free of a live block: straight to the bitmap for the owner, a   *)
(* push on the page's remote list (remote_free_push) for everybody else.   *)

Free(t) ==
    /\ pc[t] = "idle"
    /\ \E b \in Blocks :
          /\ where[b] = "live"
          /\ IF owner[b[1]] = t
               THEN /\ bitmap' = [bitmap EXCEPT ![b[1]] = @ \ {b[2]}]
                    /\ used_count' = [used_count EXCEPT ![b[1]] = @ - 1]
                    /\ where' = [where EXCEPT ![b] = "free"]
                    /\ UNCHANGED <<pc, node>>
               ELSE /\ node' = [node EXCEPT ![t] = b]
                    /\ where' = [where EXCEPT ![b] = "freeing"]
                    /\ Goto(t, "push_load")
                    /\ UNCHANGED <<bitmap, used_count>>
    /\ UNCHANGED <<shared, remote, link, page, old_head>>

PushLoad(t) ==
    /\ pc[t] = "push_load"
    /\ old_head' = [old_head EXCEPT ![t] = remote[node[t][1]]]
    /\ link' = [link EXCEPT ![node[t]] = remote[node[t][1]]]
    /\ Goto(t, "push_cas")
    /\ UNCHANGED <<shared, bitmap, used_count, remote, page, node, where>>

\* The weak compare-and-swap may also fail for no reason.
PushCas(t) ==
    /\ pc[t] = "push_cas"
    /\ \/ /\ remote[node[t][1]] = old_head[t]
          /\ remote' = [remote EXCEPT ![node[t][1]] = node[t]]
          /\ where' = [where EXCEPT ![node[t]] = "remote"]
          /\ Return(t)
       \/ /\ Goto(t, "push_load")
          /\ UNCHANGED <<remote, page, node, old_head, where>>
    /\ UNCHANGED <<shared, bitmap, used_count, link>>

-----------------------------------------------------------------------------
Init ==
    /\ segments = 0
    /\ used_pages = [s \in Segments |-> 0]
    /\ owner = [p \in Pages |-> NoThread]
    /\ bitmap = [p \in Pages |-> {}]
    /\ used_count = [p \in Pages |-> 0]
    /\ remote = [p \in Pages |-> Null]
    /\ link = [b \in Blocks |-> Null]
    /\ lock = NoThread
    /\ mine = [t \in Threads |-> <<>>]
    /\ pc = [t \in Threads |-> "idle"]
    /\ page = [t \in Threads |-> Null]
    /\ node = [t \in Threads |-> Null]
    /\ old_head = [t \in Threads |-> Null]
    /\ where = [b \in Blocks |-> "free"]

AllocateStep(t) ==
    \/ Drain(t) \/ Unlink(t) \/ Walk(t) \/ Lock(t) \/ FindPage(t) \/ InitPage(t)
    \/ Unlock(t) \/ Take(t)

FreeStep(t) == PushLoad(t) \/ PushCas(t)

Next ==
    \E t \in Threads :
        CallAllocate(t) \/ AllocateStep(t) \/ Free(t) \/ FreeStep(t)

Spec == Init /\ [][Next]_vars

-----------------------------------------------------------------------------
\* The types of the segments, pages and blocks, and of each thread's locals.
TypeOK ==
    /\ segments \in 0..MaxSegments
    /\ used_pages \in [Segments -> 0..PagesPerSegment]
    /\ owner \in [Pages -> Threads \union {NoThread}]
    /\ bitmap \in [Pages -> SUBSET Bits]
    /\ used_count \in [Pages -> 0..BlockCount]
    /\ remote \in [Pages -> Blocks \union {Null}]
    /\ link \in [Blocks -> Blocks \union {Null}]
    /\ lock \in Threads \union {NoThread}
    /\ mine \in [Threads -> Seq(Pages)]
    /\ pc \in [Threads -> {"idle", "drain", "unlink", "lock", "find", "init",
                           "unlock", "take", "push_load", "push_cas"}]
    /\ page \in [Threads -> Pages \union {Null}]
    /\ node \in [Threads -> Blocks \union {Null}]
    /\ old_head \in [Threads -> Blocks \union {Null}]
    /\ where \in [Blocks -> {"free", "live", "freeing", "remote", "draining"}]

\* A block is handed out only while nobody has it: not the application, not a
\* thread in the middle of freeing it, not a list of freed blocks.
NoDoubleHandout ==
    [][\A b \in Blocks : where'[b] = "live" /\ where[b] # "live" => where[b] = "free"]_vars

\* The bitmap and the count agree with the blocks that are out, for every
\* page that has an owner, however owner, frees and drains interleave.
BitmapExact ==
    \A p \in Pages :
        /\ bitmap[p] = {i \in Bits : where[<<p, i>>] # "free"}
        /\ used_count[p] = Cardinality(bitmap[p])

\* A walk along the links from b, Null beyond the end.
Walked(b) ==
    LET walk[n \in 0..BlockCount] ==
            IF n = 0 THEN b
            ELSE IF walk[n - 1] = Null THEN Null ELSE link[walk[n - 1]]
    IN  walk

\* The nodes the walk meets.
Chain(b) == {Walked(b)[n] : n \in 0..BlockCount} \ {Null}

\* No freed block is lost or shared: the remote list of a page reaches exactly
\* the blocks pushed on it, and what an owner is draining exactly those it took.
ListsExact ==
    \A p \in Pages :
        /\ Chain(remote[p])
             = {b \in Blocks : b[1] = p /\ where[b] = "remote"}
        /\ UNION {Chain(node[t]) :
                    t \in {u \in Threads : pc[u] = "unlink" /\ page[u] = p}}
             = {b \in Blocks : b[1] = p /\ where[b] = "draining"}

\* The global lock gives a page to one thread, and a thread allocates only
\* from its own pages.
PagesPrivate ==
    /\ \A t, u \in Threads : \A i \in DOMAIN mine[t], j \in DOMAIN mine[u] :
          mine[t][i] = mine[u][j] => t = u /\ i = j
    /\ \A t \in Threads : \A i \in DOMAIN mine[t] : owner[mine[t][i]] = t
    /\ \A s \in Segments :
          lock = NoThread =>
            used_pages[s] = Cardinality({p \in Pages : p[1] = s /\ owner[p] # NoThread})

\* A page the walk or the segment search settled on has a clear bit: the NULL
\* return of bitmap_allocate_block is never taken.
TakeSucceeds ==
    \A t \in Threads :
        pc[t] = "take" => Bits \ bitmap[page[t]] # {}

-----------------------------------------------------------------------------
(* The inductive invariant.                                                *)

Pushing(t) == pc[t] \in {"push_load", "push_cas"}
Listed(b) == where[b] \in {"remote", "draining"}

\* Whose page is whose, at each point of an allocation.
PageLocals ==
    \A t \in Threads :
        /\ pc[t] \in {"find", "init", "unlock"} => lock = t
        /\ pc[t] \in {"drain", "unlink", "take"} =>
              page[t] \in Pages /\ owner[page[t]] = t
        /\ pc[t] \in {"drain", "unlink"} =>
              \E i \in DOMAIN mine[t] : mine[t][i] = page[t]
        /\ pc[t] = "init" => /\ page[t] \in Pages /\ owner[page[t]] = NoThread
                             /\ page[t][1] < segments
                             /\ used_pages[page[t][1]] < PagesPerSegment
        /\ pc[t] = "unlock" => \/ page[t] = Null
                               \/ page[t] \in Pages /\ owner[page[t]] = t

PageLists == \A t \in Threads : \A i \in DOMAIN mine[t] : owner[mine[t][i]] = t

\* Pages nobody took are untouched.
UnusedPages ==
    /\ \A s \in Segments : segments <= s => used_pages[s] = 0
    /\ \A p \in Pages :
          /\ segments <= p[1] => owner[p] = NoThread
          /\ owner[p] = NoThread => bitmap[p] = {} /\ remote[p] = Null

\* A block being pushed belongs to its pusher alone.
Pushes ==
    \A t \in Threads :
        /\ Pushing(t) => /\ node[t] \in Blocks /\ where[node[t]] = "freeing"
                         /\ \A u \in Threads : Pushing(u) /\ node[u] = node[t] => u = t
        /\ pc[t] = "push_cas" => link[node[t]] = old_head[t]

\* A listed block's link stays in its list, and no two links meet.
Links ==
    \A b \in Blocks : Listed(b) /\ link[b] # Null =>
        /\ link[b][1] = b[1] /\ where[link[b]] = where[b]
        /\ \A c \in Blocks : Listed(c) /\ link[c] = link[b] => c = b

\* Nothing links to the head of a list.
Heads ==
    /\ \A p \in Pages : remote[p] # Null =>
          /\ remote[p][1] = p /\ where[remote[p]] = "remote"
          /\ \A b \in Blocks : Listed(b) => link[b] # remote[p]
    /\ \A t \in Threads : pc[t] = "unlink" /\ node[t] # Null =>
          /\ node[t][1] = page[t] /\ where[node[t]] = "draining"
          /\ \A b \in Blocks : Listed(b) => link[b] # node[t]

\* TypeOK, BitmapExact and the facts above: what every step preserves.
IInv ==
    /\ TypeOK /\ BitmapExact /\ PageLocals /\ PageLists /\ UnusedPages
    /\ Pushes /\ Links /\ Heads

\* A thread has each of its pages once; the page it is about to prepend is not
\* among them yet, and is empty.
PagesOnce ==
    \A t \in Threads :
        /\ \A i, j \in DOMAIN mine[t] : mine[t][i] = mine[t][j] => i = j
        /\ pc[t] = "unlock" /\ page[t] # Null =>
              bitmap[page[t]] = {} /\ \A i \in DOMAIN mine[t] : mine[t][i] # page[t]

\* used_page_count is the number of pages in use, lock or no lock.
PagesCounted ==
    \A s \in Segments :
        used_pages[s] = Cardinality({p \in Pages : p[1] = s /\ owner[p] # NoThread})

\* The links lead from block c to block b: b is in every set that contains c
\* and is closed under link.
Leads(c, b) ==
    \A X \in SUBSET Blocks :
        c \in X /\ (\A x \in X : link[x] # Null => link[x] \in X) => b \in X

\* The head of a list leads to every block that is on it.
ListsWhole ==
    \A b \in Blocks :
        /\ where[b] = "remote" => remote[b[1]] # Null /\ Leads(remote[b[1]], b)
        /\ where[b] = "draining" =>
              \E t \in Threads : /\ pc[t] = "unlink" /\ page[t] = b[1]
                                 /\ node[t] # Null /\ Leads(node[t], b)

\* What every step preserves, given IInv.
PInv == PagesOnce /\ PagesCounted /\ ListsWhole /\ TakeSucceeds

\* Pages stay consistent under every interleaving of allocations and frees:
\* each is its owner's alone, its lists hold what was freed, and a page chosen
\* for an allocation has room.
PagesExact == PagesPrivate /\ ListsExact /\ TakeSucceeds

=============================================================================
