---------------------------- MODULE Containers ------------------------------
(***************************************************************************)
(* Two containers of src/containers.c, beside the sequences their caller   *)
(* means by them: lc_array, a growing buffer of elements, and lc_list, an  *)
(* intrusive doubly linked list through a sentinel, with the removal-safe  *)
(* loop of include/lightdata/list.h.  A size_t wraps at SizeMod, the       *)
(* allocator may refuse any request, and it refuses those beyond MaxBytes. *)
(***************************************************************************)
EXTENDS Naturals, Sequences, SequencesExt

CONSTANTS Elements,         \* what the caller stores
          Garbage,          \* what a byte not yet written holds
          SizeMod,          \* 2^64 in the code
          ElementSize, MaxBytes,
          InitialSlots      \* ARRAY_INITIAL_CAPACITY

ArrayAssumption == /\ InitialSlots > 0 /\ ElementSize > 0
                   /\ InitialSlots * ElementSize <= MaxBytes /\ MaxBytes < SizeMod

VARIABLES data,             \* the elements of the block, <<>> for NULL
          bytes,            \* the size it was allocated with
          array_count, capacity,
          array_ref,              \* the caller's sequence (ghost)
          given             \* the last pop's element and what it should be (ghost)

array == <<data, bytes, array_count, capacity, array_ref, given>>

-----------------------------------------------------------------------------
(* Mutated forms of the operations below, for sensitivity checks only.     *)

\* Without the check for overflow: a wrapped size is allocated.
AllocationOfWrapped(slots) == (slots * ElementSize) % SizeMod

\* The tail is copied upwards from its first element, over itself.
OpenedForwards(block, index) ==
    [i \in 1..Len(block) |-> IF i > index + 1 /\ i <= array_count + 1
                             THEN block[index + 1] ELSE block[i]]

-----------------------------------------------------------------------------
\* lc_array_reserve's doubling, which stops before it would wrap.
Doubled(slots, wanted) ==
    LET grown[n \in 1..SizeMod] ==
            IF n >= wanted THEN n
            ELSE IF n > (SizeMod - 1) \div 2 THEN wanted ELSE grown[2 * n]
    IN  grown[slots]

\* The bytes of a number of elements; one that does not fit a size_t is refused.
Allocation(slots) == slots * ElementSize

\* lc_array_reserve when it succeeds, and what the block then holds.
Grown(wanted) == Doubled(IF capacity = 0 THEN InitialSlots ELSE capacity, wanted)
Room(wanted) == IF wanted <= capacity THEN data
                ELSE [i \in 1..(Allocation(Grown(wanted)) \div ElementSize) |->
                         IF i <= Len(data) THEN data[i] ELSE Garbage]
Reserved(wanted) ==
    /\ wanted > capacity => Allocation(Grown(wanted)) <= MaxBytes
    /\ capacity' = IF wanted <= capacity THEN capacity ELSE Grown(wanted)
    /\ bytes' = IF wanted <= capacity THEN bytes ELSE Allocation(Grown(wanted))

\* lc_array_reserve: it leaves the array alone when the allocation fails.
Reserve(wanted) ==
    /\ Reserved(wanted) /\ data' = Room(wanted)
    /\ UNCHANGED <<array_count, array_ref, given>>

\* The elements from index on moved up by one place, as lc_bytes_move does.
Opened(block, index) ==
    [i \in 1..Len(block) |-> IF i > index + 1 /\ i <= array_count + 1
                             THEN block[i - 1] ELSE block[i]]

\* The same, moved down by one.
Closed(index) ==
    [i \in 1..Len(data) |-> IF i > index /\ i < array_count THEN data[i + 1] ELSE data[i]]

\* lc_array_insert at an index not beyond the count.
Insert(index, e) ==
    /\ index <= array_count
    /\ IF array_count = capacity THEN Reserved(array_count + 1) ELSE UNCHANGED <<capacity, bytes>>
    /\ data' = [Opened(Room(array_count + 1), index) EXCEPT ![index + 1] = e]
    /\ array_count' = array_count + 1
    /\ array_ref' = InsertAt(array_ref, index + 1, e)
    /\ UNCHANGED given

\* lc_array_push.
Push(e) ==
    /\ IF array_count = capacity THEN Reserved(array_count + 1) ELSE UNCHANGED <<capacity, bytes>>
    /\ data' = [Room(array_count + 1) EXCEPT ![array_count + 1] = e]
    /\ array_count' = array_count + 1
    /\ array_ref' = Append(array_ref, e)
    /\ UNCHANGED given

\* lc_array_pop of an array that is not empty.
Pop ==
    /\ array_count > 0
    /\ array_count' = array_count - 1
    /\ given' = <<data[array_count], array_ref[Len(array_ref)]>>
    /\ array_ref' = SubSeq(array_ref, 1, Len(array_ref) - 1)
    /\ UNCHANGED <<data, bytes, capacity>>

\* lc_array_remove of an index below the count.
RemoveFrom(index) ==
    /\ index < array_count
    /\ data' = Closed(index)
    /\ array_count' = array_count - 1
    /\ array_ref' = RemoveAt(array_ref, index + 1)
    /\ UNCHANGED <<bytes, capacity, given>>

\* lc_array_clear keeps the block; lc_array_destroy frees it.
Clear ==
    /\ array_count' = 0 /\ array_ref' = <<>>
    /\ UNCHANGED <<data, bytes, capacity, given>>

Destroy ==
    /\ data' = <<>> /\ bytes' = 0 /\ array_count' = 0 /\ capacity' = 0 /\ array_ref' = <<>>
    /\ UNCHANGED given

\* lc_array_get, NULL for an index out of range; lc_array_count and lc_array_is_empty.
Get(index) == IF index >= array_count THEN Garbage ELSE data[index + 1]

ArrayInit ==
    /\ data = <<>> /\ bytes = 0 /\ array_count = 0 /\ capacity = 0
    /\ array_ref = <<>> /\ given = <<>>

ArrayNext ==
    \/ \E wanted \in 0..(SizeMod - 1) : Reserve(wanted)
    \/ \E e \in Elements : Push(e) \/ \E index \in 0..array_count : Insert(index, e)
    \/ \E index \in 0..array_count : RemoveFrom(index)
    \/ Pop \/ Clear \/ Destroy

ArraySpec == ArrayInit /\ [][ArrayNext]_array

-----------------------------------------------------------------------------
\* The array is the sequence its caller built with pushes, pops, insertions and
\* removals, across every growth of the block; a pop gives the last element.
IsTheSequence ==
    /\ array_count = Len(array_ref)
    /\ \A index \in 0..array_count :
          Get(index) = IF index < Len(array_ref) THEN array_ref[index + 1] ELSE Garbage
    /\ given # <<>> => given[1] = given[2]

\* The capacity never promises more than the block holds: no size has wrapped,
\* and every element counted lies inside the block.
CapacityAllocated == array_count <= capacity /\ capacity * ElementSize <= bytes /\ bytes < SizeMod

-----------------------------------------------------------------------------
(* lc_list.  Nodes move between lists.                                     *)

CONSTANTS Nodes, Lists,    \* a list stands for its sentinel
          NoNode           \* NULL

VARIABLES prev, next,      \* the links of nodes and sentinels
          list_count,           \* of each list
          list_ref,             \* the caller's sequences (ghost)
          iter             \* a loop: [list, pos, tmp, seen, start]

list == <<prev, next, list_count, list_ref, iter>>
NoLoop == [list |-> NoNode, pos |-> NoNode, tmp |-> NoNode, seen |-> <<>>, start |-> <<>>]

Loose(n) == \A l \in Lists : ~ \E i \in 1..Len(list_ref[l]) : list_ref[l][i] = n

-----------------------------------------------------------------------------
(* Mutated forms of the operations below, for sensitivity checks only.     *)

\* The successor's back link is forgotten.
UnlinkForwardOnly(l, n) ==
    /\ next' = [next EXCEPT ![prev[n]] = next[n], ![n] = NoNode]
    /\ prev' = [prev EXCEPT ![n] = NoNode]
    /\ list_count' = [list_count EXCEPT ![l] = @ - 1]
    /\ list_ref' = [list_ref EXCEPT ![l] = SelectSeq(@, LAMBDA m : m # n)]

\* The loop looks for its successor only after the body has run.
StepLate ==
    /\ iter.list # NoNode /\ iter.pos # iter.list
    /\ iter' = LET after == IF next[iter.pos] = NoNode THEN iter.list ELSE next[iter.pos]
               IN  [iter EXCEPT !.seen = Append(@, iter.pos), !.pos = after, !.tmp = next[after]]
    /\ UNCHANGED <<prev, next, list_count, list_ref>>

-----------------------------------------------------------------------------
\* list_insert_between.
InsertBetween(n, before, after) ==
    /\ next' = [next EXCEPT ![n] = after, ![before] = n]
    /\ prev' = [prev EXCEPT ![n] = before, ![after] = n]

PushFront(l, n) ==
    /\ iter = NoLoop /\ Loose(n)
    /\ InsertBetween(n, l, next[l])
    /\ list_count' = [list_count EXCEPT ![l] = @ + 1]
    /\ list_ref' = [list_ref EXCEPT ![l] = <<n>> \o @]
    /\ UNCHANGED iter

PushBack(l, n) ==
    /\ iter = NoLoop /\ Loose(n)
    /\ InsertBetween(n, prev[l], l)
    /\ list_count' = [list_count EXCEPT ![l] = @ + 1]
    /\ list_ref' = [list_ref EXCEPT ![l] = Append(@, n)]
    /\ UNCHANGED iter

\* lc_list_remove of a node of this list.
Unlink(l, n) ==
    /\ next' = [next EXCEPT ![prev[n]] = next[n], ![n] = NoNode]
    /\ prev' = [prev EXCEPT ![next[n]] = prev[n], ![n] = NoNode]
    /\ list_count' = [list_count EXCEPT ![l] = @ - 1]
    /\ list_ref' = [list_ref EXCEPT ![l] = SelectSeq(@, LAMBDA m : m # n)]

RemoveNode(l, n) ==
    /\ iter = NoLoop /\ Contains(list_ref[l], n)
    /\ Unlink(l, n)
    /\ UNCHANGED iter

\* lc_list_front and lc_list_back, NULL for an empty list.
FrontOf(l) == IF list_count[l] = 0 THEN NoNode ELSE next[l]
BackOf(l) == IF list_count[l] = 0 THEN NoNode ELSE prev[l]

PopFront(l) ==
    /\ iter = NoLoop /\ list_count[l] > 0
    /\ Unlink(l, next[l])
    /\ UNCHANGED iter

PopBack(l) ==
    /\ iter = NoLoop /\ list_count[l] > 0
    /\ Unlink(l, prev[l])
    /\ UNCHANGED iter

-----------------------------------------------------------------------------
(* lc_list_for_each_safe, whose body may remove the node it is at.          *)

Loop(l) ==
    /\ iter = NoLoop
    /\ iter' = [list |-> l, pos |-> next[l], tmp |-> next[next[l]], seen |-> <<>>,
                start |-> list_ref[l]]
    /\ UNCHANGED <<prev, next, list_count, list_ref>>

LoopRemove ==
    /\ iter.list # NoNode /\ iter.pos # iter.list
    /\ Contains(list_ref[iter.list], iter.pos)
    /\ Unlink(iter.list, iter.pos)
    /\ UNCHANGED iter

Step ==
    /\ iter.list # NoNode /\ iter.pos # iter.list
    /\ iter' = [iter EXCEPT !.seen = Append(@, iter.pos), !.pos = iter.tmp, !.tmp = next[iter.tmp]]
    /\ UNCHANGED <<prev, next, list_count, list_ref>>

LoopEnds ==
    /\ iter.list # NoNode /\ iter.pos = iter.list
    /\ iter' = NoLoop
    /\ UNCHANGED <<prev, next, list_count, list_ref>>

-----------------------------------------------------------------------------
\* lc_list_init of each list.
ListInit ==
    /\ prev = [x \in Nodes \union Lists |-> IF x \in Lists THEN x ELSE NoNode]
    /\ next = prev
    /\ list_count = [l \in Lists |-> 0]
    /\ list_ref = [l \in Lists |-> <<>>]
    /\ iter = NoLoop

ListNext ==
    \/ \E l \in Lists, n \in Nodes : PushFront(l, n) \/ PushBack(l, n) \/ RemoveNode(l, n)
    \/ \E l \in Lists : PopFront(l) \/ PopBack(l) \/ Loop(l)
    \/ LoopRemove \/ Step \/ LoopEnds

ListSpec == ListInit /\ [][ListNext]_list

-----------------------------------------------------------------------------
\* Every list, read forwards or backwards, is the sequence its caller built; its
\* count is true, a node on no list is linked to nothing, and a loop that is at
\* its end has been at each node the list began with, in order, although its
\* body removed some.
ListsExact ==
    /\ \A l \in Lists :
          LET ring == <<l>> \o list_ref[l] \o <<l>>
          IN  /\ \A i \in 1..(Len(ring) - 1) :
                    next[ring[i]] = ring[i + 1] /\ prev[ring[i + 1]] = ring[i]
              /\ list_count[l] = Len(list_ref[l])
              /\ FrontOf(l) = IF list_ref[l] = <<>> THEN NoNode ELSE Head(list_ref[l])
              /\ BackOf(l) = IF list_ref[l] = <<>> THEN NoNode ELSE Last(list_ref[l])
    /\ \A n \in Nodes : Loose(n) => next[n] = NoNode /\ prev[n] = NoNode
    /\ iter.list # NoNode /\ iter.pos = iter.list => iter.seen = iter.start

=============================================================================
