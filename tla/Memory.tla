------------------------------- MODULE Memory -------------------------------
(***************************************************************************)
(* src/memory.c and the inline functions of include/lightc/memory.h: the   *)
(* page size the kernel tells a starting program, and the arena, a mapping *)
(* from which blocks are cut by moving a mark.  A size_t wraps at SizeMod; *)
(* the kernel hands out page-aligned addresses of the lower half of the    *)
(* address space.                                                          *)
(***************************************************************************)
EXTENDS Naturals, Sequences, FiniteSets

CONSTANTS SizeMod,            \* 2^64 in the code
          PageSize,           \* LC_PAGE_SIZE
          DefaultAlignment,   \* LC_DEFAULT_ALIGNMENT
          Sizes, Alignments,  \* what the callers ask for
          Auxv,               \* the auxiliary vectors a kernel may pass
          MaxAllocs, MaxResets

ASSUME MemoryAssumption ==
    /\ SizeMod \in Nat /\ PageSize \in Nat \ {0} /\ 2 * PageSize <= SizeMod
    /\ DefaultAlignment \in Alignments
    /\ Sizes \subseteq Nat
    /\ Alignments \subseteq {a \in Nat : 0 < a /\ 2 * a <= SizeMod}
    /\ Auxv \subseteq Seq(Nat \X Nat)

VARIABLES base, arena_capacity, used,           \* lc_arena; base 0 is NULL
          peak_used, alloc_count, reset_count,
          blocks,                               \* blocks since the last reset (ghost)
          highest,                              \* largest used since create (ghost)
          auxv, runtime_page_size               \* what the kernel passed; what was found

arena == <<base, arena_capacity, used, peak_used, alloc_count, reset_count, blocks, highest>>
arenaVars == <<arena, auxv, runtime_page_size>>

AT_NULL == 0
AT_PAGESZ == 6

-----------------------------------------------------------------------------
(* Mutated forms of the operations below, for sensitivity checks only.     *)

\* The check that adds first, and wraps for a huge size.
FitsByAdding(offset, size) == (offset + size) % SizeMod <= arena_capacity

\* A page size of zero is believed.
PageSizeOfAny(aux) ==
    IF \E i \in 1..Len(aux) : aux[i][1] = AT_PAGESZ
    THEN aux[CHOOSE i \in 1..Len(aux) : aux[i][1] = AT_PAGESZ][2] ELSE PageSize

-----------------------------------------------------------------------------
\* align_up, for an alignment that is a power of two.
AlignUp(value, alignment) ==
    LET sum == (value + alignment - 1) % SizeMod IN sum - (sum % alignment)

\* The test before a block is cut, written so that it cannot wrap.
Fits(offset, size) == offset <= arena_capacity /\ size <= arena_capacity - offset

\* lc_runtime_init's walk over the auxiliary vector, which ends at AT_NULL: the
\* first AT_PAGESZ decides, unless its value is zero.
PageSizeOf(aux) ==
    LET ends == {i \in 1..Len(aux) : aux[i][1] \in {AT_NULL, AT_PAGESZ}}
        at == CHOOSE i \in ends : \A j \in ends : i <= j
    IN  IF ends # {} /\ aux[at][1] = AT_PAGESZ /\ aux[at][2] # 0 THEN aux[at][2] ELSE PageSize

RuntimeInit ==
    /\ runtime_page_size = PageSize
    /\ runtime_page_size' = PageSizeOf(auxv)
    /\ UNCHANGED <<arena, auxv>>

\* lc_arena_create, with lc_allocate_pages, which refuses a count whose bytes
\* do not fit a size_t; the kernel may refuse too, and base stays NULL.
Create(size) ==
    /\ base = 0
    /\ LET rounded == AlignUp(size, PageSize) \div PageSize
           pages == IF rounded = 0 THEN 1 ELSE rounded
       IN  \/ /\ pages * PageSize < SizeMod
              /\ \E k \in 1..(SizeMod \div PageSize) :
                    /\ 2 * (k * PageSize + pages * PageSize) <= SizeMod
                    /\ base' = k * PageSize
              /\ arena_capacity' = pages * PageSize
           \/ base' = 0 /\ arena_capacity' = 0
    /\ used' = 0 /\ peak_used' = 0 /\ alloc_count' = 0 /\ reset_count' = 0
    /\ blocks' = {} /\ highest' = 0
    /\ UNCHANGED <<auxv, runtime_page_size>>

\* lc_arena_allocate_aligned.
AllocateAligned(size, alignment) ==
    /\ alloc_count < MaxAllocs
    /\ LET aligned_offset == AlignUp(used, alignment)
       IN  IF Fits(aligned_offset, size)
           THEN /\ used' = aligned_offset + size
                /\ alloc_count' = alloc_count + 1
                /\ peak_used' = IF used' > peak_used THEN used' ELSE peak_used
                /\ blocks' = blocks \union {[start |-> base + aligned_offset, size |-> size,
                                             offset |-> aligned_offset, alignment |-> alignment]}
                /\ highest' = IF used' > highest THEN used' ELSE highest
           ELSE UNCHANGED <<used, alloc_count, peak_used, blocks, highest>>
    /\ UNCHANGED <<base, arena_capacity, reset_count, auxv, runtime_page_size>>

\* lc_arena_allocate.
Allocate(size) == AllocateAligned(size, DefaultAlignment)

\* lc_arena_reset.
Reset ==
    /\ reset_count < MaxResets
    /\ used' = 0 /\ reset_count' = reset_count + 1
    /\ blocks' = {}
    /\ UNCHANGED <<base, arena_capacity, peak_used, alloc_count, highest, auxv, runtime_page_size>>

\* lc_arena_destroy.
Destroy ==
    /\ base # 0
    /\ base' = 0 /\ arena_capacity' = 0 /\ used' = 0
    /\ blocks' = {}
    /\ UNCHANGED <<peak_used, alloc_count, reset_count, highest, auxv, runtime_page_size>>

\* lc_arena_get_used, lc_arena_get_remaining and lc_arena_get_stats.
Stats == [capacity |-> arena_capacity, used |-> used, peak_used |-> peak_used,
          alloc_count |-> alloc_count, reset_count |-> reset_count,
          remaining |-> arena_capacity - used]

ArenaInit ==
    /\ base = 0 /\ arena_capacity = 0 /\ used = 0
    /\ peak_used = 0 /\ alloc_count = 0 /\ reset_count = 0
    /\ blocks = {} /\ highest = 0
    /\ auxv \in Auxv /\ runtime_page_size = PageSize

ArenaNext ==
    \/ RuntimeInit
    \/ \E size \in Sizes : Create(size) \/ Allocate(size)
    \/ \E size \in Sizes, alignment \in Alignments : AllocateAligned(size, alignment)
    \/ Reset \/ Destroy

ArenaSpec == ArenaInit /\ [][ArenaNext]_arenaVars

-----------------------------------------------------------------------------
\* The blocks cut from an arena since it was last reset lie inside its mapping,
\* at offsets their alignment divides, and no two share a byte, whatever sizes
\* were asked for; a size that would wrap is refused.
BlocksApart ==
    /\ \A b \in blocks : /\ base <= b.start /\ b.start + b.size <= base + arena_capacity
                         /\ b.start = base + b.offset
                         /\ \E k \in 0..b.offset : b.offset = b.alignment * k
    /\ \A b, c \in blocks :
          b = c \/ b.start + b.size <= c.start \/ c.start + c.size <= b.start

\* The statistics tell what happened: the peak is the largest use since the
\* arena was created, resets included, and used and remaining add up.
StatsExact ==
    /\ Stats.peak_used = highest /\ Stats.used <= Stats.peak_used
    /\ Stats.used + Stats.remaining = arena_capacity
    /\ \A b \in blocks : b.offset + b.size <= Stats.used
    /\ Cardinality(blocks) <= Stats.alloc_count

\* lc_runtime_page_size is what the kernel's vector says, and never zero.
PageSizeFound ==
    /\ runtime_page_size > 0
    /\ runtime_page_size # PageSize =>
          \E i \in 1..Len(auxv) : auxv[i] = <<AT_PAGESZ, runtime_page_size>>

\* The arena's statistics are those of the blocks handed out, and the page size
\* is the one of the auxiliary vector, if it has one before its end.
ArenaExact == StatsExact /\ PageSizeFound

\* include/lightc/memory.h of lc_arena_create: the arena has at least the size
\* asked for.
AsLargeAsAsked ==
    [][\A size \in Sizes : Create(size) /\ base' # 0 => arena_capacity' >= size]_arenaVars

=============================================================================
