----------------------------- MODULE Library --------------------------------
(***************************************************************************)
(* src/library.c.  lc_library_open and lc_library_close: the steps in their*)
(* order, what each may answer, and what has been acquired when one of them*)
(* fails.  A shared object is its program headers, what its dynamic section*)
(* says, its relocations and its constructors; addresses count words,      *)
(* PageSize of them to a page.                                             *)
(***************************************************************************)
EXTENDS Naturals, Sequences, FiniteSets, FiniteSetsExt, SequencesExt, Functions

CONSTANTS Objects,    \* the files there are
          PageSize,
          MaxAddr     \* UINT64_MAX: a sum beyond it wraps

\* A file: valid (validate_elf_header), segs (its PT_LOAD headers, records of
\* vaddr, memsz, filesz and writable), dyn ("none", "outside" or "inside" the
\* mapping), tables (are they inside?), relas (records of offset and symbol:
\* "none" for RELATIVE, "defined" or "undefined"), init and fini (their arrays,
\* "null" for a null entry), init_func and fini_func.

VARIABLES object,     \* the file being opened; constant in a behaviour
          lpc, i,      \* the step, and its loop index
          held,       \* what the call has acquired and not released
          stray,      \* ghost: was something released that was not held?
          min_vaddr, total_size,
          loaded,     \* words of the mapping read from the file
          written,    \* words of the mapping that relocations wrote
          writable,   \* pages of the mapping one can write to
          ran         \* the constructors and destructors called, in order

loader == <<object, lpc, i, held, stray, min_vaddr, total_size, loaded, written, writable, ran>>
image == <<object, min_vaddr, total_size, loaded, written, writable, ran>>

Down(x) == x - (x % PageSize)
Up(x) == Down((x + PageSize - 1) % (MaxAddr + 1))
Pages(from, to) ==
    {p \in 0..((MaxAddr + 1) \div PageSize) : Down(from) <= p * PageSize /\ p * PageSize < Up(to)}

Acquire(r, next) == held' = held \union {r} /\ lpc' = next /\ UNCHANGED stray
Release(rs) == held' = held \ rs /\ stray' = (stray \/ ~ rs \subseteq held)
Fail(rs) == Release(rs) /\ lpc' = "failed"

-----------------------------------------------------------------------------
(* Mutated forms of the operations below, for sensitivity checks only.     *)

\* The segment that cannot be read leaves the mapping behind.
LoadSegmentLeaks ==
    /\ lpc = "load" /\ i <= Len(object.segs)
    /\ Fail({"phdrs", "fd"})
    /\ UNCHANGED <<image, i>>

\* Permissions are tightened before the relocations are applied.
ParseTightensFirst ==
    /\ lpc = "parse"
    /\ object.dyn = "inside" /\ object.tables
    /\ lpc' = "relocate" /\ i' = 1
    /\ writable' = writable \ UNION {LET s == object.segs[k] IN
                     IF s.writable THEN {}
                     ELSE Pages(s.vaddr - min_vaddr, s.vaddr - min_vaddr + s.memsz)
                     : k \in DOMAIN object.segs}
    /\ UNCHANGED <<object, held, stray, min_vaddr, total_size, loaded, written, ran>>

-----------------------------------------------------------------------------
Open ==
    /\ lpc = "closed"
    /\ \/ Acquire("fd", "header")
       \/ UNCHANGED <<held, stray>> /\ lpc' = "failed"
    /\ UNCHANGED <<image, i>>

\* Read the header, validate it, and allocate room for the program headers.
ReadHeader ==
    /\ lpc = "header"
    /\ \/ object.valid /\ Acquire("phdrs", "phdrs")
       \/ Fail({"fd"})
    /\ UNCHANGED <<image, i>>

\* Seek to the program headers, read them and compute the span of the segments:
\* none, one with more bytes in the file than in memory or one whose end wraps
\* is refused.
Span ==
    /\ lpc = "phdrs"
    /\ LET segs == Range(object.segs)
           good == segs # {} /\ \A s \in segs : s.filesz <= s.memsz /\ s.vaddr + s.memsz <= MaxAddr
           low == Down(Min({s.vaddr : s \in segs}))
           high == Max({s.vaddr + s.memsz : s \in segs})
       IN  \/ /\ good
              /\ min_vaddr' = low /\ total_size' = Up(high - low)
              /\ lpc' = "map"
              /\ UNCHANGED <<held, stray>>
           \/ Fail({"phdrs", "fd"}) /\ UNCHANGED <<min_vaddr, total_size>>
    /\ UNCHANGED <<object, i, loaded, written, writable, ran>>

\* One private mapping, readable and writable, for all segments.
MapRegion ==
    /\ lpc = "map"
    /\ \/ total_size > 0 /\ Acquire("map", "load") /\ writable' = Pages(0, total_size)
       \/ Fail({"phdrs", "fd"}) /\ UNCHANGED writable
    /\ i' = 1
    /\ UNCHANGED <<object, min_vaddr, total_size, loaded, written, ran>>

\* Read segment i into its place; a short file or a destination outside the
\* mapping ends the call.
LoadSegment ==
    /\ lpc = "load" /\ i <= Len(object.segs)
    /\ LET s == object.segs[i]
           offset == s.vaddr - min_vaddr
       IN  \/ /\ s.filesz = 0 \/ (offset <= total_size /\ s.filesz <= total_size - offset)
              /\ loaded' = loaded \union offset..(offset + s.filesz - 1)
              /\ i' = i + 1
              /\ UNCHANGED <<lpc, held, stray>>
           \/ s.filesz > 0 /\ Fail({"map", "phdrs", "fd"}) /\ UNCHANGED <<loaded, i>>
    /\ UNCHANGED <<object, min_vaddr, total_size, written, writable, ran>>

\* Close the file and allocate the lc_library.
AllocateLibrary ==
    /\ lpc = "load" /\ i > Len(object.segs)
    /\ \/ /\ held' = (held \ {"fd"}) \union {"lib"}
          /\ stray' = (stray \/ "fd" \notin held)
          /\ lpc' = "parse"
       \/ Fail({"fd", "map", "phdrs"})
    /\ UNCHANGED <<image, i>>

\* Find the dynamic section, walk it, and check that every table lies inside.
Parse ==
    /\ lpc = "parse"
    /\ IF object.dyn = "inside" /\ object.tables
       THEN lpc' = "relocate" /\ i' = 1 /\ UNCHANGED <<held, stray>>
       ELSE Fail({"map", "phdrs", "lib"}) /\ UNCHANGED i
    /\ UNCHANGED image

\* process_relocations, relocation i: a target outside the mapping, or an
\* undefined symbol, is skipped.  The target is base + r_offset.
Relocate ==
    /\ lpc = "relocate"
    /\ IF i <= Len(object.relas)
       THEN /\ LET r == object.relas[i]
               IN  written' = IF r.offset < total_size /\ r.symbol # "undefined"
                              THEN written \union {r.offset} ELSE written
            /\ i' = i + 1 /\ UNCHANGED lpc
       ELSE lpc' = "protect" /\ i' = 1 /\ UNCHANGED written
    /\ UNCHANGED <<object, held, stray, min_vaddr, total_size, loaded, writable, ran>>

\* Give the pages of segment i their final permission.
Protect ==
    /\ lpc = "protect" /\ i <= Len(object.segs)
    /\ LET s == object.segs[i]
           pages == Pages(s.vaddr - min_vaddr, s.vaddr - min_vaddr + s.memsz)
       IN  \/ /\ writable' = IF s.writable THEN writable \union pages ELSE writable \ pages
              /\ i' = i + 1
              /\ UNCHANGED <<lpc, held, stray>>
           \/ Fail({"map", "phdrs", "lib"}) /\ UNCHANGED <<writable, i>>
    /\ UNCHANGED <<object, min_vaddr, total_size, loaded, written, ran>>

FreePhdrs ==
    /\ lpc = "protect" /\ i > Len(object.segs)
    /\ Release({"phdrs"})
    /\ lpc' = "construct" /\ i' = 1
    /\ ran' = IF object.init_func THEN <<"init">> ELSE <<>>
    /\ UNCHANGED <<object, min_vaddr, total_size, loaded, written, writable>>

\* Run init_array in order, skipping null entries.
Construct ==
    /\ lpc = "construct"
    /\ IF i <= Len(object.init)
       THEN /\ ran' = IF object.init[i] = "null" THEN ran ELSE Append(ran, object.init[i])
            /\ i' = i + 1 /\ UNCHANGED lpc
       ELSE lpc' = "open" /\ UNCHANGED <<i, ran>>
    /\ UNCHANGED <<object, held, stray, min_vaddr, total_size, loaded, written, writable>>

\* lc_library_close: fini_array backwards, then fini_func ...
CallClose ==
    /\ lpc = "open"
    /\ lpc' = "destruct" /\ i' = Len(object.fini)
    /\ ran' = <<>>
    /\ UNCHANGED <<object, held, stray, min_vaddr, total_size, loaded, written, writable>>

Destruct ==
    /\ lpc = "destruct"
    /\ IF i > 0
       THEN /\ ran' = IF object.fini[i] = "null" THEN ran ELSE Append(ran, object.fini[i])
            /\ i' = i - 1 /\ UNCHANGED lpc
       ELSE /\ ran' = IF object.fini_func THEN Append(ran, "fini") ELSE ran
            /\ lpc' = "unmap" /\ UNCHANGED i
    /\ UNCHANGED <<object, held, stray, min_vaddr, total_size, loaded, written, writable>>

\* ... then the mapping and the struct.
Unload ==
    /\ lpc = "unmap"
    /\ Release({"map", "lib"})
    /\ lpc' = "unloaded"
    /\ UNCHANGED <<image, i>>

-----------------------------------------------------------------------------
LoaderInit ==
    /\ object \in Objects
    /\ lpc = "closed" /\ i = 1
    /\ held = {} /\ stray = FALSE
    /\ min_vaddr = 0 /\ total_size = 0
    /\ loaded = {} /\ written = {} /\ writable = {} /\ ran = <<>>

LoaderNext ==
    \/ Open \/ ReadHeader \/ Span \/ MapRegion \/ LoadSegment \/ AllocateLibrary
    \/ Parse \/ Relocate \/ Protect \/ FreePhdrs \/ Construct
    \/ CallClose \/ Destruct \/ Unload

LoaderSpec == LoaderInit /\ [][LoaderNext]_loader

-----------------------------------------------------------------------------
\* Whichever step fails, lc_library_open has given back the descriptor, the
\* program headers, the mapping and the struct, each once; an open library
\* keeps the last two, and lc_library_close returns them.
LoaderReleases ==
    /\ ~ stray
    /\ lpc \in {"failed", "unloaded"} => held = {}
    /\ lpc \in {"construct", "open", "destruct"} => held = {"map", "lib"}

\* What the loader stores lies in the mapping, and in pages it may still write
\* to: relocations come before the final permissions, also where they change a
\* read-only segment.
StoresInside ==
    /\ loaded \union written \subseteq 0..(total_size - 1)
    /\ lpc \in {"load", "relocate"} => writable = Pages(0, total_size)

\* Constructors run on an object that is complete: every segment in its place,
\* its relocations applied, and no page writable but those of the writable
\* segments (where the segments share no page).  They run in order; the
\* destructors run in the reverse order, DT_FINI last.
ConstructedWhole ==
    /\ lpc \in {"construct", "open", "destruct"} =>
          LET segs == Range(object.segs)
              Span1(s) == Pages(s.vaddr - min_vaddr, s.vaddr - min_vaddr + s.memsz)
          IN  /\ \A s \in segs :
                    (s.vaddr - min_vaddr)..(s.vaddr - min_vaddr + s.filesz - 1) \subseteq loaded
              /\ \A r \in Range(object.relas) :
                    r.symbol # "undefined" /\ r.offset < total_size => r.offset \in written
              /\ (\A s, t \in segs : s # t => Span1(s) \intersect Span1(t) = {}) =>
                    \A s \in segs : ~ s.writable => Span1(s) \intersect writable = {}
    /\ lpc = "open" => ran = (IF object.init_func THEN <<"init">> ELSE <<>>)
                              \o SelectSeq(object.init, LAMBDA f : f # "null")
    /\ lpc = "unmap" => ran = SelectSeq(Reverse(object.fini), LAMBDA f : f # "null")
                               \o (IF object.fini_func THEN <<"fini">> ELSE <<>>)

-----------------------------------------------------------------------------
(* Symbol lookup in a loaded library: the GNU hash table, the ELF hash     *)
(* table and the linear scan, on the tables a static linker writes.  A name*)
(* is a short sequence of character codes; hashes keep HashBits bits       *)
(* instead of 32.  A symbol is a record of its name, whether its section is*)
(* defined, and whether its binding is global or weak.                     *)

CONSTANTS Names,       \* the names that occur
          MaxSymbols,  \* bound on the symbols of a library
          MaxBuckets,  \* bound on the buckets of its tables
          HashBits     \* 32

VARIABLES symtab,      \* the symbols from index 1 on; index 0 is STN_UNDEF
          symndx,      \* of the GNU table: the first symbol it covers
          nbuckets, gnu, elf,  \* of the tables, and which of them exist
          asked, found         \* the last lookup: its name, and the index or 0

symbols == <<symtab, symndx, nbuckets, gnu, elf, asked, found>>
library == <<symtab, symndx, nbuckets, gnu, elf>>

Modulus == 2^HashBits
Symbols == [name : Names, defined : BOOLEAN, global : {TRUE}]
           \union [name : {<<>>}, defined : {TRUE}, global : {FALSE}]
Count == Len(symtab) + 1
SetBit0(h) == h + 1 - (h % 2)

\* (h << 5) + h + c, from 5381.
GnuHash(name) == FoldLeft(LAMBDA h, c : (h * 33 + c) % Modulus, 5381 % Modulus, name)

\* (h << 4) + c, with the top four bits folded into bits 4 to 7.
ElfHash(name) ==
    LET top == 2^(HashBits - 4)
        Step(h, c) == LET x == (h * 16 + c) % Modulus
                          g == x \div top
                          low == x % top
                          nibble == (low \div 16) % 16
                          Xor(a, b) == CHOOSE z \in 0..15 : \A k \in 0..3 :
                              (z \div 2^k) % 2 = ((a \div 2^k) + (b \div 2^k)) % 2
                      IN  low - 16 * nibble + 16 * Xor(nibble, g)
    IN  FoldLeft(Step, 0, name)

-----------------------------------------------------------------------------
(* The tables as the linker lays them out.                                 *)

\* GNU: from symndx on the symbols are grouped by bucket; a bucket has its first
\* index, a chain word the hash with bit 0 telling the last of its bucket.
GnuBucket(k) == GnuHash(symtab[k].name) % nbuckets
GnuLaidOut == \A k, l \in symndx..Len(symtab) : k < l => GnuBucket(k) <= GnuBucket(l)
GnuBuckets(b) ==
    LET mine == {k \in symndx..Len(symtab) : GnuBucket(k) = b}
    IN  IF mine = {} THEN 0 ELSE Min(mine)
GnuChain(c) ==
    LET k == symndx + c
        h == GnuHash(symtab[k].name)
        last == k = Len(symtab) \/ GnuBucket(k + 1) # GnuBucket(k)
    IN  IF last THEN SetBit0(h) ELSE h - (h % 2)

\* ELF: every bucket is a list, linked through the chain words and ended by 0.
ElfBucket(k) == ElfHash(symtab[k].name) % nbuckets
ElfBuckets(b) == Max({k \in 1..Len(symtab) : ElfBucket(k) = b} \union {0})
ElfChain(k) == Max({l \in 1..(k - 1) : ElfBucket(l) = ElfBucket(k)} \union {0})

-----------------------------------------------------------------------------
(* Mutated forms of the operations below, for sensitivity checks only.     *)

\* The chain's hash is compared with its end-of-chain bit.
GnuWalkExact(name) ==
    LET hash == GnuHash(name)
        walk[c \in 0..Len(symtab)] ==
            IF symndx + c > Len(symtab) THEN 0
            ELSE IF /\ GnuChain(c) = hash
                    /\ symtab[symndx + c].name = name /\ symtab[symndx + c].defined
            THEN symndx + c
            ELSE IF GnuChain(c) % 2 = 1 THEN 0 ELSE walk[c + 1]
    IN  walk[GnuBuckets(hash % nbuckets) - symndx]

-----------------------------------------------------------------------------
\* find_symbol_with_gnu_hash behind its tests: from the bucket's first symbol to
\* the chain word with bit 0 set, comparing names where the hashes agree but for
\* that bit, passing over undefined symbols.  Words past the table end the walk.
GnuWalk(name) ==
    LET hash == GnuHash(name)
        walk[c \in 0..Len(symtab)] ==
            IF symndx + c > Len(symtab) THEN 0
            ELSE IF /\ SetBit0(GnuChain(c)) = SetBit0(hash)
                    /\ symtab[symndx + c].name = name /\ symtab[symndx + c].defined
            THEN symndx + c
            ELSE IF GnuChain(c) % 2 = 1 THEN 0 ELSE walk[c + 1]
    IN  walk[GnuBuckets(hash % nbuckets) - symndx]

FindGnu(name) == IF GnuBuckets(GnuHash(name) % nbuckets) = 0 THEN 0 ELSE GnuWalk(name)

\* find_symbol_with_elf_hash.
FindElf(name) ==
    LET walk[k \in 0..Len(symtab)] ==
            IF k = 0 \/ k >= Count THEN 0
            ELSE IF symtab[k].name = name /\ symtab[k].defined THEN k
            ELSE walk[ElfChain(k)]
    IN  walk[ElfBuckets(ElfHash(name) % nbuckets)]

\* get_symbol_count: nchain, or from the highest bucket to the end of its chain.
SymbolCount ==
    IF elf THEN Count
    ELSE IF gnu
    THEN LET max_sym == Max({symndx} \union {GnuBuckets(b) : b \in 0..(nbuckets - 1)})
             walk[c \in 0..Len(symtab)] ==
                 IF symndx + c > Len(symtab) \/ GnuChain(c) % 2 = 1 THEN c ELSE walk[c + 1]
         IN  symndx + walk[max_sym - symndx] + 1
    ELSE 0

\* find_symbol_linear_scan: the first defined global or weak symbol of the name.
FindLinear(name) ==
    LET hits == {k \in 1..Len(symtab) : /\ k < SymbolCount
                                        /\ symtab[k].global /\ symtab[k].defined
                                        /\ symtab[k].name = name}
    IN  IF hits = {} THEN 0 ELSE Min(hits)

\* lc_library_find_symbol: the GNU table, else the ELF table, else the scan.
FindSymbol(name) ==
    /\ asked' = name
    /\ found' = IF gnu THEN FindGnu(name) ELSE IF elf THEN FindElf(name) ELSE FindLinear(name)
    /\ UNCHANGED library

-----------------------------------------------------------------------------
\* A library as linkers write it: names are unique, local symbols stand for
\* sections and have none, and the symbols of the GNU table are the defined
\* global ones, at the end of the symbol table.
SymbolInit ==
    /\ symtab \in SeqOf(Symbols, MaxSymbols)
    /\ \A k, l \in DOMAIN symtab : k # l /\ symtab[k].global /\ symtab[l].global =>
          symtab[k].name # symtab[l].name
    /\ symndx \in 1..(Len(symtab) + 1)
    /\ \A k \in DOMAIN symtab : k >= symndx <=> symtab[k].defined /\ symtab[k].global
    /\ nbuckets \in 1..MaxBuckets
    /\ gnu \in BOOLEAN /\ elf \in BOOLEAN
    /\ GnuLaidOut
    /\ asked = <<>> /\ found = 0

SymbolNext == \E name \in Names : FindSymbol(name)

SymbolSpec == SymbolInit /\ [][SymbolNext]_symbols

-----------------------------------------------------------------------------
Exported(name) ==
    {k \in DOMAIN symtab : symtab[k].name = name /\ symtab[k].defined /\ symtab[k].global}

\* A library with a hash table gives every name it defines, and no other: for
\* any number of buckets, names that share a bucket or whose hashes differ in
\* the end-of-chain bit only, undefined symbols on the way, and chains of any
\* length.
FindsExactly ==
    asked # <<>> /\ (gnu \/ elf) =>
        IF Exported(asked) = {} THEN found = 0 ELSE {found} = Exported(asked)

\* The symbol count that bounds relocations is that of the symbol table, so no
\* relocation against an existing symbol is skipped (a GNU table that covers no
\* symbol counts one more).
CountExact ==
    gnu \/ elf => SymbolCount = IF ~ elf /\ symndx > Len(symtab) THEN Count + 1 ELSE Count

\* "Fall back to linear scan": a library without hash tables gives every name
\* it defines as well.
ScanFinds ==
    asked # <<>> /\ ~ gnu /\ ~ elf /\ Exported(asked) # {} => found \in Exported(asked)

=============================================================================
