------------------------------ MODULE MCSystem ------------------------------
(***************************************************************************)
(* Model-checking instance for the parts of the library that stand between *)
(* a program and the kernel and share no state: the arena (src/memory.c),  *)
(* buffered output and input and whole files (src/io.c), text (src/        *)
(* format.c and print.c), strings (src/string.c and mem.c), time, sockets, *)
(* signals, the loader and its symbol tables (src/library.c) and the       *)
(* setup of a ring (src/async.c).  part says which one a behaviour is      *)
(* about; the others stay as they were initialised.                        *)
(***************************************************************************)
EXTENDS Memory, TLC

CONSTANTS Newline, Other                              \* the bytes of a stream

\* Auxiliary vectors: none, an empty one, one with AT_PAGESZ, one where it is 0,
\* and one with an entry behind its end.
MCAuxv == {<<>>, <<<<0, 0>>>>, <<<<3, 1>>, <<6, 16>>, <<0, 0>>>>,
           <<<<6, 0>>, <<6, 16>>, <<0, 0>>>>, <<<<3, 6>>, <<0, 0>>, <<6, 16>>>>}

\* Shared objects: one or two loadable segments that may leave gaps, share pages,
\* begin above 0 or wrap around, and relocations of every kind of symbol.
FirstSegments == [vaddr : {0, 2, 3}, memsz : {1, 2}, filesz : {0, 2}, writable : BOOLEAN]
MoreSegments == [vaddr : {3, 4}, memsz : {2, 6}, filesz : {1}, writable : {TRUE}]
Relocations == <<[offset |-> 1, symbol |-> "none"], [offset |-> 3, symbol |-> "undefined"],
                 [offset |-> 7, symbol |-> "defined"]>>
MCObjects ==
    [valid : BOOLEAN,
     segs : {<<>>} \union {<<s>> : s \in FirstSegments}
            \union {<<s, t>> : s \in FirstSegments, t \in MoreSegments},
     dyn : {"none", "inside"}, tables : BOOLEAN, relas : {<<>>, Relocations},
     init : {<<"a", "null", "b">>}, fini : {<<"c", "null", "d">>},
     init_func : BOOLEAN, fini_func : {TRUE}]

VARIABLES part,                                       \* constant in a behaviour
          walive, wcapacity, wbuffer, wpc, todo, last, after, wwritten, wout, put, lost,
          stream, given, ralive, rcapacity, ahead, end_of_file, rpc, arg, from, got, value,
          length, fpc, fcall, fds, data, fsize, moved, fresult, dir, listed, left, cut,
          tsize, buffer, tcapacity, tused, overflow, done, text, calls, tlast,
          memory,
          day, today, ypc, yasked, rest, slept, signals,
          kpc, kcall, sock, kresult,
          action, mask, pending, raised, frames, lock, spc, stodo, sasked, ended,
          object, lpc, i, held, stray, min_vaddr, total_size, loaded, written, writable, ran,
          symtab, symndx, nbuckets, gnu, elf, asked, found,
          upc, params, uheld, usize, ring, sq_array, ustray

I == INSTANCE Streams WITH MaxStream <- 3, MaxSize <- 2, MaxArg <- 3, MaxBytes <- 4
F == INSTANCE Files WITH MaxLength <- 3, MaxBatch <- 2, pc <- fpc, call <- fcall, size <- fsize,
         result <- fresult
T == INSTANCE Format WITH Bits <- 4, MaxSize <- 3, MaxCalls <- 2, size <- tsize,
         capacity <- tcapacity, used <- tused, last <- tlast
B == INSTANCE Strings WITH ByteBits <- 2, WordSize <- 2, MemorySize <- 6
Y == INSTANCE Time WITH
         Years <- {0, 1, 399, 400, 1600, 1900, 1904, 1969, 1970, 1999, 2000, 2001, 2026, 2100, 9999},
         PerSecond <- 2, MaxSleep <- 3, MaxSignals <- 2, pc <- ypc, asked <- yasked
K == INSTANCE Sockets WITH Byte <- 4, Ports <- {0, 1, 4, 7, 9, 15},
         Hosts <- {<<3, 0, 0, 1>>, <<1, 2, 3, 0>>}, pc <- kpc, call <- kcall, result <- kresult
S == INSTANCE Signals WITH Signals <- {1, 2, 3}, Crash <- <<1, 2>>, Shutdown <- <<3>>,
         Allocating <- 2, MaxRaised <- 3, pc <- spc, todo <- stodo, asked <- sasked
L == INSTANCE Library WITH Objects <- MCObjects, PageSize <- 2, MaxAddr <- 9,
         Names <- {<<1>>, <<2>>, <<3, 4>>, <<5, 6>>}, MaxSymbols <- 4, MaxBuckets <- 2, HashBits <- 12
U == INSTANCE RingSetup WITH
         Params <- [sq_size : {2, 3}, cq_size : {2, 3}, sq_entries : {1, 2}, single : BOOLEAN],
         pc <- upc, held <- uheld, size <- usize, stray <- ustray

ASSUME I!ReaderAssumption /\ B!StringsAssumption

writer == <<walive, wcapacity, wbuffer, wpc, todo, last, after, wwritten, wout, put, lost>>
reader == <<stream, given, ralive, rcapacity, ahead, end_of_file, rpc, arg, from, got, value>>
files == <<length, fpc, fcall, fds, data, fsize, moved, fresult, dir, listed, left, cut>>
format == <<tsize, buffer, tcapacity, tused, overflow, done, text, calls, tlast>>
time == <<day, today, ypc, yasked, rest, slept, signals>>
socket == <<kpc, kcall, sock, kresult>>
signal == <<action, mask, pending, raised, frames, lock, spc, stodo, sasked, ended>>
loader == <<object, lpc, i, held, stray, min_vaddr, total_size, loaded, written, writable, ran>>
symbols == <<symtab, symndx, nbuckets, gnu, elf, asked, found>>
setup == <<upc, params, uheld, usize, ring, sq_array, ustray>>

\* The parts before and after the text functions, for UNCHANGED.
streams == <<writer, reader, files>>
values == <<format, memory, time>>
requests == <<socket, signal>>
images == <<loader, symbols, setup>>
systemVars == <<part, arenaVars, streams, values, requests, images>>

-----------------------------------------------------------------------------
NoSymbols == /\ symtab = <<>> /\ symndx = 1 /\ nbuckets = 1 /\ gnu = FALSE /\ elf = FALSE
             /\ asked = <<>> /\ found = 0

SystemInit ==
    /\ part \in {"arena", "writer", "reader", "files", "format", "strings", "time", "sockets",
                 "signals", "loader", "symbols", "setup"}
    /\ (part # "arena" => auxv = <<>>) /\ ArenaInit
    /\ (part # "writer" => walive = FALSE) /\ I!WriterInit
    /\ (part # "reader" => ralive = FALSE /\ stream = <<>>) /\ I!ReaderInit
    /\ (part # "files" => length = 0) /\ F!Init
    /\ T!Init /\ B!Init
    /\ Y!Init /\ (part # "time" => today.year = 1970)
    /\ K!Init /\ S!Init
    /\ (part # "loader" => object = CHOOSE o \in MCObjects : TRUE) /\ L!LoaderInit
    /\ IF part = "symbols" THEN L!SymbolInit ELSE NoSymbols
    /\ U!Init

streamless == <<arenaVars, values, requests, images>>

ArenaPart == part = "arena" /\ ArenaNext /\ UNCHANGED <<part, streams, values, requests, images>>
WriterPart == part = "writer" /\ I!WriterNext /\ UNCHANGED <<part, reader, files, streamless>>
ReaderPart == part = "reader" /\ I!ReaderNext /\ UNCHANGED <<part, writer, files, streamless>>
FilesPart == part = "files" /\ F!Next /\ UNCHANGED <<part, writer, reader, streamless>>
FormatPart ==
    /\ part = "format" /\ T!Next
    /\ UNCHANGED <<part, arenaVars, streams, memory, time, requests, images>>
StringsPart ==
    /\ part = "strings" /\ B!Next
    /\ UNCHANGED <<part, arenaVars, streams, format, time, requests, images>>
TimePart ==
    /\ part = "time" /\ Y!Next
    /\ UNCHANGED <<part, arenaVars, streams, format, memory, requests, images>>
SocketsPart ==
    /\ part = "sockets" /\ K!Next
    /\ UNCHANGED <<part, arenaVars, streams, values, signal, images>>
SignalsPart ==
    /\ part = "signals" /\ S!Next
    /\ UNCHANGED <<part, arenaVars, streams, values, socket, images>>
LoaderPart ==
    /\ part = "loader" /\ L!LoaderNext
    /\ UNCHANGED <<part, arenaVars, streams, values, requests, symbols, setup>>
SymbolsPart ==
    /\ part = "symbols" /\ L!SymbolNext
    /\ UNCHANGED <<part, arenaVars, streams, values, requests, loader, setup>>
SetupPart ==
    /\ part = "setup" /\ U!Next
    /\ UNCHANGED <<part, arenaVars, streams, values, requests, loader, symbols>>

SystemNext ==
    \/ ArenaPart \/ WriterPart \/ ReaderPart \/ FilesPart \/ FormatPart \/ StringsPart \/ TimePart
    \/ SocketsPart \/ SignalsPart \/ LoaderPart \/ SymbolsPart \/ SetupPart

\* A call on a stream goes on until it returns, and so does a signal handler.
SystemSpec ==
    /\ SystemInit /\ [][SystemNext]_systemVars
    /\ WF_writer(part = "writer" /\ I!WriterStep)
    /\ WF_reader(part = "reader" /\ I!ReaderStep)
    /\ WF_signal(part = "signals" /\ S!HandlerStep)

-----------------------------------------------------------------------------
\* A writer's descriptor receives the bytes put, in order and without a gap
\* unless the kernel refused some; and what each call on a reader returned is
\* what the stream held there, however the kernel's reads cut it.
StreamsExact ==
    /\ part = "writer" => I!BytesInOrder
    /\ part = "reader" => I!CallsExact

\* Calls on streams return, and so does every signal handler.
CallsEnd ==
    /\ part = "writer" => I!PutReturns
    /\ part = "reader" => I!ReadReturns
    /\ part = "signals" => S!HandlersReturn

\* Whichever step fails, a call gives back every descriptor, block and mapping
\* it had acquired, once, and what it returns is whole: files, directories,
\* libraries, sockets and rings.
NothingLeaks ==
    /\ part = "files" => F!FilesReleased /\ F!ListingExact
    /\ part = "loader" => L!LoaderReleases
    /\ part = "sockets" => K!SocketsExact
    /\ part = "setup" => U!RingWhole

\* Formatted text is what was added up to the room there is, and every number
\* is written as its digits, at the limits of its width and for every padding.
FormatExact == part = "format" => T!BufferExact /\ T!ConversionsExact

\* Strings are searched, compared and moved as sequences of bytes would be,
\* whatever their alignment and overlap.
StringsExact == part = "strings" => B!SearchesExact /\ B!MovesExact

\* Days and dates correspond, before and after 1970; and a sleep interrupted by
\* signals does not end early.
TimeExact == part = "time" => Y!CalendarExact /\ Y!SleepsLongEnough

\* Signal handlers unwind to the mask the program asked for, each with a way back.
ContextRestored == part = "signals" => S!ContextRestored

\* A library's relocations and constructors touch its own mapping only, no
\* constructor runs before the relocations are complete, and a lookup finds a
\* symbol exactly when the library exports it, whichever hash table it has.
LibrariesExact ==
    /\ part = "loader" => L!StoresInside /\ L!ConstructedWhole
    /\ part = "symbols" => L!FindsExactly /\ L!CountExact

=============================================================================
