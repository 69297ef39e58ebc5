----------------------------- MODULE Streams --------------------------------
(***************************************************************************)
(* The buffered reader and writer of src/io.c.  The reader: read_byte,     *)
(* read_bytes and read_line over lc_kernel_read_retry, on a stream that    *)
(* arrives in pieces of any size and may break off with an error, which the*)
(* reader reports as its end.  EINTR is retried inside lc_kernel_read_retry*)
(* and shows nowhere else.                                                 *)
(***************************************************************************)
EXTENDS Integers, Sequences, SequencesExt

CONSTANTS MaxStream,   \* bound on the length of the stream
          MaxSize,     \* the largest buffer_size asked for
          MaxArg,      \* the largest count or buf_size of a call
          Newline, Other

ReaderAssumption == Newline # Other

VARIABLES stream,      \* what the descriptor would deliver; constant in a behaviour
          given,       \* bytes the kernel has delivered
          ralive, rcapacity,  \* is reader->buffer a block, and its size
          ahead,       \* buffer[position .. filled - 1]
          end_of_file,
          rpc,          \* the call in progress, or "idle"
          arg,         \* its count or buf_size
          from,        \* ghost: bytes consumed when it was called
          got,         \* the bytes it stored in the caller's buffer
          value        \* what the last call returned

reader == <<stream, given, ralive, rcapacity, ahead, end_of_file, rpc, arg, from, got, value>>
fixed == <<stream, ralive, rcapacity>>

Consumed == given - Len(ahead)
None == -1

\* The loop of read_line is over once buf_size - 1 bytes are stored.
Filled == Len(got) = arg - 1

Return(v) ==
    /\ rpc' = "idle"
    /\ value' = [call |-> rpc, arg |-> arg, from |-> from, got |-> got', ret |-> v]

-----------------------------------------------------------------------------
(* Mutated forms of the operations below, for sensitivity checks only.     *)

\* read_line leaves what does not fit for the next call.
TakeLineKeepsRest ==
    /\ rpc = "line" /\ ahead # <<>>
    /\ IF Filled
       THEN UNCHANGED <<ahead, got>> /\ Return(Len(got))
       ELSE /\ ahead' = Tail(ahead)
            /\ IF Head(ahead) = Newline
               THEN got' = got /\ Return(Len(got))
               ELSE got' = Append(got, Head(ahead)) /\ UNCHANGED <<rpc, value>>
    /\ UNCHANGED <<fixed, given, end_of_file, arg, from>>

-----------------------------------------------------------------------------
\* A call; read_line with no room, or any call without a buffer, fails at once.
Call(call, n) ==
    /\ rpc = "idle"
    /\ rpc' = call /\ arg' = n /\ from' = Consumed /\ got' = <<>>
    /\ UNCHANGED <<fixed, given, ahead, end_of_file, value>>

CallFails ==
    /\ rpc # "idle"
    /\ got = <<>> /\ from = Consumed
    /\ ~ ralive \/ (rpc = "line" /\ arg = 0)
    /\ UNCHANGED got
    /\ Return(IF rpc = "bytes" THEN 0 ELSE None)
    /\ UNCHANGED <<fixed, given, ahead, end_of_file, arg, from>>

\* The call goes on reading.
Reading == /\ ralive /\ rpc # "idle"
           /\ ~ (rpc = "line" /\ arg = 0) /\ ~ (rpc = "bytes" /\ Len(got) = arg)

\* reader_refill, when the buffer is used up: the kernel gives some bytes, ...
Refill ==
    /\ Reading /\ ahead = <<>> /\ ~ end_of_file
    /\ \E k \in 1..rcapacity :
          /\ given + k <= Len(stream)
          /\ ahead' = SubSeq(stream, given + 1, given + k)
          /\ given' = given + k
    /\ UNCHANGED <<fixed, end_of_file, rpc, arg, from, got, value>>

\* ... or none: the stream's end, an error, or a buffer without room.
RefillEnds ==
    /\ Reading /\ ahead = <<>> /\ ~ end_of_file
    /\ end_of_file' = TRUE
    /\ UNCHANGED <<fixed, given, ahead, rpc, arg, from, got, value>>

\* lc_reader_read_byte with a byte in the buffer.
TakeByte ==
    /\ rpc = "byte" /\ Reading /\ ahead # <<>>
    /\ got' = <<Head(ahead)>>
    /\ ahead' = Tail(ahead)
    /\ Return(1)
    /\ UNCHANGED <<fixed, given, end_of_file, arg, from>>

\* One round of the loop of lc_reader_read_bytes: copy a chunk.
TakeBytes ==
    /\ rpc = "bytes" /\ Reading /\ ahead # <<>>
    /\ LET want == arg - Len(got)
           chunk == IF want < Len(ahead) THEN want ELSE Len(ahead)
       IN  /\ got' = got \o SubSeq(ahead, 1, chunk)
           /\ ahead' = SubSeq(ahead, chunk + 1, Len(ahead))
    /\ UNCHANGED <<fixed, given, end_of_file, rpc, arg, from, value>>

BytesDone ==
    /\ rpc = "bytes" /\ ralive
    /\ Len(got) = arg
    /\ UNCHANGED got
    /\ Return(Len(got))
    /\ UNCHANGED <<fixed, given, ahead, end_of_file, arg, from>>

\* One byte in lc_reader_read_line: stored while there is room, then skipped up
\* to the newline.
TakeLine ==
    /\ rpc = "line" /\ Reading /\ ahead # <<>>
    /\ ahead' = Tail(ahead)
    /\ IF Head(ahead) = Newline
       THEN UNCHANGED got /\ Return(Len(got))
       ELSE /\ got' = IF Filled THEN got ELSE Append(got, Head(ahead))
            /\ UNCHANGED <<rpc, value>>
    /\ UNCHANGED <<fixed, given, end_of_file, arg, from>>

\* The same three calls at the end of the stream.  read_line returns -1 when its
\* first loop ends it with nothing stored, and the length otherwise.
AtEnd ==
    /\ Reading /\ ahead = <<>> /\ end_of_file
    /\ UNCHANGED got
    /\ Return(CASE rpc = "byte" -> None
                [] rpc = "bytes" -> Len(got)
                [] rpc = "line" -> IF got = <<>> /\ ~ Filled THEN None ELSE Len(got))
    /\ UNCHANGED <<fixed, given, ahead, end_of_file, arg, from>>

\* lc_reader_destroy.
Destroy ==
    /\ rpc = "idle" /\ ralive
    /\ ralive' = FALSE /\ rcapacity' = 0
    /\ ahead' = <<>>
    /\ UNCHANGED <<stream, given, end_of_file, rpc, arg, from, got, value>>

-----------------------------------------------------------------------------
\* lc_reader_create, whose allocation may fail.
ReaderInit ==
    /\ stream \in SeqOf({Newline, Other}, MaxStream)
    /\ ralive \in BOOLEAN
    /\ rcapacity \in IF ralive THEN 0..MaxSize ELSE {0}
    /\ given = 0 /\ ahead = <<>> /\ end_of_file = FALSE
    /\ rpc = "idle" /\ arg = 0 /\ from = 0 /\ got = <<>>
    /\ value = [call |-> "none", arg |-> 0, from |-> 0, got |-> <<>>, ret |-> 0]

ReaderStep ==
    \/ CallFails \/ Refill \/ RefillEnds \/ TakeByte \/ TakeBytes \/ BytesDone
    \/ TakeLine \/ AtEnd

ReaderNext ==
    \/ Call("byte", 1)
    \/ \E call \in {"bytes", "line"}, n \in 0..MaxArg : Call(call, n)
    \/ Destroy
    \/ ReaderStep

ReaderSpec == ReaderInit /\ [][ReaderNext]_reader

\* A call runs until it returns; reads end sooner or later.
ReaderFairSpec == ReaderSpec /\ WF_reader(ReaderStep)

-----------------------------------------------------------------------------
\* What the last call should have seen: the bytes delivered behind `from`.
Rest == SubSeq(stream, value.from + 1, given)
Line == SelectInSeq(Rest, LAMBDA b : b = Newline)
Take(s, n) == SubSeq(s, 1, IF n < Len(s) THEN n ELSE Len(s))
LineText == IF Line = 0 THEN Rest ELSE SubSeq(Rest, 1, Line - 1)

\* No byte is lost, duplicated or reordered at the buffer's edges: each call
\* returns the bytes of the stream that follow those of the call before it.
\* read_line returns the text up to the next newline, cut to buf_size - 1 bytes,
\* consumes exactly that line, and returns -1 at the end (with a buf_size of 1
\* it returns 0 there as well).  A buffer that is exactly full, a line that ends
\* at the edge of a refill and a last line without newline are no exceptions.
CallsExact ==
    rpc = "idle" /\ value.call # "none" /\ ralive =>
        CASE value.call = "byte" ->
                /\ value.got = Take(Rest, 1)
                /\ value.ret = None <=> Rest = <<>>
          [] value.call = "bytes" ->
                /\ value.got = Take(Rest, value.arg)
                /\ value.ret = Len(value.got)
                /\ value.ret < value.arg => end_of_file
                /\ Consumed = value.from + value.ret
          [] value.call = "line" ->
                LET max == value.arg - 1
                IN  IF value.arg = 0 THEN value.ret = None /\ Consumed = value.from
                    ELSE /\ value.got = Take(LineText, max)
                         /\ value.ret = IF Rest = <<>> /\ max > 0 THEN None ELSE Len(value.got)
                         /\ Consumed = value.from + (IF Line = 0 THEN Len(Rest) ELSE Line)

\* Calls end, also at the end of the stream and on a descriptor that fails.
ReadReturns == (rpc # "idle") ~> (rpc = "idle")

-----------------------------------------------------------------------------
(* The writer, over lc_kernel_write_all of syscall.h.  Bytes are numbered  *)
(* in the order in which callers put them, so the n-th byte is the number  *)
(* n; the kernel takes some of what it is offered, is interrupted, or      *)
(* refuses.                                                                *)

CONSTANT MaxBytes       \* bound on the bytes put in a run

VARIABLES walive,     \* is writer->buffer a block?
          wcapacity, wbuffer,  \* buffer holds writer->used bytes
          wpc,        \* the call in progress: "string", "byte" or "flush"
          todo,       \* bytes its put_string has not buffered yet
          last,       \* bytes a put_byte after that adds: lc_writer_put_line
          after,      \* where the flush returns to
          wwritten,   \* lc_kernel_write_all's count
          wout,       \* what the descriptor received
          put, lost   \* ghosts: the bytes accepted so far; did the kernel refuse any?

writer == <<walive, wcapacity, wbuffer, wpc, todo, last, after, wwritten, wout, put, lost>>

Bytes(n) == [i \in 1..n |-> put + i]
Smaller(a, b) == IF a < b THEN a ELSE b

-----------------------------------------------------------------------------
(* Mutated forms of the operations below, for sensitivity checks only.     *)

\* An interrupted write is taken for an error.
WriteInterruptedFails ==
    /\ wpc = "flush"
    /\ wbuffer' = <<>>
    /\ wpc' = after
    /\ UNCHANGED <<walive, wcapacity, todo, last, after, wwritten, wout, put, lost>>

\* lc_writer_put_string without its test of the capacity.
PutUnchecked(n, line) ==
    /\ wpc = "idle"
    /\ n + line > 0 /\ put + n + line <= MaxBytes
    /\ walive
    /\ todo' = Bytes(n)
    /\ last' = [i \in 1..line |-> put + n + i]
    /\ put' = put + n + line
    /\ wpc' = "string"
    /\ UNCHANGED <<walive, wcapacity, wbuffer, after, wwritten, wout, lost>>

-----------------------------------------------------------------------------
\* lc_writer_flush called from `at`: nothing buffered, nothing to do.
Flush(at) ==
    /\ wwritten' = 0
    /\ after' = at
    /\ wpc' = IF wbuffer = <<>> THEN at ELSE "flush"

\* The loop of lc_kernel_write_all: a partial write goes on behind what was
\* taken, a complete one empties the buffer ...
WriteSome ==
    /\ wpc = "flush"
    /\ \E k \in 1..(Len(wbuffer) - wwritten) :
          /\ wout' = wout \o SubSeq(wbuffer, wwritten + 1, wwritten + k)
          /\ wwritten' = wwritten + k
    /\ IF wwritten' = Len(wbuffer)
       THEN wbuffer' = <<>> /\ wpc' = after
       ELSE UNCHANGED <<wbuffer, wpc>>
    /\ UNCHANGED <<walive, wcapacity, todo, last, after, put, lost>>

\* ... EINTR tries again ...
WriteInterrupted ==
    /\ wpc = "flush"
    /\ UNCHANGED writer

\* ... and an error or a count of 0 ends the flush; the writer drops the rest.
WriteFails ==
    /\ wpc = "flush"
    /\ wbuffer' = <<>>
    /\ lost' = TRUE
    /\ wpc' = after
    /\ UNCHANGED <<walive, wcapacity, todo, last, after, wwritten, wout, put>>

\* lc_writer_put_string of n bytes and, for lc_writer_put_line and the
\* single-byte calls, one put_byte: without a buffer nothing is accepted, with
\* one of capacity 0 only the byte.
Put(n, line) ==
    /\ wpc = "idle"
    /\ n + line > 0 /\ put + n + line <= MaxBytes
    /\ walive
    /\ LET taken == IF wcapacity = 0 THEN 0 ELSE n
       IN  /\ todo' = Bytes(taken)
           /\ last' = [i \in 1..line |-> put + taken + i]
           /\ put' = put + taken + line
    /\ wpc' = "string"
    /\ UNCHANGED <<walive, wcapacity, wbuffer, after, wwritten, wout, lost>>

\* One round of put_string's loop: flush a full buffer, or copy a chunk.
PutString ==
    /\ wpc = "string"
    /\ LET space == wcapacity - Len(wbuffer)
           chunk == Smaller(Len(todo), space)
       IN  \/ /\ todo = <<>>
              /\ wpc' = IF last = <<>> THEN "idle" ELSE "byte"
              /\ UNCHANGED <<wbuffer, todo, after, wwritten>>
           \/ /\ todo # <<>> /\ space = 0
              /\ Flush("string")
              /\ UNCHANGED <<wbuffer, todo>>
           \/ /\ todo # <<>> /\ space > 0
              /\ wbuffer' = wbuffer \o SubSeq(todo, 1, chunk)
              /\ todo' = SubSeq(todo, chunk + 1, Len(todo))
              /\ UNCHANGED <<wpc, after, wwritten>>
    /\ UNCHANGED <<walive, wcapacity, last, wout, put, lost>>

\* lc_writer_put_byte: flush when used >= capacity, then store; with a capacity
\* of 0 the first byte goes into a block that has none to spare.
PutByte ==
    /\ wpc = "byte"
    /\ IF Len(wbuffer) >= wcapacity /\ wbuffer # <<>>
       THEN Flush("byte") /\ UNCHANGED <<wbuffer, last>>
       ELSE /\ wbuffer' = wbuffer \o last
            /\ last' = <<>>
            /\ wpc' = "idle"
            /\ UNCHANGED <<after, wwritten>>
    /\ UNCHANGED <<walive, wcapacity, todo, wout, put, lost>>

CallFlush ==
    /\ wpc = "idle"
    /\ wbuffer # <<>>
    /\ Flush("idle")
    /\ UNCHANGED <<walive, wcapacity, wbuffer, todo, last, wout, put, lost>>

\* lc_writer_destroy: flush, then free.
CallDestroy ==
    /\ wpc = "idle"
    /\ walive
    /\ Flush("free")
    /\ UNCHANGED <<walive, wcapacity, wbuffer, todo, last, wout, put, lost>>

Free ==
    /\ wpc = "free"
    /\ walive' = FALSE
    /\ wcapacity' = 0
    /\ wpc' = "idle"
    /\ UNCHANGED <<wbuffer, todo, last, after, wwritten, wout, put, lost>>

-----------------------------------------------------------------------------
\* lc_writer_create, whose allocation may fail.
WriterInit ==
    /\ walive \in BOOLEAN
    /\ wcapacity \in IF walive THEN 0..MaxSize ELSE {0}
    /\ wbuffer = <<>> /\ todo = <<>> /\ last = <<>> /\ wout = <<>>
    /\ wpc = "idle" /\ after = "idle"
    /\ wwritten = 0 /\ put = 0
    /\ lost = FALSE

WriterStep == WriteSome \/ WriteFails \/ PutString \/ PutByte \/ Free

WriterNext ==
    \/ \E n \in 0..MaxBytes, line \in 0..1 : Put(n, line)
    \/ CallFlush \/ CallDestroy \/ WriteInterrupted \/ WriterStep

WriterSpec == WriterInit /\ [][WriterNext]_writer

\* A call runs until it returns, and no descriptor is interrupted for ever.
WriterFairSpec == WriterSpec /\ WF_writer(WriterStep)

-----------------------------------------------------------------------------
\* The bytes on their way: still in the buffer, or in the call's arguments.
Pending ==
    SubSeq(wbuffer, (IF wpc = "flush" THEN wwritten ELSE 0) + 1, Len(wbuffer)) \o todo \o last

\* Nothing is lost, repeated or reordered by short and interrupted writes, by
\* flushes in the middle of a string or by a buffer of any size: what the
\* descriptor got and what is on its way are the bytes put.  When the kernel
\* refuses, bytes are missing but the rest keeps its order.  The buffer never
\* outgrows its block, which has at least one byte.
BytesInOrder ==
    /\ ~ lost => wout \o Pending = [i \in 1..put |-> i]
    /\ \A i, j \in 1..Len(wout) : i < j => wout[i] < wout[j]
    /\ Len(wbuffer) <= IF wcapacity = 0 THEN 1 ELSE wcapacity
    /\ ~ walive => wbuffer = <<>>

\* No call loops: put_string makes progress whatever the buffer's size.
PutReturns == (wpc # "idle") ~> (wpc = "idle")

=============================================================================
