------------------------------- MODULE Files --------------------------------
(***************************************************************************)
(* lc_file_read_all, lc_file_write_all, lc_file_get_size and the directory *)
(* listing of src/io.c: what each system call may answer, and what the     *)
(* code has acquired and must give back on every path.  Another process    *)
(* may change the file's length at any time; bytes are known by their      *)
(* number.                                                                 *)
(***************************************************************************)
EXTENDS Naturals, Sequences

CONSTANTS MaxLength,   \* bound on the file's length and the entries of a directory
          MaxBatch     \* bound on the entries one getdents64 returns

VARIABLES length,      \* of the file
          pc, call,    \* the step of the call in progress, and which call
          fds,         \* descriptors it has open
          data,        \* heap blocks it has allocated: 0 or 1
          size,        \* file_size, or the caller's size
          moved,       \* bytes the loop of read_all or write_all has moved
          result,      \* "ok" or "error" once it has returned
          dir,         \* lc_directory: [open, entries (behind position), done]
          listed, left, cut  \* entries returned and still in the kernel; a failed read?

vars == <<length, pc, call, fds, data, size, moved, result, dir, listed, left, cut>>
file == <<length, pc, call, fds, data, size, moved, result>>
directory == <<dir, listed, left, cut>>

Return(r) == pc' = "idle" /\ result' = r

-----------------------------------------------------------------------------
(* Mutated forms of the operations below, for sensitivity checks only.     *)

\* A file that shrank is reported as an error, but its block is kept.
FinishLeaks ==
    /\ pc = "finish"
    /\ Return(IF moved = size THEN "ok" ELSE "error")
    /\ UNCHANGED <<length, call, fds, size, moved, directory, data>>

-----------------------------------------------------------------------------
\* The three calls begin with an open, write_all's truncating the file.
Open(c, n) ==
    /\ pc = "idle" /\ data = 0
    /\ call' = c
    /\ size' = IF c = "write_all" THEN n ELSE 0
    /\ moved' = 0
    /\ \/ /\ fds' = fds + 1
          /\ length' = IF c = "write_all" THEN 0 ELSE length
          /\ pc' = IF c = "write_all" THEN "move" ELSE "seek"
          /\ UNCHANGED result
       \/ UNCHANGED <<fds, length>> /\ Return("error")
    /\ UNCHANGED <<data, directory>>

\* lseek to the end tells the length; get_size returns it.
SeekEnd ==
    /\ pc = "seek"
    /\ \/ size' = length /\ pc' = IF call = "get_size" THEN "close" ELSE "rewind"
       \/ UNCHANGED size /\ pc' = "close_failed"
    /\ UNCHANGED <<length, call, fds, data, moved, result, directory>>

\* lseek back to the start, the special case of an empty file, and the buffer.
Rewind ==
    /\ pc = "rewind"
    /\ \/ UNCHANGED data /\ pc' = "close_failed"                 \* lseek or allocation fails
       \/ size = 0 /\ UNCHANGED data /\ pc' = "close"
       \/ size > 0 /\ data' = 1 /\ pc' = "move"
    /\ UNCHANGED <<length, call, fds, size, moved, result, directory>>

\* The loops of lc_kernel_read_all and lc_kernel_write_all: some bytes, a short
\* count at the end of the file or of the device, or an error.
Move ==
    /\ pc = "move"
    /\ \/ /\ moved < size
          /\ \E k \in 1..(size - moved) :
                /\ call = "read_all" => moved + k <= length
                /\ moved' = moved + k
          /\ length' = IF call = "write_all" /\ moved' > length THEN moved' ELSE length
          /\ UNCHANGED pc
       \/ /\ moved = size \/ call = "write_all" \/ moved >= length
          /\ pc' = "close" /\ UNCHANGED <<length, moved>>
       \/ /\ moved < size
          /\ pc' = "close_failed" /\ UNCHANGED <<length, moved>>
    /\ UNCHANGED <<call, fds, data, size, result, directory>>

Close ==
    /\ pc \in {"close", "close_failed"}
    /\ fds' = fds - 1
    /\ pc' = IF pc = "close" THEN "finish" ELSE "failed"
    /\ UNCHANGED <<length, call, data, size, moved, result, directory>>

\* The tests behind the close: an error, a short count, or success, for which
\* read_all hands its block over.
Finish ==
    /\ pc = "finish"
    /\ LET good == call = "get_size" \/ moved = size
       IN  Return(IF good THEN "ok" ELSE "error") /\ data' = IF good THEN data ELSE 0
    /\ UNCHANGED <<length, call, fds, size, moved, directory>>

Failed ==
    /\ pc = "failed"
    /\ Return("error") /\ data' = 0
    /\ UNCHANGED <<length, call, fds, size, moved, directory>>

\* The caller of lc_file_read_all frees what it got.
FreeData ==
    /\ pc = "idle" /\ data = 1
    /\ data' = 0 /\ result' = "none"
    /\ UNCHANGED <<length, pc, call, fds, size, moved, directory>>

\* Another process truncates or extends the file.
OthersWrite ==
    /\ length' \in 0..MaxLength
    /\ UNCHANGED <<pc, call, fds, data, size, moved, result, directory>>

-----------------------------------------------------------------------------
\* lc_directory_open; a failing one leaves dir alone.
DirectoryOpen ==
    /\ ~ dir.open
    /\ dir' = [open |-> TRUE, entries |-> <<>>, done |-> FALSE]
    /\ listed' = <<>> /\ left' = 1 /\ cut' = FALSE
    /\ UNCHANGED file

\* lc_directory_next from its buffer ...
DirectoryNext ==
    /\ dir.open /\ dir.entries # <<>>
    /\ listed' = Append(listed, Head(dir.entries))
    /\ dir' = [dir EXCEPT !.entries = Tail(@)]
    /\ UNCHANGED <<file, left, cut>>

\* ... and with its buffer used up: a batch of entries, or the end, for which
\* an error is taken too.
DirectoryFill ==
    /\ dir.open /\ dir.entries = <<>> /\ ~ dir.done
    /\ \/ \E k \in 1..MaxBatch :
             /\ left + k - 1 <= MaxLength
             /\ dir' = [dir EXCEPT !.entries = [i \in 1..k |-> left + i - 1]]
             /\ left' = left + k
             /\ UNCHANGED cut
       \/ /\ dir' = [dir EXCEPT !.done = TRUE]
          /\ cut' = (left <= MaxLength)
          /\ UNCHANGED left
    /\ UNCHANGED <<file, listed>>

DirectoryClose ==
    /\ dir.open
    /\ dir' = [dir EXCEPT !.open = FALSE, !.done = TRUE]
    /\ UNCHANGED <<file, listed, left, cut>>

-----------------------------------------------------------------------------
Init ==
    /\ length \in 0..MaxLength
    /\ pc = "idle" /\ call = "none" /\ result = "none"
    /\ fds = 0 /\ data = 0 /\ size = 0 /\ moved = 0
    /\ dir = [open |-> FALSE, entries |-> <<>>, done |-> TRUE]
    /\ listed = <<>> /\ left = 1 /\ cut = FALSE

FileNext ==
    \/ \E c \in {"read_all", "write_all", "get_size"}, n \in 0..MaxLength : Open(c, n)
    \/ SeekEnd \/ Rewind \/ Move \/ Close \/ Finish \/ Failed \/ FreeData \/ OthersWrite

Next ==
    \/ FileNext
    \/ DirectoryOpen \/ DirectoryNext \/ DirectoryFill \/ DirectoryClose

Spec == Init /\ [][Next]_vars

-----------------------------------------------------------------------------
\* When a call has returned, its descriptor is closed, whichever step failed;
\* the block of read_all is the caller's exactly if the call succeeded on a file
\* that was not empty, and then it holds all the bytes of the length found,
\* although the file may have changed meanwhile.  A write that reports success
\* has written every byte.
FilesReleased ==
    pc = "idle" =>
        /\ fds = 0
        /\ data = 1 => result = "ok" /\ call = "read_all" /\ size > 0 /\ moved = size
        /\ result = "ok" /\ call \in {"read_all", "write_all"} => moved = size
        /\ result = "ok" /\ call = "read_all" /\ size > 0 => data = 1

\* A listing returns every entry once and in order, however the kernel cuts it
\* into batches, and ends early only after a failed read.
ListingExact ==
    /\ listed \o dir.entries = [i \in 1..(left - 1) |-> i]
    /\ dir.open /\ dir.done /\ ~ cut => Len(listed) = MaxLength

=============================================================================
