-------------------------------- MODULE Log ---------------------------------
(***************************************************************************)
(* src/log.c: threads log lines, simple or built between lc_log_begin and  *)
(* lc_log_commit, while the level, the format and the output are           *)
(* reconfigured without a lock.  Text lines are three writes under the     *)
(* spinlock, JSON lines one; the kernel may take a write in two pieces.    *)
(* A line is known by its thread and number.                               *)
(***************************************************************************)
EXTENDS Naturals, Sequences

CONSTANTS Threads, Fds,
          NoFd, Nobody,
          MaxLines      \* bound: how many lines a thread logs

Levels == 0..1

VARIABLES log_min_level, log_fd, log_format, log_lock,
          pc, lines,      \* where a thread is, how many lines it began
          level,          \* the level of its entry
          parts, part,    \* how many writes its line takes, and the next one
          wfd,            \* the fd of a write_all that wrote a first piece
          out             \* what each fd received

vars == <<log_min_level, log_fd, log_format, log_lock, pc, lines, level,
          parts, part, wfd, out>>
config == <<log_min_level, log_fd, log_format>>
line == <<lines, level>>
writing == <<parts, part, wfd>>

Piece(t) == [by |-> t, line |-> lines[t], part |-> part[t], parts |-> parts[t]]
Goto(t, l) == pc' = [pc EXCEPT ![t] = l]

-----------------------------------------------------------------------------
(* Mutated forms of the operations below, for sensitivity checks only.     *)

\* The lock is released before the newline.
PutReleasesEarly(t, short) ==
    /\ pc[t] = "put" /\ part[t] <= parts[t]
    /\ short => wfd[t] = NoFd
    /\ LET fd == IF wfd[t] = NoFd THEN log_fd ELSE wfd[t]
       IN  /\ out' = [out EXCEPT ![fd] = Append(@, Piece(t))]
           /\ wfd' = [wfd EXCEPT ![t] = IF short THEN fd ELSE NoFd]
    /\ part' = [part EXCEPT ![t] = IF short THEN @ ELSE @ + 1]
    /\ log_lock' = IF part[t] = 2 THEN Nobody ELSE log_lock
    /\ UNCHANGED <<config, pc, line, parts>>

-----------------------------------------------------------------------------
\* lc_log_set_level, lc_log_set_output, lc_log_set_format: plain stores.
SetLevel(l) ==
    /\ log_min_level' = l
    /\ UNCHANGED <<log_fd, log_format, log_lock, pc, line, writing, out>>

SetOutput(fd) ==
    /\ log_fd' = fd
    /\ UNCHANGED <<log_min_level, log_format, log_lock, pc, line, writing, out>>

SetFormat(f) ==
    /\ log_format' = f
    /\ UNCHANGED <<log_min_level, log_fd, log_lock, pc, line, writing, out>>

\* lc_log: an enabled message goes on to lc_log_string, which looks again.
Log(t, l) ==
    /\ pc[t] = "idle" /\ lines[t] < MaxLines
    /\ l >= log_min_level
    /\ lines' = [lines EXCEPT ![t] = @ + 1]
    /\ level' = [level EXCEPT ![t] = l]
    /\ Goto(t, "again")
    /\ UNCHANGED <<config, log_lock, writing, out>>

\* lc_log_begin, whose test of the level only sizes the formatter.
Begin(t, l) ==
    /\ pc[t] = "idle" /\ lines[t] < MaxLines
    /\ lines' = [lines EXCEPT ![t] = @ + 1]
    /\ level' = [level EXCEPT ![t] = l]
    /\ Goto(t, "build")
    /\ UNCHANGED <<config, log_lock, writing, out>>

\* The test in lc_log_string and in lc_log_commit; lc_format_finish returns the
\* length that was asked for, whether or not it was stored.
Enabled(t) ==
    /\ pc[t] \in {"again", "build"}
    /\ Goto(t, IF level[t] < log_min_level THEN "idle" ELSE "line")
    /\ level' = [level EXCEPT ![t] = 0]
    /\ UNCHANGED <<config, log_lock, lines, writing, out>>

\* write_log_line and write_json_line.
WriteLine(t) ==
    /\ pc[t] = "line"
    /\ parts' = [parts EXCEPT ![t] = IF log_format = "JSON" THEN 1 ELSE 3]
    /\ part' = [part EXCEPT ![t] = 1]
    /\ Goto(t, "acquire")
    /\ UNCHANGED <<config, log_lock, line, wfd, out>>

\* lc_spinlock_acquire: the exchange that finds the lock free.
Acquire(t) ==
    /\ pc[t] = "acquire"
    /\ log_lock = Nobody
    /\ log_lock' = t
    /\ Goto(t, "put")
    /\ UNCHANGED <<config, line, writing, out>>

\* One write(2) inside lc_kernel_write_all(log_fd, ...): the fd is read once per
\* call, and a short write is continued on it.
Put(t, short) ==
    /\ pc[t] = "put" /\ part[t] <= parts[t]
    /\ short => wfd[t] = NoFd
    /\ LET fd == IF wfd[t] = NoFd THEN log_fd ELSE wfd[t]
       IN  /\ out' = [out EXCEPT ![fd] = Append(@, Piece(t))]
           /\ wfd' = [wfd EXCEPT ![t] = IF short THEN fd ELSE NoFd]
    /\ part' = [part EXCEPT ![t] = IF short THEN @ ELSE @ + 1]
    /\ UNCHANGED <<config, log_lock, pc, line, parts>>

Release(t) ==
    /\ pc[t] = "put" /\ part[t] > parts[t]
    /\ log_lock' = Nobody
    /\ Goto(t, "idle")
    /\ part' = [part EXCEPT ![t] = 1]
    /\ parts' = [parts EXCEPT ![t] = 1]
    /\ UNCHANGED <<config, line, wfd, out>>

-----------------------------------------------------------------------------
Init ==
    /\ log_min_level \in Levels
    /\ log_fd \in Fds
    /\ log_format = "TEXT"
    /\ log_lock = Nobody
    /\ pc = [t \in Threads |-> "idle"]
    /\ lines = [t \in Threads |-> 0]
    /\ level = [t \in Threads |-> 0]
    /\ parts = [t \in Threads |-> 1]
    /\ part = [t \in Threads |-> 1]
    /\ wfd = [t \in Threads |-> NoFd]
    /\ out = [fd \in Fds |-> <<>>]

Next ==
    \/ \E l \in Levels : SetLevel(l)
    \/ \E fd \in Fds : SetOutput(fd)
    \/ \E f \in {"TEXT", "JSON"} : SetFormat(f)
    \/ \E t \in Threads :
          \/ \E l \in Levels : Log(t, l) \/ Begin(t, l)
          \/ Enabled(t) \/ WriteLine(t) \/ Acquire(t) \/ Release(t)
          \/ \E short \in BOOLEAN : Put(t, short)

Spec == Init /\ [][Next]_vars

-----------------------------------------------------------------------------
\* The types of the logger's globals and of the line each thread writes.
TypeOK ==
    /\ log_min_level \in Levels
    /\ log_fd \in Fds
    /\ log_format \in {"TEXT", "JSON"}
    /\ log_lock \in Threads \union {Nobody}
    /\ pc \in [Threads -> {"idle", "again", "build", "line", "acquire", "put"}]
    /\ lines \in [Threads -> 0..MaxLines]
    /\ level \in [Threads -> Levels]
    /\ parts \in [Threads -> {1, 3}]
    /\ part \in [Threads -> 1..4]
    /\ wfd \in [Threads -> Fds \union {NoFd}]

SameLine(p, q) == p.by = q.by /\ p.line = q.line

\* "Lock ensures no interleaving between threads": on every output the pieces
\* of one line are neighbours, whatever is reconfigured and however short the
\* writes are.
NoInterleaving ==
    \A fd \in Fds : \A i, k \in DOMAIN out[fd] :
        SameLine(out[fd][i], out[fd][k]) =>
            \A j \in i..k : SameLine(out[fd][i], out[fd][j])

\* The line of p was cut by a change of the output between two of its writes.
Moved(p, fd) ==
    \E other \in Fds \ {fd} : \E i \in DOMAIN out[other] : SameLine(p, out[other][i])

\* "Write a complete log line atomically": a line's first write is followed on
\* the same output by all its others, in order; only the line being written may
\* be incomplete, and a line whose output was changed under it, and even then
\* no other line is in between.
WholeLines ==
    /\ NoInterleaving
    /\ \A fd \in Fds : \A i \in DOMAIN out[fd] :
        LET p == out[fd][i]
            before == IF i = 1 THEN p ELSE out[fd][i - 1]
        IN  Moved(p, fd) \/
            /\ p.part > 1 => SameLine(before, p) /\ before.part \in {p.part - 1, p.part}
            /\ i < Len(out[fd]) /\ ~ SameLine(p, out[fd][i + 1]) => p.part = p.parts
            /\ i = Len(out[fd]) /\ log_lock = Nobody => p.part = p.parts

=============================================================================
