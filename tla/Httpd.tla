-------------------------------- MODULE Httpd -------------------------------
(***************************************************************************)
(* examples/httpd.c: an accept thread that puts clients into slots and     *)
(* submits their first read, a main thread that answers completions, and a *)
(* spinlock around the submission side of the ring they share.  The slots  *)
(* themselves are under no lock.  Requests are known by what they ask for; *)
(* of a response, its length is modelled.                                  *)
(***************************************************************************)
EXTENDS Integers, Sequences

CONSTANTS Clients,        \* a client stands for the descriptor accepted for it
          NoFd,           \* -1
          MaxConnections, \* MAX_CONNECTIONS
          Requests        \* what clients ask for, of AllRequests

Slots == 0..(MaxConnections - 1)
AllRequests == {"index", "hello", "stats", "other", "bad"}
ResponseSize == 8192
PortMod == 65536
\* Some argv[1], as their digits.
Arguments == {<<8, 0, 8, 0>>, <<6, 5, 5, 3, 6>>, <<0, 8, 0>>, <<0, 0, 7>>}
ASSUME HttpdAssumption ==
    Requests \subseteq AllRequests /\ MaxConnections \in Nat \ {0} /\ NoFd \notin Clients

VARIABLES argument, port, \* of main
          held,           \* the ring and the listening socket
          hwaiting,        \* clients that have not been accepted
          open,           \* client descriptors the server has open
          fd, active, response_len,   \* of each slot
          hactive, request_count,
          ring_lock,      \* who holds it
          kernel,         \* operations in the kernel: [slot, op, fd]
          cq,             \* completions: [slot, op, ok]
          hapc, client, hi, \* the accept thread
          hmpc, results,   \* the main thread and the completions it has taken
          torn            \* a slot was taken while it was being freed (ghost)

start == <<argument, port, held>>
slots == <<fd, active, response_len>>
counts == <<hactive, request_count>>
accepter == <<hapc, client, hi>>
mainThread == <<hmpc, results>>
httpd == <<start, hwaiting, open, slots, counts, ring_lock, kernel, cq, accepter, mainThread, torn>>

-----------------------------------------------------------------------------
(* Mutated forms of the operations below, for sensitivity checks only.     *)

\* The main thread blocks for a completion with the ring locked.
FlushKeepsLock ==
    /\ hmpc = "flush" /\ ring_lock = "nobody"
    /\ ring_lock' = "main" /\ hmpc' = "wait"
    /\ UNCHANGED <<start, hwaiting, open, slots, counts, kernel, cq, accepter, results, torn>>

\* A client too many keeps its descriptor.
RejectKeepsOpen ==
    /\ hapc = "scan" /\ hi = MaxConnections
    /\ hapc' = "accept"
    /\ UNCHANGED <<start, hwaiting, open, slots, counts, ring_lock, kernel, cq, client, hi, mainThread, torn>>

-----------------------------------------------------------------------------
(* Lengths and numbers.                                                    *)

\* uint_to_string: how many digits a number of 64 bits has.
uint_to_string(n) ==
    CHOOSE k \in 1..20 : (k = 1 \/ ~ (n < 10^(k - 1))) /\ (k = 20 \/ n < 10^k)

\* parse_port, whose accumulator is 16 bits wide.
parse_port(digits) ==
    LET value[k \in 0..Len(digits)] == IF k = 0 THEN 0 ELSE (value[k - 1] * 10 + digits[k]) % PortMod
    IN  IF \E k \in 2..Len(digits) : value[k] = 0 THEN 0 ELSE value[Len(digits)]

response_append(offset, len) ==
    LET end == offset + len IN IF end > ResponseSize THEN ResponseSize ELSE end

build_stats_body == 12 + uint_to_string(request_count') + 22
                    + uint_to_string(IF hactive > 0 THEN hactive ELSE 0) + 2

\* The lengths of the answers: the status, the content type and the body.
Answer(r) ==
    CASE r = "bad"   -> [status |-> 15, type |-> 10, body |-> 16]
      [] r = "index" -> [status |-> 6,  type |-> 24, body |-> 1387]
      [] r = "hello" -> [status |-> 6,  type |-> 10, body |-> 116]
      [] r = "stats" -> [status |-> 6,  type |-> 16, body |-> build_stats_body]
      [] r = "other" -> [status |-> 13, type |-> 24, body |-> 284]
Pieces(a) == <<9 + a.status + 2 + 14 + a.type + 2, 16 + uint_to_string(a.body) + 2, 19 + 22 + 2, a.body>>
build_response(a) ==
    response_append(response_append(response_append(response_append(0, Pieces(a)[1]), Pieces(a)[2]),
                                    Pieces(a)[3]), Pieces(a)[4])

-----------------------------------------------------------------------------
(* Starting up.                                                            *)

Starting(next, port1, held1) ==
    /\ hmpc' = next /\ port' = port1 /\ held' = held1
    /\ UNCHANGED <<argument, hwaiting, open, slots, counts, ring_lock, kernel, cq, hapc, client, hi, results, torn>>

ParseArgument ==
    /\ hmpc = "parse"
    /\ LET p == parse_port(argument) IN Starting(IF p = 0 THEN "failed" ELSE "ring", p, held)

CreateRing ==
    /\ hmpc = "ring"
    /\ \/ Starting("listen", port, {"ring"})
       \/ Starting("failed", port, {})

Listen ==
    /\ hmpc = "listen"
    /\ \/ Starting("thread", port, held \union {"socket"})
       \/ Starting("failed", port, held \ {"ring"})

\* From here on main has no more use for the port.
CreateThread ==
    /\ hmpc = "thread"
    /\ \/ /\ hmpc' = "flush" /\ hapc' = "accept" /\ port' = 0 /\ argument' = <<>>
          /\ UNCHANGED <<held, hwaiting, open, slots, counts, ring_lock, kernel, cq, client, hi, results, torn>>
       \/ Starting("failed", port, held \ {"socket", "ring"})

-----------------------------------------------------------------------------
(* The accept thread.                                                      *)

AcceptClient(c) ==
    /\ hapc = "accept" /\ c \in hwaiting
    /\ hwaiting' = hwaiting \ {c} /\ open' = open \union {c}
    /\ client' = c /\ hi' = 0 /\ hapc' = "scan"
    /\ UNCHANGED <<start, slots, counts, ring_lock, kernel, cq, mainThread, torn>>

\* connection_allocate: the first slot that is not active ...
Scan ==
    /\ hapc = "scan" /\ hi < MaxConnections
    /\ IF active[hi] THEN hi' = hi + 1 /\ UNCHANGED hapc ELSE hapc' = "store_fd" /\ UNCHANGED hi
    /\ UNCHANGED <<start, hwaiting, open, slots, counts, ring_lock, kernel, cq, client, mainThread, torn>>

\* ... or none, and the client is rejected.
Reject ==
    /\ hapc = "scan" /\ hi = MaxConnections
    /\ open' = open \ {client} /\ hapc' = "accept"
    /\ UNCHANGED <<start, hwaiting, slots, counts, ring_lock, kernel, cq, client, hi, mainThread, torn>>

StoreFd ==
    /\ hapc = "store_fd"
    /\ fd' = [fd EXCEPT ![hi] = client] /\ hapc' = "store_active"
    /\ torn' = (torn \/ (hmpc = "free_fd" /\ Head(results).slot = hi))
    /\ UNCHANGED <<start, hwaiting, open, active, response_len, counts, ring_lock, kernel, cq, client, hi, mainThread>>

StoreActive ==
    /\ hapc = "store_active"
    /\ active' = [active EXCEPT ![hi] = TRUE] /\ response_len' = [response_len EXCEPT ![hi] = 0]
    /\ hactive' = hactive + 1
    /\ hapc' = "lock"
    /\ UNCHANGED <<start, hwaiting, open, fd, request_count, ring_lock, kernel, cq, client, hi, mainThread, torn>>

AcceptLock ==
    /\ hapc = "lock" /\ ring_lock = "nobody"
    /\ ring_lock' = "accept" /\ hapc' = "submit"
    /\ UNCHANGED <<start, hwaiting, open, slots, counts, kernel, cq, client, hi, mainThread, torn>>

SubmitRead ==
    /\ hapc = "submit"
    /\ kernel' = kernel \union {[slot |-> hi, op |-> "read", fd |-> client]}
    /\ ring_lock' = "nobody" /\ hapc' = "accept"
    /\ UNCHANGED <<start, hwaiting, open, slots, counts, cq, client, hi, mainThread, torn>>

-----------------------------------------------------------------------------
\* The kernel completes an operation; one on a descriptor that is not open fails.
Complete(o) ==
    /\ kernel' = kernel \ {o}
    /\ \E ok \in BOOLEAN :
          /\ ok => o.fd \in open
          /\ cq' = Append(cq, [slot |-> o.slot, op |-> o.op, ok |-> ok])
    /\ UNCHANGED <<start, hwaiting, open, slots, counts, ring_lock, accepter, mainThread, torn>>

-----------------------------------------------------------------------------
(* The main thread.                                                        *)

FlushRing ==
    /\ hmpc = "flush" /\ ring_lock = "nobody"
    /\ hmpc' = "wait"
    /\ UNCHANGED <<start, hwaiting, open, slots, counts, ring_lock, kernel, cq,
                   accepter, results, torn>>

\* io_uring_enter returns when there is a completion; peek takes what there is.
Wait ==
    /\ hmpc = "wait" /\ cq # <<>>
    /\ results' = cq /\ cq' = <<>> /\ hmpc' = "handle"
    /\ UNCHANGED <<start, hwaiting, open, slots, counts, ring_lock, kernel, accepter, torn>>

slot == Head(results).slot

\* The loop over the results goes on, or the event loop starts over.
Handled == /\ results' = Tail(results)
           /\ hmpc' = IF Tail(results) = <<>> THEN "flush" ELSE "handle"

\* handle_completion of a slot that is not active,
HandleStale ==
    /\ hmpc = "handle" /\ ~ active[slot]
    /\ Handled
    /\ UNCHANGED <<start, hwaiting, open, slots, counts, ring_lock, kernel, cq, accepter, torn>>

\* of a write, or of a read that failed or found the end,
HandleLast ==
    /\ hmpc = "handle" /\ active[slot]
    /\ Head(results).op = "write" \/ ~ Head(results).ok
    /\ hmpc' = "close"
    /\ UNCHANGED <<start, hwaiting, open, slots, counts, ring_lock, kernel, cq,
                   accepter, results, torn>>

\* and of a request, which handle_request answers as what parse_request and
\* the comparisons with the known paths find in the bytes that have come.
HandleRequest ==
    /\ hmpc = "handle" /\ active[slot]
    /\ Head(results).op = "read" /\ Head(results).ok
    /\ request_count' = request_count + 1
    /\ \E r \in Requests : response_len' = [response_len EXCEPT ![slot] = build_response(Answer(r))]
    /\ hmpc' = "lock"
    /\ UNCHANGED <<start, hwaiting, open, fd, active, hactive, ring_lock, kernel, cq, accepter, results, torn>>

MainLock ==
    /\ hmpc = "lock" /\ ring_lock = "nobody"
    /\ ring_lock' = "main" /\ hmpc' = "submit"
    /\ UNCHANGED <<start, hwaiting, open, slots, counts, kernel, cq, accepter, results, torn>>

SubmitWrite ==
    /\ hmpc = "submit"
    /\ kernel' = kernel \union {[slot |-> slot, op |-> "write", fd |-> fd[slot]]}
    /\ ring_lock' = "nobody" /\ Handled
    /\ UNCHANGED <<start, hwaiting, open, slots, counts, cq, accepter, torn>>

\* lc_socket_close of the slot's descriptor, then connection_free's two stores.
Close ==
    /\ hmpc = "close"
    /\ open' = open \ {fd[slot]} /\ hmpc' = "free_active"
    /\ UNCHANGED <<start, hwaiting, slots, counts, ring_lock, kernel, cq, accepter, results, torn>>

FreeActive ==
    /\ hmpc = "free_active"
    /\ active' = [active EXCEPT ![slot] = FALSE] /\ hmpc' = "free_fd"
    /\ UNCHANGED <<start, hwaiting, open, fd, response_len, counts, ring_lock, kernel, cq, accepter, results, torn>>

FreeFd ==
    /\ hmpc = "free_fd"
    /\ fd' = [fd EXCEPT ![slot] = NoFd]
    /\ hactive' = hactive - 1
    /\ Handled
    /\ UNCHANGED <<start, hwaiting, open, active, response_len, request_count, ring_lock, kernel, cq, accepter, torn>>

-----------------------------------------------------------------------------
HttpdInit ==
    /\ argument \in Arguments /\ port = 0 /\ held = {}
    /\ hwaiting = Clients /\ open = {}
    /\ fd = [s \in Slots |-> NoFd] /\ active = [s \in Slots |-> FALSE]
    /\ response_len = [s \in Slots |-> 0]
    /\ hactive = 0 /\ request_count = 0 /\ ring_lock = "nobody"
    /\ kernel = {} /\ cq = <<>>
    /\ hapc = "none" /\ client = NoFd /\ hi = 0
    /\ hmpc = "parse" /\ results = <<>> /\ torn = FALSE

StartStep == ParseArgument \/ CreateRing \/ Listen \/ CreateThread
AcceptStep == (\E c \in hwaiting : AcceptClient(c)) \/ Scan \/ Reject \/ StoreFd \/ StoreActive \/ AcceptLock \/ SubmitRead
HttpdMainStep == StartStep \/ FlushRing \/ Wait \/ HandleStale \/ HandleLast \/ HandleRequest \/ MainLock
            \/ SubmitWrite \/ Close \/ FreeActive \/ FreeFd
KernelStep == \E o \in kernel : Complete(o)

HttpdNext == AcceptStep \/ HttpdMainStep \/ KernelStep

HttpdSpec == HttpdInit /\ [][HttpdNext]_httpd

\* Both threads are scheduled and the kernel completes what it was given.
HttpdFairSpec == HttpdSpec /\ WF_httpd(AcceptStep) /\ WF_httpd(HttpdMainStep) /\ WF_httpd(KernelStep)

-----------------------------------------------------------------------------
\* Completions that main has still to handle.
Rest == IF hmpc = "free_fd" THEN Tail(results) ELSE results
Unhandled == cq \o Rest

\* The completions of a sequence, by their slots.
Has(seq, s) == \E k \in DOMAIN seq : seq[k].slot = s
Distinct(seq) == \A k, l \in DOMAIN seq : seq[k].slot = seq[l].slot => k = l

\* A slot has at most one operation in flight, so no completion is taken for
\* another client's.
OneOperation ==
    /\ \A o, p \in kernel : o.slot = p.slot => o = p
    /\ Distinct(Unhandled)
    /\ \A o \in kernel : ~ Has(Unhandled, o.slot)

\* No response is cut by the end of its buffer, so its Content-Length is true.
ResponsesFit == \A s \in Slots : response_len[s] < ResponseSize

\* Every open client has a slot or a thread that will close it, unless its slot
\* was taken while it was being freed (main's connection_free against the accept
\* thread's connection_allocate).
ClientsHeld ==
    ~ torn => \A c \in open : (hapc # "accept" /\ client = c) \/ \E s \in Slots : active[s] /\ fd[s] = c

\* All that, and a start that fails leaves neither the ring nor the socket behind.
ConnectionsOwned ==
    OneOperation /\ ResponsesFit /\ ClientsHeld /\ (hmpc = "failed" => held = {})

-----------------------------------------------------------------------------
(* The inductive strengthening of ConnectionsOwned.                        *)

Completions == [slot : Slots, op : {"read", "write"}, ok : BOOLEAN]
KernelOps == [slot : Slots, op : {"read", "write"}, fd : Clients \union {NoFd}]

StateTyped ==
    /\ hapc \in {"none", "accept", "scan", "store_fd", "store_active", "lock", "submit"}
    /\ hmpc \in {"parse", "ring", "listen", "thread", "failed", "flush", "wait", "handle", "lock",
                "submit", "close", "free_active", "free_fd"}
    /\ hi \in 0..MaxConnections
    /\ fd \in [Slots -> Clients \union {NoFd}]
    /\ response_len \in [Slots -> 0..(ResponseSize - 1)]
    /\ client \in Clients \union {NoFd}
    /\ hwaiting \subseteq Clients
    /\ kernel \subseteq KernelOps
    /\ cq \in Seq(Completions) /\ results \in Seq(Completions)

ActiveTyped == active \in [Slots -> BOOLEAN] /\ torn \in BOOLEAN

\* An operation of the slot is in flight.
Busy(s) == (\E o \in kernel : o.slot = s) \/ Has(cq, s) \/ Has(Rest, s)

\* The operations in flight are of different slots.
InFlight ==
    /\ \A o, p \in kernel : o.slot = p.slot => o = p
    /\ Distinct(cq) /\ Distinct(Rest)
    /\ \A s \in Slots : Has(Rest, s) => ~ Has(cq, s)
    /\ \A o \in kernel : ~ Has(cq, o.slot) /\ ~ Has(Rest, o.slot)

\* A slot with an operation is active; what the threads know of the slot they
\* are working on.
SlotsKnown ==
    /\ \A s \in Slots : Busy(s) => active[s]
    /\ hapc \in {"store_fd", "store_active", "lock", "submit"} => hi \in Slots
    /\ hapc \in {"store_fd", "store_active"} => ~ active[hi]
    /\ hapc \in {"lock", "submit"} => active[hi] /\ ~ Busy(hi)
    /\ hmpc \in {"handle", "lock", "submit", "close", "free_active", "free_fd"} <=> results # <<>>

\* Whose descriptor a slot holds.
DescriptorsKnown ==
    /\ \A s \in Slots : fd[s] \notin hwaiting
    /\ client \notin hwaiting
    /\ hapc = "none" => open = {}
    /\ ~ torn => /\ hapc \in {"store_active", "lock", "submit"} => fd[hi] = client
                 /\ hmpc = "free_active" => fd[slot] \notin open
                 /\ hmpc = "free_fd" => ~ active[slot]
                 /\ hmpc = "free_fd" /\ hapc \in {"store_active", "lock", "submit"} => slot # hi

\* What a start has acquired; the accept thread comes last.
StartHolds ==
    /\ hmpc \in {"parse", "ring", "listen", "thread", "failed"} => hapc = "none"
    /\ hmpc \in {"parse", "ring", "failed"} => held = {}
    /\ hmpc = "listen" => held = {"ring"}
    /\ hmpc = "thread" => held = {"ring", "socket"}

HttpdInv == StateTyped /\ ActiveTyped /\ InFlight /\ SlotsKnown /\ DescriptorsKnown /\ ClientsHeld /\ StartHolds

\* Every client is accepted, and answered or rejected, and its descriptor is
\* closed, unless its slot was taken while it was being freed.
ClosedUnlessTorn == <>(hmpc = "failed" \/ torn \/ (hwaiting = {} /\ open = {}))

\* handle_completion's comment: "Write completed — close the connection".  Every
\* client whose response is written, or cannot be, is closed in the end.
EveryClientClosed == <>(hmpc = "failed" \/ (hwaiting = {} /\ open = {}))

=============================================================================
