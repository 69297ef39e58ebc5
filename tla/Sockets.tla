------------------------------- MODULE Sockets ------------------------------
(***************************************************************************)
(* src/socket.c: the convenience functions that take several system calls, *)
(* and the addresses they hand to the kernel, which reads ports and        *)
(* addresses from their bytes in memory.  A byte has Byte values; the      *)
(* machine is little-endian.                                               *)
(***************************************************************************)
EXTENDS Integers, Sequences

CONSTANTS Byte,           \* 256
          Ports,          \* of 0 .. Byte^2 - 1
          Hosts           \* IPv4 addresses as their four bytes

VARIABLES pc, call,       \* the call in progress: [name, port, host]
          sock,           \* the kernel's socket: [open, reuse, name, listening, peer]
          result          \* "none", "ok" or "error"

vars == <<pc, call, sock, result>>

Closed == [open |-> FALSE, reuse |-> FALSE, name |-> <<>>, listening |-> FALSE, peer |-> <<>>]

-----------------------------------------------------------------------------
(* Mutated forms of the operations below, for sensitivity checks only.     *)

\* The port is stored as the machine holds it.
HostOrder(value) == value

\* A failed call is reported, and its socket kept.
FailedKeepsSocket ==
    /\ pc # "idle"
    /\ pc' = "idle" /\ result' = "error"
    /\ UNCHANGED <<call, sock>>

-----------------------------------------------------------------------------
(* Addresses: numbers, and their bytes in memory.                          *)

host_to_network_16(value) == (value \div Byte) + (value % Byte) * Byte
Memory16(value) == <<value % Byte, value \div Byte>>

\* The four bytes shifted into a 32-bit number.
Addr(h) == h[1] + h[2] * Byte + h[3] * Byte^2 + h[4] * Byte^3
Memory32(value) == <<value % Byte, (value \div Byte) % Byte, (value \div Byte^2) % Byte, value \div Byte^3>>

address_create(h, port) == Memory16(host_to_network_16(port)) \o Memory32(Addr(h))
address_any(port) == address_create(<<0, 0, 0, 0>>, port)

-----------------------------------------------------------------------------
(* The calls, a system call a step.                                        *)

Call(name) ==
    /\ pc = "idle" /\ ~ sock.open
    /\ \E port \in Ports, h \in Hosts : call' = [name |-> name, port |-> port, host |-> h]
    /\ pc' = "create" /\ result' = "none"
    /\ UNCHANGED sock

\* A system call fails: the socket, if there is one, is closed.
Failed ==
    /\ pc # "idle"
    /\ sock' = Closed /\ pc' = "idle" /\ result' = "error"
    /\ UNCHANGED call

Reaches(next, sock1) ==
    /\ sock' = sock1 /\ pc' = next
    /\ result' = IF next = "idle" THEN "ok" ELSE result
    /\ UNCHANGED call

Create == /\ pc = "create"
          /\ Reaches(IF call.name = "listen_on" THEN "reuse" ELSE "connect", [Closed EXCEPT !.open = TRUE])
SetReuse == pc = "reuse" /\ Reaches("bind", [sock EXCEPT !.reuse = TRUE])
Bind == pc = "bind" /\ Reaches("listen", [sock EXCEPT !.name = address_any(call.port)])
Listen == pc = "listen" /\ Reaches("idle", [sock EXCEPT !.listening = TRUE])
Connect == pc = "connect" /\ Reaches("idle", [sock EXCEPT !.peer = address_create(call.host, call.port)])

\* lc_socket_close by the caller.
CloseSocket ==
    /\ pc = "idle" /\ sock.open
    /\ sock' = Closed /\ result' = "none"
    /\ UNCHANGED <<pc, call>>

-----------------------------------------------------------------------------
Init == /\ pc = "idle" /\ sock = Closed /\ result = "none"
        /\ call = [name |-> "none", port |-> 0, host |-> <<0, 0, 0, 0>>]

Next == \/ \E name \in {"listen_on", "connect_to"} : Call(name)
        \/ Failed \/ Create \/ SetReuse \/ Bind \/ Listen \/ Connect \/ CloseSocket

Spec == Init /\ [][Next]_vars

-----------------------------------------------------------------------------
\* A call that fails at any of its system calls leaves no socket open; one that
\* succeeds leaves a socket that listens at, or is connected to, the very port
\* and address that were asked for, as the network reads them: the high byte of
\* the port first, then the address in the order of its bytes.
SocketsExact ==
    LET wire == <<call.port \div Byte, call.port % Byte>>
        any == <<0, 0, 0, 0>>
    IN  /\ result = "error" => ~ sock.open
        /\ result = "ok" =>
              /\ sock.open
              /\ call.name = "listen_on" => sock.listening /\ sock.reuse /\ sock.name = wire \o any
              /\ call.name = "connect_to" => sock.peer = wire \o call.host

=============================================================================
