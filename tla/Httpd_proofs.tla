---------------------------- MODULE Httpd_proofs ----------------------------
(***************************************************************************)
(* Proofs about the HTTP server, for every number of slots and clients:    *)
(* HttpdInv is inductive, so a slot has at most one operation in flight,   *)
(* every response fits its buffer, every open client has a slot or a       *)
(* thread that will close it, and a failed start leaves nothing behind.    *)
(***************************************************************************)
EXTENDS Httpd, TLAPS

\* A completion appended to a queue: whose slots the queue has, and that they
\* are still different.
LEMMA HttpdAppend ==
    ASSUME NEW q \in Seq(Completions), NEW c \in Completions
    PROVE  /\ Append(q, c) \in Seq(Completions)
           /\ \A s : Has(Append(q, c), s) <=> Has(q, s) \/ c.slot = s
           /\ Distinct(q) /\ ~ Has(q, c.slot) => Distinct(Append(q, c))
<1> HIDE DEF Completions
<1> DEFINE r == Append(q, c)
<1>1. /\ r \in Seq(Completions) /\ DOMAIN r = 1..(Len(q) + 1) /\ DOMAIN q = 1..Len(q) /\ Len(q) \in Nat
      /\ r[Len(q) + 1] = c /\ \A k \in 1..Len(q) : r[k] = q[k]
  OBVIOUS
<1> HIDE DEF r
<1>2. ASSUME NEW s PROVE Has(r, s) <=> Has(q, s) \/ c.slot = s
  <2>1. \A k \in 1..(Len(q) + 1) : k \in 1..Len(q) \/ k = Len(q) + 1
    BY <1>1
  <2>2. \A k \in 1..Len(q) : k \in 1..(Len(q) + 1)
    BY <1>1
  <2>3. Len(q) + 1 \in 1..(Len(q) + 1)
    BY <1>1
  <2> QED
    BY <1>1, <2>1, <2>2, <2>3 DEF Has
<1>3. ASSUME Distinct(q), ~ Has(q, c.slot) PROVE Distinct(r)
  <2> SUFFICES ASSUME NEW k \in DOMAIN r, NEW l \in DOMAIN r, r[k].slot = r[l].slot PROVE k = l
    BY DEF Distinct
  <2>1. k \in 1..Len(q) \/ k = Len(q) + 1
    BY <1>1
  <2>2. l \in 1..Len(q) \/ l = Len(q) + 1
    BY <1>1
  <2> QED
    BY <1>1, <1>3, <2>1, <2>2 DEF Distinct, Has
<1> QED
  BY <1>1, <1>2, <1>3 DEF r

\* The same of a queue whose first completion is taken.
LEMMA HttpdTail ==
    ASSUME NEW q \in Seq(Completions), q # <<>>
    PROVE  /\ Tail(q) \in Seq(Completions) /\ Head(q) \in Completions
           /\ \A s : Has(q, s) <=> Head(q).slot = s \/ Has(Tail(q), s)
           /\ Distinct(q) => Distinct(Tail(q)) /\ ~ Has(Tail(q), Head(q).slot)
<1> HIDE DEF Completions
<1> DEFINE r == Tail(q)
<1>1. /\ r \in Seq(Completions) /\ Head(q) \in Completions /\ DOMAIN q = 1..Len(q)
      /\ Len(q) \in Nat /\ Len(q) >= 1 /\ DOMAIN r = 1..(Len(q) - 1)
      /\ Head(q) = q[1] /\ \A k \in 1..(Len(q) - 1) : r[k] = q[k + 1]
  OBVIOUS
<1> HIDE DEF r
<1>2. \A k \in 1..Len(q) : k = 1 \/ (k - 1 \in 1..(Len(q) - 1) /\ (k - 1) + 1 = k)
  BY <1>1
<1>3. \A k \in 1..(Len(q) - 1) : k + 1 \in 1..Len(q) /\ k + 1 # 1
  BY <1>1
<1>4. \A k \in DOMAIN q : k = 1 \/ (k - 1 \in DOMAIN r /\ q[k] = r[k - 1])
  BY <1>1, <1>2
<1>5. \A k \in DOMAIN r : k + 1 \in DOMAIN q /\ r[k] = q[k + 1] /\ k + 1 # 1
  BY <1>1, <1>3
<1>6. 1 \in DOMAIN q /\ Head(q) = q[1]
  BY <1>1
<1>7. ASSUME NEW s PROVE Has(q, s) <=> Head(q).slot = s \/ Has(r, s)
  <2>1. ASSUME Has(q, s), Head(q).slot # s PROVE Has(r, s)
    <3>1. PICK k \in DOMAIN q : q[k].slot = s
      BY <2>1 DEF Has
    <3>2. k # 1
      BY <1>6, <2>1, <3>1
    <3> QED
      BY <1>4, <3>1, <3>2 DEF Has
  <2>2. ASSUME Has(r, s) PROVE Has(q, s)
    BY <1>5, <2>2 DEF Has
  <2>3. ASSUME Head(q).slot = s PROVE Has(q, s)
    BY <1>6, <2>3 DEF Has
  <2> QED
    BY <2>1, <2>2, <2>3
<1>8. ASSUME Distinct(q) PROVE Distinct(r) /\ ~ Has(r, Head(q).slot)
  <2>1. ASSUME NEW k \in DOMAIN r, NEW l \in DOMAIN r, r[k].slot = r[l].slot PROVE k = l
    <3>1. k + 1 \in DOMAIN q /\ l + 1 \in DOMAIN q /\ q[k + 1].slot = q[l + 1].slot
      BY <1>5, <2>1
    <3>2. k + 1 = l + 1
      BY <1>8, <3>1 DEF Distinct
    <3>3. k \in Nat /\ l \in Nat
      BY <1>1
    <3> QED
      BY <3>2, <3>3
  <2>2. ASSUME NEW k \in DOMAIN r, r[k].slot = Head(q).slot PROVE FALSE
    <3>1. k + 1 \in DOMAIN q /\ q[k + 1].slot = q[1].slot /\ k + 1 # 1
      BY <1>5, <1>6, <2>2
    <3> QED
      BY <1>6, <1>8, <3>1 DEF Distinct
  <2> QED
    BY <2>1, <2>2 DEF Distinct, Has
<1> QED
  BY <1>1, <1>7, <1>8 DEF r

\* A set with 0 and every successor up to 19 has 19.
LEMMA Climb ==
    ASSUME NEW K, 0 \in K, \A k \in 0..18 : k \in K => k + 1 \in K
    PROVE  19 \in K
  OBVIOUS

\* uint_to_string writes between 1 and 20 digits, whatever the number.
LEMMA HttpdDigits == \A n : uint_to_string(n) \in 1..20
<1> SUFFICES ASSUME NEW n PROVE uint_to_string(n) \in 1..20
  OBVIOUS
<1> DEFINE P == {k \in 0..20 : n < 10^k}
           fits(k) == (k = 1 \/ k - 1 \notin P) /\ (k = 20 \/ k \in P)
<1>1. uint_to_string(n) = CHOOSE k \in 1..20 : fits(k)
  <2>1. \A k \in 1..20 : k \in 0..20 /\ k - 1 \in 0..20
    OBVIOUS
  <2>2. \A k \in 1..20 : fits(k) <=> (k = 1 \/ ~ (n < 10^(k - 1))) /\ (k = 20 \/ n < 10^k)
    BY <2>1, Zenon
  <2> QED
    BY <2>2, Zenon DEF uint_to_string
<1> HIDE DEF P
<1>2. \E k \in 1..20 : fits(k)
  <2> SUFFICES ASSUME \A k \in 1..20 : ~ fits(k) PROVE FALSE
    OBVIOUS
  <2> DEFINE K == {k \in 0..19 : k = 0 \/ k \notin P}
  <2>1. ASSUME NEW k \in 0..18, k \in K PROVE k + 1 \in K
    <3>1. k + 1 \in 1..20 /\ k + 1 \in 0..19 /\ k + 1 # 20 /\ (k + 1) - 1 = k /\ (k + 1 = 1 <=> k = 0)
      OBVIOUS
    <3>2. k = 0 \/ k \notin P
      BY <2>1
    <3>3. ~ fits(k + 1)
      BY <3>1
    <3> QED
      BY <3>1, <3>2, <3>3
  <2>2. 0 \in K
    OBVIOUS
  <2>3. 19 \in K
    <3> HIDE DEF K
    <3> QED BY <2>1, <2>2, Climb
  <2>4. 19 \notin P /\ ~ fits(20)
    BY <2>3
  <2> QED
    BY <2>4
<1> HIDE DEF fits
<1> QED
  BY <1>1, <1>2

\* The bound of a sum is the sum of the bounds.
LEMMA PiecesAreSmall ==
    ASSUME NEW k \in Nat, NEW l \in Nat, NEW a \in Nat, NEW b \in Nat, k <= a, l <= b
    PROVE  k + l \in Nat /\ k + l <= a + b
  OBVIOUS

\* Whatever is asked for, and however many requests and connections the
\* statistics count, build_response stays inside its buffer.
LEMMA HttpdAnswers == \A r \in AllRequests : build_response(Answer(r)) \in 0..(ResponseSize - 1)
<1> SUFFICES ASSUME NEW r \in AllRequests
             PROVE  build_response(Answer(r)) \in 0..(ResponseSize - 1)
  OBVIOUS
<1>1. build_stats_body \in 1..100
  <2> DEFINE d == uint_to_string(request_count')
             e == uint_to_string(IF hactive > 0 THEN hactive ELSE 0)
  <2>1. d \in 1..20 /\ e \in 1..20
    BY HttpdDigits
  <2>2. build_stats_body = 12 + d + 22 + e + 2
    BY DEF build_stats_body
  <2> HIDE DEF d, e
  <2> QED
    BY <2>1, <2>2
<1>2. Answer(r).status \in 6..15 /\ Answer(r).type \in 10..24 /\ Answer(r).body \in 1..1387
  BY <1>1 DEF Answer, AllRequests
<1> DEFINE a == Answer(r)
           d == uint_to_string(a.body)
<1>3. d \in 1..20
  BY HttpdDigits
<1>4. Pieces(a) = <<9 + a.status + 2 + 14 + a.type + 2, 16 + d + 2, 19 + 22 + 2, a.body>>
  BY SMTT(20) DEF Pieces
<1>5. a.status \in 6..15 /\ a.type \in 10..24 /\ a.body \in 1..1387
  BY <1>2
<1> HIDE DEF a, d
<1>6. /\ Pieces(a)[1] \in 0..100 /\ Pieces(a)[2] \in 0..100 /\ Pieces(a)[3] \in 0..100
      /\ Pieces(a)[4] \in 0..1387
  BY <1>3, <1>4, <1>5
<1> DEFINE x == Pieces(a)[1]
           y == Pieces(a)[2]
           z == Pieces(a)[3]
           w == Pieces(a)[4]
<1>8. build_response(a)
        = response_append(response_append(response_append(response_append(0, x), y), z), w)
  BY DEF build_response
<1>9. x \in 0..100 /\ y \in 0..100 /\ z \in 0..100 /\ w \in 0..1387
  BY <1>6
<1> HIDE DEF x, y, z, w
<1>10. response_append(0, x) = x /\ response_append(x, y) = x + y
  BY <1>9 DEF response_append, ResponseSize
<1>11. response_append(x + y, z) = x + y + z
  BY <1>9 DEF response_append, ResponseSize
<1>12. response_append(x + y + z, w) = x + y + z + w
  BY <1>9 DEF response_append, ResponseSize
<1>13. build_response(a) = x + y + z + w
  BY <1>8, <1>10, <1>11, <1>12
<1>14. x \in Nat /\ x <= 100 /\ y \in Nat /\ y <= 100 /\ z \in Nat /\ z <= 100 /\ w \in Nat /\ w <= 1387
  BY <1>9
<1>15. x + y \in Nat /\ x + y <= 200
  BY <1>14, PiecesAreSmall
<1>16. x + y + z \in Nat /\ x + y + z <= 300
  BY <1>14, <1>15, PiecesAreSmall
<1>17. x + y + z + w \in Nat /\ x + y + z + w <= 1687
  BY <1>14, <1>16, PiecesAreSmall
<1>18. build_response(a) \in Nat /\ build_response(a) <= 1687
  BY <1>13, <1>17
<1>19. \A n \in Nat : n <= 1687 => n \in 0..(ResponseSize - 1)
  BY DEF ResponseSize
<1>20. build_response(a) \in 0..(ResponseSize - 1)
  BY <1>18, <1>19
<1> QED
  BY <1>20 DEF a

\* The server starts with empty slots and nothing in flight.
LEMMA HttpdInitially == HttpdInit => HttpdInv
<1> SUFFICES ASSUME HttpdInit PROVE HttpdInv
  OBVIOUS
<1>1. kernel = {} /\ cq = <<>> /\ results = <<>> /\ Rest = <<>> /\ DOMAIN <<>> = {}
  BY DEF HttpdInit, Rest
<1>2. InFlight /\ \A s : ~ Busy(s)
  BY <1>1 DEF InFlight, Has, Distinct, Busy
<1>3. StateTyped
  <2>1. response_len \in [Slots -> 0..(ResponseSize - 1)] /\ hi \in 0..MaxConnections
    BY HttpdAssumption DEF HttpdInit, ResponseSize
  <2> QED
    BY <1>1, <2>1 DEF HttpdInit, StateTyped
<1>4. ActiveTyped
  BY DEF HttpdInit, ActiveTyped
<1>5. SlotsKnown
  BY <1>1, <1>2 DEF HttpdInit, SlotsKnown
<1>6. DescriptorsKnown
  BY HttpdAssumption DEF HttpdInit, DescriptorsKnown
<1> QED
  BY <1>2, <1>3, <1>4, <1>5, <1>6 DEF HttpdInit, HttpdInv, ClientsHeld, StartHolds

\* A step that submits, completes and handles nothing changes nobody's
\* operations in flight.
LEMMA HttpdQuiet ==
    ASSUME InFlight, kernel' = kernel, cq' = cq, Rest' = Rest
    PROVE  InFlight' /\ \A s : Busy(s)' <=> Busy(s)
  BY DEF InFlight, Busy, Has, Distinct

\* main's start, with each of its failures, keeps the invariant.
LEMMA HttpdStarts ==
    ASSUME HttpdInv, StartStep
    PROVE  HttpdInv'
<1>1. ASSUME NEW next \in {"failed", "ring", "listen", "thread"}, NEW p, NEW h,
             hmpc \in {"parse", "ring", "listen", "thread"}, Starting(next, p, h),
             /\ next \in {"ring", "failed"} => h = {}
             /\ next = "listen" => h = {"ring"}
             /\ next = "thread" => h = {"ring", "socket"}
      PROVE  HttpdInv'
  <2>1. /\ hmpc' = next /\ held' = h
        /\ UNCHANGED <<hwaiting, open, fd, active, response_len, kernel, cq, hapc, client, hi, results, torn>>
    BY <1>1 DEF Starting, slots
  <2>2. Rest' = Rest
    BY <1>1, <2>1 DEF Rest
  <2>3. InFlight' /\ \A s : Busy(s)' <=> Busy(s)
    BY <2>1, <2>2, HttpdQuiet DEF HttpdInv
  <2>4. StateTyped'
    BY <1>1, <2>1 DEF HttpdInv, StateTyped
  <2>5. ActiveTyped'
    BY <2>1 DEF HttpdInv, ActiveTyped
  <2>6. SlotsKnown'
    BY <1>1, <2>1, <2>3 DEF HttpdInv, SlotsKnown
  <2>7. DescriptorsKnown' /\ ClientsHeld'
    BY <1>1, <2>1 DEF HttpdInv, DescriptorsKnown, ClientsHeld
  <2>8. StartHolds'
    BY <1>1, <2>1 DEF HttpdInv, StartHolds
  <2> QED
    BY <2>3, <2>4, <2>5, <2>6, <2>7, <2>8 DEF HttpdInv
<1>2. CASE ParseArgument
  <2>1. hmpc = "parse" /\ held = {}
    BY <1>2 DEF ParseArgument, HttpdInv, StartHolds
  <2>2. PICK p : Starting("failed", p, held) \/ Starting("ring", p, held)
    BY <1>2 DEF ParseArgument
  <2> QED
    BY <1>1, <2>1, <2>2
<1>3. CASE CreateRing
  BY <1>1, <1>3 DEF CreateRing
<1>4. CASE Listen
  <2>1. hmpc = "listen" /\ held = {"ring"}
    BY <1>4 DEF Listen, HttpdInv, StartHolds
  <2>2. held \union {"socket"} = {"ring", "socket"} /\ held \ {"ring"} = {}
    BY <2>1
  <2> QED
    BY <1>1, <1>4, <2>1, <2>2 DEF Listen
<1>5. CASE CreateThread
  <2>1. hmpc = "thread" /\ held = {"ring", "socket"} /\ held \ {"socket", "ring"} = {}
    BY <1>5 DEF CreateThread, HttpdInv, StartHolds
  <2>2. CASE Starting("failed", port, held \ {"socket", "ring"})
    BY <1>1, <2>1, <2>2
  <2>3. CASE /\ hmpc' = "flush" /\ hapc' = "accept"
             /\ UNCHANGED <<held, hwaiting, open, fd, active, response_len, kernel, cq, client, hi, results, torn>>
    <3>1. Rest' = Rest
      BY <2>1, <2>3 DEF Rest
    <3>2. InFlight' /\ \A s : Busy(s)' <=> Busy(s)
      BY <2>3, <3>1, HttpdQuiet DEF HttpdInv
    <3>3. StateTyped'
      BY <2>3 DEF HttpdInv, StateTyped
    <3>4. ActiveTyped'
      BY <2>3 DEF HttpdInv, ActiveTyped
    <3>5. SlotsKnown'
      BY <2>1, <2>3, <3>2 DEF HttpdInv, SlotsKnown
    <3>6. DescriptorsKnown' /\ ClientsHeld'
      BY <2>1, <2>3 DEF HttpdInv, DescriptorsKnown, ClientsHeld, StartHolds
    <3>7. StartHolds'
      BY <2>3 DEF StartHolds
    <3> QED
      BY <3>2, <3>3, <3>4, <3>5, <3>6, <3>7 DEF HttpdInv
  <2> QED
    BY <1>5, <2>2, <2>3 DEF CreateThread, slots
<1> QED
  BY <1>2, <1>3, <1>4, <1>5 DEF StartStep

\* While main handles a completion its slot is active and busy, until it is freed.
LEMMA HttpdSlot ==
    ASSUME HttpdInv, hmpc \in {"handle", "lock", "submit", "close", "free_active", "free_fd"}
    PROVE  /\ results \in Seq(Completions) /\ results # <<>> /\ slot \in Slots
           /\ hmpc # "free_fd" => Rest = results /\ Busy(slot) /\ active[slot]
<1>1. results # <<>> /\ results \in Seq(Completions)
  BY DEF HttpdInv, SlotsKnown, StateTyped
<1>2. slot \in Slots
  BY <1>1, HttpdTail DEF slot, Completions
<1>3. ASSUME hmpc # "free_fd" PROVE Rest = results /\ Busy(slot) /\ active[slot]
  <2>1. Rest = results
    BY <1>3 DEF Rest
  <2>2. Has(Rest, slot)
    BY <1>1, <2>1, HttpdTail DEF slot
  <2> QED
    BY <1>2, <2>1, <2>2 DEF HttpdInv, SlotsKnown, Busy
<1> QED
  BY <1>1, <1>2, <1>3

\* For the steps of the accept thread that submit nothing it is enough to look at
\* the slots, the descriptors and who holds them.
LEMMA HttpdAcceptQuiet ==
    ASSUME HttpdInv, StateTyped', ActiveTyped', hapc # "none", hapc' # "none",
           UNCHANGED <<held, kernel, cq, hmpc, results>>,
           InFlight' /\ (\A s : Busy(s)' <=> Busy(s)) => SlotsKnown',
           DescriptorsKnown', ClientsHeld'
    PROVE  HttpdInv'
<1>1. Rest' = Rest
  BY DEF Rest
<1>2. InFlight' /\ \A s : Busy(s)' <=> Busy(s)
  BY <1>1, HttpdQuiet DEF HttpdInv
<1>3. StartHolds'
  BY DEF HttpdInv, StartHolds
<1> QED
  BY <1>2, <1>3 DEF HttpdInv

\* The accept thread's steps up to its lock of the ring keep the invariant.
LEMMA HttpdAccepts ==
    ASSUME HttpdInv,
           (\E c \in hwaiting : AcceptClient(c)) \/ Scan \/ Reject \/ StoreFd \/ StoreActive \/ AcceptLock
    PROVE  HttpdInv'
<1> USE DEF slots, counts, mainThread, start
<1>0. /\ hapc \in {"none", "accept", "scan", "store_fd", "store_active", "lock", "submit"}
      /\ hi \in 0..MaxConnections /\ MaxConnections \in Nat \ {0} /\ NoFd \notin Clients
  BY HttpdAssumption DEF HttpdInv, StateTyped
<1>1. ASSUME NEW c \in hwaiting, AcceptClient(c) PROVE HttpdInv'
  <2>1. /\ hapc = "accept" /\ hwaiting' = hwaiting \ {c} /\ open' = open \union {c}
        /\ client' = c /\ hi' = 0 /\ hapc' = "scan"
        /\ UNCHANGED <<held, fd, active, response_len, kernel, cq, hmpc, results, torn>>
    BY <1>1 DEF AcceptClient
  <2>2. StateTyped'
    BY <1>0, <1>1, <2>1 DEF HttpdInv, StateTyped
  <2>3. ActiveTyped'
    BY <2>1 DEF HttpdInv, ActiveTyped
  <2>4. (\A s : Busy(s)' <=> Busy(s)) => SlotsKnown'
    BY <2>1 DEF HttpdInv, SlotsKnown
  <2>5. slot' = slot
    BY <2>1 DEF slot
  <2>6. hmpc = "free_active" => slot \in Slots
    BY HttpdSlot
  <2>7. DescriptorsKnown'
    BY <1>1, <2>1, <2>5, <2>6 DEF HttpdInv, DescriptorsKnown
  <2>8. ClientsHeld'
    BY <2>1 DEF HttpdInv, ClientsHeld
  <2> QED
    BY <2>1, <2>2, <2>3, <2>4, <2>7, <2>8, HttpdAcceptQuiet
<1>2. CASE Scan
  <2>1. /\ hapc = "scan" /\ hi < MaxConnections
        /\ \/ active[hi] /\ hi' = hi + 1 /\ hapc' = "scan"
           \/ ~ active[hi] /\ hi' = hi /\ hapc' = "store_fd"
        /\ UNCHANGED <<held, hwaiting, open, fd, active, response_len, kernel, cq, client, hmpc, results, torn>>
    BY <1>2 DEF Scan
  <2>2. hi \in Slots /\ hi' \in 0..MaxConnections
    BY <1>0, <2>1 DEF Slots
  <2>3. StateTyped'
    BY <1>0, <2>1, <2>2 DEF HttpdInv, StateTyped
  <2>4. ActiveTyped'
    BY <2>1 DEF HttpdInv, ActiveTyped
  <2>5. (\A s : Busy(s)' <=> Busy(s)) => SlotsKnown'
    BY <2>1, <2>2 DEF HttpdInv, SlotsKnown
  <2>6. slot' = slot
    BY <2>1 DEF slot
  <2>7. DescriptorsKnown'
    BY <2>1, <2>6 DEF HttpdInv, DescriptorsKnown
  <2>8. ClientsHeld'
    BY <2>1 DEF HttpdInv, ClientsHeld
  <2> QED
    BY <2>1, <2>3, <2>4, <2>5, <2>7, <2>8, HttpdAcceptQuiet
<1>3. CASE Reject
  <2>1. /\ hapc = "scan" /\ open' = open \ {client} /\ hapc' = "accept"
        /\ UNCHANGED <<held, hwaiting, fd, active, response_len, kernel, cq, client, hi, hmpc, results, torn>>
    BY <1>3 DEF Reject
  <2>2. StateTyped'
    BY <2>1 DEF HttpdInv, StateTyped
  <2>3. ActiveTyped'
    BY <2>1 DEF HttpdInv, ActiveTyped
  <2>4. (\A s : Busy(s)' <=> Busy(s)) => SlotsKnown'
    BY <2>1 DEF HttpdInv, SlotsKnown
  <2>5. slot' = slot
    BY <2>1 DEF slot
  <2>6. DescriptorsKnown'
    BY <2>1, <2>5 DEF HttpdInv, DescriptorsKnown
  <2>7. ClientsHeld'
    BY <2>1 DEF HttpdInv, ClientsHeld
  <2> QED
    BY <2>1, <2>2, <2>3, <2>4, <2>6, <2>7, HttpdAcceptQuiet
<1>4. CASE StoreFd
  <2>1. /\ hapc = "store_fd" /\ fd' = [fd EXCEPT ![hi] = client] /\ hapc' = "store_active"
        /\ UNCHANGED <<held, hwaiting, open, active, response_len, kernel, cq, client, hi, hmpc, results>>
    BY <1>4 DEF StoreFd
  <2>2. ~ torn' => ~ torn /\ ~ (hmpc = "free_fd" /\ slot = hi)
    BY <1>4 DEF StoreFd, slot
  <2>3. hi \in Slots /\ ~ active[hi]
    BY <2>1 DEF HttpdInv, SlotsKnown
  <2>4. StateTyped'
    BY <2>1, <2>3 DEF HttpdInv, StateTyped
  <2>5. ActiveTyped'
    BY <1>4, <2>1 DEF HttpdInv, ActiveTyped, StoreFd
  <2>6. (\A s : Busy(s)' <=> Busy(s)) => SlotsKnown'
    BY <2>1 DEF HttpdInv, SlotsKnown
  <2>7. slot' = slot
    BY <2>1 DEF slot
  <2>8. /\ \A s \in Slots : fd'[s] = IF s = hi THEN client ELSE fd[s]
        /\ \A s \in Slots : active[s] => fd'[s] = fd[s]
    BY <2>1, <2>3 DEF HttpdInv, StateTyped
  <2>9. hmpc = "free_active" => slot \in Slots /\ active[slot]
    BY HttpdSlot
  <2>10. DescriptorsKnown'
    BY <2>1, <2>2, <2>3, <2>7, <2>8, <2>9 DEF HttpdInv, DescriptorsKnown
  <2>11. ClientsHeld'
    BY <2>1, <2>2, <2>8 DEF HttpdInv, ClientsHeld
  <2> QED
    BY <2>1, <2>4, <2>5, <2>6, <2>10, <2>11, HttpdAcceptQuiet
<1>5. CASE StoreActive
  <2>1. /\ hapc = "store_active" /\ active' = [active EXCEPT ![hi] = TRUE] /\ hapc' = "lock"
        /\ response_len' = [response_len EXCEPT ![hi] = 0]
        /\ UNCHANGED <<held, hwaiting, open, fd, kernel, cq, client, hi, hmpc, results, torn>>
    BY <1>5 DEF StoreActive
  <2>2. hi \in Slots /\ ~ active[hi] /\ ~ Busy(hi)
    BY <2>1 DEF HttpdInv, SlotsKnown
  <2>3. StateTyped'
    <3>1. 0 \in 0..(ResponseSize - 1)
      BY DEF ResponseSize
    <3> QED
      BY <2>1, <2>2, <3>1 DEF HttpdInv, StateTyped
  <2>4. ActiveTyped'
    BY <2>1 DEF HttpdInv, ActiveTyped
  <2>5. \A s \in Slots : active'[s] <=> s = hi \/ active[s]
    BY <2>1, <2>2 DEF HttpdInv, ActiveTyped
  <2>6. (\A s : Busy(s)' <=> Busy(s)) => SlotsKnown'
    BY <2>1, <2>2, <2>5 DEF HttpdInv, SlotsKnown
  <2>7. slot' = slot
    BY <2>1 DEF slot
  <2>8. hmpc = "free_fd" => slot \in Slots
    BY HttpdSlot
  <2>9. DescriptorsKnown'
    BY <2>1, <2>2, <2>5, <2>7, <2>8 DEF HttpdInv, DescriptorsKnown
  <2>10. ClientsHeld'
    BY <2>1, <2>2, <2>5 DEF HttpdInv, ClientsHeld
  <2> QED
    BY <2>1, <2>3, <2>4, <2>6, <2>9, <2>10, HttpdAcceptQuiet
<1>6. CASE AcceptLock
  <2>1. /\ hapc = "lock" /\ hapc' = "submit"
        /\ UNCHANGED <<held, hwaiting, open, fd, active, response_len, kernel, cq, client, hi, hmpc, results, torn>>
    BY <1>6 DEF AcceptLock
  <2>2. StateTyped'
    BY <2>1 DEF HttpdInv, StateTyped
  <2>3. ActiveTyped'
    BY <2>1 DEF HttpdInv, ActiveTyped
  <2>4. (\A s : Busy(s)' <=> Busy(s)) => SlotsKnown'
    BY <2>1 DEF HttpdInv, SlotsKnown
  <2>5. slot' = slot
    BY <2>1 DEF slot
  <2>6. DescriptorsKnown'
    BY <2>1, <2>5 DEF HttpdInv, DescriptorsKnown
  <2>7. ClientsHeld'
    BY <2>1 DEF HttpdInv, ClientsHeld
  <2> QED
    BY <2>1, <2>2, <2>3, <2>4, <2>6, <2>7, HttpdAcceptQuiet
<1> QED
  BY <1>1, <1>2, <1>3, <1>4, <1>5, <1>6

\* The first read of a client is the only operation of its slot.
LEMMA HttpdSubmitsRead ==
    ASSUME HttpdInv, SubmitRead
    PROVE  HttpdInv'
<1> DEFINE o == [slot |-> hi, op |-> "read", fd |-> client]
<1>1. /\ hapc = "submit" /\ kernel' = kernel \union {o} /\ hapc' = "accept"
      /\ UNCHANGED <<held, hwaiting, open, fd, active, response_len, cq, client, hi, hmpc, results, torn>>
  BY DEF SubmitRead, slots, mainThread, start
<1>2. hi \in Slots /\ active[hi] /\ ~ Busy(hi)
  BY <1>1 DEF HttpdInv, SlotsKnown
<1>3. o.slot = hi /\ o \in KernelOps
  BY <1>2 DEF HttpdInv, StateTyped, KernelOps
<1> HIDE DEF o
<1>4. Rest' = Rest /\ slot' = slot
  BY <1>1 DEF Rest, slot
<1>5. InFlight'
  BY <1>1, <1>2, <1>3, <1>4 DEF HttpdInv, InFlight, Busy, Has, Distinct
<1>6. \A s : Busy(s)' <=> Busy(s) \/ s = hi
  BY <1>1, <1>3, <1>4 DEF Busy, Has
<1>7. StateTyped'
  BY <1>1, <1>3 DEF HttpdInv, StateTyped
<1>8. ActiveTyped'
  BY <1>1 DEF HttpdInv, ActiveTyped
<1>9. SlotsKnown'
  BY <1>1, <1>2, <1>6 DEF HttpdInv, SlotsKnown
<1>10. DescriptorsKnown'
  BY <1>1, <1>4 DEF HttpdInv, DescriptorsKnown
<1>11. ClientsHeld'
  BY <1>1, <1>2 DEF HttpdInv, ClientsHeld, DescriptorsKnown
<1>12. StartHolds'
  BY <1>1 DEF HttpdInv, StartHolds
<1> QED
  BY <1>5, <1>7, <1>8, <1>9, <1>10, <1>11, <1>12 DEF HttpdInv

\* A completion moves its operation from the kernel to the queue.
LEMMA HttpdCompletes ==
    ASSUME HttpdInv, NEW o \in kernel, Complete(o)
    PROVE  HttpdInv'
<1>1. PICK ok \in BOOLEAN :
        /\ kernel' = kernel \ {o}
        /\ cq' = Append(cq, [slot |-> o.slot, op |-> o.op, ok |-> ok])
        /\ UNCHANGED <<held, hwaiting, open, fd, active, response_len, hapc, client, hi, hmpc, results, torn>>
  BY DEF Complete, slots, mainThread, start, accepter
<1> DEFINE c == [slot |-> o.slot, op |-> o.op, ok |-> ok]
<1>2. o.slot \in Slots /\ c \in Completions /\ c.slot = o.slot
  BY DEF HttpdInv, StateTyped, KernelOps, Completions
<1>3. cq' = Append(cq, c) /\ cq \in Seq(Completions)
  BY SMTT(20), <1>1 DEF HttpdInv, StateTyped
<1> HIDE DEF c
<1>4. /\ cq' \in Seq(Completions)
      /\ \A s : Has(cq', s) <=> Has(cq, s) \/ o.slot = s
      /\ Distinct(cq) /\ ~ Has(cq, o.slot) => Distinct(cq')
  BY <1>2, <1>3, HttpdAppend
<1>5. Rest' = Rest /\ slot' = slot
  BY <1>1 DEF Rest, slot
<1>6. /\ \A p \in kernel' : p \in kernel /\ p.slot # o.slot
      /\ ~ Has(cq, o.slot) /\ ~ Has(Rest, o.slot) /\ Distinct(cq)
  BY SMTT(20), <1>1 DEF HttpdInv, InFlight
<1>7. InFlight'
  <2>2. Distinct(cq)' /\ \A s : Has(cq, s)' <=> Has(cq, s) \/ o.slot = s
    BY <1>4, <1>6 DEF Has, Distinct
  <2>3. Distinct(Rest)' /\ \A s : Has(Rest, s)' <=> Has(Rest, s)
    BY <1>5 DEF HttpdInv, InFlight, Has, Distinct
  <2> QED
    BY <1>1, <1>6, <2>2, <2>3 DEF HttpdInv, InFlight
<1>8. \A s : Busy(s)' => Busy(s)
  <2>1. \A s : Has(cq, s)' <=> Has(cq, s) \/ o.slot = s
    BY <1>4 DEF Has
  <2>2. \A s : Has(Rest, s)' <=> Has(Rest, s)
    BY <1>5 DEF Has
  <2> QED
    BY <1>6, <2>1, <2>2 DEF Busy
<1>9. StateTyped'
  BY <1>1, <1>4 DEF HttpdInv, StateTyped
<1>10. ActiveTyped'
  BY <1>1 DEF HttpdInv, ActiveTyped
<1>11. SlotsKnown'
  BY <1>1, <1>8 DEF HttpdInv, SlotsKnown
<1>12. DescriptorsKnown' /\ ClientsHeld'
  BY <1>1, <1>5 DEF HttpdInv, DescriptorsKnown, ClientsHeld
<1>13. StartHolds'
  BY <1>1 DEF HttpdInv, StartHolds
<1> QED
  BY <1>7, <1>9, <1>10, <1>11, <1>12, <1>13 DEF HttpdInv

\* So do main's steps that neither submit nor free.
LEMMA HttpdMainQuiet ==
    ASSUME HttpdInv,
           \/ hmpc = "flush" /\ hmpc' = "wait"
           \/ hmpc = "handle" /\ hmpc' \in {"close", "lock"}
           \/ hmpc = "lock" /\ hmpc' = "submit",
           response_len' \in [Slots -> 0..(ResponseSize - 1)],
           UNCHANGED <<held, hwaiting, open, fd, active, kernel, cq, hapc, client, hi, results, torn>>
    PROVE  HttpdInv'
<1>1. Rest' = Rest /\ slot' = slot
  BY DEF Rest, slot
<1>2. InFlight' /\ \A s : Busy(s)' <=> Busy(s)
  BY <1>1, HttpdQuiet DEF HttpdInv
<1>3. StateTyped'
  BY DEF HttpdInv, StateTyped
<1>4. ActiveTyped'
  BY DEF HttpdInv, ActiveTyped
<1>5. SlotsKnown'
  BY <1>2 DEF HttpdInv, SlotsKnown
<1>6. DescriptorsKnown' /\ ClientsHeld'
  BY <1>1 DEF HttpdInv, DescriptorsKnown, ClientsHeld
<1>7. StartHolds'
  BY DEF HttpdInv, StartHolds
<1> QED
  BY <1>2, <1>3, <1>4, <1>5, <1>6, <1>7 DEF HttpdInv

\* main takes all completions there are.
LEMMA HttpdWaits ==
    ASSUME HttpdInv, Wait
    PROVE  HttpdInv'
<1>1. /\ hmpc = "wait" /\ cq # <<>> /\ results' = cq /\ cq' = <<>> /\ hmpc' = "handle"
      /\ UNCHANGED <<held, hwaiting, open, fd, active, response_len, kernel, hapc, client, hi, torn>>
  BY DEF Wait, start, slots, accepter
<1>2. results = <<>> /\ Rest = <<>> /\ Rest' = cq
  BY <1>1 DEF HttpdInv, SlotsKnown, Rest
<1>3. \A s : ~ Has(<<>>, s) /\ Distinct(<<>>)
  BY DEF Has, Distinct
<1>4. /\ \A s : (Has(cq, s)' <=> Has(<<>>, s)) /\ (Has(Rest, s)' <=> Has(cq, s))
      /\ Distinct(cq)' <=> Distinct(<<>>)
      /\ Distinct(Rest)' <=> Distinct(cq)
  BY <1>1, <1>2 DEF Has, Distinct
<1>5. InFlight'
  BY <1>1, <1>3, <1>4 DEF HttpdInv, InFlight
<1>6. \A s : Busy(s)' <=> Busy(s)
  BY <1>1, <1>2, <1>3, <1>4 DEF Busy
<1>7. StateTyped'
  BY <1>1 DEF HttpdInv, StateTyped
<1>8. ActiveTyped'
  BY <1>1 DEF HttpdInv, ActiveTyped
<1>9. SlotsKnown'
  BY <1>1, <1>6 DEF HttpdInv, SlotsKnown
<1>10. DescriptorsKnown' /\ ClientsHeld'
  BY <1>1 DEF HttpdInv, DescriptorsKnown, ClientsHeld
<1>11. StartHolds'
  BY <1>1 DEF HttpdInv, StartHolds
<1> QED
  BY <1>5, <1>7, <1>8, <1>9, <1>10, <1>11 DEF HttpdInv

\* The write of a response takes the place of the read it answers.
LEMMA HttpdSubmitsWrite ==
    ASSUME HttpdInv, SubmitWrite
    PROVE  HttpdInv'
<1> DEFINE o == [slot |-> slot, op |-> "write", fd |-> fd[slot]]
<1>1. /\ hmpc = "submit" /\ kernel' = kernel \union {o} /\ results' = Tail(results)
      /\ hmpc' = IF Tail(results) = <<>> THEN "flush" ELSE "handle"
      /\ UNCHANGED <<held, hwaiting, open, fd, active, response_len, cq, hapc, client, hi, torn>>
  BY DEF SubmitWrite, Handled, start, slots, accepter
<1>2. /\ results \in Seq(Completions) /\ results # <<>> /\ slot \in Slots /\ Rest = results
      /\ Busy(slot)
  BY <1>1, HttpdSlot
<1>3. o.slot = slot /\ o \in KernelOps
  BY <1>2 DEF HttpdInv, StateTyped, KernelOps
<1> HIDE DEF o
<1> DEFINE s0 == slot
<1>4. /\ Tail(results) \in Seq(Completions)
      /\ \A s : Has(results, s) <=> s0 = s \/ Has(Tail(results), s)
      /\ Distinct(results) => Distinct(Tail(results)) /\ ~ Has(Tail(results), s0)
  BY <1>2, HttpdTail DEF slot
<1> HIDE DEF s0
<1>5. Rest' = Tail(results)
  BY <1>1 DEF Rest
<1>6. /\ \A s : (Has(cq, s)' <=> Has(cq, s)) /\ (Has(Rest, s)' <=> Has(Tail(results), s))
      /\ Distinct(cq)' <=> Distinct(cq)
      /\ Distinct(Rest)' <=> Distinct(Tail(results))
  BY <1>1, <1>5 DEF Has, Distinct
<1>7. /\ Distinct(cq) /\ Distinct(results)
      /\ \A s \in Slots : Has(results, s) => ~ Has(cq, s)
      /\ \A p \in kernel : ~ Has(cq, p.slot) /\ ~ Has(results, p.slot)
      /\ \A p, q \in kernel : p.slot = q.slot => p = q
  BY <1>2 DEF HttpdInv, InFlight
<1>8. InFlight'
  <2>1. \A p \in kernel' : p \in kernel \/ p = o
    BY <1>1
  <2>2. \A p, q \in kernel' : p.slot = q.slot => p = q
    BY <1>3, <1>4, <1>7, <2>1 DEF s0
  <2>3. Distinct(cq)' /\ Distinct(Rest)'
    BY <1>4, <1>6, <1>7
  <2>4. \A s \in Slots : Has(Rest, s)' => ~ Has(cq, s)'
    BY <1>4, <1>6, <1>7
  <2>5. ~ Has(cq, s0) /\ ~ Has(Tail(results), s0)
    BY <1>2, <1>4, <1>7 DEF s0
  <2>6. \A p \in kernel' : ~ Has(cq, p.slot)' /\ ~ Has(Rest, p.slot)'
    BY <1>3, <1>4, <1>6, <1>7, <2>1, <2>5 DEF s0
  <2> QED
    BY <2>2, <2>3, <2>4, <2>6 DEF InFlight
<1>9. \A s : Busy(s)' <=> Busy(s)
  BY <1>1, <1>2, <1>3, <1>4, <1>6 DEF Busy, s0
<1>10. StateTyped'
  BY <1>1, <1>3, <1>4 DEF HttpdInv, StateTyped
<1>11. ActiveTyped'
  BY <1>1 DEF HttpdInv, ActiveTyped
<1>12. SlotsKnown'
  BY <1>1, <1>9 DEF HttpdInv, SlotsKnown
<1>13. DescriptorsKnown' /\ ClientsHeld'
  BY <1>1 DEF HttpdInv, DescriptorsKnown, ClientsHeld
<1>14. StartHolds'
  BY <1>1 DEF HttpdInv, StartHolds
<1> QED
  BY <1>8, <1>10, <1>11, <1>12, <1>13, <1>14 DEF HttpdInv

\* close, and the two stores of connection_free, between which the accept thread
\* may take the slot.
LEMMA HttpdCloses ==
    ASSUME HttpdInv, Close \/ FreeActive \/ FreeFd
    PROVE  HttpdInv'
<1> USE DEF slots, counts, accepter, start
<1>0. hmpc \in {"close", "free_active", "free_fd"} => slot \in Slots /\ results # <<>>
  BY HttpdSlot
<1>1. CASE Close
  <2>1. /\ hmpc = "close" /\ open' = open \ {fd[slot]} /\ hmpc' = "free_active"
        /\ UNCHANGED <<held, hwaiting, fd, active, response_len, kernel, cq, hapc, client, hi, results, torn>>
    BY <1>1 DEF Close
  <2>2. Rest' = Rest /\ slot' = slot
    BY <2>1 DEF Rest, slot
  <2>3. InFlight' /\ \A s : Busy(s)' <=> Busy(s)
    BY <2>1, <2>2, HttpdQuiet DEF HttpdInv
  <2>4. StateTyped'
    BY <2>1 DEF HttpdInv, StateTyped
  <2>5. ActiveTyped'
    BY <2>1 DEF HttpdInv, ActiveTyped
  <2>6. SlotsKnown'
    BY <2>1, <2>3 DEF HttpdInv, SlotsKnown
  <2>7. DescriptorsKnown'
    BY <2>1, <2>2 DEF HttpdInv, DescriptorsKnown
  <2>8. ClientsHeld'
    BY <2>1 DEF HttpdInv, ClientsHeld
  <2>9. StartHolds'
    BY <2>1 DEF HttpdInv, StartHolds
  <2> QED
    BY <2>3, <2>4, <2>5, <2>6, <2>7, <2>8, <2>9 DEF HttpdInv
<1>2. CASE FreeActive
  <2>1. /\ hmpc = "free_active" /\ active' = [active EXCEPT ![slot] = FALSE] /\ hmpc' = "free_fd"
        /\ UNCHANGED <<held, hwaiting, open, fd, response_len, kernel, cq, hapc, client, hi, results, torn>>
    BY <1>2 DEF FreeActive
  <2>2. /\ results \in Seq(Completions) /\ results # <<>> /\ slot \in Slots /\ Rest = results
        /\ Busy(slot) /\ active[slot]
    BY <2>1, HttpdSlot
  <2> DEFINE s0 == slot
  <2>3. Rest' = Tail(results) /\ slot' = s0
    BY <2>1 DEF Rest, slot
  <2>4. /\ \A s : Has(results, s) <=> s0 = s \/ Has(Tail(results), s)
        /\ Distinct(results) => Distinct(Tail(results)) /\ ~ Has(Tail(results), s0)
    BY <2>2, HttpdTail DEF slot
  <2>5. active \in [Slots -> BOOLEAN] /\ torn \in BOOLEAN /\ s0 \in Slots /\ active[s0]
    BY <2>2 DEF HttpdInv, ActiveTyped
  <2>6. active' = [active EXCEPT ![s0] = FALSE]
    BY <2>1
  <2> HIDE DEF s0
  <2>7. ActiveTyped' /\ ~ active'[s0] /\ \A s \in Slots : s # s0 => active'[s] = active[s]
    BY Zenon, <2>1, <2>5, <2>6 DEF ActiveTyped
  <2>8. /\ \A s : (Has(cq, s)' <=> Has(cq, s)) /\ (Has(Rest, s)' <=> Has(Tail(results), s))
        /\ Distinct(cq)' <=> Distinct(cq)
        /\ Distinct(Rest)' <=> Distinct(Tail(results))
    BY <2>1, <2>3 DEF Has, Distinct
  <2>9. /\ Distinct(cq) /\ Distinct(results)
        /\ \A s \in Slots : Has(results, s) => ~ Has(cq, s)
        /\ \A p \in kernel : ~ Has(cq, p.slot) /\ ~ Has(results, p.slot)
        /\ \A p, q \in kernel : p.slot = q.slot => p = q
    BY <2>2 DEF HttpdInv, InFlight
  <2>10. InFlight'
    BY <2>1, <2>4, <2>8, <2>9 DEF InFlight
  <2>11. \A s : Busy(s)' => Busy(s) /\ s # s0
    BY <2>1, <2>2, <2>4, <2>5, <2>8, <2>9 DEF Busy
  <2>12. StateTyped'
    BY <2>1 DEF HttpdInv, StateTyped
  <2>13. hapc \in {"store_active", "lock", "submit"} => hi # s0
    BY <2>2, <2>5 DEF HttpdInv, SlotsKnown, s0
  <2>14. SlotsKnown'
    BY Zenon, <2>1, <2>7, <2>11, <2>13 DEF HttpdInv, SlotsKnown
  <2>15. DescriptorsKnown'
    BY <2>1, <2>3, <2>7, <2>13 DEF HttpdInv, DescriptorsKnown
  <2>16. ClientsHeld'
    BY <2>1, <2>7 DEF HttpdInv, ClientsHeld, DescriptorsKnown, s0
  <2>17. StartHolds'
    BY <2>1 DEF HttpdInv, StartHolds
  <2> QED
    BY <2>7, <2>10, <2>12, <2>14, <2>15, <2>16, <2>17 DEF HttpdInv
<1>3. CASE FreeFd
  <2>1. /\ hmpc = "free_fd" /\ fd' = [fd EXCEPT ![slot] = NoFd] /\ results' = Tail(results)
        /\ hmpc' = IF Tail(results) = <<>> THEN "flush" ELSE "handle"
        /\ UNCHANGED <<held, hwaiting, open, active, response_len, kernel, cq, hapc, client, hi, torn>>
    BY <1>3 DEF FreeFd, Handled
  <2>2. results \in Seq(Completions) /\ results # <<>> /\ slot \in Slots
    BY <2>1, HttpdSlot
  <2>3. Rest' = Rest /\ Tail(results) \in Seq(Completions)
    BY <2>1, <2>2 DEF Rest
  <2>4. InFlight' /\ \A s : Busy(s)' <=> Busy(s)
    BY <2>1, <2>3, HttpdQuiet DEF HttpdInv
  <2>5. StateTyped'
    BY <2>1, <2>2, <2>3 DEF HttpdInv, StateTyped
  <2>6. ActiveTyped'
    BY <2>1 DEF HttpdInv, ActiveTyped
  <2>7. SlotsKnown'
    BY <2>1, <2>4 DEF HttpdInv, SlotsKnown
  <2>8. fd \in [Slots -> Clients \union {NoFd}] /\ hwaiting \subseteq Clients /\ NoFd \notin Clients
    BY HttpdAssumption DEF HttpdInv, StateTyped
  <2>9. fd'[slot] = NoFd /\ \A s \in Slots : s # slot => fd'[s] = fd[s]
    BY <2>1, <2>2, <2>8
  <2>10. hapc \in {"store_active", "lock", "submit"} => hi \in Slots
    BY DEF HttpdInv, SlotsKnown
  <2>11. DescriptorsKnown'
    BY <2>1, <2>2, <2>8, <2>9, <2>10 DEF HttpdInv, DescriptorsKnown
  <2>12. ClientsHeld'
    BY <2>1, <2>2, <2>9 DEF HttpdInv, ClientsHeld, DescriptorsKnown
  <2>13. StartHolds'
    BY <2>1 DEF HttpdInv, StartHolds
  <2> QED
    BY <2>4, <2>5, <2>6, <2>7, <2>11, <2>12, <2>13 DEF HttpdInv
<1> QED
  BY <1>1, <1>2, <1>3

\* Every step of the HTTP server keeps the invariant.
LEMMA HttpdKeeps == HttpdInv /\ [HttpdNext]_httpd => HttpdInv'
<1> SUFFICES ASSUME HttpdInv, [HttpdNext]_httpd PROVE HttpdInv'
  OBVIOUS
<1> USE DEF slots, counts, accepter, mainThread, start
<1>0. response_len \in [Slots -> 0..(ResponseSize - 1)]
  BY DEF HttpdInv, StateTyped
<1>1. CASE FlushRing
  BY <1>0, <1>1, HttpdMainQuiet DEF FlushRing
<1>2. CASE HandleStale
  BY <1>2, HttpdSlot DEF HandleStale
<1>3. CASE HandleLast
  BY <1>0, <1>3, HttpdMainQuiet DEF HandleLast
<1>4. CASE HandleRequest
  <2>1. PICK r \in Requests : response_len' = [response_len EXCEPT ![slot] = build_response(Answer(r))]
    BY Zenon, <1>4 DEF HandleRequest
  <2>2. build_response(Answer(r)) \in 0..(ResponseSize - 1)
    BY HttpdAssumption, HttpdAnswers
  <2>3. response_len' \in [Slots -> 0..(ResponseSize - 1)]
    BY Zenon, <1>0, <2>1, <2>2
  <2>4. /\ hmpc = "handle" /\ hmpc' = "lock"
        /\ UNCHANGED <<held, hwaiting, open, fd, active, kernel, cq, hapc, client, hi, results, torn>>
    BY <1>4 DEF HandleRequest
  <2> QED
    BY <2>3, <2>4, HttpdMainQuiet
<1>5. CASE MainLock
  BY <1>0, <1>5, HttpdMainQuiet DEF MainLock
<1>6. CASE StartStep
  BY <1>6, HttpdStarts
<1>7. CASE Wait
  BY <1>7, HttpdWaits
<1>8. CASE SubmitWrite
  BY <1>8, HttpdSubmitsWrite
<1>9. CASE Close \/ FreeActive \/ FreeFd
  BY <1>9, HttpdCloses
<1>10. CASE AcceptStep
  BY <1>10, HttpdAccepts, HttpdSubmitsRead DEF AcceptStep
<1>11. CASE KernelStep
  BY <1>11, HttpdCompletes DEF KernelStep
<1>12. CASE UNCHANGED httpd
  <2>1. UNCHANGED <<held, hwaiting, open, fd, active, response_len, kernel, cq, hapc, client, hi, hmpc, results, torn>>
    BY <1>12 DEF httpd
  <2>2. Rest' = Rest /\ slot' = slot
    BY <2>1 DEF Rest, slot
  <2>3. InFlight' /\ \A s : Busy(s)' <=> Busy(s)
    BY <2>1, <2>2, HttpdQuiet DEF HttpdInv
  <2>4. StateTyped'
    BY <2>1 DEF HttpdInv, StateTyped
  <2>5. ActiveTyped'
    BY <2>1 DEF HttpdInv, ActiveTyped
  <2>6. SlotsKnown'
    BY SMTT(20), <2>1, <2>3 DEF HttpdInv, SlotsKnown
  <2>7. DescriptorsKnown' /\ ClientsHeld' /\ StartHolds'
    BY <2>1, <2>2 DEF HttpdInv, DescriptorsKnown, ClientsHeld, StartHolds
  <2> QED
    BY <2>3, <2>4, <2>5, <2>6, <2>7 DEF HttpdInv
<1> QED
  BY <1>1, <1>2, <1>3, <1>4, <1>5, <1>6, <1>7, <1>8, <1>9, <1>10, <1>11, <1>12 DEF HttpdNext,
     HttpdMainStep

\* Operations of different slots: no slot has two.
LEMMA HttpdOneOperation == HttpdInv => OneOperation
<1> SUFFICES ASSUME HttpdInv PROVE OneOperation
  OBVIOUS
<1> DEFINE u == Unhandled
           r == Rest
<1>1. r \in Seq(Completions) /\ cq \in Seq(Completions) /\ u = cq \o r
  <2>1. cq \in Seq(Completions) /\ results \in Seq(Completions)
    BY DEF HttpdInv, StateTyped
  <2>2. hmpc = "free_fd" => results # <<>>
    BY DEF HttpdInv, SlotsKnown
  <2>3. Rest \in Seq(Completions)
    BY <2>1, <2>2, HttpdTail DEF Rest
  <2> QED
    BY <2>1, <2>3 DEF Unhandled
<1>2. /\ \A o, p \in kernel : o.slot = p.slot => o = p
      /\ Distinct(cq) /\ Distinct(r)
      /\ \A s \in Slots : Has(r, s) => ~ Has(cq, s)
      /\ \A o \in kernel : ~ Has(cq, o.slot) /\ ~ Has(r, o.slot)
  BY DEF HttpdInv, InFlight
<1> HIDE DEF r, u, Completions
<1>3. \A q \in Seq(Completions) : \A k \in DOMAIN q : q[k].slot \in Slots
  <2>1. \A q \in Seq(Completions) : \A k \in DOMAIN q : q[k] \in Completions
    OBVIOUS
  <2>2. \A c \in Completions : c.slot \in Slots
    BY DEF Completions
  <2> QED
    BY <2>1, <2>2
<1>4. /\ DOMAIN cq = 1..Len(cq) /\ DOMAIN r = 1..Len(r) /\ Len(cq) \in Nat /\ Len(r) \in Nat
      /\ DOMAIN u = 1..(Len(cq) + Len(r))
      /\ \A k \in 1..Len(cq) : u[k] = cq[k]
      /\ \A k \in 1..(Len(cq) + Len(r)) : k > Len(cq) => u[k] = r[k - Len(cq)]
  BY <1>1
<1>5. ASSUME NEW k \in DOMAIN u
      PROVE  \/ k \in DOMAIN cq /\ u[k] = cq[k]
             \/ k - Len(cq) \in DOMAIN r /\ u[k] = r[k - Len(cq)]
  <2>1. CASE k \in 1..Len(cq)
    BY <1>4, <2>1
  <2>2. CASE k > Len(cq)
    <3>1. k - Len(cq) \in 1..Len(r)
      BY <1>4, <2>2
    <3> QED
      BY <1>4, <2>2, <3>1
  <2> QED
    BY <1>4, <2>1, <2>2
<1>6. \A s : Has(u, s) => Has(cq, s) \/ Has(r, s)
  BY <1>5 DEF Has
<1>7. Distinct(u)
  <2> SUFFICES ASSUME NEW k \in DOMAIN u, NEW l \in DOMAIN u, u[k].slot = u[l].slot PROVE k = l
    BY DEF Distinct
  <2>1. CASE k \in DOMAIN cq /\ u[k] = cq[k] /\ l \in DOMAIN cq /\ u[l] = cq[l]
    BY <1>2, <2>1 DEF Distinct
  <2>2. CASE /\ k - Len(cq) \in DOMAIN r /\ u[k] = r[k - Len(cq)]
             /\ l - Len(cq) \in DOMAIN r /\ u[l] = r[l - Len(cq)]
    <3>1. k - Len(cq) = l - Len(cq)
      BY <1>2, <2>2 DEF Distinct
    <3>2. k \in Nat /\ l \in Nat
      BY <1>4
    <3> QED
      BY <1>4, <3>1, <3>2
  <2>3. ~ \E m, n : m \in DOMAIN cq /\ n \in DOMAIN r /\ cq[m].slot = r[n].slot
    BY Zenon, <1>1, <1>2, <1>3 DEF Has
  <2> QED
    BY <1>5, <2>1, <2>2, <2>3
<1> QED
  BY <1>2, <1>6, <1>7 DEF OneOperation, u

\* ConnectionsOwned holds of every behaviour of the HTTP server, for every number
\* of slots and clients.
THEOREM HttpdConnections == HttpdSpec => []ConnectionsOwned
<1>1. HttpdInv => ConnectionsOwned
  <2> SUFFICES ASSUME HttpdInv PROVE ConnectionsOwned
    OBVIOUS
  <2>1. ResponsesFit
    <3>1. response_len \in [Slots -> 0..(ResponseSize - 1)]
      BY DEF HttpdInv, StateTyped
    <3>2. \A n \in 0..(ResponseSize - 1) : n < ResponseSize
      BY DEF ResponseSize
    <3> QED
      BY <3>1, <3>2 DEF ResponsesFit
  <2> QED
    BY <2>1, HttpdOneOperation DEF HttpdInv, ConnectionsOwned, StartHolds
<1> QED
  BY <1>1, HttpdInitially, HttpdKeeps, PTL DEF HttpdSpec

=============================================================================
