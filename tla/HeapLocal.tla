----------------------------- MODULE HeapLocal ------------------------------
(***************************************************************************)
(* get_local of src/heap.c, which finds or creates the per-thread heap of  *)
(* the calling thread in a hash table keyed by tid that readers walk       *)
(* without a lock, and lc_tls_set / lc_tls_get of src/thread.c, which keep *)
(* their values in it.  Threads end, and the kernel gives their tids to    *)
(* new threads.                                                            *)
(***************************************************************************)
EXTENDS Naturals

CONSTANTS Tids,       \* a set of numbers
          TableSize,  \* HEAP_LOCAL_TABLE_SIZE
          MaxLocals,  \* mmap fails beyond this many lc_heap_local
          Nil,        \* NULL
          NoTid       \* nobody holds heap_local_table_lock

ASSUME LocalAssumption ==
    /\ Tids \subseteq Nat /\ TableSize \in Nat \ {0} /\ MaxLocals \in Nat
    /\ Nil \notin Nat /\ NoTid \notin Tids

Locals == 1..MaxLocals
Slot(t) == t % TableSize

VARIABLES table,   \* heap_local_table: the first local of each chain
          next,    \* local->next
          tid,     \* local->tid, Nil before the mapping exists
          slots,   \* one of local->tls_slots
          table_lock,    \* heap_local_table_lock
          tls,     \* the TLS register of each thread: its local, or Nil
          lpc, cur, \* each thread's position in get_local, and local variable
          wrote    \* ghost: has this thread called lc_tls_set?

locals == <<table, next, tid, slots, table_lock, tls, lpc, cur, wrote>>

memory == <<table, next, tid, slots, table_lock>>

-----------------------------------------------------------------------------
(* Mutated forms of the operations below, for sensitivity checks only.     *)

\* The prepend runs without the lock.
AcquireSkipped(t) ==
    /\ lpc[t] = "lock"
    /\ table_lock' = t
    /\ lpc' = [lpc EXCEPT ![t] = "link"]
    /\ UNCHANGED <<table, next, tid, slots, tls, cur, wrote>>

-----------------------------------------------------------------------------
\* A thread starts: CLONE_SETTLS points its register at the null sentinel.
Start(t) ==
    /\ lpc[t] = "none"
    /\ lpc' = [lpc EXCEPT ![t] = "fresh"]
    /\ tls' = [tls EXCEPT ![t] = Nil]
    /\ wrote' = [wrote EXCEPT ![t] = FALSE]
    /\ UNCHANGED <<memory, cur>>

\* get_local, slow path: load the chain's head ...
Load(t) ==
    /\ lpc[t] = "fresh"
    /\ cur' = [cur EXCEPT ![t] = table[Slot(t)]]
    /\ lpc' = [lpc EXCEPT ![t] = "walk"]
    /\ UNCHANGED <<memory, tls, wrote>>

\* ... and follow the links until a local carries the tid.
WalkChain(t) ==
    /\ lpc[t] = "walk"
    /\ \/ /\ cur[t] = Nil
          /\ lpc' = [lpc EXCEPT ![t] = "map"]
          /\ UNCHANGED <<tls, cur>>
       \/ /\ cur[t] # Nil /\ tid[cur[t]] = t
          /\ tls' = [tls EXCEPT ![t] = cur[t]]
          /\ lpc' = [lpc EXCEPT ![t] = "ready"]
          /\ UNCHANGED cur
       \/ /\ cur[t] # Nil /\ tid[cur[t]] # t
          /\ cur' = [cur EXCEPT ![t] = next[cur[t]]]
          /\ UNCHANGED <<tls, lpc>>
    /\ UNCHANGED <<memory, wrote>>

\* A zeroed mapping for a new local; when mmap fails the caller gets NULL and
\* a later call tries again.
MapLocal(t) ==
    /\ lpc[t] = "map"
    /\ \/ \E l \in Locals :
             /\ tid[l] = Nil
             /\ \A k \in Locals : tid[k] = Nil => l <= k
             /\ tid' = [tid EXCEPT ![l] = t]
             /\ slots' = [slots EXCEPT ![l] = Nil]
             /\ cur' = [cur EXCEPT ![t] = l]
             /\ lpc' = [lpc EXCEPT ![t] = "lock"]
       \/ /\ lpc' = [lpc EXCEPT ![t] = "fresh"]
          /\ UNCHANGED <<tid, slots, cur>>
    /\ UNCHANGED <<table, next, table_lock, tls, wrote>>

Acquire(t) ==
    /\ lpc[t] = "lock"
    /\ table_lock = NoTid
    /\ table_lock' = t
    /\ lpc' = [lpc EXCEPT ![t] = "link"]
    /\ UNCHANGED <<table, next, tid, slots, tls, cur, wrote>>

Link(t) ==
    /\ lpc[t] = "link"
    /\ next' = [next EXCEPT ![cur[t]] = table[Slot(t)]]
    /\ lpc' = [lpc EXCEPT ![t] = "publish"]
    /\ UNCHANGED <<table, tid, slots, table_lock, tls, cur, wrote>>

Publish(t) ==
    /\ lpc[t] = "publish"
    /\ table' = [table EXCEPT ![Slot(t)] = cur[t]]
    /\ table_lock' = NoTid
    /\ tls' = [tls EXCEPT ![t] = cur[t]]
    /\ lpc' = [lpc EXCEPT ![t] = "ready"]
    /\ UNCHANGED <<next, tid, slots, cur, wrote>>

\* lc_tls_set of the thread's own address, say.
TlsSet(t) ==
    /\ lpc[t] = "ready"
    /\ slots' = [slots EXCEPT ![tls[t]] = t]
    /\ wrote' = [wrote EXCEPT ![t] = TRUE]
    /\ UNCHANGED <<table, next, tid, table_lock, tls, lpc, cur>>

\* lc_tls_get, once the thread has its local.
TlsGet(t) == slots[tls[t]]

\* The thread function returns; its local stays in the table.
Exit(t) ==
    /\ lpc[t] \in {"fresh", "ready"}
    /\ lpc' = [lpc EXCEPT ![t] = "none"]
    /\ cur' = [cur EXCEPT ![t] = Nil]
    /\ tls' = [tls EXCEPT ![t] = Nil]
    /\ UNCHANGED <<memory, wrote>>

-----------------------------------------------------------------------------
LocalInit ==
    /\ table = [i \in 0..(TableSize - 1) |-> Nil]
    /\ next = [l \in Locals |-> Nil]
    /\ tid = [l \in Locals |-> Nil]
    /\ slots = [l \in Locals |-> Nil]
    /\ table_lock = NoTid
    /\ tls = [t \in Tids |-> Nil]
    /\ lpc = [t \in Tids |-> "none"]
    /\ cur = [t \in Tids |-> Nil]
    /\ wrote = [t \in Tids |-> FALSE]

GetLocal(t) == Load(t) \/ WalkChain(t) \/ MapLocal(t) \/ Acquire(t) \/ Link(t) \/ Publish(t)

LocalNext ==
    \E t \in Tids : Start(t) \/ GetLocal(t) \/ TlsSet(t) \/ Exit(t)

LocalSpec == LocalInit /\ [][LocalNext]_locals

-----------------------------------------------------------------------------
\* The types of the table and its chains; a thread's register is set exactly
\* when get_local has found or published its local.
LocalTypeOK ==
    /\ table \in [0..(TableSize - 1) -> Locals \union {Nil}]
    /\ next \in [Locals -> Locals \union {Nil}]
    /\ tid \in [Locals -> Tids \union {Nil}]
    /\ slots \in [Locals -> Tids \union {Nil}]
    /\ table_lock \in Tids \union {NoTid}
    /\ tls \in [Tids -> Locals \union {Nil}]
    /\ lpc \in [Tids -> {"none", "fresh", "walk", "map", "lock", "link", "publish", "ready"}]
    /\ cur \in [Tids -> Locals \union {Nil}]
    /\ wrote \in [Tids -> BOOLEAN]
    /\ \A t \in Tids : lpc[t] \in {"lock", "link", "publish"} => cur[t] # Nil
    /\ \A t \in Tids : lpc[t] = "ready" <=> tls[t] # Nil

\* The chain of slot i as a reader walks it, Nil beyond its end.
ChainWalked(i) ==
    LET walk[n \in 0..MaxLocals] ==
            IF n = 0 THEN table[i]
            ELSE IF walk[n - 1] = Nil THEN Nil ELSE next[walk[n - 1]]
    IN  walk

\* The locals on a chain.
Reachable(i) == {ChainWalked(i)[n] : n \in 0..MaxLocals} \ {Nil}

\* No thread ever works with the heap or the TLS values of another live one.
LocalsPrivate ==
    \A t, u \in Tids : tls[t] # Nil /\ tls[t] = tls[u] => t = u

\* A tid has one local for good: a thread with a recycled tid finds the local,
\* and with it the heap pages, of its predecessor instead of mapping another.
OneLocalPerTid ==
    \A l, m \in Locals : tid[l] # Nil /\ tid[l] = tid[m] => l = m

\* No insertion loses another: every local in use can be found on its chain.
NoLocalLost ==
    \A t \in Tids : tls[t] # Nil => tls[t] \in Reachable(Slot(t))

\* lc_tls_get gives a thread back what it stored with lc_tls_set, whatever
\* other threads start, exit, look up and store meanwhile.
ReadsOwnValue ==
    \A t \in Tids : lpc[t] = "ready" /\ wrote[t] => TlsGet(t) = t

\* Whatever the interleaving of lookups, insertions, exits and reused tids, a
\* tid has one local, nobody else's, that stays on its chain and keeps its
\* thread-local value.
LocalsExact == LocalsPrivate /\ OneLocalPerTid /\ NoLocalLost /\ ReadsOwnValue

-----------------------------------------------------------------------------
\* A call of get_local that has mapped its local and not published it yet.
Inserting(t) == lpc[t] \in {"lock", "link", "publish"}

\* The locals that readers can meet.
Published ==
    {l \in Locals : tid[l] # Nil /\ ~ (Inserting(tid[l]) /\ cur[tid[l]] = l)}

\* The links lead from local c to local l: l is in every set that contains c
\* and is closed under next.
ChainLeads(c, l) ==
    \A X \in SUBSET Locals :
        c \in X /\ (\A x \in X : next[x] # Nil => next[x] \in X) => l \in X

\* The chains: they hold published locals, and each of them leads, from the head
\* or from where a walk has got to, to the local the walk is looking for.
ChainsWhole ==
    /\ \A i \in 0..(TableSize - 1) : table[i] # Nil => table[i] \in Published
    /\ \A l \in Published :
        /\ next[l] # Nil => next[l] \in Published
        /\ table[Slot(tid[l])] # Nil /\ ChainLeads(table[Slot(tid[l])], l)
    /\ \A t \in Tids : lpc[t] = "walk" =>
        /\ cur[t] # Nil => cur[t] \in Published
        /\ \A l \in Published : tid[l] = t => cur[t] # Nil /\ ChainLeads(cur[t], l)

\* What a call of get_local knows between two of its steps.
LocalCallsKnow ==
    \A t \in Tids :
        /\ Inserting(t) => cur[t] \in Locals /\ tid[cur[t]] = t
        /\ lpc[t] = "map" => \A l \in Locals : tid[l] # t
        /\ lpc[t] \in {"link", "publish"} <=> table_lock = t
        /\ lpc[t] = "publish" => next[cur[t]] = table[Slot(t)]
        /\ tls[t] # Nil => tls[t] \in Published /\ tid[tls[t]] = t
        /\ lpc[t] \notin {"none", "ready"} => ~ wrote[t]

\* The inductive invariant of the proofs in module Heap_proofs.
LocalInv == LocalTypeOK /\ ChainsWhole /\ LocalCallsKnow /\ OneLocalPerTid /\ ReadsOwnValue

=============================================================================
