------------------------------ MODULE HashMap -------------------------------
(***************************************************************************)
(* lc_hashmap of src/containers.c: Robin Hood open addressing with         *)
(* backward-shift deletion.  A key stands for its string, Hash for its     *)
(* FNV-1a hash; the map owns a heap copy of every key it holds.            *)
(***************************************************************************)
EXTENDS Naturals, FiniteSets, FiniteSetsExt, SequencesExt

CONSTANTS Keys, Values,
          Null,             \* the NULL pointer
          Hash,             \* fnv1a, a function on Keys
          InitialCapacity,  \* HASHMAP_INITIAL_CAPACITY
          LoadPercent,      \* HASHMAP_LOAD_PERCENT
          MaxCapacity       \* bound: the largest table a run grows to

HashMapAssumption ==
    /\ Null \notin Keys \union Values
    /\ Hash \in [Keys -> Nat]
    /\ InitialCapacity \in Nat \ {0}
    /\ LoadPercent \in 1..99

VARIABLES entries, capacity, count,
          copies,  \* ghost: how many heap copies of each key exist
          ref      \* ghost: what the caller stored

vars == <<entries, capacity, count, copies, ref>>

NoEntry == [key |-> Null, value |-> Null, hash |-> 0, distance |-> 0]

\* idx & (capacity - 1), for a capacity that is a power of two.
Mask(i, cap) == i % cap

-----------------------------------------------------------------------------
(* Mutated forms of the operations below, for sensitivity checks only.     *)

\* The shifted entries keep their old distances.
ShiftBackStale(es, cap, idx) ==
    LET at(n) == Mask(idx + n, cap)
        stops == {n \in 1..cap : es[at(n)].key = Null \/ es[at(n)].distance = 0}
        last == Min(stops) - 1
    IN  [i \in 0..(cap - 1) |->
            LET n == Mask(i + cap - idx, cap)
            IN  IF n < last THEN es[at(n + 1)] ELSE IF n = last THEN NoEntry ELSE es[i]]

-----------------------------------------------------------------------------
\* The loop of hashmap_insert_entry at idx: `incoming` is the entry in hand, in
\* turn the new one and those it displaces; `wanted` the new one throughout.
RECURSIVE Place(_, _, _, _, _, _)
Place(es, cap, idx, distance, incoming, wanted) ==
    LET here == es[idx]
        put == [es EXCEPT ![idx] = [incoming EXCEPT !.distance = distance]]
        next == Mask(idx + 1, cap)
    IN  IF here.key = Null
        THEN [entries |-> put, inserted |-> TRUE]
        ELSE IF here.key = wanted.key
        THEN [entries |-> [es EXCEPT ![idx].value = wanted.value], inserted |-> FALSE]
        ELSE IF distance > here.distance
        THEN Place(put, cap, next, here.distance + 1, here, wanted)
        ELSE Place(es, cap, next, distance + 1, incoming, wanted)

InsertEntry(es, cap, key, value, hash) ==
    LET new == [key |-> key, value |-> value, hash |-> hash, distance |-> 0]
    IN  Place(es, cap, Mask(hash, cap), 0, new, new)

\* hashmap_grow: reinsert what the old table holds, in its order.
Grown(es, cap, new_cap) ==
    FoldLeft(LAMBDA acc, e : IF e.key = Null THEN acc
                             ELSE InsertEntry(acc, new_cap, e.key, e.value, e.hash).entries,
             [i \in 0..(new_cap - 1) |-> NoEntry],
             [i \in 1..cap |-> es[i - 1]])

\* The probe of lc_hashmap_get, _contains and _remove: the index of the key, or
\* cap when it gives up.
RECURSIVE Probe(_, _, _, _, _)
Probe(es, cap, key, idx, distance) ==
    IF es[idx].key = Null \/ distance > es[idx].distance THEN cap
    ELSE IF es[idx].key = key THEN idx
    ELSE Probe(es, cap, key, Mask(idx + 1, cap), distance + 1)

Find(key) ==
    IF capacity = 0 THEN 0
    ELSE Probe(entries, capacity, key, Mask(Hash[key], capacity), 0)

Get(key) == IF Find(key) = capacity THEN Null ELSE entries[Find(key)].value

\* Backward-shift deletion: the entries behind idx that are away from their own
\* place move back by one.
ShiftBack(es, cap, idx) ==
    LET at(n) == Mask(idx + n, cap)
        stops == {n \in 1..cap : es[at(n)].key = Null \/ es[at(n)].distance = 0}
        last == Min(stops) - 1
    IN  [i \in 0..(cap - 1) |->
            LET n == Mask(i + cap - idx, cap)
            IN  IF n < last THEN [es[at(n + 1)] EXCEPT !.distance = @ - 1]
                ELSE IF n = last THEN NoEntry ELSE es[i]]

\* hashmap_copy_key made a copy; when the key was there, it is freed again.
CopiesAfterSet(key, inserted) ==
    IF inserted THEN [copies EXCEPT ![key] = @ + 1] ELSE copies

-----------------------------------------------------------------------------
NeedsGrow == capacity = 0 \/ (count + 1) * 100 > capacity * LoadPercent
NewCapacity == IF capacity = 0 THEN InitialCapacity ELSE capacity * 2

\* lc_hashmap_set returns LC_ERR_NOMEM when the new table cannot be allocated,
\* which changes nothing, or when the key cannot be copied: a grown table stays.
SetNoCopy ==
    /\ NeedsGrow
    /\ NewCapacity <= MaxCapacity
    /\ entries' = Grown(entries, capacity, NewCapacity)
    /\ capacity' = NewCapacity
    /\ UNCHANGED <<count, copies, ref>>

Set(key, value) ==
    /\ NeedsGrow => NewCapacity <= MaxCapacity
    /\ LET cap == IF NeedsGrow THEN NewCapacity ELSE capacity
           es == IF NeedsGrow THEN Grown(entries, capacity, cap) ELSE entries
           r == InsertEntry(es, cap, key, value, Hash[key])
       IN  /\ entries' = r.entries
           /\ capacity' = cap
           /\ count' = IF r.inserted THEN count + 1 ELSE count
           /\ copies' = CopiesAfterSet(key, r.inserted)
    /\ ref' = [ref EXCEPT ![key] = value]

\* lc_hashmap_remove of a key it finds; otherwise it returns NULL.
RemoveKey(key) ==
    /\ Find(key) # capacity
    /\ copies' = [copies EXCEPT ![key] = @ - 1]
    /\ entries' = ShiftBack(entries, capacity, Find(key))
    /\ count' = count - 1
    /\ ref' = [ref EXCEPT ![key] = Null]
    /\ UNCHANGED capacity

Destroy ==
    /\ entries' = [i \in {} |-> NoEntry]
    /\ capacity' = 0
    /\ count' = 0
    /\ copies' = [k \in Keys |->
                     copies[k] - Cardinality({i \in DOMAIN entries : entries[i].key = k})]
    /\ ref' = [k \in Keys |-> Null]

Init ==
    /\ entries = [i \in {} |-> NoEntry]
    /\ capacity = 0
    /\ count = 0
    /\ copies = [k \in Keys |-> 0]
    /\ ref = [k \in Keys |-> Null]

Next ==
    \/ SetNoCopy
    \/ \E key \in Keys : RemoveKey(key)
    \/ \E key \in Keys, value \in Values : Set(key, value)
    \/ Destroy

Spec == Init /\ [][Next]_vars

-----------------------------------------------------------------------------
Occupied == {i \in DOMAIN entries : entries[i].key # Null}

\* The types of the table; it has exactly as many slots as its capacity says.
TypeOK ==
    /\ capacity \in 0..MaxCapacity
    /\ entries \in [0..(capacity - 1) ->
                       [key : Keys \union {Null}, value : Values \union {Null},
                        hash : {Hash[k] : k \in Keys} \union {0}, distance : 0..MaxCapacity]]
    /\ count \in 0..Cardinality(Keys)
    /\ copies \in [Keys -> Nat]

\* The Robin Hood order on which a probe relies when it gives up early: each
\* entry knows its true distance, and the next slot's is at most one more.
RobinHood ==
    \A i \in Occupied :
        LET e == entries[i]
            next == entries[Mask(i + 1, capacity)]
        IN  /\ e.hash = Hash[e.key]
            /\ i = Mask(e.hash + e.distance, capacity)
            /\ next.key # Null => next.distance <= e.distance + 1

\* A probe ends: there is always an empty slot, and never more than the load
\* limit of entries.
NeverFull ==
    capacity > 0 => Cardinality(Occupied) * 100 <= capacity * LoadPercent

\* One heap copy of each key in the map and of no other: none leaks when a key
\* is set again, removed or the map destroyed, and none is freed twice.
KeysOwned == \A k \in Keys : copies[k] = IF ref[k] # Null THEN 1 ELSE 0

\* The table is the map the caller built: get returns what was last set,
\* contains says whether it was, count is exact, and iterating meets every pair
\* exactly once, after any sequence of growing, displacing and shifting; its
\* order, load and ownership of keys are as above.
IsTheMap ==
    /\ \A k \in Keys : Get(k) = ref[k]
    /\ count = Cardinality({k \in Keys : ref[k] # Null})
    /\ Cardinality(Occupied) = count
    /\ \A i \in Occupied : entries[i].value = ref[entries[i].key]
    /\ RobinHood /\ NeverFull /\ KeysOwned

=============================================================================
