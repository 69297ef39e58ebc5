------------------------------- MODULE Strings ------------------------------
(***************************************************************************)
(* src/string.c on the memory functions of src/mem.c, over one memory of   *)
(* bytes.  A byte has ByteBits bits and a word WordSize bytes, so that the *)
(* word-at-a-time scans of strlen and memchr meet every alignment and      *)
(* every carry between bytes.                                              *)
(***************************************************************************)
EXTENDS Integers, Sequences, Bitwise

CONSTANTS ByteBits, WordSize, MemorySize

Bytes == 0..(2^ByteBits - 1)
Address == 0..(MemorySize - 1)
StringsAssumption == ByteBits >= 2 /\ WordSize >= 2 /\ MemorySize % WordSize = 0

VARIABLE memory           \* the bytes, from address 0

-----------------------------------------------------------------------------
(* Mutated forms of the operations below, for sensitivity checks only.     *)

\* Bytes are copied upwards whatever the overlap.
MovesUp(dst, src) == TRUE

\* Only the last byte of the word is looked at.
HasZeroInLast(x) == x < 2^(ByteBits * (WordSize - 1))

-----------------------------------------------------------------------------
(* mem.c                                                                   *)

WordMod == 2^(ByteBits * WordSize)
ONES == (WordMod - 1) \div (2^ByteBits - 1)
HIGHS == ONES * 2^(ByteBits - 1)
HAS_ZERO(x) == ((((x - ONES) % WordMod) & (WordMod - 1 - x)) & HIGHS) # 0

\* The word at an aligned address, its first byte the lowest.
Word(m, s) ==
    LET sum[k \in 0..WordSize] == IF k = WordSize THEN 0 ELSE m[s + k] + 2^ByteBits * sum[k + 1]
    IN  sum[0]
Aligned(s) == s % WordSize = 0

\* Bytes one at a time up to alignment, words while they hold no zero, and the
\* bytes of the word that does: the address of the terminator.
strlen(m, str) ==
    LET bytes[s \in 0..MemorySize] ==
            IF Aligned(s) THEN s ELSE IF m[s] = 0 THEN s ELSE bytes[s + 1]
        words[s \in 0..MemorySize] == IF HAS_ZERO(Word(m, s)) THEN s ELSE words[s + WordSize]
        last[s \in 0..MemorySize] == IF m[s] = 0 THEN s ELSE last[s + 1]
        s1 == bytes[str]
    IN  (IF ~ Aligned(s1) THEN s1 ELSE last[words[s1]]) - str

\* The address of the first byte c among count from src, or -1.  A word is
\* xored with c in every byte.
memchr(m, src, c, count) ==
    LET end == src + count
        bytes[s \in 0..MemorySize] == IF s >= end \/ Aligned(s) \/ m[s] = c THEN s ELSE bytes[s + 1]
        words[s \in 0..MemorySize] ==
            IF end - s < WordSize THEN s
            ELSE IF HAS_ZERO(Word(m, s) ^^ (ONES * c)) THEN s ELSE words[s + WordSize]
        rest[s \in 0..MemorySize] == IF s >= end THEN -1 ELSE IF m[s] = c THEN s ELSE rest[s + 1]
        s1 == bytes[src]
    IN  IF s1 < end /\ ~ Aligned(s1) THEN s1
        ELSE IF s1 >= end THEN -1 ELSE rest[words[s1]]

\* The difference of the first two bytes that differ, or 0.
memcmp(m, a, b, count) ==
    LET from[k \in 0..count] == IF k = count THEN 0
                                ELSE IF m[a + k] # m[b + k] THEN m[a + k] - m[b + k] ELSE from[k + 1]
    IN  from[0]

Upwards(dst, src) == dst < src

\* One byte after another, in the direction memmove chooses.
Moved(m, dst, src, count, up) ==
    LET copied[k \in 0..count] ==
            IF k = 0 THEN m
            ELSE LET j == IF up THEN k - 1 ELSE count - k
                 IN  [copied[k - 1] EXCEPT ![dst + j] = copied[k - 1][src + j]]
    IN  copied[count]

memmove(dst, src, count) == memory' = Moved(memory, dst, src, count, Upwards(dst, src))

\* Of regions that do not overlap.
memcpy(dst, src, count) ==
    /\ src + count <= dst \/ dst + count <= src
    /\ memory' = Moved(memory, dst, src, count, TRUE)

memset(dst, value, count) ==
    memory' = [a \in Address |-> IF a \in dst..(dst + count - 1) THEN value ELSE memory[a]]

-----------------------------------------------------------------------------
(* string.c: a string is an address and a length.                          *)

equal(a, a_length, b, b_length) == a_length = b_length /\ memcmp(memory, a, b, a_length) = 0

compare(a, a_length, b, b_length) ==
    LET min_length == IF a_length < b_length THEN a_length ELSE b_length
        result == memcmp(memory, a, b, min_length)
    IN  IF result # 0 THEN result
        ELSE IF a_length < b_length THEN -1 ELSE IF a_length > b_length THEN 1 ELSE 0

starts_with(str, length, prefix, prefix_length) ==
    prefix_length <= length /\ memcmp(memory, str, prefix, prefix_length) = 0

ends_with(str, length, suffix, suffix_length) ==
    /\ suffix_length <= length
    /\ memcmp(memory, str + length - suffix_length, suffix, suffix_length) = 0

find_byte(str, length, byte) ==
    LET p == memchr(memory, str, byte, length) IN IF p = -1 THEN -1 ELSE p - str

find_substring(haystack, length, needle, needle_length) ==
    LET scan[k \in Nat] == IF k > length - needle_length THEN -1
                           ELSE IF memcmp(memory, haystack + k, needle, needle_length) = 0 THEN k ELSE scan[k + 1]
    IN  IF needle_length = 0 THEN 0 ELSE IF needle_length > length THEN -1 ELSE scan[0]

contains(haystack, length, needle, needle_length) ==
    find_substring(haystack, length, needle, needle_length) >= 0

-----------------------------------------------------------------------------
Init == memory = [a \in Address |-> 0]

Region == {r \in Address \X (0..MemorySize) : r[1] + r[2] <= MemorySize}

Next == \/ \E r \in Region, src \in Address : src + r[2] <= MemorySize /\ memmove(r[1], src, r[2])
        \/ \E r \in Region, src \in Address : src + r[2] <= MemorySize /\ memcpy(r[1], src, r[2])
        \/ \E r \in Region, v \in Bytes : memset(r[1], v, r[2])

Spec == Init /\ [][Next]_memory

-----------------------------------------------------------------------------
Sub(m, s, n) == [k \in 1..n |-> m[s + k - 1]]
Least(S) == IF S = {} THEN -1 ELSE CHOOSE x \in S : \A y \in S : x <= y
Before(s, t) == \E n \in 0..Len(s) :
    /\ n <= Len(t) /\ SubSeq(s, 1, n) = SubSeq(t, 1, n)
    /\ \/ n = Len(s) /\ n < Len(t)
       \/ n < Len(s) /\ n < Len(t) /\ s[n + 1] < t[n + 1]

\* The word-at-a-time scans find what a byte-by-byte search defines, at every
\* alignment and length, and the functions on strings agree with sequences:
\* equality, lexicographic order, prefix, suffix and first occurrence.
SearchesExact ==
    /\ \A s \in Address : (\E a \in s..(MemorySize - 1) : memory[a] = 0) =>
          strlen(memory, s) = Least({n \in 0..(MemorySize - 1 - s) : memory[s + n] = 0})
    /\ \A r \in Region, c \in Bytes :
          find_byte(r[1], r[2], c) = Least({n \in 0..(r[2] - 1) : memory[r[1] + n] = c})
    /\ \A r, q \in Region :
          LET s == Sub(memory, r[1], r[2]) t == Sub(memory, q[1], q[2]) IN
          /\ equal(r[1], r[2], q[1], q[2]) <=> s = t
          /\ (compare(r[1], r[2], q[1], q[2]) < 0) <=> Before(s, t)
          /\ (compare(r[1], r[2], q[1], q[2]) = 0) <=> s = t
          /\ starts_with(r[1], r[2], q[1], q[2]) <=> (Len(t) <= Len(s) /\ SubSeq(s, 1, Len(t)) = t)
          /\ ends_with(r[1], r[2], q[1], q[2])
                <=> (Len(t) <= Len(s) /\ SubSeq(s, Len(s) - Len(t) + 1, Len(s)) = t)
          /\ find_substring(r[1], r[2], q[1], q[2])
                = Least({n \in 0..(Len(s) - Len(t)) : SubSeq(s, n + 1, n + Len(t)) = t})
          /\ contains(r[1], r[2], q[1], q[2])
                <=> \E n \in 0..(Len(s) - Len(t)) : SubSeq(s, n + 1, n + Len(t)) = t

\* memmove leaves at its destination what was at its source before the call,
\* however the two overlap, and changes nothing else.
MovesExact ==
    \A r \in Region, src \in Address : src + r[2] <= MemorySize =>
        Moved(memory, r[1], src, r[2], Upwards(r[1], src))
            = [a \in Address |-> IF a \in r[1]..(r[1] + r[2] - 1) THEN memory[src + a - r[1]] ELSE memory[a]]

=============================================================================
