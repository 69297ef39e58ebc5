------------------------------- MODULE Walks --------------------------------
(***************************************************************************)
(* Facts that several proofs need: least elements of sets of numbers, and  *)
(* what a walk along a bounded number of links meets.                      *)
(***************************************************************************)
EXTENDS Naturals, FiniteSets, FiniteSetTheorems, WellFoundedInduction, TLAPS

\* Every set of numbers that is not empty has a least element.  An induction
\* in these proofs is an argument about the least counterexample.
LEMMA NatMin ==
    ASSUME NEW T \in SUBSET Nat, T # {}
    PROVE  \E m \in T : \A n \in T : m <= n
  <1> DEFINE U == {1..n : n \in T}
  <1>1. \A n \in T : IsFiniteSet(1..n)
    BY FS_Interval
  <1>2. U \subseteq FiniteSubsetsOf(Nat) /\ U # {}
    <2>1. \A n \in T : 1..n \in FiniteSubsetsOf(Nat)
      BY <1>1 DEF FiniteSubsetsOf
    <2> QED BY ZenonT(30), <2>1
  <1>3. PICK x \in U : \A y \in U : <<y, x>> \notin StrictSubsetOrdering(Nat)
    <2> HIDE DEF U
    <2> QED BY <1>2, WFMin, FS_StrictSubsetOrderingWellFounded
  <1>4. PICK m \in T : x = 1..m
    OBVIOUS
  <1>5. ASSUME NEW n \in T, n < m PROVE FALSE
    <2>1. 1..n \in U /\ 1..n \subseteq 1..m /\ m \in 1..m /\ m \notin 1..n
      BY <1>5
    <2>2. <<1..n, 1..m>> \in StrictSubsetOrdering(Nat)
      BY <2>1 DEF StrictSubsetOrdering
    <2> QED BY <2>1, <2>2, <1>3, <1>4
  <1> QED BY <1>4, <1>5

\* w is a walk of N links from c: the equation of a recursive function.
IsWalk(w, N, c, null, nxt) ==
    w = [n \in 0..N |-> IF n = 0 THEN c ELSE IF w[n - 1] = null THEN null ELSE nxt[w[n - 1]]]

\* What the walk meets.
Met(w, N, null) == {w[n] : n \in 0..N} \ {null}

\* There is one.
LEMMA WalkExists ==
    ASSUME NEW N \in Nat, NEW c, NEW null, NEW nxt
    PROVE  \E f : IsWalk(f, N, c, null, nxt)
  <1> DEFINE Body(k, f) == [n \in 0..k |->
                 IF n = 0 THEN c ELSE IF f[n - 1] = null THEN null ELSE nxt[f[n - 1]]]
  <1> DEFINE Bad == {k \in Nat : ~ \E f : f = Body(k, f)}
  <1>1. Bad = {}
    <2> SUFFICES ASSUME Bad # {} PROVE FALSE
      OBVIOUS
    <2>1. PICK m \in Bad : \A n \in Bad : m <= n
      <3>1. Bad \subseteq Nat
        OBVIOUS
      <3> HIDE DEF Bad
      <3> QED BY <3>1, NatMin
    <2>2. CASE m = 0
      <3> DEFINE f == [n \in 0..0 |-> c]
      <3>1. f = Body(0, f)
        OBVIOUS
      <3> HIDE DEF f
      <3> QED BY <2>1, <2>2, <3>1
    <2>3. CASE m # 0
      <3>0. m \in Nat
        OBVIOUS
      <3>1. m - 1 \in Nat /\ m - 1 \notin Bad /\ m \in Nat
        <4> HIDE DEF Bad
        <4> QED BY <2>1, <2>3, <3>0
      <3>2. PICK g : g = Body(m - 1, g)
        BY <3>1
      <3> DEFINE f == [n \in 0..m |->
                         IF n = m THEN IF g[m - 1] = null THEN null ELSE nxt[g[m - 1]] ELSE g[n]]
      <3>3. \A n \in 0..(m - 1) : f[n] = g[n]
        BY <3>1
      <3>4. ASSUME NEW n \in 0..m
            PROVE  f[n] = IF n = 0 THEN c ELSE IF f[n - 1] = null THEN null ELSE nxt[f[n - 1]]
        <4>1. CASE n = m
          <5>1. f[m - 1] = g[m - 1]
            BY <3>1, <3>3
          <5>2. f[m] = IF g[m - 1] = null THEN null ELSE nxt[g[m - 1]]
            BY <3>1
          <5> HIDE DEF f
          <5> QED BY <5>1, <5>2, <4>1, <2>3
        <4>2. CASE n # m
          <5>1. n \in 0..(m - 1) /\ (n # 0 => n - 1 \in 0..(m - 1))
            BY <4>2, <3>1
          <5>2. g[n] = IF n = 0 THEN c ELSE IF g[n - 1] = null THEN null ELSE nxt[g[n - 1]]
            BY <3>2, <5>1
          <5> HIDE DEF f
          <5> QED BY <5>1, <5>2, <3>3
        <4> QED BY <4>1, <4>2
      <3>5. f = Body(m, f)
        <4>1. f = [n \in 0..m |-> f[n]]
          OBVIOUS
        <4> HIDE DEF f
        <4> QED BY ZenonT(30), <3>4, <4>1
      <3> HIDE DEF f
      <3> QED BY <2>1, <3>5
    <2> QED BY <2>2, <2>3
  <1> QED BY <1>1 DEF IsWalk

\* What a walk w of N links meets, when the links of a set S of at most N
\* elements stay in S and the walk starts there: elements of S only, and every
\* element that is in each closed part of S with the start.
LEMMA WalkMeets ==
    ASSUME NEW N \in Nat, NEW S, IsFiniteSet(S), Cardinality(S) <= N,
           NEW null, null \notin S, NEW nxt,
           \A x \in S : nxt[x] = null \/ nxt[x] \in S,
           NEW c \in S \union {null}, NEW w, IsWalk(w, N, c, null, nxt)
    PROVE  /\ Met(w, N, null) \subseteq S
           /\ \A l : c # null /\ (\A X \in SUBSET S :
                         c \in X /\ (\A x \in X : nxt[x] # null => nxt[x] \in X) => l \in X)
                     => l \in Met(w, N, null)
  <1> DEFINE R == {w[n] : n \in 0..N} \ {null}
  <1>1. /\ w[0] = c
        /\ \A n \in 0..N : n # 0 => w[n] = IF w[n - 1] = null THEN null ELSE nxt[w[n - 1]]
    <2> DEFINE Def(f) == [n \in 0..N |->
                 IF n = 0 THEN c ELSE IF f[n - 1] = null THEN null ELSE nxt[f[n - 1]]]
    <2>1. w = Def(w)
      BY DEF IsWalk
    <2> QED BY SMTT(20), <2>1
  <1>2. \A n \in 0..N : w[n] \in S \union {null}
    <2> DEFINE Bad == {n \in 0..N : w[n] \notin S \union {null}}
    <2> SUFFICES ASSUME Bad # {} PROVE FALSE
      OBVIOUS
    <2>1. PICK m \in Bad : \A n \in Bad : m <= n
      <3>1. Bad \subseteq Nat
        OBVIOUS
      <3> HIDE DEF Bad
      <3> QED BY <3>1, NatMin
    <2>2. m # 0
      BY <1>1, <2>1
    <2>3. m - 1 \in 0..N /\ m - 1 \notin Bad
      BY <2>1, <2>2
    <2> QED BY <2>1, <2>2, <2>3, <1>1
  <1>3. ASSUME NEW x \in R, nxt[x] # null PROVE nxt[x] \in R
    <2>1. PICK n \in 0..N : x = w[n]
      BY <1>3
    <2>2. CASE n # N
      <3>1. n + 1 \in 0..N /\ n + 1 # 0 /\ (n + 1) - 1 = n
        BY <2>2
      <3>2. w[n + 1] = nxt[x]
        BY <3>1, <2>1, <1>1, <1>3
      <3> QED BY <3>1, <3>2, <1>3
    <2>3. CASE n = N
      <3>1. \A k \in 0..N : w[k] # null
        <4> SUFFICES ASSUME NEW k \in 0..N, w[k] = null PROVE FALSE
          OBVIOUS
        <4> DEFINE D == {j \in k..N : w[j] # null}
        <4>1. N \in D
          BY <2>1, <2>3, <1>3
        <4>2. PICK m \in D : \A j \in D : m <= j
          <5>1. D \subseteq Nat /\ D # {}
            BY <4>1
          <5> HIDE DEF D
          <5> QED BY <5>1, NatMin
        <4>3. m # k /\ m - 1 \in k..N /\ m - 1 \notin D /\ m \in 0..N /\ m # 0
          BY <4>2
        <4> QED BY <4>2, <4>3, <1>1
      <3>2. PICK a \in 0..N, b \in 0..N : a # b /\ w[a] = w[b]
        <4> DEFINE f == [k \in 0..N |-> w[k]]
        <4>1. f \in [0..N -> S]
          BY <3>1, <1>2
        <4>2. IsFiniteSet(0..N) /\ Cardinality(0..N) = N + 1
          <5>1. 0 \in Int /\ N \in Int
            OBVIOUS
          <5> QED BY <5>1, FS_Interval
        <4>3. \E a, b \in 0..N : a # b /\ f[a] = f[b]
          <5>1. Cardinality(S) \in Nat
            BY FS_CardinalityType
          <5> HIDE DEF f
          <5> QED BY <4>1, <4>2, <5>1, FS_PigeonHole
        <4> QED BY <4>3
      <3>3. ASSUME NEW p \in 0..N, NEW q \in 0..N, p < q, w[p] = w[q]
            PROVE  nxt[x] \in R
        <4> DEFINE D == {d \in 0..(N - q) : w[p + d] # w[q + d]}
        <4>1. D = {}
          <5> SUFFICES ASSUME D # {} PROVE FALSE
            OBVIOUS
          <5>1. PICK m \in D : \A j \in D : m <= j
            <6>1. D \subseteq Nat
              OBVIOUS
            <6> HIDE DEF D
            <6> QED BY <6>1, NatMin
          <5>2. m # 0
            BY <5>1, <3>3
          <5>3. m - 1 \in 0..(N - q) /\ m - 1 \notin D
            BY <5>1, <5>2
          <5>4. w[p + (m - 1)] = w[q + (m - 1)]
            BY <5>3
          <5>5. /\ p + m \in 0..N /\ p + m # 0 /\ (p + m) - 1 = p + (m - 1)
                /\ q + m \in 0..N /\ q + m # 0 /\ (q + m) - 1 = q + (m - 1)
            BY <5>1, <5>2, <3>3
          <5>6. w[p + m] = w[q + m]
            BY <5>4, <5>5, <1>1
          <5> QED BY <5>1, <5>6
        <4>2. w[p + (N - q)] = w[q + (N - q)]
          <5>1. N - q \in 0..(N - q)
            BY <3>3
          <5> QED BY <4>1, <5>1
        <4> DEFINE e == p + (N - q)
        <4>3. q + (N - q) = N /\ e \in 0..N /\ e + 1 \in 0..N
              /\ e + 1 # 0 /\ (e + 1) - 1 = e
          BY <3>3
        <4>4. w[e] = x
          BY <4>2, <4>3, <2>1, <2>3
        <4> HIDE DEF e
        <4>5. w[e + 1] = nxt[x]
          BY <4>3, <4>4, <1>1, <1>3
        <4> QED BY <4>3, <4>5, <1>3
      <3>4. a < b \/ b < a
        BY <3>2
      <3> QED BY <3>2, <3>3, <3>4
    <2> QED BY <2>2, <2>3
  <1>4. R \subseteq S /\ (c # null => c \in R)
    BY <1>1, <1>2
  <1> HIDE DEF R
  <1>5. \A l : c # null /\ (\A X \in SUBSET S :
                   c \in X /\ (\A x \in X : nxt[x] # null => nxt[x] \in X) => l \in X) => l \in R
    BY <1>3, <1>4
  <1> QED BY <1>4, <1>5 DEF R, Met

=============================================================================
