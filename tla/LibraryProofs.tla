--------------------------- MODULE LibraryProofs ----------------------------
(***************************************************************************)
(* The library for memories of any size, formats of any length and integer  *)
(* types of any width: the string functions agree, vsnprintf keeps to its   *)
(* buffer, numbers read back, and the line carries what was written.        *)
(* A loop of the code is a recursive function of the model; what it         *)
(* computes is proved by looking at the least number of turns after which   *)
(* it would not hold.                                                      *)
(***************************************************************************)
EXTENDS Library, DivisionFacts, FiniteSetTheorems, SequenceTheorems

-----------------------------------------------------------------------------
(* Least, greatest and repeated *)

LEMMA MinFacts ==
    ASSUME NEW S \in SUBSET Nat, S # {}
    PROVE  Min(S) \in S /\ \A y \in S : Min(S) <= y
<1>1. \E x \in S : \A y \in S : x <= y
  BY NatLeast
<1> QED
  BY <1>1 DEF Min

LEMMA MaxFacts ==
    ASSUME NEW n \in Nat, NEW S \in SUBSET (0..n), S # {}
    PROVE  Max(S) \in S /\ \A y \in S : y <= Max(S)
<1> DEFINE T == {n - x : x \in S}
<1>1. T \in SUBSET Nat /\ T # {}
  <2>1. PICK x \in S : TRUE
    OBVIOUS
  <2>2. n - x \in T
    BY <2>1
  <2>3. \A y \in S : n - y \in Nat
    OBVIOUS
  <2> QED
    BY <2>2, <2>3
<1>2. PICK t \in T : \A u \in T : t <= u
  BY <1>1, NatLeast
<1>3. PICK x \in S : t = n - x
  BY <1>2
<1>4. ASSUME NEW y \in S
      PROVE  y <= x
  <2>1. n - y \in T
    BY <1>4
  <2>2. n - x <= n - y
    BY <1>2, <1>3, <2>1
  <2> QED
    BY <2>2
<1>5. \E z \in S : \A y \in S : z >= y
  BY <1>4
<1> QED
  BY <1>5 DEF Max

\* What holds at the start and is kept by every one of n turns holds after each: T is where.
LEMMA Turns ==
    ASSUME NEW n \in Nat, NEW T, 0 \in T,
           \A k \in 1..n : k - 1 \in T => k \in T
    PROVE  \A k \in 0..n : k \in T
<1> DEFINE U == {k \in 0..n : k \notin T}
<1>1. SUFFICES ASSUME U # {}
               PROVE  FALSE
  OBVIOUS
<1>2. U \in SUBSET Nat
  OBVIOUS
<1>3. PICK k \in U : \A j \in U : k <= j
  BY <1>1, <1>2, NatLeast
<1>4. k \in 1..n /\ k - 1 \in 0..n /\ ~(k <= k - 1)
  BY <1>3
<1>5. k - 1 \notin U
  BY <1>3, <1>4
<1> QED
  BY <1>3, <1>4, <1>5

\* n turns of a loop: after each, what the turn makes of the value before it.
LoopBodies(n, S) == [1..n -> [S -> S]]

\* The values of the loop before its first turn and after each of its n turns.
LoopRun(g, n, S, base, step) ==
    g \in [0..n -> S] /\ g[0] = base /\ \A k \in 1..n : g[k] = step[k][g[k - 1]]

LEMMA Iteration ==
    ASSUME NEW n \in Nat, NEW S, NEW base \in S, NEW step \in LoopBodies(n, S)
    PROVE  \E g : LoopRun(g, n, S, base, step)
<1> DEFINE Runs(k, g) == g \in [0..k -> S] /\ g[0] = base
                         /\ \A j \in 1..k : g[j] = step[j][g[j - 1]]
           T == {k \in 0..n : \E g : Runs(k, g)}
<1>1. 0 \in T
  <2>1. Runs(0, [i \in 0..0 |-> base])
    OBVIOUS
  <2> HIDE DEF Runs
  <2> QED
    BY <2>1
<1>2. ASSUME NEW k \in 1..n, k - 1 \in T
      PROVE  k \in T
  <2>1. PICK g : Runs(k - 1, g)
    BY <1>2
  <2> DEFINE h == [i \in 0..k |-> IF i = k THEN step[k][g[k - 1]] ELSE g[i]]
  <2>2. step[k][g[k - 1]] \in S
    <3>1. g[k - 1] \in S /\ step[k] \in [S -> S]
      BY <2>1 DEF LoopBodies
    <3> QED
      BY <3>1
  <2>3. h \in [0..k -> S] /\ h[0] = base
    BY <2>1, <2>2
  <2>4. ASSUME NEW j \in 1..k
        PROVE  h[j] = step[j][h[j - 1]]
    <3>1. CASE j = k
      BY <3>1
    <3>2. CASE j # k
      <4>1. j \in 1..(k - 1) /\ j - 1 # k /\ j - 1 \in 0..k /\ j \in 0..k
        BY <3>2
      <4>2. g[j] = step[j][g[j - 1]]
        BY <2>1, <4>1
      <4>3. h[j] = g[j] /\ h[j - 1] = g[j - 1]
        BY <3>2, <4>1
      <4> QED
        BY <4>2, <4>3
    <3> QED
      BY <3>1, <3>2
  <2>5. Runs(k, h)
    BY <2>3, <2>4
  <2> HIDE DEF Runs
  <2> QED
    BY <2>5
<1>3. \A k \in 0..n : k \in T
  <2> HIDE DEF T
  <2> QED
    BY <1>1, <1>2, Turns
<1>4. PICK g : Runs(n, g)
  BY <1>3
<1> QED
  BY <1>4 DEF LoopRun

-----------------------------------------------------------------------------
(* Blocks of memory *)

MemoryOn(D, V) == [D -> V]

\* The loop of memcpy and memmove, turn by turn: the memory before it, and after each turn.
AssignedRun(x, M, m, d, s, offsets, n) ==
    /\ x \in [0..n -> M] /\ x[0] = m
    /\ \A k \in 1..n : x[k] = Assign(x[k - 1], d + offsets[k], s + offsets[k])
    /\ Assigned(m, d, s, offsets) = x[n]

LEMMA AssignedTurns ==
    ASSUME NEW D, NEW V, NEW m \in MemoryOn(D, V), NEW d, NEW s, NEW offsets,
           NEW n \in Nat, Len(offsets) = n,
           \A k \in 1..n : s + offsets[k] \in D
    PROVE  \E x : AssignedRun(x, MemoryOn(D, V), m, d, s, offsets, n)
<1> DEFINE step == [k \in 1..n |-> [y \in MemoryOn(D, V) |-> Assign(y, d + offsets[k], s + offsets[k])]]
           Loop(x) == x = [k \in 0..n |->
                            IF k = 0 THEN m ELSE Assign(x[k - 1], d + offsets[k], s + offsets[k])]
<1>1. step \in [1..n -> [MemoryOn(D, V) -> MemoryOn(D, V)]]
  BY DEF Assign, MemoryOn
<1>2. PICK g \in [0..n -> MemoryOn(D, V)] :
         g[0] = m /\ \A k \in 1..n : g[k] = step[k][g[k - 1]]
  <2> DEFINE S == MemoryOn(D, V)
  <2>1. m \in S /\ step \in LoopBodies(n, S)
    BY <1>1 DEF LoopBodies
  <2> HIDE DEF S, step
  <2>2. PICK g : LoopRun(g, n, S, m, step)
    BY <2>1, Iteration
  <2> QED
    BY <2>2 DEF LoopRun, S
<1>3. ASSUME NEW k \in 1..n
      PROVE  g[k] = Assign(g[k - 1], d + offsets[k], s + offsets[k])
  <2>1. k - 1 \in 0..n
    OBVIOUS
  <2>2. g[k - 1] \in MemoryOn(D, V)
    BY <1>2, <2>1
  <2>3. step[k] = [y \in MemoryOn(D, V) |-> Assign(y, d + offsets[k], s + offsets[k])]
    OBVIOUS
  <2> HIDE DEF step
  <2> QED
    BY <1>2, <2>2, <2>3
<1>4. Loop(g)
  <2>1. \A k \in 0..n : k = 0 \/ k \in 1..n
    OBVIOUS
  <2> QED
    BY <1>2, <1>3, <2>1
<1>5. ASSUME NEW x, Loop(x)
      PROVE  x = g
  <2> DEFINE T == {k \in 0..n : x[k] = g[k]}
  <2>1. 0 \in T
    BY <1>2, <1>5
  <2>2. ASSUME NEW k \in 1..n, k - 1 \in T
        PROVE  k \in T
    <3>1. k \in 0..n /\ k # 0 /\ x[k - 1] = g[k - 1]
      BY <2>2
    <3>2. x[k] = Assign(x[k - 1], d + offsets[k], s + offsets[k])
      BY <1>5, <3>1
    <3> QED
      BY <1>3, <3>1, <3>2
  <2>3. \A k \in 0..n : k \in T
    <3> HIDE DEF T
    <3> QED
      BY <2>1, <2>2, Turns
  <2> QED
    BY <1>5, <2>3
<1>6. Assigned(m, d, s, offsets) = (CHOOSE x : Loop(x))[n]
  BY Zenon DEF Assigned
<1>7. (CHOOSE x : Loop(x)) = g
  <2> HIDE DEF Loop
  <2> QED
    BY <1>4, <1>5
<1>8. AssignedRun(g, MemoryOn(D, V), m, d, s, offsets, n)
  BY <1>2, <1>3, <1>6, <1>7 DEF AssignedRun
<1> QED
  BY <1>8

\* A memory in which the n bytes at d are those that m has at s.
IsMoved(y, m, d, s, n) ==
    \A a \in DOMAIN m : y[a] = IF a \in d..d + n - 1 THEN m[s + a - d] ELSE m[a]

\* Upwards, no byte is overwritten before it is read if the target starts below the source or
\* after its end.
LEMMA UpwardsMoves ==
    ASSUME NEW D \in SUBSET Nat, NEW V, NEW m \in MemoryOn(D, V), NEW d \in Nat, NEW s \in Nat, NEW n \in Nat,
           s..s + n - 1 \subseteq D, d..d + n - 1 \subseteq D
    PROVE  /\ memcpy(m, d, s, n) \in MemoryOn(D, V)
           /\ d <= s \/ s + n <= d => IsMoved(memcpy(m, d, s, n), m, d, s, n)
<1> DEFINE offsets == Upwards(n)
<1>1. Len(offsets) = n /\ \A k \in 1..n : offsets[k] = k - 1
  BY DEF Upwards
<1> HIDE DEF offsets
<1>2. \A k \in 1..n : s + offsets[k] \in D
  BY <1>1
<1>0. PICK x : AssignedRun(x, MemoryOn(D, V), m, d, s, offsets, n)
  BY <1>1, <1>2, AssignedTurns
<1>3. /\ x \in [0..n -> MemoryOn(D, V)] /\ x[0] = m
      /\ \A k \in 1..n : x[k] = Assign(x[k - 1], d + offsets[k], s + offsets[k])
      /\ Assigned(m, d, s, offsets) = x[n]
  BY <1>0 DEF AssignedRun
<1>4. memcpy(m, d, s, n) = x[n]
  BY <1>3 DEF memcpy, offsets
<1>5. ASSUME d <= s \/ s + n <= d
      PROVE  IsMoved(x[n], m, d, s, n)
  <2> DEFINE T == {k \in 0..n : IsMoved(x[k], m, d, s, k)}
  <2>1. 0 \in T
    BY <1>3 DEF IsMoved, MemoryOn
  <2>2. ASSUME NEW k \in 1..n, k - 1 \in T
        PROVE  k \in T
    <3>1. x[k - 1] \in MemoryOn(D, V) /\ IsMoved(x[k - 1], m, d, s, k - 1)
      <4>1. k - 1 \in 0..n
        OBVIOUS
      <4> QED
        BY <1>3, <2>2, <4>1
    <3>2. x[k] = [x[k - 1] EXCEPT ![d + k - 1] = x[k - 1][s + k - 1]]
      <4>1. d + offsets[k] = d + k - 1 /\ s + offsets[k] = s + k - 1
        BY <1>1
      <4> QED
        BY <1>3, <4>1 DEF Assign
    <3>3. x[k - 1][s + k - 1] = m[s + k - 1]
      <4>1. s + k - 1 \in D /\ s + k - 1 \notin d..d + (k - 1) - 1
        BY <1>5
      <4> QED
        BY <3>1, <4>1 DEF IsMoved, MemoryOn
    <3>4. ASSUME NEW a \in D
          PROVE  x[k][a] = IF a \in d..d + k - 1 THEN m[s + a - d] ELSE m[a]
      <4>1. CASE a = d + k - 1
        <5>1. x[k][a] = m[s + k - 1] /\ s + a - d = s + k - 1 /\ a \in d..d + k - 1
          BY <3>1, <3>2, <3>3, <4>1 DEF MemoryOn
        <5> QED
          BY <5>1
      <4>2. CASE a # d + k - 1
        <5>1. x[k][a] = x[k - 1][a] /\ (a \in d..d + k - 1 <=> a \in d..d + (k - 1) - 1)
          BY <3>1, <3>2, <4>2 DEF MemoryOn
        <5> QED
          BY <3>1, <5>1 DEF IsMoved, MemoryOn
      <4> QED
        BY <4>1, <4>2
    <3>5. IsMoved(x[k], m, d, s, k)
      BY <3>4 DEF IsMoved, MemoryOn
    <3> QED
      BY <3>5
  <2>3. \A k \in 0..n : k \in T
    <3> HIDE DEF T
    <3> QED
      BY <2>1, <2>2, Turns
  <2> QED
    BY <2>3
<1> QED
  BY <1>3, <1>4, <1>5

\* Downwards, none is if the target does not start below the source.
LEMMA DownwardsMoves ==
    ASSUME NEW D \in SUBSET Nat, NEW V, NEW m \in MemoryOn(D, V), NEW d \in Nat, NEW s \in Nat, NEW n \in Nat,
           s..s + n - 1 \subseteq D, d..d + n - 1 \subseteq D, s <= d
    PROVE  /\ Assigned(m, d, s, Downwards(n)) \in MemoryOn(D, V)
           /\ IsMoved(Assigned(m, d, s, Downwards(n)), m, d, s, n)
<1> DEFINE offsets == Downwards(n)
           Top(y, k) == \A a \in D : y[a] = IF a \in d + n - k..d + n - 1 THEN m[s + a - d] ELSE m[a]
<1>1. Len(offsets) = n /\ \A k \in 1..n : offsets[k] = n - k
  BY DEF Downwards
<1> HIDE DEF offsets
<1>2. \A k \in 1..n : s + offsets[k] \in D
  BY <1>1
<1>0. PICK x : AssignedRun(x, MemoryOn(D, V), m, d, s, offsets, n)
  BY <1>1, <1>2, AssignedTurns
<1>3. /\ x \in [0..n -> MemoryOn(D, V)] /\ x[0] = m
      /\ \A k \in 1..n : x[k] = Assign(x[k - 1], d + offsets[k], s + offsets[k])
      /\ Assigned(m, d, s, offsets) = x[n]
  BY <1>0 DEF AssignedRun
<1> DEFINE T == {k \in 0..n : Top(x[k], k)}
<1>4. 0 \in T
  BY <1>3
<1>5. ASSUME NEW k \in 1..n, k - 1 \in T
      PROVE  k \in T
  <2>1. x[k - 1] \in MemoryOn(D, V) /\ Top(x[k - 1], k - 1)
    <3>1. k - 1 \in 0..n
      OBVIOUS
    <3> QED
      BY <1>3, <1>5, <3>1
  <2>2. x[k] = [x[k - 1] EXCEPT ![d + n - k] = x[k - 1][s + n - k]]
    <3>1. d + offsets[k] = d + n - k /\ s + offsets[k] = s + n - k
      BY <1>1
    <3> QED
      BY <1>3, <3>1 DEF Assign
  <2>3. x[k - 1][s + n - k] = m[s + n - k]
    <3>1. s + n - k \in D /\ s + n - k \notin d + n - (k - 1)..d + n - 1
      OBVIOUS
    <3> QED
      BY <2>1, <3>1
  <2>4. ASSUME NEW a \in D
        PROVE  x[k][a] = IF a \in d + n - k..d + n - 1 THEN m[s + a - d] ELSE m[a]
    <3>1. CASE a = d + n - k
      <4>1. x[k][a] = m[s + n - k] /\ s + a - d = s + n - k /\ a \in d + n - k..d + n - 1
        BY <2>1, <2>2, <2>3, <3>1 DEF MemoryOn
      <4> QED
        BY <4>1
    <3>2. CASE a # d + n - k
      <4>1. x[k][a] = x[k - 1][a]
            /\ (a \in d + n - k..d + n - 1 <=> a \in d + n - (k - 1)..d + n - 1)
        BY <2>1, <2>2, <3>2 DEF MemoryOn
      <4> QED
        BY <2>1, <4>1
    <3> QED
      BY <3>1, <3>2
  <2> QED
    BY <2>4
<1>6. \A k \in 0..n : k \in T
  <2> HIDE DEF T
  <2> QED
    BY <1>4, <1>5, Turns
<1>7. Top(x[n], n)
  BY <1>6
<1>8. d + n - n = d
  OBVIOUS
<1> QED
  BY <1>3, <1>7, <1>8 DEF IsMoved, offsets, MemoryOn

\* memmove moves a block wherever the target lies.
LEMMA MemmoveMoves ==
    ASSUME NEW D \in SUBSET Nat, NEW V, NEW m \in MemoryOn(D, V), NEW d \in Nat, NEW s \in Nat, NEW n \in Nat,
           s..s + n - 1 \subseteq D, d..d + n - 1 \subseteq D
    PROVE  memmove(m, d, s, n) \in MemoryOn(D, V) /\ IsMoved(memmove(m, d, s, n), m, d, s, n)
<1>1. CASE d < s
  BY <1>1, UpwardsMoves DEF memmove
<1>2. CASE ~(d < s)
  BY <1>2, DownwardsMoves DEF memmove
<1> QED
  BY <1>1, <1>2

-----------------------------------------------------------------------------
(* Strings *)

Bytes == 0..255

\* A string of length k at s: characters, then a terminator.
StringOf(m, s, k) == m[s + k] = 0 /\ \A i \in 0..k - 1 : m[s + i] # 0

LEMMA StrlenFacts ==
    ASSUME NEW n \in Nat, NEW m \in MemoryOn(1..n, Bytes), NEW s \in 1..n, IsString(m, s)
    PROVE  /\ strlen(m, s) \in 0..n - s
           /\ StringOf(m, s, strlen(m, s))
<1> DEFINE S == {a \in DOMAIN m : a >= s /\ m[a] = 0}
<1>1. DOMAIN m = 1..n
  BY DEF MemoryOn
<1>2. S \in SUBSET Nat /\ S # {}
  BY <1>1 DEF IsString
<1>3. Min(S) \in S /\ \A a \in S : Min(S) <= a
  <2> HIDE DEF S
  <2> QED
    BY <1>2, MinFacts
<1>4. strlen(m, s) = Min(S) - s
  BY DEF strlen, NULL
<1> DEFINE t == Min(S)
<1>5. t \in 1..n /\ t >= s /\ m[t] = 0
  BY <1>1, <1>3
<1>6. ASSUME NEW a \in s..t - 1
      PROVE  m[a] # 0
  <2>1. a \in 1..n /\ a >= s /\ ~(t <= a)
    BY <1>5
  <2>2. a \notin S
    BY <1>3, <2>1
  <2> QED
    BY <1>1, <2>1, <2>2
<1> HIDE DEF t
<1>7. t - s \in 0..n - s /\ s + (t - s) = t
  BY <1>5
<1>8. \A i \in 0..(t - s) - 1 : s + i \in s..t - 1
  BY <1>5
<1> QED
  BY <1>4, <1>5, <1>6, <1>7, <1>8 DEF StringOf, t

\* There is no other length.
LEMMA StrlenUnique ==
    ASSUME NEW n \in Nat, NEW m \in MemoryOn(1..n, Bytes), NEW s \in 1..n, NEW k \in 0..n - s,
           StringOf(m, s, k)
    PROVE  IsString(m, s) /\ strlen(m, s) = k
<1>1. DOMAIN m = 1..n /\ s + k \in 1..n /\ s + k >= s
  BY DEF MemoryOn
<1>2. IsString(m, s)
  BY <1>1 DEF IsString, StringOf
<1>3. strlen(m, s) \in 0..n - s /\ StringOf(m, s, strlen(m, s))
  BY <1>2, StrlenFacts
<1>4. ~(strlen(m, s) < k)
  <2>1. strlen(m, s) < k => strlen(m, s) \in 0..k - 1
    BY <1>3
  <2> QED
    BY <1>3, <2>1 DEF StringOf
<1>5. ~(k < strlen(m, s))
  <2>1. k < strlen(m, s) => k \in 0..strlen(m, s) - 1
    BY <1>3
  <2> QED
    BY <1>3, <2>1 DEF StringOf
<1> QED
  BY <1>2, <1>3, <1>4, <1>5

\* What is left of a string is one.
LEMMA StringRest ==
    ASSUME NEW n \in Nat, NEW m \in MemoryOn(1..n, Bytes), NEW s \in 1..n, IsString(m, s),
           NEW i \in 0..strlen(m, s)
    PROVE  s + i \in 1..n /\ IsString(m, s + i) /\ strlen(m, s + i) = strlen(m, s) - i
<1> DEFINE k == strlen(m, s)
<1>1. k \in 0..n - s /\ StringOf(m, s, k)
  BY StrlenFacts
<1> HIDE DEF k
<1>2. i \in 0..k
  BY DEF k
<1>3. s + i \in 1..n /\ k - i \in 0..n - (s + i)
  BY <1>1, <1>2
<1>4. StringOf(m, s + i, k - i)
  <2>1. (s + i) + (k - i) = s + k
    BY <1>1, <1>2
  <2>2. ASSUME NEW j \in 0..(k - i) - 1
        PROVE  m[(s + i) + j] # 0
    <3>1. i + j \in 0..k - 1 /\ (s + i) + j = s + (i + j)
      BY <1>1, <1>2
    <3> QED
      BY <1>1, <3>1 DEF StringOf
  <2> QED
    BY <1>1, <2>1, <2>2 DEF StringOf
<1> QED
  BY <1>3, <1>4, StrlenUnique DEF k

LEMMA FirstOfFacts ==
    ASSUME NEW S \in SUBSET (Nat \ {0})
    PROVE  /\ FirstOf(S) = NULL <=> S = {}
           /\ S # {} => FirstOf(S) \in S /\ \A a \in S : FirstOf(S) <= a
<1>1. S # {} => Min(S) \in S /\ \A a \in S : Min(S) <= a
  BY MinFacts
<1> QED
  BY <1>1 DEF FirstOf, NULL

LEMMA LastOfFacts ==
    ASSUME NEW n \in Nat, NEW S \in SUBSET (1..n)
    PROVE  /\ LastOf(S) = NULL <=> S = {}
           /\ S # {} => LastOf(S) \in S /\ \A a \in S : a <= LastOf(S)
<1>1. S # {} => Max(S) \in S /\ \A a \in S : a <= Max(S)
  <2>1. S \in SUBSET (0..n)
    OBVIOUS
  <2> QED
    BY <2>1, MaxFacts
<1>2. CASE S = {}
  BY <1>2 DEF LastOf
<1>3. CASE S # {}
  <2>1. LastOf(S) = Max(S)
    BY <1>3 DEF LastOf
  <2>2. LastOf(S) \in S /\ LastOf(S) # NULL
    BY <1>1, <1>3, <2>1 DEF NULL
  <2> QED
    BY <1>1, <1>3, <2>1, <2>2
<1> QED
  BY <1>2, <1>3

\* strchr, strrchr and memchr agree about the strings of a memory.
LEMMA SearchesRight ==
    ASSUME NEW n \in Nat, mem \in MemoryOn(1..n, Bytes), NEW s \in 1..n, IsString(mem, s),
           NEW c \in Bytes
    PROVE  SearchesAgree(s, c)
<1> DEFINE k == strlen(mem, s)
           Found(a) == {x \in a..a + strlen(mem, a) - 1 : mem[x] = c}
           first == strchr(mem, s, c)
           last == strrchr(mem, s, c)
<1>1. k \in 0..n - s /\ StringOf(mem, s, k)
  BY StrlenFacts
<1>2. first = FirstOf(Found(s)) /\ last = LastOf(Found(s))
  BY DEF strchr, strrchr
<1>3. first = memchr(mem, s, c, k)
  <2>1. c % 256 = c
    BY DEF Bytes
  <2> QED
    BY <2>1 DEF strchr, memchr
<1>4. Found(s) \in SUBSET (1..n) /\ Found(s) \in SUBSET (Nat \ {0})
  BY <1>1
<1>5. /\ first = NULL <=> Found(s) = {}
      /\ last = NULL <=> Found(s) = {}
      /\ first # NULL => /\ first \in Found(s) /\ last \in Found(s)
                         /\ \A a \in Found(s) : first <= a /\ a <= last
  <2> DEFINE S == Found(s)
  <2>1. S \in SUBSET (1..n) /\ S \in SUBSET (Nat \ {0})
    BY <1>4
  <2>2. first = FirstOf(S) /\ last = LastOf(S)
    BY <1>2
  <2> HIDE DEF S, first, last
  <2>3. /\ first = NULL <=> S = {}
        /\ S # {} => first \in S /\ \A a \in S : first <= a
    BY <2>1, <2>2, FirstOfFacts
  <2>4. /\ last = NULL <=> S = {}
        /\ S # {} => last \in S /\ \A a \in S : a <= last
    BY <2>1, <2>2, LastOfFacts
  <2> QED
    BY <2>3, <2>4 DEF S
<1>6. ASSUME first # NULL
      PROVE  strchr(mem, last, c) = last /\ strchr(mem, last + 1, c) = NULL
  <2>1. last \in s..s + k - 1 /\ mem[last] = c /\ \A a \in s..s + k - 1 : mem[a] = c => a <= last
    BY <1>5, <1>6
  <2> HIDE DEF last, k
  <2>2. last - s \in 0..k /\ last + 1 - s \in 0..k
        /\ s + (last - s) = last /\ s + (last + 1 - s) = last + 1
    BY <1>1, <2>1
  <2>3. /\ last \in 1..n /\ strlen(mem, last) = k - (last - s)
        /\ last + 1 \in 1..n /\ strlen(mem, last + 1) = k - (last + 1 - s)
    BY <2>2, StringRest DEF k
  <2>4. last \in Found(last) /\ \A a \in Found(last) : a = last
    BY <1>1, <2>1, <2>3
  <2>5. Found(last + 1) = {}
    BY <1>1, <2>1, <2>3
  <2>6. Found(last) \in SUBSET (Nat \ {0})
    BY <2>3
  <2>7. FirstOf(Found(last)) = last /\ FirstOf(Found(last + 1)) = NULL
    <3> HIDE DEF Found
    <3> QED
      BY <2>4, <2>5, <2>6, FirstOfFacts DEF FirstOf
  <2> QED
    BY <2>7 DEF strchr
<1>7. first # NULL => first <= last
  BY <1>5
<1> QED
  BY <1>3, <1>5, <1>6, <1>7 DEF SearchesAgree


-----------------------------------------------------------------------------
(* Comparisons *)

LEMMA CharFacts ==
    /\ \A x \in Bytes : Char(x) \in Chars
    /\ \A x, y \in Bytes : Char(x) = Char(y) => x = y
    /\ \A x \in Bytes : Same[Char(x)] = Char(x)
    /\ Same \in [Chars -> Int] /\ tolower \in [Chars -> Int]
    /\ \A c, d \in Chars : c - d = 0 <=> c = d
<1>1. /\ \A x \in Bytes : Char(x) \in Chars
      /\ \A x, y \in Bytes : Char(x) = Char(y) => x = y
  BY DEF Char, Chars, Bytes
<1>2. Same \in [Chars -> Int] /\ \A c \in Chars : Same[c] = c
  BY DEF Same, Chars
<1>3. tolower \in [Chars -> Int]
  BY DEF tolower, Chars
<1>4. \A c, d \in Chars : c - d = 0 <=> c = d
  BY DEF Chars
<1> QED
  BY <1>1, <1>2, <1>3, <1>4

\* Two characters that the comparison passes over.
Alike(m, a, b, as) == m[a] # 0 /\ m[b] # 0 /\ as[Char(m[a])] = as[Char(m[b])]

\* The comparison of at most k characters ends after i.
StopsAt(m, a, b, k, as, i) ==
    /\ i \in 0..k /\ i <= strlen(m, a) /\ i <= strlen(m, b)
    /\ \A j \in 0..i - 1 : Alike(m, a + j, b + j, as)
    /\ i = k \/ ~Alike(m, a + i, b + i, as)

Outcome(m, a, b, k, as, i) ==
    IF i = k THEN 0 ELSE as[Char(m[a + i])] - as[Char(m[b + i])]

ComparedAt(m, a, b, k, as, i) ==
    StopsAt(m, a, b, k, as, i) /\ Compared(m, a, b, k, as) = Outcome(m, a, b, k, as, i)

LEMMA ComparedFacts ==
    ASSUME NEW n \in Nat, NEW m \in MemoryOn(1..n, Bytes), NEW a \in 1..n, NEW b \in 1..n,
           IsString(m, a), IsString(m, b), NEW k \in Nat, NEW as
    PROVE  \E i : ComparedAt(m, a, b, k, as, i)
<1> DEFINE la == strlen(m, a)
           lb == strlen(m, b)
           L == {la, lb, k}
           Stop(i) == i = k \/ ~Alike(m, a + i, b + i, as)
           S == {i \in 0..Min(L) : Stop(i)}
           i == Min(S)
<1>1. la \in 0..n - a /\ m[a + la] = 0 /\ lb \in 0..n - b /\ m[b + lb] = 0
  BY StrlenFacts DEF StringOf
<1>2. Min(L) \in L /\ \A x \in L : Min(L) <= x
  <2>1. L \in SUBSET Nat /\ L # {}
    BY <1>1
  <2> HIDE DEF L
  <2> QED
    BY <2>1, MinFacts
<1>3. Min(L) \in Nat /\ Min(L) <= la /\ Min(L) <= lb /\ Min(L) <= k
      /\ (Min(L) = la \/ Min(L) = lb \/ Min(L) = k)
  BY <1>1, <1>2
<1>4. Stop(Min(L))
  <2> HIDE DEF L, la, lb
  <2>1. CASE Min(L) = la
    BY <1>1, <2>1 DEF Alike
  <2>2. CASE Min(L) = lb
    BY <1>1, <2>2 DEF Alike
  <2> QED
    BY <1>3, <2>1, <2>2
<1> HIDE DEF L, la, lb
<1>5. S \in SUBSET Nat /\ Min(L) \in S
  <2> DEFINE top == Min(L)
  <2>1. top \in Nat /\ Stop(top) /\ S = {j \in 0..top : Stop(j)}
    BY <1>3, <1>4
  <2> HIDE DEF top, Stop, S
  <2> QED
    BY <2>1 DEF top
<1>6. i \in S /\ \A j \in S : i <= j
  <2> HIDE DEF S
  <2> QED
    BY <1>5, MinFacts
<1>7. i \in 0..Min(L) /\ Stop(i)
  BY <1>6
<1>8. ASSUME NEW j \in 0..i - 1
      PROVE  Alike(m, a + j, b + j, as)
  <2>1. j \in 0..Min(L) /\ ~(i <= j)
    BY <1>3, <1>7
  <2>2. ~Stop(j)
    BY <1>6, <2>1
  <2> QED
    BY <2>2
<1>10. S = {j \in 0..Min({strlen(m, a), strlen(m, b), k}) :
               \/ j = k \/ m[a + j] = 0 \/ m[b + j] = 0
               \/ as[Char(m[a + j])] # as[Char(m[b + j])]}
  BY DEF Alike, L, la, lb
<1>9. a # NULL /\ b # NULL
  BY DEF NULL
<1> HIDE DEF S
<1>11. Compared(m, a, b, k, as) = Outcome(m, a, b, k, as, i)
  BY <1>9, <1>10, Zenon DEF Compared, Outcome
<1> HIDE DEF i
<1>12. StopsAt(m, a, b, k, as, i)
  <2>1. i \in 0..k /\ i <= la /\ i <= lb
    BY <1>1, <1>3, <1>7
  <2> QED
    BY <1>7, <1>8, <2>1 DEF StopsAt, la, lb
<1>13. ComparedAt(m, a, b, k, as, i)
  BY <1>11, <1>12 DEF ComparedAt
<1> QED
  BY <1>13

LEMMA StopsOnce ==
    ASSUME NEW m, NEW a, NEW b, NEW k \in Nat, NEW as, NEW i, NEW j,
           StopsAt(m, a, b, k, as, i), StopsAt(m, a, b, k, as, j)
    PROVE  i = j
<1>1. i \in 0..k /\ j \in 0..k
  BY DEF StopsAt
<1>2. ~(i < j)
  <2>1. i < j => i # k /\ i \in 0..j - 1
    BY <1>1
  <2> QED
    BY <2>1 DEF StopsAt
<1>3. ~(j < i)
  <2>1. j < i => j # k /\ j \in 0..i - 1
    BY <1>1
  <2> QED
    BY <2>1 DEF StopsAt
<1> QED
  BY <1>1, <1>2, <1>3

\* Where a comparison stops for as, it stops for bs if bs takes no more characters for equal.
LEMMA StopsMono ==
    ASSUME NEW n \in Nat, NEW m \in MemoryOn(1..n, Bytes), NEW a \in 1..n, NEW b \in 1..n,
           IsString(m, a), IsString(m, b), NEW k \in Nat, NEW as \in [Chars -> Int],
           Compared(m, a, b, k, Same) = 0
    PROVE  Compared(m, a, b, k, as) = 0
<1>0. PICK i : ComparedAt(m, a, b, k, Same, i)
  BY ComparedFacts
<1>1. StopsAt(m, a, b, k, Same, i) /\ Compared(m, a, b, k, Same) = Outcome(m, a, b, k, Same, i)
  BY <1>0 DEF ComparedAt
<1>2. strlen(m, a) \in 0..n - a /\ strlen(m, b) \in 0..n - b
  BY StrlenFacts
<1>3. \A j \in 0..i : a + j \in 1..n /\ b + j \in 1..n /\ m[a + j] \in Bytes /\ m[b + j] \in Bytes
  BY <1>1, <1>2 DEF StopsAt, MemoryOn
<1>4. i # k => m[a + i] = m[b + i]
  <2>1. SUFFICES ASSUME i # k
                 PROVE  m[a + i] = m[b + i]
    OBVIOUS
  <2>2. i \in 0..i
    BY <1>1 DEF StopsAt
  <2>3. m[a + i] \in Bytes /\ m[b + i] \in Bytes
    BY <1>3, <2>2
  <2>4. Same[Char(m[a + i])] - Same[Char(m[b + i])] = 0
    BY <1>1, <2>1 DEF Outcome
  <2>5. Char(m[a + i]) \in Chars /\ Char(m[b + i]) \in Chars
        /\ Same[Char(m[a + i])] = Char(m[a + i]) /\ Same[Char(m[b + i])] = Char(m[b + i])
    BY <2>3, CharFacts
  <2>6. Char(m[a + i]) = Char(m[b + i])
    BY <2>4, <2>5, CharFacts
  <2> QED
    BY <2>3, <2>6, CharFacts
<1>5. ASSUME NEW j \in 0..i - 1
      PROVE  m[a + j] = m[b + j] /\ m[a + j] # 0
  <2>1. Alike(m, a + j, b + j, Same) /\ j \in 0..i
    BY <1>1 DEF StopsAt
  <2>2. m[a + j] \in Bytes /\ m[b + j] \in Bytes
    BY <1>3, <2>1
  <2> QED
    BY <2>1, <2>2, CharFacts DEF Alike
<1>6. StopsAt(m, a, b, k, as, i)
  <2>1. \A j \in 0..i - 1 : Alike(m, a + j, b + j, as)
    BY <1>5 DEF Alike
  <2>2. i = k \/ ~Alike(m, a + i, b + i, as)
    <3>1. CASE i # k
      <4>1. Same[Char(m[a + i])] = Same[Char(m[b + i])]
        BY <1>4, <3>1
      <4> QED
        BY <1>1, <3>1, <4>1 DEF StopsAt, Alike
    <3> QED
      BY <3>1
  <2> QED
    BY <1>1, <2>1, <2>2 DEF StopsAt
<1>10. PICK j : ComparedAt(m, a, b, k, as, j)
  BY ComparedFacts
<1>7. StopsAt(m, a, b, k, as, j) /\ Compared(m, a, b, k, as) = Outcome(m, a, b, k, as, j)
  BY <1>10 DEF ComparedAt
<1>8. i = j
  BY <1>6, <1>7, StopsOnce
<1>9. i # k => as[Char(m[a + i])] - as[Char(m[b + i])] = 0
  <2>1. SUFFICES ASSUME i # k
                 PROVE  as[Char(m[a + i])] - as[Char(m[b + i])] = 0
    OBVIOUS
  <2>2. i \in 0..i
    BY <1>1 DEF StopsAt
  <2>3. Char(m[a + i]) \in Chars
    BY <1>3, <2>2, CharFacts
  <2>4. \A c \in Chars : as[c] - as[c] = 0
    <3>1. \A c \in Chars : as[c] \in Int
      OBVIOUS
    <3>2. \A v \in Int : v - v = 0
      OBVIOUS
    <3> QED
      BY <3>1, <3>2
  <2> QED
    BY <1>4, <2>1, <2>3, <2>4
<1> QED
  BY <1>7, <1>8, <1>9 DEF Outcome

\* Equal up to k: the first k characters agree, or all do up to and with the terminators.
LEMMA EqualMeans ==
    ASSUME NEW n \in Nat, NEW m \in MemoryOn(1..n, Bytes), NEW a \in 1..n, NEW b \in 1..n,
           IsString(m, a), IsString(m, b), NEW k \in Nat
    PROVE  Compared(m, a, b, k, Same) = 0 <=>
             \/ /\ k <= strlen(m, a) /\ k <= strlen(m, b)
                /\ \A j \in 0..k - 1 : m[a + j] = m[b + j]
             \/ /\ strlen(m, a) = strlen(m, b)
                /\ \A j \in 0..strlen(m, a) - 1 : m[a + j] = m[b + j]
<1> DEFINE la == strlen(m, a)
           lb == strlen(m, b)
           Agree(h) == \A j \in 0..h - 1 : m[a + j] = m[b + j]
<1>0. PICK i : ComparedAt(m, a, b, k, Same, i)
  BY ComparedFacts
<1>1. StopsAt(m, a, b, k, Same, i) /\ Compared(m, a, b, k, Same) = Outcome(m, a, b, k, Same, i)
  BY <1>0 DEF ComparedAt
<1>2. la \in 0..n - a /\ lb \in 0..n - b /\ StringOf(m, a, la) /\ StringOf(m, b, lb)
  BY StrlenFacts
<1>3. i \in 0..k /\ i <= la /\ i <= lb
  BY <1>1 DEF StopsAt
<1> HIDE DEF la, lb
<1>4. \A j \in Nat : j <= la /\ j <= lb => m[a + j] \in Bytes /\ m[b + j] \in Bytes
  BY <1>2 DEF MemoryOn
<1>5. Agree(i)
  <2> SUFFICES ASSUME NEW j \in 0..i - 1
               PROVE  m[a + j] = m[b + j]
    OBVIOUS
  <2>1. Alike(m, a + j, b + j, Same) /\ j \in Nat /\ j <= la /\ j <= lb
    BY <1>1, <1>2, <1>3 DEF StopsAt
  <2> QED
    BY <1>4, <2>1, CharFacts DEF Alike
<1>6. ASSUME i # k
      PROVE  /\ Compared(m, a, b, k, Same) = 0 <=> m[a + i] = m[b + i]
             /\ m[a + i] = m[b + i] => m[a + i] = 0
  <2>1. m[a + i] \in Bytes /\ m[b + i] \in Bytes
    BY <1>3, <1>4
  <2>2. Same[Char(m[a + i])] = Char(m[a + i]) /\ Same[Char(m[b + i])] = Char(m[b + i])
        /\ Char(m[a + i]) \in Chars /\ Char(m[b + i]) \in Chars
    BY <2>1, CharFacts
  <2>3. Compared(m, a, b, k, Same) = Char(m[a + i]) - Char(m[b + i])
    BY <1>1, <1>6, <2>2 DEF Outcome
  <2>4. Compared(m, a, b, k, Same) = 0 <=> Char(m[a + i]) = Char(m[b + i])
    BY <2>2, <2>3, CharFacts
  <2>5. ~Alike(m, a + i, b + i, Same)
    BY <1>1, <1>6 DEF StopsAt
  <2> QED
    BY <2>1, <2>4, <2>5, CharFacts DEF Alike
<1>7. CASE i = k
  <2>1. Compared(m, a, b, k, Same) = 0
    BY <1>1, <1>7 DEF Outcome
  <2> QED
    BY <1>3, <1>5, <1>7, <2>1 DEF la, lb
<1>8. CASE i # k
  <2>1. ASSUME Compared(m, a, b, k, Same) = 0
        PROVE  la = lb /\ Agree(la)
    <3>1. m[a + i] = 0 /\ m[b + i] = 0
      BY <1>6, <1>8, <2>1
    <3>2. i = la
      BY <1>2, <1>3, <3>1 DEF StringOf
    <3>3. i = lb
      BY <1>2, <1>3, <3>1 DEF StringOf
    <3> QED
      BY <1>5, <3>2, <3>3
  <2>2. ASSUME k <= la, k <= lb, Agree(k)
        PROVE  Compared(m, a, b, k, Same) = 0
    <3>1. i \in 0..k - 1
      BY <1>3, <1>8
    <3> QED
      BY <1>6, <1>8, <2>2, <3>1
  <2>3. ASSUME la = lb, Agree(la)
        PROVE  Compared(m, a, b, k, Same) = 0
    <3>1. CASE i = la
      BY <1>2, <1>6, <1>8, <2>3, <3>1 DEF StringOf
    <3>2. CASE i # la
      <4>1. i \in 0..la - 1
        BY <1>2, <1>3, <3>2
      <4> QED
        BY <1>6, <1>8, <2>3, <4>1
    <3> QED
      BY <3>1, <3>2
  <2> QED
    BY <2>1, <2>2, <2>3 DEF la, lb
<1> QED
  BY <1>7, <1>8

LEMMA MemcmpMeans ==
    ASSUME NEW n \in Nat, NEW m \in MemoryOn(1..n, Bytes), NEW a \in 1..n, NEW b \in 1..n,
           NEW k \in Nat, a + k - 1 <= n, b + k - 1 <= n
    PROVE  memcmp(m, a, b, k) = 0 <=> \A j \in 0..k - 1 : m[a + j] = m[b + j]
<1> DEFINE differ == {i \in 0..k - 1 : m[a + i] # m[b + i]}
           i == Min(differ)
<1>1. CASE differ = {}
  <2>1. memcmp(m, a, b, k) = 0
    BY <1>1 DEF memcmp
  <2> QED
    BY <1>1, <2>1
<1>2. CASE differ # {}
  <2>1. differ \in SUBSET Nat
    OBVIOUS
  <2>2. i \in differ
    <3> HIDE DEF differ
    <3> QED
      BY <1>2, <2>1, MinFacts
  <2>3. i \in 0..k - 1 /\ m[a + i] # m[b + i]
    BY <2>2
  <2>4. memcmp(m, a, b, k) = Char(m[a + i]) - Char(m[b + i])
    BY <1>2 DEF memcmp
  <2> HIDE DEF i
  <2>5. m[a + i] \in Bytes /\ m[b + i] \in Bytes
    BY <2>3 DEF MemoryOn
  <2> QED
    BY <2>3, <2>4, <2>5, CharFacts
<1> QED
  BY <1>1, <1>2

LEMMA PrefixMeans ==
    ASSUME NEW m, NEW x \in Nat, NEW b \in Nat, strlen(m, x) \in Nat, strlen(m, b) \in Nat
    PROVE  IsPrefix(StringAt(m, b), StringAt(m, x)) <=>
             /\ strlen(m, b) <= strlen(m, x)
             /\ \A j \in 0..strlen(m, b) - 1 : m[x + j] = m[b + j]
<1> DEFINE l == strlen(m, b)
           u == StringAt(m, b)
           v == StringAt(m, x)
<1>1. /\ Len(u) = l /\ \A i \in 1..l : u[i] = m[b + i - 1]
      /\ Len(v) = strlen(m, x) /\ \A i \in 1..strlen(m, x) : v[i] = m[x + i - 1]
  BY DEF StringAt
<1> HIDE DEF u, v
<1>2. ASSUME l <= strlen(m, x)
      PROVE  SubSeq(u, 1, l) = SubSeq(v, 1, l) <=> \A j \in 0..l - 1 : m[x + j] = m[b + j]
  <2>1. SubSeq(u, 1, l) = [i \in 1..l |-> m[b + i - 1]]
        /\ SubSeq(v, 1, l) = [i \in 1..l |-> m[x + i - 1]]
    BY <1>1, <1>2
  <2>2. SubSeq(u, 1, l) = SubSeq(v, 1, l) <=> \A i \in 1..l : m[x + i - 1] = m[b + i - 1]
    BY <2>1
  <2>3. ASSUME \A i \in 1..l : m[x + i - 1] = m[b + i - 1], NEW j \in 0..l - 1
        PROVE  m[x + j] = m[b + j]
    <3>1. j + 1 \in 1..l /\ x + (j + 1) - 1 = x + j /\ b + (j + 1) - 1 = b + j
      OBVIOUS
    <3> QED
      BY <2>3, <3>1
  <2>4. ASSUME \A j \in 0..l - 1 : m[x + j] = m[b + j], NEW i \in 1..l
        PROVE  m[x + i - 1] = m[b + i - 1]
    <3>1. i - 1 \in 0..l - 1 /\ x + (i - 1) = x + i - 1 /\ b + (i - 1) = b + i - 1
      OBVIOUS
    <3> QED
      BY <2>4, <3>1
  <2> QED
    BY <2>2, <2>3, <2>4
<1>3. IsPrefix(u, v) <=> Len(u) <= Len(v) /\ SubSeq(u, 1, Len(u)) = SubSeq(v, 1, Len(u))
  BY DEF IsPrefix
<1>4. IsPrefix(u, v) <=> l <= strlen(m, x) /\ SubSeq(u, 1, l) = SubSeq(v, 1, l)
  BY <1>1, <1>3
<1>5. IsPrefix(u, v) <=> l <= strlen(m, x) /\ \A j \in 0..l - 1 : m[x + j] = m[b + j]
  <2> HIDE DEF l
  <2> QED
    BY <1>2, <1>4
<1> QED
  BY <1>5 DEF u, v

\* The comparisons and strstr agree about the strings of a memory.
LEMMA ComparesRight ==
    ASSUME NEW n \in Nat, mem \in MemoryOn(1..n, Bytes), NEW a \in 1..n, NEW b \in 1..n,
           IsString(mem, a), IsString(mem, b)
    PROVE  ComparesAgree(a, b)
<1> DEFINE la == strlen(mem, a)
           lb == strlen(mem, b)
           k == NoLimit(mem)
           found == strstr(mem, a, b)
<1>1. la \in 0..n - a /\ lb \in 0..n - b
  BY StrlenFacts
<1>2. k = n + 1 /\ k \in Nat
  <2>1. DOMAIN mem = 1..n
    BY DEF MemoryOn
  <2>2. Cardinality(1..n) = n
    BY FS_Interval
  <2> QED
    BY <2>1, <2>2 DEF NoLimit
<1> HIDE DEF la, lb, k, found
<1>3. strcmp(mem, a, b) = 0 <=> (la = lb /\ memcmp(mem, a, b, lb) = 0)
  <2>1. strcmp(mem, a, b) = Compared(mem, a, b, k, Same)
    BY DEF strcmp, k
  <2>2. strcmp(mem, a, b) = 0 <=> (la = lb /\ \A j \in 0..la - 1 : mem[a + j] = mem[b + j])
    BY <1>1, <1>2, <2>1, EqualMeans DEF la, lb
  <2>3. ASSUME la = lb
        PROVE  memcmp(mem, a, b, lb) = 0 <=> \A j \in 0..la - 1 : mem[a + j] = mem[b + j]
    <3>1. a + la - 1 <= n /\ b + la - 1 <= n /\ la \in Nat
      BY <1>1, <2>3
    <3>2. memcmp(mem, a, b, la) = 0 <=> \A j \in 0..la - 1 : mem[a + j] = mem[b + j]
      BY <3>1, MemcmpMeans
    <3> QED
      BY <2>3, <3>2
  <2> QED
    BY <2>2, <2>3
<1>4. strcmp(mem, a, b) > 0 <=> strcmp(mem, b, a) < 0
  <2>1. PICK i : ComparedAt(mem, a, b, k, Same, i)
    BY <1>2, ComparedFacts
  <2>2. PICK j : ComparedAt(mem, b, a, k, Same, j)
    BY <1>2, ComparedFacts
  <2>3. StopsAt(mem, a, b, k, Same, i) /\ StopsAt(mem, a, b, k, Same, j)
    BY <2>1, <2>2 DEF ComparedAt, StopsAt, Alike
  <2>4. i = j
    BY <1>2, <2>3, StopsOnce
  <2>5. strcmp(mem, a, b) = Outcome(mem, a, b, k, Same, i)
        /\ strcmp(mem, b, a) = Outcome(mem, b, a, k, Same, i)
    BY <2>1, <2>2, <2>4 DEF ComparedAt, strcmp, k
  <2>6. i # k => Same[Char(mem[a + i])] \in Int /\ Same[Char(mem[b + i])] \in Int
    <3>1. i \in Nat /\ i <= la /\ i <= lb
      BY <2>3 DEF StopsAt, la, lb
    <3>2. mem[a + i] \in Bytes /\ mem[b + i] \in Bytes
      BY <1>1, <3>1 DEF MemoryOn
    <3> QED
      BY <3>2, CharFacts
  <2> QED
    BY <2>5, <2>6 DEF Outcome
<1>5. strcmp(mem, a, b) = 0 => stricmp(mem, a, b) = 0
  BY <1>2, StopsMono, CharFacts DEF strcmp, stricmp, k
<1>6. ASSUME NEW i \in 0..lb, strncmp(mem, a, b, i) = 0
      PROVE  strnicmp(mem, a, b, i) = 0
  <2>1. i \in Nat
    BY <1>1
  <2> QED
    BY <1>6, <2>1, StopsMono, CharFacts DEF strncmp, strnicmp
<1> DEFINE S == {x \in a..a + la - 1 : IsPrefix(StringAt(mem, b), StringAt(mem, x))}
<1>7. ASSUME NEW x \in a..a + la - 1
      PROVE  x \in S <=> strncmp(mem, x, b, lb) = 0
  <2>1. x - a \in 0..la /\ a + (x - a) = x
    BY <1>1
  <2>2. x \in 1..n /\ IsString(mem, x) /\ strlen(mem, x) = la - (x - a)
    BY <2>1, StringRest DEF la
  <2>3. strlen(mem, x) \in Nat /\ lb \in Nat /\ x \in Nat /\ b \in Nat
    BY <1>1, <2>1, <2>2
  <2>4. x \in S <=> /\ lb <= strlen(mem, x)
                    /\ \A j \in 0..lb - 1 : mem[x + j] = mem[b + j]
    BY <2>3, PrefixMeans DEF lb
  <2>5. strncmp(mem, x, b, lb) = 0 <=>
          \/ /\ lb <= strlen(mem, x) /\ lb <= lb
             /\ \A j \in 0..lb - 1 : mem[x + j] = mem[b + j]
          \/ /\ strlen(mem, x) = lb
             /\ \A j \in 0..strlen(mem, x) - 1 : mem[x + j] = mem[b + j]
    BY <2>2, <2>3, EqualMeans DEF strncmp, lb
  <2>6. ASSUME strlen(mem, x) = lb, \A j \in 0..strlen(mem, x) - 1 : mem[x + j] = mem[b + j]
        PROVE  lb <= strlen(mem, x) /\ \A j \in 0..lb - 1 : mem[x + j] = mem[b + j]
    BY <2>3, <2>6
  <2>7. lb <= lb
    BY <2>3
  <2> HIDE DEF S
  <2> QED
    BY <2>4, <2>5, <2>6, <2>7
<1>8. S \in SUBSET (Nat \ {0})
  BY <1>1
<1>9. found = FirstOf(S)
  BY DEF found, strstr, la
<1>10. \A x \in S : x \in a..a + la - 1
  OBVIOUS
<1> HIDE DEF S
<1>11. /\ found = NULL <=> S = {}
       /\ S # {} => found \in S /\ \A x \in S : found <= x
  BY <1>8, <1>9, FirstOfFacts
<1>12. found # NULL => strncmp(mem, found, b, lb) = 0
  BY <1>7, <1>10, <1>11
<1>13. ASSUME NEW x \in a..a + la - 1, strncmp(mem, x, b, lb) = 0
       PROVE  found \in a..x
  <2>1. x \in S
    BY <1>7, <1>13
  <2>2. found \in S /\ found <= x
    BY <1>11, <2>1
  <2> QED
    BY <1>10, <2>2
<1> QED
  BY <1>3, <1>4, <1>5, <1>6, <1>12, <1>13 DEF ComparesAgree, la, lb, found

-----------------------------------------------------------------------------
(* Calls that move bytes *)

MemTyped(m) == \E n \in Nat : m \in MemoryOn(1..n, Bytes)

LEMMA RoomMeans ==
    ASSUME NEW n \in Nat, mem \in MemoryOn(1..n, Bytes), NEW a \in Addr, NEW k \in Nat, Room(a, k)
    PROVE  a \in 1..n /\ a..a + k - 1 \subseteq 1..n
<1>1. Addr = 1..n
  BY DEF Addr, MemoryOn
<1> QED
  BY <1>1 DEF Room

LEMMA MinOfTwo ==
    ASSUME NEW x \in Nat, NEW y \in Nat
    PROVE  Min({x, y}) = IF x <= y THEN x ELSE y
<1>1. {x, y} \in SUBSET Nat /\ {x, y} # {}
  OBVIOUS
<1>2. Min({x, y}) \in {x, y} /\ \A z \in {x, y} : Min({x, y}) <= z
  BY <1>1, MinFacts
<1> QED
  BY <1>2

\* strncpy to a place with room for k characters.
LEMMA StrncpyTyped ==
    ASSUME NEW n \in Nat, mem \in MemoryOn(1..n, Bytes), NEW d \in Nat, NEW s \in 1..n, NEW k \in Nat,
           IsString(mem, s), d..d + k - 1 \subseteq 1..n
    PROVE  strncpy(mem, d, s, k) \in MemoryOn(1..n, Bytes)
<1> DEFINE l == Min({strlen(mem, s), k})
<1>1. strlen(mem, s) \in 0..n - s
  BY StrlenFacts
<1>2. l \in Nat /\ l <= strlen(mem, s) /\ l <= k
  BY <1>1, MinOfTwo
<1> HIDE DEF l
<1>3. s..s + l - 1 \subseteq 1..n /\ d..d + l - 1 \subseteq 1..n
  BY <1>1, <1>2
<1>4. 1..n \in SUBSET Nat
  OBVIOUS
<1>5. memcpy(mem, d, s, l) \in MemoryOn(1..n, Bytes)
  BY <1>2, <1>3, <1>4, UpwardsMoves
<1> QED
  BY <1>5 DEF strncpy, l

LEMMA BlockCallTyped ==
    ASSUME MemTyped(mem), NEW d \in Addr, NEW s \in Addr, NEW k \in Nat,
           Memcpy(d, s, k) \/ Memmove(d, s, k) \/ Memset(d, mem[s], k)
    PROVE  MemTyped(mem')
<1>1. PICK n \in Nat : mem \in MemoryOn(1..n, Bytes)
  BY DEF MemTyped
<1>2. Addr = 1..n
  BY <1>1 DEF Addr, MemoryOn
<1>3. 1..n \in SUBSET Nat
  OBVIOUS
<1>4. CASE Memcpy(d, s, k)
  <2>1. d..d + k - 1 \subseteq 1..n /\ s..s + k - 1 \subseteq 1..n
    BY <1>1, <1>4, RoomMeans DEF Memcpy
  <2>2. memcpy(mem, d, s, k) \in MemoryOn(1..n, Bytes)
    BY <1>1, <1>2, <1>3, <2>1, UpwardsMoves
  <2> QED
    BY <1>4, <2>2 DEF Memcpy, Stores, MemTyped
<1>5. CASE Memmove(d, s, k)
  <2>1. d..d + k - 1 \subseteq 1..n /\ s..s + k - 1 \subseteq 1..n
    BY <1>1, <1>5, RoomMeans DEF Memmove
  <2>2. memmove(mem, d, s, k) \in MemoryOn(1..n, Bytes)
    BY <1>1, <1>2, <1>3, <2>1, MemmoveMoves
  <2> QED
    BY <1>5, <2>2 DEF Memmove, Stores, MemTyped
<1>6. CASE Memset(d, mem[s], k)
  <2>0. mem[s] \in Bytes /\ \A x \in Bytes : x % 256 \in Bytes
    BY <1>1, <1>2 DEF MemoryOn, Bytes
  <2>1. mem[s] % 256 \in Bytes
    BY <2>0
  <2>2. memset(mem, d, mem[s], k) \in MemoryOn(1..n, Bytes)
    BY <1>1, <2>1 DEF memset, MemoryOn
  <2> QED
    BY <1>6, <2>2 DEF Memset, Stores, MemTyped
<1> QED
  BY <1>4, <1>5, <1>6

LEMMA StringCallTyped ==
    ASSUME MemTyped(mem), NEW d \in Addr, NEW s \in Addr, NEW k \in Nat,
           Strcpy(d, s) \/ Strncpy(d, s, k) \/ Strcat(d, s) \/ Strncat(d, s, k)
    PROVE  MemTyped(mem')
<1>1. PICK n \in Nat : mem \in MemoryOn(1..n, Bytes)
  BY DEF MemTyped
<1>2. Addr = 1..n /\ d \in 1..n /\ s \in 1..n
  BY <1>1 DEF Addr, MemoryOn
<1>3. ASSUME NEW m \in MemoryOn(1..n, Bytes), Stores(m)
      PROVE  MemTyped(mem')
  BY <1>3 DEF Stores, MemTyped
<1>4. ASSUME NEW j \in Nat, Takes(d, s, j)
      PROVE  IsString(mem, s) /\ d..d + j \subseteq 1..n
  <2>1. j + 1 \in Nat /\ d + (j + 1) - 1 = d + j
    BY <1>2
  <2> QED
    BY <1>1, <1>4, <2>1, RoomMeans DEF Takes
<1>5. IsString(mem, s) => strlen(mem, s) \in Nat
  BY <1>1, <1>2, StrlenFacts
<1>6. IsString(mem, d) => strlen(mem, d) \in Nat
  BY <1>1, <1>2, StrlenFacts
<1>7. CASE Strcpy(d, s)
  <2> DEFINE j == strlen(mem, s)
  <2>1. j \in Nat /\ IsString(mem, s) /\ d..d + j \subseteq 1..n
    BY <1>4, <1>5, <1>7 DEF Strcpy, Takes
  <2> HIDE DEF j
  <2>2. d..d + j - 1 \subseteq 1..n
    BY <1>2, <2>1
  <2>3. strncpy(mem, d, s, j) \in MemoryOn(1..n, Bytes)
    BY <1>1, <1>2, <2>1, <2>2, StrncpyTyped
  <2> QED
    BY <1>3, <1>7, <2>3 DEF Strcpy, strcpy, j
<1>8. CASE Strncpy(d, s, k)
  <2>1. IsString(mem, s) /\ d..d + k \subseteq 1..n
    BY <1>4, <1>8 DEF Strncpy
  <2>2. d..d + k - 1 \subseteq 1..n
    BY <1>2, <2>1
  <2>3. strncpy(mem, d, s, k) \in MemoryOn(1..n, Bytes)
    BY <1>1, <1>2, <2>1, <2>2, StrncpyTyped
  <2> QED
    BY <1>3, <1>8, <2>3 DEF Strncpy
<1>9. CASE Strcat(d, s)
  <2> DEFINE j == strlen(mem, s)
             i == strlen(mem, d)
  <2>1. j \in Nat /\ i \in Nat /\ i + j \in Nat
    BY <1>5, <1>6, <1>9 DEF Strcat, Takes
  <2>2. IsString(mem, s) /\ d..d + (i + j) \subseteq 1..n
    BY <1>4, <1>9, <2>1 DEF Strcat
  <2>3. d + i \in Nat /\ (d + i)..(d + i) + j - 1 \subseteq 1..n
    BY <1>2, <2>1, <2>2
  <2>4. strncpy(mem, d + i, s, j) \in MemoryOn(1..n, Bytes)
    BY <1>1, <1>2, <2>1, <2>2, <2>3, StrncpyTyped
  <2> QED
    BY <1>3, <1>9, <2>4 DEF Strcat, strcat, strcpy
<1>10. CASE Strncat(d, s, k)
  <2> DEFINE i == strlen(mem, d)
  <2>1. i \in Nat /\ IsString(mem, s) /\ d..d + k \subseteq 1..n
    BY <1>4, <1>6, <1>10 DEF Strncat
  <2> HIDE DEF i
  <2>2. ASSUME i < k
        PROVE  strncpy(mem, d + i, s, k - i) \in MemoryOn(1..n, Bytes)
    <3> DEFINE e == d + i
               r == k - i
    <3>1. e \in Nat /\ r \in Nat /\ e..e + r - 1 \subseteq 1..n
      BY <1>2, <2>1, <2>2
    <3> HIDE DEF e, r
    <3>2. strncpy(mem, e, s, r) \in MemoryOn(1..n, Bytes)
      BY <1>1, <1>2, <2>1, <3>1, StrncpyTyped
    <3> QED
      BY <3>2 DEF e, r
  <2>3. strncat(mem, d, s, k) \in MemoryOn(1..n, Bytes)
    BY <1>1, <2>2 DEF strncat, i
  <2> QED
    BY <1>3, <1>10, <2>3 DEF Strncat
<1> QED
  BY <1>7, <1>8, <1>9, <1>10

FreeTyped == task = "free" => MemTyped(mem)

LEMMA MemoriesTyped ==
    ASSUME NEW m \in Memories
    PROVE  /\ Cardinality(DOMAIN m) \in Nat
           /\ m \in MemoryOn(1..Cardinality(DOMAIN m), Bytes)
           /\ Sizes \subseteq 0..Cardinality(DOMAIN m)
<1>1. IsFiniteSet(DOMAIN m) /\ m \in [1..Cardinality(DOMAIN m) -> 0..255]
      /\ Sizes \subseteq 0..Cardinality(DOMAIN m)
  BY LibraryAssumption DEF LibraryAssumption
<1>2. Cardinality(DOMAIN m) \in Nat
  BY <1>1, FS_CardinalityType
<1> QED
  BY <1>1, <1>2 DEF MemoryOn, Bytes

\* While the memory is free, every call leaves bytes in it.
LEMMA FreeTypedStep ==
    ASSUME FreeTyped, [Next]_vars
    PROVE  FreeTyped'
<1>1. CASE task = "free" /\ Calls
  <2>1. MemTyped(mem)
    BY <1>1 DEF FreeTyped
  <2>2. \A k \in 0..Cardinality(Addr) : k \in Nat
    OBVIOUS
  <2>3. Addr \subseteq Nat
    BY <2>1 DEF MemTyped, MemoryOn, Addr
  <2>4. ASSUME NEW d \in Addr, NEW s \in Addr, NEW k \in 0..Cardinality(Addr),
               Memcpy(d, s, k) \/ Memmove(d, s, k) \/ Strncpy(d, s, k) \/ Strncat(d, s, k)
        PROVE  MemTyped(mem')
    BY <2>1, <2>2, <2>4, BlockCallTyped, StringCallTyped
  <2>5. ASSUME NEW d \in Addr, NEW s \in Addr, Strcpy(d, s) \/ Strcat(d, s) \/ Memset(d, mem[s], s)
        PROVE  MemTyped(mem')
    BY <2>1, <2>3, <2>5, BlockCallTyped, StringCallTyped
  <2>6. ASSUME NEW size \in Sizes, NEW format \in Formats, Snprintf(size, format)
        PROVE  task' # "free"
    BY <2>6 DEF Snprintf
  <2> QED
    BY <1>1, <2>4, <2>5, <2>6 DEF Calls, FreeTyped
<1>2. CASE Write
  BY <1>2 DEF Write, FreeTyped
<1>3. CASE Sends \/ UNCHANGED vars
  BY <1>3 DEF Sends, vars, FreeTyped
<1> QED
  BY <1>1, <1>2, <1>3 DEF Next

LEMMA StringsRightOf ==
    ASSUME FreeTyped
    PROVE  StringsRight
<1> SUFFICES ASSUME task = "free"
             PROVE  /\ \A d, s \in Addr, n \in 0..Cardinality(Addr) :
                          Room(d, n) /\ Room(s, n) => MovesBlock(d, s, n)
                    /\ \A a, b \in Addr : IsString(mem, a) /\ IsString(mem, b) =>
                          SearchesAgree(a, mem[b]) /\ ComparesAgree(a, b)
  BY DEF StringsRight
<1>1. PICK n \in Nat : mem \in MemoryOn(1..n, Bytes)
  BY DEF FreeTyped, MemTyped
<1>2. Addr = 1..n /\ 1..n \in SUBSET Nat
  BY <1>1 DEF Addr, MemoryOn
<1>3. ASSUME NEW d \in Addr, NEW s \in Addr, NEW k \in 0..Cardinality(Addr), Room(d, k), Room(s, k)
      PROVE  MovesBlock(d, s, k)
  <2>1. k \in Nat
    OBVIOUS
  <2>2. d..d + k - 1 \subseteq 1..n /\ s..s + k - 1 \subseteq 1..n
    BY <1>1, <1>3, <2>1, RoomMeans
  <2>3. IsMoved(memmove(mem, d, s, k), mem, d, s, k)
    BY <1>1, <1>2, <2>1, <2>2, MemmoveMoves
  <2> QED
    BY <2>3 DEF MovesBlock, IsMoved, Addr
<1>4. ASSUME NEW a \in Addr, NEW b \in Addr, IsString(mem, a), IsString(mem, b)
      PROVE  SearchesAgree(a, mem[b]) /\ ComparesAgree(a, b)
  <2>1. mem[b] \in Bytes
    BY <1>1, <1>2 DEF MemoryOn
  <2> QED
    BY <1>1, <1>2, <1>4, <2>1, SearchesRight, ComparesRight
<1> QED
  BY <1>3, <1>4

\* Memory and strings of any size: a moved block is what the source was, the searches find
\* the first and the last, the comparisons agree with each other and with strstr
\* (string.c:18-30, 124-137, 157-175, 200-242).
THEOREM StringsAgree == Spec => []StringsRight
<1>1. LibraryInit => FreeTyped
  BY MemoriesTyped DEF LibraryInit, FreeTyped, MemTyped
<1>2. FreeTyped /\ [Next]_vars => FreeTyped'
  BY FreeTypedStep
<1>3. FreeTyped => StringsRight
  BY StringsRightOf
<1> QED
  BY <1>1, <1>2, <1>3, PTL DEF Spec

-----------------------------------------------------------------------------
(* Powers of two *)

PowerRun(g, n) == g \in [0..n -> Nat \ {0}] /\ g[0] = 1 /\ \A k \in 1..n : g[k] = 2 * g[k - 1]

LEMMA PowerTurns ==
    ASSUME NEW n \in Nat
    PROVE  \E g : PowerRun(g, n) /\ Pow2(n) = g[n]
<1> DEFINE S == Nat \ {0}
           step == [k \in 1..n |-> [v \in S |-> 2 * v]]
           Loop(p) == p = [k \in 0..n |-> IF k = 0 THEN 1 ELSE 2 * p[k - 1]]
<1>1. PICK g \in [0..n -> S] : g[0] = 1 /\ \A k \in 1..n : g[k] = step[k][g[k - 1]]
  <2>1. 1 \in S /\ step \in LoopBodies(n, S)
    BY DEF LoopBodies
  <2> HIDE DEF S, step
  <2>2. PICK g : LoopRun(g, n, S, 1, step)
    BY <2>1, Iteration
  <2> QED
    BY <2>2 DEF LoopRun
<1>2. ASSUME NEW k \in 1..n
      PROVE  g[k] = 2 * g[k - 1]
  <2>1. k - 1 \in 0..n
    OBVIOUS
  <2>2. g[k - 1] \in S
    BY <1>1, <2>1
  <2> QED
    BY <1>1, <2>2
<1>3. Loop(g)
  <2>1. \A k \in 0..n : k = 0 \/ k \in 1..n
    OBVIOUS
  <2> QED
    BY <1>1, <1>2, <2>1
<1>4. ASSUME NEW p, Loop(p)
      PROVE  p = g
  <2> DEFINE T == {k \in 0..n : p[k] = g[k]}
  <2>1. 0 \in T
    BY <1>1, <1>4
  <2>2. ASSUME NEW k \in 1..n, k - 1 \in T
        PROVE  k \in T
    <3>1. p[k] = 2 * p[k - 1]
      BY <1>4
    <3> QED
      BY <1>2, <2>2, <3>1
  <2>3. \A k \in 0..n : k \in T
    <3> HIDE DEF T
    <3> QED
      BY <2>1, <2>2, Turns
  <2> QED
    BY <1>1, <1>4, <2>3
<1>5. Pow2(n) = (CHOOSE p : Loop(p))[n]
  BY Zenon DEF Pow2
<1>6. (CHOOSE p : Loop(p)) = g
  <2> HIDE DEF Loop
  <2> QED
    BY <1>3, <1>4
<1>7. PowerRun(g, n) /\ Pow2(n) = g[n]
  BY <1>1, <1>2, <1>5, <1>6 DEF PowerRun
<1> QED
  BY <1>7

LEMMA PowerFacts ==
    ASSUME NEW n \in Nat
    PROVE  Pow2(0) = 1 /\ Pow2(n) \in Nat \ {0} /\ Pow2(n + 1) = 2 * Pow2(n)
<1>1. PICK g : PowerRun(g, n + 1) /\ Pow2(n + 1) = g[n + 1]
  BY PowerTurns
<1>2. PICK h : PowerRun(h, n) /\ Pow2(n) = h[n]
  BY PowerTurns
<1> DEFINE T == {k \in 0..n : g[k] = h[k]}
<1>3. 0 \in T
  BY <1>1, <1>2 DEF PowerRun
<1>4. ASSUME NEW k \in 1..n, k - 1 \in T
      PROVE  k \in T
  <2>1. k \in 1..n + 1
    OBVIOUS
  <2> QED
    BY <1>1, <1>2, <1>4, <2>1 DEF PowerRun
<1>5. \A k \in 0..n : k \in T
  <2> HIDE DEF T
  <2> QED
    BY <1>3, <1>4, Turns
<1>6. g[n] = h[n] /\ h[n] \in Nat \ {0}
  BY <1>2, <1>5 DEF PowerRun
<1>7. g[n + 1] = 2 * g[n]
  <2>1. n + 1 \in 1..n + 1 /\ (n + 1) - 1 = n
    OBVIOUS
  <2>2. g[n + 1] = 2 * g[(n + 1) - 1]
    BY <1>1, <2>1 DEF PowerRun
  <2> QED
    BY <2>1, <2>2
<1>8. Pow2(0) = 1
  BY PowerTurns DEF PowerRun
<1> QED
  BY <1>1, <1>2, <1>6, <1>7, <1>8

LEMMA PowerMonotonic ==
    ASSUME NEW a \in Nat, NEW b \in Nat, a <= b
    PROVE  Pow2(a) <= Pow2(b)
<1> DEFINE T == {k \in Nat : Pow2(a) <= Pow2(a + k)}
<1>1. \A n \in Nat : Pow2(n) \in Nat \ {0} /\ Pow2(n + 1) = 2 * Pow2(n)
  BY PowerFacts
<1>2. 0 \in T
  BY <1>1
<1>3. ASSUME NEW k \in 1..b - a, k - 1 \in T
      PROVE  k \in T
  <2>1. a + (k - 1) \in Nat /\ (a + (k - 1)) + 1 = a + k
    OBVIOUS
  <2>2. Pow2(a + k) = 2 * Pow2(a + (k - 1)) /\ Pow2(a + (k - 1)) \in Nat
    BY <1>1, <2>1
  <2> QED
    BY <1>1, <1>3, <2>2
<1>4. b - a \in Nat /\ a + (b - a) = b
  OBVIOUS
<1>5. \A k \in 0..b - a : k \in T
  <2> HIDE DEF T
  <2> QED
    BY <1>2, <1>3, <1>4, Turns
<1> QED
  BY <1>4, <1>5

-----------------------------------------------------------------------------
(* Arguments *)

Word == Bits["l"]

LEMMA WidthFacts ==
    ASSUME NEW q
    PROVE  Width(q) \in Nat \ {0} /\ Word \in Nat \ {0} /\ Width(q) <= Word
<1>1. /\ Bits["h"] \in Nat \ {0} /\ Bits["int"] \in Nat \ {0} /\ Bits["l"] \in Nat \ {0}
      /\ Bits["h"] <= Bits["int"] /\ Bits["int"] <= Bits["l"]
  BY BitsAssumption DEF BitsAssumption
<1> QED
  BY <1>1 DEF Width, Word

\* Sign extension of low from the values below p to those below r.
LEMMA SignExtended ==
    ASSUME NEW h \in Nat \ {0}, NEW g \in Nat \ {0}, h <= g, NEW low \in 0..2 * h - 1
    PROVE  /\ low >= h => /\ low + 2 * g - 2 * h \in g..2 * g - 1
                          /\ 2 * g - (low + 2 * g - 2 * h) = 2 * h - low
           /\ low < h => low < g
           /\ low \in 0..2 * g - 1
  OBVIOUS

LEMMA FetchedFacts ==
    ASSUME NEW arg \in Nat, NEW q, NEW signed \in BOOLEAN
    PROVE  LET w == Width(q)
               low == arg % Pow2(w)
               num == Fetched(arg, q, signed)
           IN  /\ low \in 0..Pow2(w) - 1 /\ Pow2(w) \in Nat
               /\ num \in 0..Pow2(Word) - 1 /\ Pow2(Word) \in Nat
               /\ ~signed => num = low
               /\ signed /\ low >= Pow2(w - 1) =>
                    /\ IsNegative(num)
                    /\ Pow2(Word) - num = Pow2(w) - low
               /\ signed /\ ~(low >= Pow2(w - 1)) => ~IsNegative(num) /\ num = low
<1> DEFINE w == Width(q)
           low == arg % Pow2(w)
           num == Fetched(arg, q, signed)
           h == Pow2(w - 1)
           g == Pow2(Word - 1)
<1>1. w \in Nat \ {0} /\ Word \in Nat \ {0} /\ w <= Word
  BY WidthFacts
<1> HIDE DEF w
<1>2. w - 1 \in Nat /\ Word - 1 \in Nat /\ w - 1 <= Word - 1 /\ (w - 1) + 1 = w /\ (Word - 1) + 1 = Word
  BY <1>1
<1>3. h \in Nat \ {0} /\ g \in Nat \ {0} /\ Pow2(w) = 2 * h /\ Pow2(Word) = 2 * g /\ h <= g
  <2>1. h \in Nat \ {0} /\ Pow2((w - 1) + 1) = 2 * h
    BY <1>2, PowerFacts
  <2>2. g \in Nat \ {0} /\ Pow2((Word - 1) + 1) = 2 * g
    BY <1>2, PowerFacts
  <2>3. h <= g
    BY <1>2, PowerMonotonic
  <2> QED
    BY <1>2, <2>1, <2>2, <2>3
<1>4. num = IF signed /\ low >= h THEN low + Pow2(Word) - Pow2(w) ELSE low
  BY DEF Fetched, Word, w
<1>5. IsNegative(num) <=> num >= g
  BY DEF IsNegative, Word
<1> HIDE DEF h, g
<1>6. low \in 0..2 * h - 1
  <2>1. 2 * h \in Nat \ {0}
    BY <1>3
  <2>2. arg % (2 * h) \in 0..2 * h - 1
    BY <2>1, ModFacts
  <2> QED
    BY <1>3, <2>2
<1> HIDE DEF low, num
<1>7. /\ low >= h => /\ low + 2 * g - 2 * h \in g..2 * g - 1
                     /\ 2 * g - (low + 2 * g - 2 * h) = 2 * h - low
      /\ low < h => low < g
      /\ low \in 0..2 * g - 1
  BY <1>3, <1>6, SignExtended
<1>8. CASE signed /\ low >= h
  BY <1>3, <1>4, <1>5, <1>6, <1>7, <1>8 DEF w, low, num, h
<1>9. CASE ~(signed /\ low >= h)
  BY <1>3, <1>4, <1>5, <1>6, <1>7, <1>9 DEF w, low, num, h
<1> QED
  BY <1>8, <1>9

-----------------------------------------------------------------------------
(* Digits *)

Codes == 1..255

LEMMA DigitFacts ==
    ASSUME NEW d \in 0..15, NEW large \in BOOLEAN
    PROVE  DigitChar(d, large) \in DigitChars /\ DigitOf(DigitChar(d, large)) = d
<1>1. CASE d < 10
  BY <1>1 DEF DigitChar, DigitChars, DigitOf, ZeroChar
<1>2. CASE ~(d < 10) /\ large
  BY <1>2 DEF DigitChar, DigitChars, DigitOf, ZeroChar
<1>3. CASE ~(d < 10) /\ ~large
  BY <1>3 DEF DigitChar, DigitChars, DigitOf, ZeroChar
<1> QED
  BY <1>1, <1>2, <1>3

Bases == {8, 10, 16}

LEMMA BaseDivides ==
    ASSUME NEW base \in Bases, NEW n \in Nat
    PROVE  /\ n \div base \in Nat /\ n % base \in 0..15 /\ n % base \in 0..base - 1
           /\ n = (n \div base) * base + (n % base)
           /\ n >= base => n \div base \in 0..n - 1
<1> DEFINE q == n \div base
           r == n % base
<1>1. base \in Nat \ {0} /\ base <= 16 /\ 2 <= base
  BY DEF Bases
<1>2. q \in Nat /\ base * q <= n /\ r \in 0..base - 1 /\ n = base * q + r
  BY <1>1, DivFacts, ModFacts
<1> HIDE DEF q, r
<1>3. base * q = q * base
  BY <1>1, <1>2
<1>4. 2 * q <= n
  <2>1. CASE base = 8
    BY <1>2, <2>1
  <2>2. CASE base = 10
    BY <1>2, <2>2
  <2>3. CASE base = 16
    BY <1>2, <2>3
  <2> QED
    BY <2>1, <2>2, <2>3 DEF Bases
<1>5. n >= base => q \in 0..n - 1
  BY <1>1, <1>2, <1>4
<1>6. r \in 0..15
  BY <1>1, <1>2
<1>7. n = q * base + r
  BY <1>2, <1>3
<1> QED
  BY <1>2, <1>5, <1>6, <1>7 DEF q, r

OneDigit(n, base, large) == DigitChar(n % base, large)

DigitsRun(g, num, base, large) ==
    /\ g \in [0..num -> Seq(DigitChars)]
    /\ \A n \in 0..num : g[n] = IF n < base THEN <<DigitChar(n, large)>>
                                ELSE Append(g[n \div base], OneDigit(n, base, large))

LEMMA DigitsTurns ==
    ASSUME NEW num \in Nat, NEW base \in Bases, NEW large \in BOOLEAN
    PROVE  \E g : DigitsRun(g, num, base, large) /\ Digits(num, base, large) = g[num]
<1> DEFINE T == {k \in 0..num : \E g : DigitsRun(g, k, base, large)}
           Loop(x) == x = [n \in 0..num |->
                            IF n < base THEN <<DigitChar(n, large)>>
                            ELSE Append(x[n \div base], DigitChar(n % base, large))]
<1>0. \A n \in Nat : n < base => <<DigitChar(n, large)>> \in Seq(DigitChars)
  <2> SUFFICES ASSUME NEW n \in Nat, n < base
               PROVE  <<DigitChar(n, large)>> \in Seq(DigitChars)
    OBVIOUS
  <2>1. n \in 0..15
    BY DEF Bases
  <2>2. DigitChar(n, large) \in DigitChars
    BY <2>1, DigitFacts
  <2> QED
    BY <2>2
<1>1. 0 \in T
  <2>1. 0 < base
    BY DEF Bases
  <2> DEFINE g == [i \in 0..0 |-> <<DigitChar(0, large)>>]
  <2>2. g \in [0..0 -> Seq(DigitChars)]
    BY <1>0, <2>1
  <2>3. DigitsRun(g, 0, base, large)
    BY <2>1, <2>2 DEF DigitsRun
  <2> HIDE DEF g
  <2> QED
    BY <2>3
<1>2. ASSUME NEW k \in 1..num, k - 1 \in T
      PROVE  k \in T
  <2>1. PICK g : DigitsRun(g, k - 1, base, large)
    BY <1>2
  <2> DEFINE last == IF k < base THEN <<DigitChar(k, large)>>
                     ELSE Append(g[k \div base], OneDigit(k, base, large))
             h == [i \in 0..k |-> IF i = k THEN last ELSE g[i]]
  <2>2. g \in [0..k - 1 -> Seq(DigitChars)]
    BY <2>1 DEF DigitsRun
  <2>3. last \in Seq(DigitChars)
    <3>1. CASE k < base
      BY <1>0, <3>1
    <3>2. CASE ~(k < base)
      <4>1. k \div base \in 0..k - 1
        BY <3>2, BaseDivides DEF Bases
      <4>2. g[k \div base] \in Seq(DigitChars)
        BY <2>2, <4>1
      <4>3. k % base \in 0..15
        BY BaseDivides
      <4>4. OneDigit(k, base, large) \in DigitChars
        BY <4>3, DigitFacts DEF OneDigit
      <4> QED
        BY <3>2, <4>2, <4>4
    <3> QED
      BY <3>1, <3>2
  <2> HIDE DEF last
  <2>4. h \in [0..k -> Seq(DigitChars)]
    BY <2>2, <2>3
  <2>5. ASSUME NEW n \in 0..k
        PROVE  h[n] = IF n < base THEN <<DigitChar(n, large)>>
                      ELSE Append(h[n \div base], OneDigit(n, base, large))
    <3>1. n \in Nat /\ (n >= base => n \div base \in 0..n - 1) /\ base \in Nat
      BY BaseDivides DEF Bases
    <3>2. n >= base => h[n \div base] = g[n \div base]
      BY <3>1
    <3>3. CASE n = k
      BY <3>1, <3>2, <3>3 DEF last
    <3>4. CASE n # k
      <4>1. n \in 0..k - 1 /\ h[n] = g[n]
        BY <3>4
      <4>2. g[n] = IF n < base THEN <<DigitChar(n, large)>>
                   ELSE Append(g[n \div base], OneDigit(n, base, large))
        BY <2>1, <4>1 DEF DigitsRun
      <4> QED
        BY <3>1, <3>2, <4>1, <4>2
    <3> QED
      BY <3>3, <3>4
  <2>6. DigitsRun(h, k, base, large)
    BY <2>4, <2>5 DEF DigitsRun
  <2> HIDE DEF h
  <2> QED
    BY <2>6
<1>3. \A k \in 0..num : k \in T
  <2> HIDE DEF T
  <2> QED
    BY <1>1, <1>2, Turns
<1>4. PICK g : DigitsRun(g, num, base, large)
  BY <1>3
<1>5. Loop(g)
  BY <1>4 DEF DigitsRun, OneDigit
<1>6. ASSUME NEW x, Loop(x)
      PROVE  x = g
  <2> DEFINE U == {k \in 0..num : \A j \in 0..k : x[j] = g[j]}
  <2>1. \A n \in 0..num : IF n < base THEN x[n] = <<DigitChar(n, large)>>
                          ELSE x[n] = Append(x[n \div base], DigitChar(n % base, large))
    BY <1>6
  <2>0. \A n \in 0..num : IF n < base THEN g[n] = <<DigitChar(n, large)>>
                          ELSE g[n] = Append(g[n \div base], DigitChar(n % base, large))
    BY <1>5
  <2> HIDE DEF Loop
  <2>2. 0 < base
    BY DEF Bases
  <2>3. 0 \in U
    <3>1. x[0] = g[0]
      BY <2>0, <2>1, <2>2
    <3> QED
      BY <3>1
  <2>4. ASSUME NEW k \in 1..num, k - 1 \in U
        PROVE  k \in U
    <3>1. k >= base => k \div base \in 0..k - 1
      BY BaseDivides
    <3>2. k >= base => x[k \div base] = g[k \div base]
      BY <2>4, <3>1
    <3>3. x[k] = g[k]
      <4>1. CASE k < base
        BY <2>0, <2>1, <4>1
      <4>2. CASE ~(k < base)
        <5>1. k >= base
          BY <4>2 DEF Bases
        <5>2. x[k] = Append(x[k \div base], DigitChar(k % base, large))
          BY <2>1, <4>2
        <5>3. g[k] = Append(g[k \div base], DigitChar(k % base, large))
          BY <2>0, <4>2
        <5> QED
          BY <3>2, <5>1, <5>2, <5>3
      <4> QED
        BY <4>1, <4>2
    <3>4. \A j \in 0..k : j = k \/ j \in 0..k - 1
      OBVIOUS
    <3> QED
      BY <2>4, <3>3, <3>4
  <2>5. \A k \in 0..num : k \in U
    <3> HIDE DEF U
    <3> QED
      BY <2>3, <2>4, Turns
  <2>6. \A k \in 0..num : x[k] = g[k]
    BY <2>5
  <2> QED
    BY <1>5, <1>6, <2>6 DEF Loop
<1>7. Digits(num, base, large) = (CHOOSE x : Loop(x))[num]
  BY Zenon DEF Digits
<1>8. (CHOOSE x : Loop(x)) = g
  <2> HIDE DEF Loop
  <2> QED
    BY <1>5, <1>6
<1> QED
  BY <1>4, <1>7, <1>8

-----------------------------------------------------------------------------
(* Reading *)

ReadOn(v, c, base) == IF c \in DigitChars THEN v * base + DigitOf(c) ELSE v

ReadingRun(v, text, base) ==
    /\ v \in [0..Len(text) -> Nat] /\ v[0] = 0
    /\ \A i \in 1..Len(text) : v[i] = ReadOn(v[i - 1], text[i], base)

LEMMA ReadOnNat ==
    ASSUME NEW v \in Nat, NEW c, NEW base \in Bases
    PROVE  ReadOn(v, c, base) \in Nat
<1>1. CASE c \in DigitChars
  <2>1. DigitOf(c) \in Nat
    BY <1>1 DEF DigitChars, DigitOf, ZeroChar
  <2>2. v * base \in Nat
    BY DEF Bases
  <2> QED
    BY <1>1, <2>1, <2>2 DEF ReadOn
<1>2. CASE c \notin DigitChars
  BY <1>2 DEF ReadOn
<1> QED
  BY <1>1, <1>2

LEMMA ReadingTurns ==
    ASSUME NEW text \in Seq(Int), NEW base \in Bases
    PROVE  \E v : ReadingRun(v, text, base) /\ Reading(text, base) = v[Len(text)]
<1> DEFINE n == Len(text)
           S == Nat
           step == [i \in 1..n |-> [v \in S |-> ReadOn(v, text[i], base)]]
           Loop(x) == x = [i \in 0..n |->
                            IF i = 0 THEN 0
                            ELSE IF text[i] \in DigitChars THEN x[i - 1] * base + DigitOf(text[i])
                            ELSE x[i - 1]]
<1>0. n \in Nat
  OBVIOUS
<1>1. PICK g \in [0..n -> S] : g[0] = 0 /\ \A k \in 1..n : g[k] = step[k][g[k - 1]]
  <2>1. step \in LoopBodies(n, S) /\ 0 \in S
    BY ReadOnNat DEF LoopBodies
  <2> HIDE DEF step, n, S
  <2>2. PICK g : LoopRun(g, n, S, 0, step)
    BY <1>0, <2>1, Iteration
  <2> QED
    BY <2>2 DEF LoopRun
<1> HIDE DEF n
<1>2. ASSUME NEW k \in 1..n
      PROVE  g[k] = ReadOn(g[k - 1], text[k], base)
  <2>1. k - 1 \in 0..n
    BY <1>0
  <2>2. g[k - 1] \in Nat
    BY <1>1, <2>1
  <2> QED
    BY <1>1, <2>2
<1>3. Loop(g)
  <2>1. \A k \in 0..n : k = 0 \/ k \in 1..n
    BY <1>0
  <2> QED
    BY <1>1, <1>2, <2>1 DEF ReadOn
<1>4. ASSUME NEW x, Loop(x)
      PROVE  x = g
  <2> DEFINE T == {k \in 0..n : x[k] = g[k]}
  <2>1. 0 \in T
    BY <1>0, <1>1, <1>4
  <2>2. ASSUME NEW k \in 1..n, k - 1 \in T
        PROVE  k \in T
    <3>1. k \in 0..n /\ k # 0
      BY <1>0
    <3>2. x[k] = ReadOn(x[k - 1], text[k], base)
      BY <1>4, <3>1 DEF ReadOn
    <3> QED
      BY <1>2, <2>2, <3>1, <3>2
  <2>3. \A k \in 0..n : k \in T
    <3> HIDE DEF T
    <3> QED
      BY <1>0, <2>1, <2>2, Turns
  <2> QED
    BY <1>1, <1>4, <2>3
<1>5. Reading(text, base) = (CHOOSE x : Loop(x))[n]
  BY Zenon DEF Reading, n
<1>6. (CHOOSE x : Loop(x)) = g
  <2> HIDE DEF Loop
  <2> QED
    BY <1>3, <1>4
<1>7. ReadingRun(g, text, base) /\ Reading(text, base) = g[Len(text)]
  BY <1>1, <1>2, <1>5, <1>6 DEF ReadingRun, n
<1> QED
  BY <1>7

\* What does not count: zeros before the number, and whatever is no digit before or after it.
Frames(text, core, p) ==
    /\ p + Len(core) <= Len(text)
    /\ \A i \in 1..p : text[i] \notin DigitChars \/ text[i] = ZeroChar
    /\ \A j \in 1..Len(core) : text[p + j] = core[j]
    /\ \A i \in p + Len(core) + 1..Len(text) : text[i] \notin DigitChars

LEMMA ReadingFrame ==
    ASSUME NEW text \in Seq(Int), NEW core \in Seq(Int), NEW base \in Bases, NEW p \in Nat,
           Frames(text, core, p)
    PROVE  Reading(text, base) = Reading(core, base)
<1>0. /\ p + Len(core) <= Len(text)
      /\ \A i \in 1..p : text[i] \notin DigitChars \/ text[i] = ZeroChar
      /\ \A j \in 1..Len(core) : text[p + j] = core[j]
      /\ \A i \in p + Len(core) + 1..Len(text) : text[i] \notin DigitChars
  BY DEF Frames
<1>1. PICK v : ReadingRun(v, text, base) /\ Reading(text, base) = v[Len(text)]
  BY ReadingTurns
<1>2. PICK w : ReadingRun(w, core, base) /\ Reading(core, base) = w[Len(core)]
  BY ReadingTurns
<1> DEFINE n == Len(text)
           l == Len(core)
           T == {i \in 0..n : v[i] = IF i <= p THEN 0 ELSE IF i <= p + l THEN w[i - p] ELSE w[l]}
<1>3. n \in Nat /\ l \in Nat /\ p + l <= n
  BY <1>0
<1>4. /\ v[0] = 0 /\ \A i \in 1..n : v[i] = ReadOn(v[i - 1], text[i], base)
      /\ w[0] = 0 /\ \A i \in 1..l : w[i] = ReadOn(w[i - 1], core[i], base)
  BY <1>1, <1>2 DEF ReadingRun
<1> HIDE DEF n, l
<1>5. 0 \in T
  BY <1>3, <1>4
<1>6. ASSUME NEW i \in 1..n, i - 1 \in T
      PROVE  i \in T
  <2>1. v[i] = ReadOn(v[i - 1], text[i], base)
    BY <1>4
  <2>2. CASE i <= p
    <3>1. v[i - 1] = 0 /\ (text[i] \notin DigitChars \/ text[i] = ZeroChar)
      BY <1>0, <1>6, <2>2
    <3>2. 0 * base + DigitOf(ZeroChar) = 0
      BY DEF DigitOf, ZeroChar, Bases
    <3> QED
      BY <2>1, <2>2, <3>1, <3>2 DEF ReadOn
  <2>3. CASE p < i /\ i <= p + l
    <3>1. i - p \in 1..l /\ p + (i - p) = i /\ (i - p) - 1 = (i - 1) - p
      BY <1>3, <2>3
    <3>2. text[i] = core[i - p]
      BY <1>0, <3>1 DEF l
    <3>3. v[i - 1] = w[(i - p) - 1]
      <4>1. CASE i - 1 = p
        BY <1>3, <1>4, <1>6, <2>3, <3>1, <4>1
      <4>2. CASE i - 1 # p
        <5>1. v[i - 1] = IF i - 1 <= p THEN 0
                         ELSE IF i - 1 <= p + l THEN w[(i - 1) - p] ELSE w[l]
          BY <1>6
        <5>2. ~(i - 1 <= p) /\ i - 1 <= p + l
          BY <1>3, <2>3, <4>2
        <5> QED
          BY <3>1, <5>1, <5>2
      <4> QED
        BY <4>1, <4>2
    <3>4. v[i] = w[i - p]
      BY <1>4, <2>1, <3>1, <3>2, <3>3
    <3> QED
      BY <2>3, <3>4
  <2>4. CASE p + l < i
    <3>1. text[i] \notin DigitChars
      BY <1>0, <1>3, <2>4 DEF n, l
    <3>2. v[i] = v[i - 1]
      BY <2>1, <3>1 DEF ReadOn
    <3>3. v[i - 1] = w[l]
      <4>1. CASE i - 1 <= p
        BY <1>3, <1>4, <1>6, <2>4, <4>1
      <4>2. CASE p < i - 1 /\ i - 1 <= p + l
        <5>1. (i - 1) - p = l
          BY <1>3, <2>4, <4>2
        <5> QED
          BY <1>6, <4>2, <5>1
      <4>3. CASE p + l < i - 1
        BY <1>3, <1>6, <4>3
      <4> QED
        BY <1>3, <4>1, <4>2, <4>3
    <3> QED
      BY <1>3, <2>4, <3>2, <3>3
  <2> QED
    BY <1>3, <2>2, <2>3, <2>4
<1>7. \A i \in 0..n : i \in T
  <2> HIDE DEF T
  <2> QED
    BY <1>3, <1>5, <1>6, Turns
<1>8. v[n] = IF n <= p THEN 0 ELSE IF n <= p + l THEN w[n - p] ELSE w[l]
  BY <1>3, <1>7
<1>9. v[n] = w[l]
  <2>1. CASE n <= p
    BY <1>3, <1>4, <1>8, <2>1
  <2>2. CASE p < n /\ n <= p + l
    <3>1. n - p = l
      BY <1>3, <2>2
    <3>2. v[n] = w[n - p]
      BY <1>3, <1>8, <2>2
    <3> QED
      BY <3>1, <3>2
  <2>3. CASE p + l < n
    BY <1>3, <1>8, <2>3
  <2> QED
    BY <1>3, <2>1, <2>2, <2>3
<1> QED
  BY <1>1, <1>2, <1>9 DEF n, l

LEMMA ReadingAppend ==
    ASSUME NEW t \in Seq(Int), NEW c \in Int, NEW base \in Bases
    PROVE  Reading(Append(t, c), base) = ReadOn(Reading(t, base), c, base)
<1> DEFINE n == Len(t)
           u == Append(t, c)
<1>1. u \in Seq(Int) /\ n \in Nat /\ Len(u) = n + 1 /\ u[n + 1] = c /\ \A i \in 1..n : u[i] = t[i]
  OBVIOUS
<1>2. PICK v : ReadingRun(v, u, base) /\ Reading(u, base) = v[Len(u)]
  BY <1>1, ReadingTurns
<1>3. PICK w : ReadingRun(w, t, base) /\ Reading(t, base) = w[Len(t)]
  BY ReadingTurns
<1> DEFINE T == {i \in 0..n : v[i] = w[i]}
<1>4. /\ v[0] = 0 /\ \A i \in 1..n + 1 : v[i] = ReadOn(v[i - 1], u[i], base)
      /\ w[0] = 0 /\ \A i \in 1..n : w[i] = ReadOn(w[i - 1], t[i], base)
  BY <1>1, <1>2, <1>3 DEF ReadingRun
<1> HIDE DEF n, u
<1>5. 0 \in T
  BY <1>1, <1>4
<1>6. ASSUME NEW i \in 1..n, i - 1 \in T
      PROVE  i \in T
  <2>1. i \in 1..n + 1 /\ i \in 0..n
    BY <1>1
  <2> QED
    BY <1>1, <1>4, <1>6, <2>1
<1>7. \A i \in 0..n : i \in T
  <2> HIDE DEF T
  <2> QED
    BY <1>1, <1>5, <1>6, Turns
<1>8. v[n] = w[n]
  BY <1>1, <1>7
<1>9. n + 1 \in 1..n + 1 /\ (n + 1) - 1 = n
  BY <1>1
<1>10. v[n + 1] = ReadOn(v[n], c, base)
  BY <1>1, <1>4, <1>9
<1> QED
  BY <1>1, <1>2, <1>3, <1>8, <1>10 DEF n, u

\* The digits of a number say it.
LEMMA DigitsRead ==
    ASSUME NEW num \in Nat, NEW base \in Bases, NEW large \in BOOLEAN
    PROVE  /\ Digits(num, base, large) \in Seq(DigitChars)
           /\ Reading(Digits(num, base, large), base) = num
<1>1. PICK g : DigitsRun(g, num, base, large) /\ Digits(num, base, large) = g[num]
  BY DigitsTurns
<1>2. g \in [0..num -> Seq(DigitChars)]
      /\ \A n \in 0..num : g[n] = IF n < base THEN <<DigitChar(n, large)>>
                                  ELSE Append(g[n \div base], OneDigit(n, base, large))
  BY <1>1 DEF DigitsRun
<1> DEFINE T == {k \in 0..num : \A j \in 0..k : Reading(g[j], base) = j}
<1>3. Reading(<<>>, base) = 0
  <2>1. PICK v : ReadingRun(v, <<>>, base) /\ Reading(<<>>, base) = v[Len(<<>>)]
    <3>1. <<>> \in Seq(Int)
      OBVIOUS
    <3> QED
      BY <3>1, ReadingTurns
  <2> QED
    BY <2>1 DEF ReadingRun
<1>4. ASSUME NEW k \in 0..num, \A j \in 0..k - 1 : Reading(g[j], base) = j
      PROVE  Reading(g[k], base) = k
  <2>1. CASE k < base
    <3>1. k \in 0..15
      BY <2>1 DEF Bases
    <3>2. DigitChar(k, large) \in DigitChars /\ DigitOf(DigitChar(k, large)) = k
      BY <3>1, DigitFacts
    <3> DEFINE c == DigitChar(k, large)
    <3>3. c \in Int /\ c \in DigitChars /\ DigitOf(c) = k
      BY <3>2 DEF DigitChars
    <3>4. g[k] = <<c>>
      BY <1>2, <2>1
    <3> HIDE DEF c
    <3>5. <<c>> = Append(<<>>, c) /\ <<>> \in Seq(Int)
      OBVIOUS
    <3>8. Reading(Append(<<>>, c), base) = ReadOn(Reading(<<>>, base), c, base)
      BY <3>3, <3>5, ReadingAppend
    <3>6. Reading(g[k], base) = ReadOn(Reading(<<>>, base), c, base)
      BY <3>4, <3>5, <3>8
    <3>7. 0 * base + k = k
      BY DEF Bases
    <3> QED
      BY <1>3, <3>3, <3>6, <3>7 DEF ReadOn
  <2>2. CASE ~(k < base)
    <3> DEFINE q == k \div base
               r == k % base
               c == OneDigit(k, base, large)
    <3>1. q \in 0..k - 1 /\ r \in 0..15 /\ k = q * base + r
      BY <2>2, BaseDivides DEF Bases
    <3>2. c \in DigitChars /\ DigitOf(c) = r
      BY <3>1, DigitFacts DEF OneDigit
    <3>3. g[q] \in Seq(DigitChars) /\ g[k] = Append(g[q], c) /\ Reading(g[q], base) = q
      BY <1>2, <1>4, <2>2, <3>1
    <3> HIDE DEF q, r, c
    <3>4. DigitChars \subseteq Int
      BY DEF DigitChars
    <3>5. g[q] \in Seq(Int) /\ c \in Int
      BY <3>2, <3>3, <3>4, SeqMonotonic
    <3>6. Reading(g[k], base) = ReadOn(q, c, base)
      BY <3>3, <3>5, ReadingAppend
    <3> QED
      BY <3>1, <3>2, <3>6 DEF ReadOn
  <2> QED
    BY <2>1, <2>2
<1>5. 0 \in T
  BY <1>4
<1>6. ASSUME NEW k \in 1..num, k - 1 \in T
      PROVE  k \in T
  <2>1. Reading(g[k], base) = k
    BY <1>4, <1>6
  <2>2. \A j \in 0..k : j = k \/ j \in 0..k - 1
    OBVIOUS
  <2> QED
    BY <1>6, <2>1, <2>2
<1>7. \A k \in 0..num : k \in T
  <2> HIDE DEF T
  <2> QED
    BY <1>5, <1>6, Turns
<1>8. num \in 0..num
  OBVIOUS
<1>9. Reading(g[num], base) = num
  BY <1>7, <1>8
<1> QED
  BY <1>1, <1>2, <1>8, <1>9

-----------------------------------------------------------------------------
(* The text of a number *)

LEMMA CopiesFacts ==
    ASSUME NEW S, NEW c \in S, NEW n \in Int
    PROVE  /\ Copies(c, n) \in Seq(S)
           /\ Len(Copies(c, n)) = IF n > 0 THEN n ELSE 0
           /\ \A i \in 1..Len(Copies(c, n)) : Copies(c, n)[i] = c
<1> DEFINE k == IF n > 0 THEN n ELSE 0
<1>1. k \in Nat
  OBVIOUS
<1>2. Copies(c, n) = [i \in 1..k |-> c]
  BY DEF Copies
<1> HIDE DEF k
<1>3. [i \in 1..k |-> c] \in Seq(S) /\ Len([i \in 1..k |-> c]) = k
  BY <1>1
<1> QED
  BY <1>2, <1>3 DEF k

\* What may stand before the digits without a change of what they say, and anywhere but in a
\* sign.
Quiet == {SpaceChar, PlusChar, MinusChar, ZeroChar, 88, 120}
NoMinus == Codes \ {MinusChar}

LEMMA CharacterSets ==
    /\ Quiet \subseteq Codes /\ NoMinus \subseteq Codes /\ Codes \subseteq Int
    /\ DigitChars \subseteq NoMinus
    /\ {SpaceChar, PlusChar, ZeroChar, 88, 120} \subseteq NoMinus \cap Quiet
    /\ \A c \in Quiet : c \notin DigitChars \/ c = ZeroChar
    /\ SpaceChar \notin DigitChars /\ MinusChar \in Quiet \cap Codes
    /\ ZeroChar \in DigitChars
BY DEF Quiet, NoMinus, Codes, DigitChars, SpaceChar, PlusChar, MinusChar, ZeroChar

\* Three pieces of a text: what stands where.
LEMMA Pieces ==
    ASSUME NEW S, NEW pre \in Seq(S), NEW core \in Seq(S), NEW post \in Seq(S)
    PROVE  LET text == pre \o core \o post
               p == Len(pre)
               l == Len(core)
               q == Len(post)
           IN  /\ text \in Seq(S) /\ p \in Nat /\ l \in Nat /\ q \in Nat
               /\ Len(text) = p + l + q
               /\ \A i \in 1..p : text[i] = pre[i]
               /\ \A j \in 1..l : text[p + j] = core[j]
               /\ \A i \in p + l + 1..p + l + q : text[i] = post[i - (p + l)]
<1> DEFINE left == pre \o core
           text == left \o post
           p == Len(pre)
           l == Len(core)
           q == Len(post)
<1>1. left \in Seq(S) /\ Len(left) = p + l /\ p \in Nat /\ l \in Nat /\ q \in Nat
  BY ConcatProperties
<1>2. \A i \in 1..p + l : left[i] = IF i <= p THEN pre[i] ELSE core[i - p]
  BY <1>1
<1>3. text \in Seq(S) /\ Len(text) = p + l + q
  BY <1>1, ConcatProperties
<1>4. \A i \in 1..p + l + q : text[i] = IF i <= p + l THEN left[i] ELSE post[i - (p + l)]
  BY <1>1
<1> HIDE DEF p, l, q, left, text
<1>5. \A i \in 1..p : text[i] = pre[i]
  <2> TAKE i \in 1..p
  <2>1. i \in 1..p + l + q /\ i \in 1..p + l /\ i <= p
    BY <1>1
  <2> QED
    BY <1>2, <1>4, <2>1
<1>6. \A j \in 1..l : text[p + j] = core[j]
  <2> TAKE j \in 1..l
  <2>1. p + j \in 1..p + l + q /\ p + j \in 1..p + l /\ ~(p + j <= p) /\ (p + j) - p = j
    BY <1>1
  <2>2. text[p + j] = left[p + j]
    BY <1>4, <2>1
  <2>3. left[p + j] = core[(p + j) - p]
    BY <1>2, <2>1
  <2> QED
    BY <2>1, <2>2, <2>3
<1>7. \A i \in p + l + 1..p + l + q : text[i] = post[i - (p + l)]
  <2> TAKE i \in p + l + 1..p + l + q
  <2>1. i \in 1..p + l + q /\ ~(i <= p + l)
    BY <1>1
  <2> QED
    BY <1>4, <2>1
<1> QED
  BY <1>1, <1>3, <1>5, <1>6, <1>7 DEF p, l, q, left, text

\* The same three pieces under a name of their own.
ThreePieces(text, pre, core, post, S) ==
    /\ text \in Seq(S) /\ Len(pre) \in Nat /\ Len(core) \in Nat /\ Len(post) \in Nat
    /\ Len(text) = Len(pre) + Len(core) + Len(post)
    /\ \A i \in 1..Len(pre) : text[i] = pre[i]
    /\ \A j \in 1..Len(core) : text[Len(pre) + j] = core[j]
    /\ \A i \in Len(pre) + Len(core) + 1..Len(pre) + Len(core) + Len(post) :
          text[i] = post[i - (Len(pre) + Len(core))]

LEMMA InThreePieces ==
    ASSUME NEW S, NEW pre \in Seq(S), NEW core \in Seq(S), NEW post \in Seq(S)
    PROVE  ThreePieces(pre \o core \o post, pre, core, post, S)
BY Pieces DEF ThreePieces

LEMMA FramedReading ==
    ASSUME NEW pre \in Seq(Quiet), NEW core \in Seq(DigitChars), NEW post \in Seq({SpaceChar}),
           NEW base \in Bases
    PROVE  Reading(pre \o core \o post, base) = Reading(core, base)
<1> DEFINE text == pre \o core \o post
           p == Len(pre)
           l == Len(core)
           q == Len(post)
<1>1. pre \in Seq(Int) /\ core \in Seq(Int) /\ post \in Seq(Int)
  <2>1. Quiet \subseteq Int /\ DigitChars \subseteq Int /\ {SpaceChar} \subseteq Int
    BY DEF Quiet, DigitChars, SpaceChar, PlusChar, MinusChar, ZeroChar
  <2> QED
    BY <2>1, SeqMonotonic
<1>2. /\ text \in Seq(Int) /\ p \in Nat /\ l \in Nat /\ q \in Nat
      /\ Len(text) = p + l + q
      /\ \A i \in 1..p : text[i] = pre[i]
      /\ \A j \in 1..l : text[p + j] = core[j]
      /\ \A i \in p + l + 1..p + l + q : text[i] = post[i - (p + l)]
  <2>1. ThreePieces(pre \o core \o post, pre, core, post, Int)
    BY <1>1, InThreePieces
  <2> QED
    BY <2>1 DEF ThreePieces
<1>3. \A i \in 1..p : pre[i] \in Quiet
  BY ElementOfSeq
<1>4. \A j \in 1..q : post[j] = SpaceChar
  BY ElementOfSeq
<1> HIDE DEF text, p, q
<1>5. \A i \in 1..p : text[i] \notin DigitChars \/ text[i] = ZeroChar
  BY <1>2, <1>3, CharacterSets
<1>6. \A i \in p + l + 1..Len(text) : text[i] \notin DigitChars
  <2> TAKE i \in p + l + 1..Len(text)
  <2>1. i - (p + l) \in 1..q /\ i \in p + l + 1..p + l + q
    BY <1>2
  <2> QED
    BY <1>2, <1>4, <2>1, CharacterSets
<1> HIDE DEF l
<1>7. /\ p + Len(core) <= Len(text)
      /\ \A j \in 1..Len(core) : text[p + j] = core[j]
      /\ \A i \in p + Len(core) + 1..Len(text) : text[i] \notin DigitChars
  BY <1>2, <1>6 DEF l
<1>8. text \in Seq(Int) /\ p \in Nat /\ Frames(text, core, p)
  BY <1>2, <1>5, <1>7 DEF Frames
<1>9. Reading(text, base) = Reading(core, base)
  BY <1>1, <1>8, ReadingFrame
<1> QED
  BY <1>9 DEF text

Minus(text) == \E i \in DOMAIN text : text[i] = MinusChar

LEMMA NoMinusIn ==
    ASSUME NEW text \in Seq(NoMinus)
    PROVE  ~Minus(text)
<1>1. \A i \in DOMAIN text : text[i] \in NoMinus
  BY ElementOfSeq
<1> QED
  BY <1>1 DEF Minus, NoMinus

LEMMA MinusIn ==
    ASSUME NEW pre \in Seq(Codes), NEW core \in Seq(Codes), NEW post \in Seq(Codes), Minus(pre)
    PROVE  Minus(pre \o core \o post)
<1> DEFINE text == pre \o core \o post
<1>1. /\ Len(text) = Len(pre) + Len(core) + Len(post)
      /\ Len(pre) \in Nat /\ Len(core) \in Nat /\ Len(post) \in Nat
      /\ \A i \in 1..Len(pre) : text[i] = pre[i]
      /\ text \in Seq(Codes)
  BY Pieces
<1>2. PICK i \in DOMAIN pre : pre[i] = MinusChar
  BY DEF Minus
<1>3. i \in 1..Len(pre)
  OBVIOUS
<1> HIDE DEF text
<1>4. i \in 1..Len(text)
  BY <1>1, <1>3
<1>5. i \in DOMAIN text
  BY <1>1, <1>4
<1> QED
  BY <1>1, <1>2, <1>3, <1>5 DEF Minus, text

LEMMA FramedText ==
    ASSUME NEW pre \in Seq(Quiet), NEW core \in Seq(DigitChars), NEW post \in Seq({SpaceChar}),
           NEW base \in Bases
    PROVE  LET text == pre \o core \o post
           IN  /\ text \in Seq(Codes)
               /\ Reading(text, base) = Reading(core, base)
               /\ Minus(pre) => Minus(text)
               /\ pre \in Seq(NoMinus) => ~Minus(text)
               /\ Len(text) = Len(pre) + Len(core) + Len(post)
<1>1. pre \in Seq(Codes) /\ core \in Seq(Codes) /\ post \in Seq(Codes)
  <2>1. Quiet \subseteq Codes /\ DigitChars \subseteq Codes /\ {SpaceChar} \subseteq Codes
    BY CharacterSets
  <2> QED
    BY <2>1, SeqMonotonic
<1>2. core \in Seq(NoMinus) /\ post \in Seq(NoMinus)
  <2>1. DigitChars \subseteq NoMinus /\ {SpaceChar} \subseteq NoMinus
    BY CharacterSets
  <2> QED
    BY <2>1, SeqMonotonic
<1>3. pre \o core \o post \in Seq(Codes)
      /\ Len(pre \o core \o post) = Len(pre) + Len(core) + Len(post)
  BY <1>1, Pieces
<1>4. Minus(pre) => Minus(pre \o core \o post)
  BY <1>1, MinusIn
<1>5. pre \in Seq(NoMinus) => ~Minus(pre \o core \o post)
  <2>1. pre \in Seq(NoMinus) => pre \o core \o post \in Seq(NoMinus)
    BY <1>2, Pieces
  <2> QED
    BY <2>1, NoMinusIn
<1> QED
  BY <1>3, <1>4, <1>5, FramedReading

Magnitude(num, signed) == IF signed /\ IsNegative(num) THEN Pow2(Word) - num ELSE num

NumberHead(num, base, signed, large, flags) ==
    SignText(num, signed, flags) \o PrefixText(base, large, flags)

NumberDigits(value, base, large, precision) ==
    LET bare == Digits(value, base, large) IN Copies(ZeroChar, precision - Len(bare)) \o bare

NumberCore(num, base, signed, large, precision, flags) ==
    NumberHead(num, base, signed, large, flags)
    \o NumberDigits(Magnitude(num, signed), base, large, precision)

LEMMA SignFacts ==
    ASSUME NEW num, NEW signed \in BOOLEAN, NEW flags
    PROVE  LET sign == SignText(num, signed, flags)
           IN  /\ sign \in Seq(Quiet)
               /\ signed /\ IsNegative(num) => sign = <<MinusChar>>
               /\ ~(signed /\ IsNegative(num)) => sign \in Seq(NoMinus)
<1> DEFINE sign == SignText(num, signed, flags)
<1>1. sign \in {<<>>, <<MinusChar>>, <<PlusChar>>, <<SpaceChar>>}
  BY DEF SignText
<1>2. signed /\ IsNegative(num) => sign = <<MinusChar>>
  BY DEF SignText
<1>3. ~(signed /\ IsNegative(num)) => sign \in {<<>>, <<PlusChar>>, <<SpaceChar>>}
  BY DEF SignText
<1>4. MinusChar \in Quiet /\ PlusChar \in Quiet \cap NoMinus /\ SpaceChar \in Quiet \cap NoMinus
  BY CharacterSets
<1> HIDE DEF sign
<1>5. \A S : <<>> \in Seq(S) /\ \A c \in S : <<c>> \in Seq(S)
  OBVIOUS
<1> QED
  BY <1>1, <1>2, <1>3, <1>4, <1>5 DEF sign

LEMMA PrefixFacts ==
    ASSUME NEW base, NEW large \in BOOLEAN, NEW flags
    PROVE  PrefixText(base, large, flags) \in Seq(Quiet \cap NoMinus)
<1> DEFINE S == Quiet \cap NoMinus
<1>1. ZeroChar \in S /\ 88 \in S /\ 120 \in S
  BY CharacterSets
<1>2. PrefixText(base, large, flags) \in {<<>>, <<ZeroChar>>, <<ZeroChar, 88>>, <<ZeroChar, 120>>}
  BY DEF PrefixText
<1> HIDE DEF S
<1>3. <<>> \in Seq(S) /\ <<ZeroChar>> \in Seq(S) /\ <<ZeroChar, 88>> \in Seq(S)
      /\ <<ZeroChar, 120>> \in Seq(S)
  BY <1>1
<1> QED
  BY <1>2, <1>3 DEF S

LEMMA NumberDigitsFacts ==
    ASSUME NEW value \in Nat, NEW base \in Bases, NEW large \in BOOLEAN, NEW precision \in Int
    PROVE  LET digits == NumberDigits(value, base, large, precision)
           IN  /\ digits \in Seq(DigitChars) /\ Len(digits) >= precision
               /\ Reading(digits, base) = value
<1> DEFINE bare == Digits(value, base, large)
           zeros == Copies(ZeroChar, precision - Len(bare))
           digits == zeros \o bare
<1>1. bare \in Seq(DigitChars) /\ Reading(bare, base) = value
  BY DigitsRead
<1>2. Len(bare) \in Nat
  BY <1>1
<1>3. ZeroChar \in DigitChars /\ ZeroChar \in Quiet
  BY CharacterSets
<1> HIDE DEF bare
<1>4. zeros \in Seq(DigitChars) /\ zeros \in Seq(Quiet) /\ Len(zeros) \in Nat
      /\ Len(zeros) >= precision - Len(bare)
  <2>1. precision - Len(bare) \in Int
    BY <1>2
  <2>2. zeros \in Seq(DigitChars) /\ zeros \in Seq(Quiet)
        /\ Len(zeros) = IF precision - Len(bare) > 0 THEN precision - Len(bare) ELSE 0
    BY <1>3, <2>1, CopiesFacts
  <2> HIDE DEF zeros
  <2> QED
    BY <1>2, <2>2
<1> HIDE DEF zeros
<1>5. digits \in Seq(DigitChars) /\ Len(digits) = Len(zeros) + Len(bare)
  BY <1>1, <1>4, ConcatProperties
<1>6. digits \o <<>> = digits /\ <<>> \in Seq({SpaceChar})
  BY <1>5, ConcatEmptySeq
<1>7. Reading(zeros \o bare \o <<>>, base) = value
  BY <1>1, <1>4, <1>6, FramedReading
<1>8. Reading(digits, base) = value
  BY <1>6, <1>7
<1>9. Len(digits) >= precision
  BY <1>2, <1>4, <1>5
<1> QED
  BY <1>5, <1>8, <1>9 DEF NumberDigits, bare, zeros

LEMMA NumberHeadFacts ==
    ASSUME NEW num, NEW base, NEW signed \in BOOLEAN, NEW large \in BOOLEAN, NEW flags,
           NEW before \in Seq(Quiet \cap NoMinus), NEW after \in Seq(Quiet \cap NoMinus)
    PROVE  LET head == before \o SignText(num, signed, flags) \o after
               negative == signed /\ IsNegative(num)
           IN  /\ head \in Seq(Quiet)
               /\ negative => Minus(head)
               /\ ~negative => head \in Seq(NoMinus)
<1> DEFINE sign == SignText(num, signed, flags)
           head == before \o sign \o after
           negative == signed /\ IsNegative(num)
<1>1. sign \in Seq(Quiet) /\ (negative => sign = <<MinusChar>>)
      /\ (~negative => sign \in Seq(NoMinus))
  BY SignFacts
<1>2. before \in Seq(Quiet) /\ before \in Seq(NoMinus) /\ after \in Seq(Quiet)
      /\ after \in Seq(NoMinus)
  BY SeqMonotonic
<1> HIDE DEF sign
<1>3. head \in Seq(Quiet) /\ Len(head) = Len(before) + Len(sign) + Len(after)
      /\ \A j \in 1..Len(sign) : head[Len(before) + j] = sign[j]
  BY <1>1, <1>2, Pieces
<1>4. ~negative => head \in Seq(NoMinus)
  BY <1>1, <1>2, Pieces
<1>5. negative => Minus(head)
  <2> SUFFICES ASSUME negative
               PROVE  Minus(head)
    OBVIOUS
  <2>1. sign[1] = MinusChar /\ Len(sign) = 1
    BY <1>1
  <2> DEFINE i == Len(before) + 1
  <2>2. Len(before) \in Nat /\ Len(after) \in Nat
    BY <1>2
  <2> HIDE DEF head
  <2>3. i \in 1..Len(head) /\ head[i] = MinusChar
    BY <1>3, <2>1, <2>2
  <2>4. i \in DOMAIN head
    BY <1>3, <2>3
  <2> HIDE DEF i
  <2> QED
    BY <2>3, <2>4 DEF Minus
<1> QED
  BY <1>3, <1>4, <1>5 DEF sign

LEMMA HeadIsText ==
    ASSUME NEW num, NEW base, NEW signed \in BOOLEAN, NEW large \in BOOLEAN, NEW flags
    PROVE  NumberHead(num, base, signed, large, flags) \in Seq(Codes)
<1>1. SignText(num, signed, flags) \in Seq(Quiet) /\ PrefixText(base, large, flags) \in Seq(Quiet)
  BY SignFacts, PrefixFacts, SeqMonotonic
<1>2. Quiet \subseteq Codes
  BY CharacterSets
<1>3. SignText(num, signed, flags) \in Seq(Codes) /\ PrefixText(base, large, flags) \in Seq(Codes)
  BY <1>1, <1>2, SeqMonotonic
<1> QED
  BY <1>3, ConcatProperties DEF NumberHead

LEMMA CoreFacts ==
    ASSUME NEW head \in Seq(Codes), NEW digits \in Seq(DigitChars)
    PROVE  LET core == head \o digits
           IN  /\ digits \in Seq(Codes) /\ core \in Seq(Codes)
               /\ Len(core) = Len(head) + Len(digits)
               /\ \A j \in 1..Len(digits) : core[Len(head) + j] \in DigitChars
<1> DEFINE core == head \o digits
<1>3. digits \in Seq(Codes)
  <2>1. DigitChars \subseteq Codes
    BY CharacterSets
  <2> QED
    BY <2>1, SeqMonotonic
<1>5. \A j \in 1..Len(digits) : digits[j] \in DigitChars
  BY ElementOfSeq
<1>6. core \in Seq(Codes) /\ Len(core) = Len(head) + Len(digits)
  BY <1>3, ConcatProperties
<1>7. \A j \in 1..Len(digits) : core[Len(head) + j] = digits[j]
  <2>1. <<>> \in Seq(Codes) /\ core \o <<>> = core
    BY <1>6, ConcatEmptySeq
  <2>2. \A j \in 1..Len(digits) : (head \o digits \o <<>>)[Len(head) + j] = digits[j]
    BY <1>3, <2>1, Pieces
  <2> QED
    BY <2>1, <2>2
<1> QED
  BY <1>3, <1>5, <1>6, <1>7

NumberRight(num, base, signed, large, size, precision, flags) ==
    LET text == _number(num, base, signed, large, size, precision, flags)
        core == NumberCore(num, base, signed, large, precision, flags)
    IN  /\ text \in Seq(Codes)
        /\ Reading(text, base) = Magnitude(num, signed)
        /\ Minus(text) <=> (signed /\ IsNegative(num))
        /\ Len(text) = IF size > Len(core) THEN size ELSE Len(core)
        /\ "left" \in flags => text = core \o Copies(SpaceChar, size - Len(core))

LEMMA NumberFacts ==
    ASSUME NEW num, NEW base \in Bases, NEW signed \in BOOLEAN, NEW large \in BOOLEAN,
           NEW size \in Int, NEW precision \in Int, NEW flags, Magnitude(num, signed) \in Nat
    PROVE  NumberRight(num, base, signed, large, size, precision, flags)
<1> DEFINE text == _number(num, base, signed, large, size, precision, flags)
           core == NumberCore(num, base, signed, large, precision, flags)
           sign == SignText(num, signed, flags)
           prefix == PrefixText(base, large, flags)
           value == Magnitude(num, signed)
           digits == NumberDigits(value, base, large, precision)
           pad == size - Len(core)
           extra == IF pad > 0 THEN pad ELSE 0
           spaces == Copies(SpaceChar, pad)
           zeros == Copies(ZeroChar, pad)
           negative == signed /\ IsNegative(num)
<1>1. core = sign \o prefix \o digits
  BY DEF NumberCore, NumberHead
<1>2. text = IF "left" \in flags THEN core \o spaces
             ELSE IF "zeropad" \in flags THEN sign \o prefix \o zeros \o digits
             ELSE spaces \o sign \o prefix \o digits
  BY <1>1 DEF _number, Padding, NumberDigits, Magnitude, Word
<1>3. digits \in Seq(DigitChars) /\ Reading(digits, base) = value
  BY NumberDigitsFacts
<1>4. Len(core) = Len(sign \o prefix) + Len(digits) /\ Len(core) \in Nat /\ Len(digits) \in Nat
  <2>1. sign \o prefix \in Seq(Codes)
    BY HeadIsText DEF NumberHead
  <2> HIDE DEF sign, prefix, core, digits
  <2>2. core \in Seq(Codes) /\ Len(core) = Len(sign \o prefix) + Len(digits)
    BY <1>1, <1>3, <2>1, CoreFacts
  <2> QED
    BY <1>3, <2>2
<1>5. sign \in Seq(Quiet) /\ prefix \in Seq(Quiet \cap NoMinus) /\ prefix \in Seq(Quiet)
  BY SignFacts, PrefixFacts, SeqMonotonic
<1>6. negative \in BOOLEAN /\ pad \in Int
  BY <1>4
<1> HIDE DEF digits, core, sign, prefix, value, negative
<1>7. /\ spaces \in Seq({SpaceChar}) /\ spaces \in Seq(Quiet \cap NoMinus)
      /\ zeros \in Seq(Quiet \cap NoMinus)
      /\ Len(spaces) = extra /\ Len(zeros) = extra /\ extra \in Nat
  <2>1. SpaceChar \in Quiet \cap NoMinus /\ ZeroChar \in Quiet \cap NoMinus
    BY CharacterSets
  <2> HIDE DEF pad
  <2>2. /\ spaces \in Seq({SpaceChar}) /\ spaces \in Seq(Quiet \cap NoMinus)
        /\ Len(spaces) = IF pad > 0 THEN pad ELSE 0
    BY <1>6, <2>1, CopiesFacts
  <2>3. /\ zeros \in Seq(Quiet \cap NoMinus)
        /\ Len(zeros) = IF pad > 0 THEN pad ELSE 0
    BY <1>6, <2>1, CopiesFacts
  <2> HIDE DEF spaces, zeros
  <2> QED
    BY <1>6, <2>2, <2>3
<1>8. spaces \in Seq(Quiet) /\ zeros \in Seq(Quiet) /\ <<>> \in Seq(Quiet \cap NoMinus)
      /\ <<>> \in Seq({SpaceChar})
  BY <1>7, SeqMonotonic
<1>9. Len(sign) \in Nat /\ Len(prefix) \in Nat /\ Len(sign \o prefix) = Len(sign) + Len(prefix)
  BY <1>5, ConcatProperties
<1> DEFINE Good(pre) == /\ pre \in Seq(Quiet)
                        /\ negative => Minus(pre)
                        /\ ~negative => pre \in Seq(NoMinus)
           Said == /\ text \in Seq(Codes) /\ Reading(text, base) = value
                   /\ negative => Minus(text)
                   /\ ~negative => ~Minus(text)
                   /\ Len(text) = Len(core) + extra
<1>10. ASSUME NEW pre, Good(pre), NEW post \in Seq({SpaceChar}),
              text = pre \o digits \o post,
              Len(pre) + Len(post) = Len(sign \o prefix) + extra
       PROVE  Said
  <2>1. /\ text \in Seq(Codes) /\ Reading(text, base) = Reading(digits, base)
        /\ Minus(pre) => Minus(text)
        /\ pre \in Seq(NoMinus) => ~Minus(text)
        /\ Len(text) = Len(pre) + Len(digits) + Len(post)
    BY <1>3, <1>10, FramedText
  <2>2. Len(pre) \in Nat /\ Len(post) \in Nat /\ Len(sign \o prefix) \in Nat /\ extra \in Nat
    BY <1>7, <1>9, <1>10
  <2> HIDE DEF extra, text
  <2>3. Len(text) = Len(core) + extra
    <3>1. Len(pre) + Len(post) = Len(sign \o prefix) + extra
      BY <1>10
    <3> DEFINE x == Len(text)
               y == Len(core)
               a == Len(pre)
               b == Len(digits)
               c == Len(post)
               d == Len(sign \o prefix)
    <3>2. x = a + b + c /\ a + c = d + extra /\ y = d + b
      BY <1>4, <2>1, <3>1
    <3>3. a \in Nat /\ b \in Nat /\ c \in Nat /\ d \in Nat
      BY <1>4, <2>2
    <3> HIDE DEF x, y, a, b, c, d
    <3>4. x = y + extra
      BY <2>2, <3>2, <3>3
    <3> QED
      BY <3>4 DEF x, y
  <2> QED
    BY <1>3, <1>10, <2>1, <2>3
<1> HIDE DEF text, extra, Good, Said
<1>11. \A before, after \in Seq(Quiet \cap NoMinus) : Good(before \o sign \o after)
  BY NumberHeadFacts DEF sign, negative, Good
<1>12. <<>> \o sign = sign /\ <<>> \o sign \o prefix = sign \o prefix
  BY <1>5, ConcatEmptySeq
<1> HIDE DEF spaces, zeros, pad
<1>13. ASSUME "left" \in flags
       PROVE  Said
  <2>1. text = sign \o prefix \o digits \o spaces
    BY <1>1, <1>2, <1>13
  <2> DEFINE pre == sign \o prefix
  <2>2. Good(pre)
    <3>1. Good(<<>> \o sign \o prefix)
      BY <1>5, <1>8, <1>11
    <3> QED
      BY <1>12, <3>1
  <2> HIDE DEF pre
  <2>3. Len(pre) + Len(spaces) = Len(pre) + extra
    BY <1>7
  <2> QED
    BY <1>7, <1>10, <2>1, <2>2, <2>3 DEF pre
<1>14. ASSUME "left" \notin flags /\ "zeropad" \in flags
       PROVE  Said
  <2> DEFINE after == prefix \o zeros
             pre == sign \o prefix \o zeros
  <2>1. text = pre \o digits \o <<>>
    <3>1. text = pre \o digits
      BY <1>2, <1>14
    <3>2. pre \in Seq(Codes) /\ digits \in Seq(Codes)
      <4>1. Quiet \subseteq Codes /\ DigitChars \subseteq Codes
        BY CharacterSets
      <4>2. pre \in Seq(Quiet)
        BY <1>5, <1>8, ConcatProperties
      <4> QED
        BY <1>3, <4>1, <4>2, SeqMonotonic
    <3>3. pre \o digits \in Seq(Codes)
      BY <3>2, ConcatProperties
    <3> QED
      BY <3>1, <3>3, ConcatEmptySeq
  <2>2. pre = <<>> \o sign \o after /\ after \in Seq(Quiet \cap NoMinus)
    <3>1. sign \o prefix \o zeros = sign \o (prefix \o zeros)
      <4> HIDE DEF after, pre
      <4> QED
        BY ONLY <1>5, <1>8, ConcatAssociative
    <3>2. after \in Seq(Quiet \cap NoMinus)
      BY <1>5, <1>7, ConcatProperties
    <3> QED
      BY <1>12, <3>1, <3>2
  <2> HIDE DEF after
  <2>3. Good(pre)
    <3>1. Good(<<>> \o sign \o after)
      BY <1>8, <1>11, <2>2
    <3> QED
      BY <2>2, <3>1
  <2>4. Len(pre) + Len(<<>>) = Len(sign \o prefix) + extra
    <3>1. sign \o prefix \in Seq(Quiet)
      BY <1>5, ConcatProperties
    <3>2. Len(pre) = Len(sign \o prefix) + Len(zeros)
      BY <1>8, <3>1, ConcatProperties
    <3> QED
      BY <1>6, <1>7, <1>9, <3>2
  <2> HIDE DEF pre
  <2> QED
    BY <1>8, <1>10, <2>1, <2>3, <2>4
<1>15. ASSUME "left" \notin flags /\ "zeropad" \notin flags
       PROVE  Said
  <2> DEFINE pre == spaces \o sign \o prefix
  <2>1. Good(pre)
    BY <1>5, <1>7, <1>11
  <2>2. text = pre \o digits \o <<>>
    <3>1. text = pre \o digits
      BY <1>2, <1>15
    <3>2. pre \in Seq(Codes) /\ digits \in Seq(Codes)
      <4>1. Quiet \subseteq Codes /\ DigitChars \subseteq Codes
        BY CharacterSets
      <4> QED
        BY <1>3, <2>1, <4>1, SeqMonotonic DEF Good
    <3>3. pre \o digits \in Seq(Codes)
      BY <3>2, ConcatProperties
    <3> QED
      BY <3>1, <3>3, ConcatEmptySeq
  <2>3. Len(pre) + Len(<<>>) = Len(sign \o prefix) + extra
    <3>1. spaces \o sign \in Seq(Quiet) /\ Len(spaces \o sign) = Len(spaces) + Len(sign)
      BY <1>5, <1>8, ConcatProperties
    <3>2. Len(pre) = Len(spaces \o sign) + Len(prefix)
      BY <1>5, <3>1, ConcatProperties
    <3> QED
      BY <1>6, <1>7, <1>9, <3>1, <3>2
  <2> HIDE DEF pre
  <2> QED
    BY <1>8, <1>10, <2>1, <2>2, <2>3
<1>16. Said
  BY <1>13, <1>14, <1>15
<1>17. Len(core) + extra = IF size > Len(core) THEN size ELSE Len(core)
  <2> DEFINE y == Len(core)
  <2>1. y \in Nat
    BY <1>4
  <2> HIDE DEF y
  <2>2. y + (IF size - y > 0 THEN size - y ELSE 0) = IF size > y THEN size ELSE y
    BY <2>1
  <2> QED
    BY <2>2 DEF pad, extra, y
<1>18. "left" \in flags => text = core \o spaces
  BY <1>2
<1>19. Minus(text) <=> negative
  BY <1>16 DEF Said
<1> QED
  BY <1>16, <1>17, <1>18, <1>19 DEF NumberRight, Said, negative, value, spaces, pad, text, core

\* Without a width and padding, the text is what it is padded from.
LEMMA BareIsCore ==
    ASSUME NEW num, NEW base \in Bases, NEW signed \in BOOLEAN, NEW large \in BOOLEAN,
           NEW precision \in Int, NEW flags, Magnitude(num, signed) \in Nat
    PROVE  _number(num, base, signed, large, -1, precision, flags \ {"left", "zeropad"})
           = NumberCore(num, base, signed, large, precision, flags)
<1> DEFINE few == flags \ {"left", "zeropad"}
           sign == SignText(num, signed, flags)
           prefix == PrefixText(base, large, flags)
           digits == NumberDigits(Magnitude(num, signed), base, large, precision)
           core == sign \o prefix \o digits
           none == Copies(SpaceChar, -1 - Len(core))
<1>1. SignText(num, signed, few) = sign /\ PrefixText(base, large, few) = prefix
  BY DEF SignText, PrefixText
<1>2. sign \in Seq(Codes) /\ prefix \in Seq(Codes) /\ digits \in Seq(Codes)
  <2>1. sign \in Seq(Quiet) /\ prefix \in Seq(Quiet) /\ digits \in Seq(DigitChars)
    BY SignFacts, PrefixFacts, NumberDigitsFacts, SeqMonotonic
  <2>2. Quiet \subseteq Codes /\ DigitChars \subseteq Codes
    BY CharacterSets
  <2> HIDE DEF sign, prefix, digits
  <2> QED
    BY <2>1, <2>2, SeqMonotonic
<1>3. _number(num, base, signed, large, -1, precision, few) = none \o sign \o prefix \o digits
  <2> HIDE DEF few
  <2>1. "left" \notin few /\ "zeropad" \notin few
    BY DEF few
  <2> HIDE DEF sign, prefix
  <2> QED
    BY <1>1, <2>1 DEF _number, Padding, NumberDigits, Magnitude, Word
<1> HIDE DEF sign, prefix, digits
<1>4. core \in Seq(Codes)
  BY <1>2, ConcatProperties
<1>5. none = <<>>
  <2>1. Len(core) \in Nat
    BY <1>4
  <2> HIDE DEF core
  <2>2. ~(-1 - Len(core) > 0)
    BY <2>1
  <2>3. none = [i \in 1..0 |-> SpaceChar]
    BY <2>2 DEF Copies
  <2> QED
    BY <2>3
<1> HIDE DEF none
<1>6. none \o sign = sign
  BY <1>2, <1>5, ConcatEmptySeq
<1>7. NumberCore(num, base, signed, large, precision, flags) = core
  BY DEF NumberCore, NumberHead, sign, prefix, digits
<1> QED
  BY <1>3, <1>6, <1>7

LEMMA MaxOfTwo ==
    ASSUME NEW x \in Int, NEW y \in Int
    PROVE  Max({x, y}) = IF y > x THEN y ELSE x
<1>1. \E z \in {x, y} : \A u \in {x, y} : z >= u
  <2>1. CASE y > x
    BY <2>1
  <2>2. CASE ~(y > x)
    BY <2>2
  <2> QED
    BY <2>1, <2>2
<1>2. Max({x, y}) \in {x, y} /\ \A u \in {x, y} : Max({x, y}) >= u
  BY <1>1 DEF Max
<1> QED
  BY <1>2

LEMMA PrefixOfPadded ==
    ASSUME NEW core \in Seq(Codes), NEW post \in Seq(Codes)
    PROVE  IsPrefix(core, core \o post)
<1>1. Len(core \o post) = Len(core) + Len(post) /\ Len(core) \in Nat /\ Len(post) \in Nat
  BY ConcatProperties
<1>2. SubSeq(core, 1, Len(core)) = SubSeq(core \o post, 1, Len(core))
  <2>1. CASE Len(core) = 0
    BY <2>1, SubSeqEmpty
  <2>2. CASE Len(core) # 0
    <3>1. 1 \in 1..Len(core) /\ Len(core) \in 1..Len(core)
      BY <1>1, <2>2
    <3> QED
      BY <3>1, SubSeqOfConcat1
  <2> QED
    BY <2>1, <2>2
<1> QED
  BY <1>1, <1>2 DEF IsPrefix

\* At least as many digits as stand at the end.
LEMMA DigitsCounted ==
    ASSUME NEW head \in Seq(Codes), NEW digits \in Seq(DigitChars)
    PROVE  LET core == head \o digits
           IN  Cardinality({i \in DOMAIN core : core[i] \in DigitChars}) >= Len(digits)
<1> DEFINE core == head \o digits
           h == Len(head)
           k == Len(digits)
           D == {i \in DOMAIN core : core[i] \in DigitChars}
<1>1. /\ core \in Seq(Codes) /\ Len(core) = h + k /\ h \in Nat /\ k \in Nat
      /\ \A j \in 1..k : core[h + j] \in DigitChars
  BY CoreFacts
<1> HIDE DEF core, h, k
<1>2. DOMAIN core = 1..h + k
  BY <1>1
<1>3. h + 1..h + k \subseteq D
  <2> SUFFICES ASSUME NEW i \in h + 1..h + k
               PROVE  i \in D
    OBVIOUS
  <2>1. i - h \in 1..k /\ h + (i - h) = i /\ i \in 1..h + k
    BY <1>1
  <2>2. core[h + (i - h)] \in DigitChars
    BY <1>1, <2>1
  <2> QED
    BY <1>2, <2>1, <2>2
<1>4. IsFiniteSet(D)
  <2>1. IsFiniteSet(1..h + k)
    BY <1>1, FS_Interval
  <2>2. D \subseteq 1..h + k
    BY <1>2
  <2> HIDE DEF D
  <2> QED
    BY <2>1, <2>2, FS_Subset
<1> HIDE DEF D
<1>5. Cardinality(h + 1..h + k) <= Cardinality(D) /\ Cardinality(D) \in Nat
  BY <1>3, <1>4, FS_Subset, FS_CardinalityType
<1>6. Cardinality(h + 1..h + k) = k
  <2>1. h + 1 \in Int /\ h + k \in Int
    BY <1>1
  <2>2. Cardinality(h + 1..h + k) = IF h + 1 > h + k THEN 0 ELSE (h + k) - (h + 1) + 1
    BY <2>1, FS_Interval
  <2> QED
    BY <1>1, <2>2
<1> QED
  BY <1>1, <1>5, <1>6 DEF core, k, D

\* The number that an argument is fetched as, with the sign that it gets, is what its type says.
LEMMA TypedFacts ==
    ASSUME NEW c, c.arg[1] \in Nat
    PROVE  LET signed == c.conv \in {"d", "i"}
               num == Fetched(c.arg[1], c.qualifier, signed)
           IN  /\ Magnitude(num, signed) \in Nat
               /\ Typed(c) = IF signed /\ IsNegative(num) THEN -Magnitude(num, signed)
                             ELSE Magnitude(num, signed)
<1> DEFINE signed == c.conv \in {"d", "i"}
           num == Fetched(c.arg[1], c.qualifier, signed)
           w == Width(c.qualifier)
           low == c.arg[1] % Pow2(w)
           p == Pow2(w)
           q == Pow2(Word)
           h == Pow2(w - 1)
<1>1. Typed(c) = IF signed /\ low >= h THEN low - p ELSE low
  BY DEF Typed
<1>2. Magnitude(num, signed) = IF signed /\ IsNegative(num) THEN q - num ELSE num
  BY DEF Magnitude
<1>3. signed \in BOOLEAN
  OBVIOUS
<1>4. /\ low \in 0..p - 1 /\ p \in Nat /\ num \in 0..q - 1 /\ q \in Nat
      /\ ~signed => num = low
      /\ signed /\ low >= h => IsNegative(num) /\ q - num = p - low
      /\ signed /\ ~(low >= h) => ~IsNegative(num) /\ num = low
  <2> HIDE DEF signed
  <2> QED
    BY <1>3, FetchedFacts
<1> HIDE DEF low, p, q, h, num, signed
<1>5. CASE signed /\ low >= h
  BY <1>1, <1>2, <1>4, <1>5 DEF signed, num
<1>6. CASE ~(signed /\ low >= h)
  BY <1>1, <1>2, <1>4, <1>6 DEF signed, num
<1> QED
  BY <1>5, <1>6

LEMMA ItemFields ==
    ASSUME NEW c \in Items
    PROVE  /\ c.precision \in Int /\ Size(c) \in Int
           /\ c.conv \in IntegerConvs => Base(c) \in Bases
           /\ c.arg \in Seq(Int)
BY DEF Items, Size, Base, Bases

LEMMA NumberIsOk ==
    ASSUME NEW c \in Items, Fits(c), c.conv \in IntegerConvs
    PROVE  NumberOk(c)
<1> DEFINE signed == c.conv \in {"d", "i"}
           large == c.conv = "X"
           base == Base(c)
           num == Fetched(c.arg[1], c.qualifier, signed)
           text == ItemText(c)
           bare == ItemText(Bare(c))
           core == NumberCore(num, base, signed, large, c.precision, Flags_(c))
           head == NumberHead(num, base, signed, large, Flags_(c))
           digits == NumberDigits(Magnitude(num, signed), base, large, c.precision)
<1>1. c.precision \in Int /\ Size(c) \in Int /\ base \in Bases
  BY ItemFields DEF Items, Size
<1>2. Magnitude(num, signed) \in Nat
      /\ Typed(c) = IF signed /\ IsNegative(num) THEN -Magnitude(num, signed)
                    ELSE Magnitude(num, signed)
  <2>1. c.arg[1] \in Nat
    BY DEF Fits
  <2> QED
    BY <2>1, TypedFacts
<1>3. signed \in BOOLEAN /\ large \in BOOLEAN
  OBVIOUS
<1>4. c.conv \notin PlainConvs /\ c.conv # "c" /\ c.conv # "s" /\ c.conv # "p"
  BY DEF IntegerConvs, PlainConvs
<1>5. text = _number(num, base, signed, large, Size(c), c.precision, Flags_(c))
  BY <1>4 DEF ItemText, IntegerText
<1>6. bare = core
  <2> DEFINE d == Bare(c)
             few == Flags_(c) \ {"left", "zeropad"}
  <2>1. d.conv = c.conv /\ d.arg = c.arg /\ d.qualifier = c.qualifier /\ d.precision = c.precision
        /\ d.star = FALSE /\ d.width = -1 /\ d.flags = few
    <3> HIDE DEF few
    <3>1. d = Conversion(few, -1, FALSE, c.precision, c.qualifier, c.conv, c.arg)
      BY DEF Bare, few
    <3> HIDE DEF d
    <3> QED
      BY <3>1 DEF Conversion
  <2> HIDE DEF d, few
  <2>2. Size(d) = -1 /\ Flags_(d) = few /\ Base(d) = base
    BY <2>1 DEF Size, Flags_, Base
  <2>3. ItemText(d) = _number(num, base, signed, large, -1, c.precision, few)
    BY <1>4, <2>1, <2>2 DEF ItemText, IntegerText
  <2> HIDE DEF num, signed, large, base, core
  <2>4. _number(num, base, signed, large, -1, c.precision, few) = core
    BY <1>1, <1>2, <1>3, BareIsCore DEF few, core
  <2> QED
    BY <2>3, <2>4 DEF d
<1> HIDE DEF num, signed, large, base, text, bare
<1>7. /\ Reading(text, base) = Magnitude(num, signed)
      /\ Minus(text) <=> (signed /\ IsNegative(num))
      /\ Len(text) = IF Size(c) > Len(core) THEN Size(c) ELSE Len(core)
      /\ "left" \in Flags_(c) => text = core \o Copies(SpaceChar, Size(c) - Len(core))
  <2> DEFINE n == _number(num, base, signed, large, Size(c), c.precision, Flags_(c))
             k == Len(core)
  <2>0. NumberRight(num, base, signed, large, Size(c), c.precision, Flags_(c))
    BY <1>1, <1>2, <1>3, NumberFacts
  <2>1. Reading(n, base) = Magnitude(num, signed)
    BY <2>0 DEF NumberRight
  <2>2. Minus(n) <=> (signed /\ IsNegative(num))
    BY <2>0 DEF NumberRight
  <2>3. Len(n) = IF Size(c) > k THEN Size(c) ELSE k
    BY <2>0 DEF NumberRight
  <2>4. "left" \in Flags_(c) => n = core \o Copies(SpaceChar, Size(c) - k)
    BY DEF _number, Padding, NumberCore, NumberHead, NumberDigits, Magnitude, Word
  <2> HIDE DEF n, core
  <2>5. text = n
    BY <1>5 DEF n
  <2> QED
    BY Zenon, <2>1, <2>2, <2>3, <2>4, <2>5
<1>8. core = head \o digits /\ head \in Seq(Codes) /\ digits \in Seq(DigitChars)
      /\ Len(digits) >= c.precision /\ Len(digits) \in Nat
  <2>1. head \in Seq(Codes)
    BY <1>3, HeadIsText
  <2>2. digits \in Seq(DigitChars) /\ Len(digits) >= c.precision
    BY <1>1, <1>2, <1>3, NumberDigitsFacts
  <2> HIDE DEF digits
  <2> QED
    BY <2>1, <2>2 DEF NumberCore, digits
<1> HIDE DEF core, head, digits
<1>9. core \in Seq(Codes) /\ Len(core) \in Nat
  BY <1>8, CoreFacts
<1>10. Value(text, base) = Typed(c)
  BY <1>2, <1>7 DEF Value, Minus
<1>11. Len(text) = Max({Len(bare), Size(c)})
  BY <1>1, <1>6, <1>7, <1>9, MaxOfTwo
<1>12. Cardinality({i \in DOMAIN bare : bare[i] \in DigitChars}) >= c.precision
  <2>1. Cardinality({i \in DOMAIN core : core[i] \in DigitChars}) >= Len(digits)
    BY <1>8, DigitsCounted
  <2>2. Cardinality({i \in DOMAIN core : core[i] \in DigitChars}) \in Nat
    <3>1. IsFiniteSet(1..Len(core))
      BY <1>9, FS_Interval
    <3>2. {i \in DOMAIN core : core[i] \in DigitChars} \in SUBSET (1..Len(core))
      BY <1>9
    <3> QED
      BY <3>1, <3>2, FS_Subset, FS_CardinalityType
  <2> DEFINE count == Cardinality({i \in DOMAIN core : core[i] \in DigitChars})
             k == Len(digits)
  <2>3. count >= k /\ count \in Nat /\ k >= c.precision /\ k \in Nat
    BY <1>8, <2>1, <2>2
  <2> HIDE DEF count, k
  <2>4. count >= c.precision
    BY <1>1, <2>3
  <2> QED
    BY <1>6, <2>4 DEF count
<1>13. "left" \in Flags_(c) => IsPrefix(bare, text)
  <2>1. Copies(SpaceChar, Size(c) - Len(core)) \in Seq(Codes)
    <3>1. Size(c) - Len(core) \in Int
      BY <1>1, <1>9
    <3>2. SpaceChar \in Codes
      BY CharacterSets
    <3> QED
      BY <3>1, <3>2, CopiesFacts
  <2> QED
    BY <1>6, <1>7, <1>9, <2>1, PrefixOfPadded
<1> QED
  BY <1>10, <1>11, <1>12, <1>13 DEF NumberOk, text, bare, base

\* Every text that is written has only characters, and none of them is NUL.
LEMMA ItemIsText ==
    ASSUME NEW c \in Items, Fits(c)
    PROVE  ItemText(c) \in Seq(Codes)
<1>1. c.precision \in Int /\ Size(c) \in Int
  BY ItemFields DEF Items, Size
<1>2. \A n \in Int : Copies(SpaceChar, n) \in Seq(Codes)
  BY CharacterSets, CopiesFacts
<1>3. CASE c.conv \in PlainConvs
  BY <1>3 DEF ItemText, Fits, PlainConvs, IntegerConvs, Codes
<1>4. CASE c.conv = "c"
  <2>1. c.arg \in Seq(Codes)
    BY <1>4 DEF Fits, IntegerConvs, Codes
  <2>2. Copies(SpaceChar, Size(c) - 1) \in Seq(Codes)
    BY <1>1, <1>2
  <2>3. CharText(c) \in Seq(Codes)
    BY <2>1, <2>2, ConcatProperties DEF CharText
  <2> QED
    BY <1>4, <2>3 DEF ItemText, PlainConvs
<1>5. CASE c.conv = "s"
  <2> DEFINE s == IF c.arg = LowAddress THEN Null ELSE c.arg
  <2>1. s \in Seq(Codes)
    <3>1. Null \in Seq(Codes)
      BY DEF Null, Codes
    <3> QED
      BY <1>5, <3>1 DEF Fits, IntegerConvs, Codes
  <2>2. StringText(c) = (IF "left" \in Flags_(c) THEN <<>> ELSE Copies(SpaceChar, Size(c) - Len(s))) \o s
    BY DEF StringText
  <2> HIDE DEF s
  <2>3. Size(c) - Len(s) \in Int
    BY <1>1, <2>1
  <2>4. Copies(SpaceChar, Size(c) - Len(s)) \in Seq(Codes) /\ <<>> \in Seq(Codes)
    BY <1>2, <2>3
  <2>5. StringText(c) \in Seq(Codes)
    <3> DEFINE pad == IF "left" \in Flags_(c) THEN <<>> ELSE Copies(SpaceChar, Size(c) - Len(s))
    <3>1. pad \in Seq(Codes)
      BY <2>4
    <3> HIDE DEF pad
    <3>2. pad \o s \in Seq(Codes)
      BY <2>1, <3>1, ConcatProperties
    <3> QED
      BY <2>2, <3>2 DEF pad
  <2> QED
    BY <1>5, <2>5 DEF ItemText, PlainConvs
<1>6. CASE c.conv = "p"
  <2> DEFINE num == Fetched(c.arg[1], "l", FALSE)
             size == IF Size(c) = -1 THEN Bits["l"] \div 4 ELSE Size(c)
             flags == IF Size(c) = -1 THEN Flags_(c) \cup {"zeropad"} ELSE Flags_(c)
  <2>1. c.arg[1] \in Nat
    BY <1>6 DEF Fits
  <2>2. num \in Nat /\ Magnitude(num, FALSE) = num
    <3>1. num \in 0..Pow2(Word) - 1 /\ Pow2(Word) \in Nat
      BY <2>1, FetchedFacts
    <3> HIDE DEF num
    <3> QED
      BY <3>1 DEF Magnitude
  <2>3. size \in Int
    <3>1. Bits["l"] \in Nat
      BY BitsAssumption DEF BitsAssumption
    <3> QED
      BY <1>1, <3>1
  <2>4. PointerText(c) = _number(num, 16, FALSE, FALSE, size, c.precision, flags)
    BY DEF PointerText
  <2> HIDE DEF num, size, flags
  <2>5. 16 \in Bases /\ FALSE \in BOOLEAN
    BY DEF Bases
  <2>6. _number(num, 16, FALSE, FALSE, size, c.precision, flags) \in Seq(Codes)
    <3>1. NumberRight(num, 16, FALSE, FALSE, size, c.precision, flags)
      BY <1>1, <2>2, <2>3, <2>5, NumberFacts
    <3> QED
      BY <3>1 DEF NumberRight
  <2> QED
    BY <1>6, <2>4, <2>6 DEF ItemText, PlainConvs
<1>7. CASE c.conv \in IntegerConvs
  <2> DEFINE signed == c.conv \in {"d", "i"}
             large == c.conv = "X"
             num == Fetched(c.arg[1], c.qualifier, signed)
  <2>1. c.arg[1] \in Nat
    BY <1>7 DEF Fits
  <2>2. Magnitude(num, signed) \in Nat
    BY <2>1, TypedFacts
  <2>3. signed \in BOOLEAN /\ large \in BOOLEAN
    OBVIOUS
  <2>4. Base(c) \in Bases
    BY DEF Base, Bases
  <2>5. ItemText(c) = _number(num, Base(c), signed, large, Size(c), c.precision, Flags_(c))
    BY <1>7 DEF ItemText, IntegerText, IntegerConvs, PlainConvs
  <2> HIDE DEF signed, large, num
  <2>6. _number(num, Base(c), signed, large, Size(c), c.precision, Flags_(c)) \in Seq(Codes)
    <3>1. NumberRight(num, Base(c), signed, large, Size(c), c.precision, Flags_(c))
      BY <1>1, <2>2, <2>3, <2>4, NumberFacts
    <3> QED
      BY <3>1 DEF NumberRight
  <2> QED
    BY <2>5, <2>6
<1>8. c.conv \in IntegerConvs \cup PlainConvs \cup {"c", "s", "p"}
  BY DEF Items
<1> QED
  BY <1>3, <1>4, <1>5, <1>6, <1>7, <1>8

MessageTyped == msg.format \in Formats \cup {<<>>}

\* Whatever the flags, width, precision, qualifier and argument of a conversion, and the widths
\* of the C types: the text of a number says its value, fills its width and is no longer than
\* it must be (vsprintf.c:28-134, 309-329).
THEOREM NumbersSayTheirValue == Spec => []NumbersReadBack
<1>1. LibraryInit => MessageTyped
  BY DEF LibraryInit, MessageTyped, NoMessage
<1>2. MessageTyped /\ [Next]_vars => MessageTyped'
  <2> SUFFICES ASSUME MessageTyped, [Next]_vars
               PROVE  MessageTyped'
    OBVIOUS
  <2>1. CASE task = "free" /\ Calls
    <3>1. UNCHANGED msg \/ \E size \in Sizes, format \in Formats : Snprintf(size, format)
      BY <2>1 DEF Calls, Memcpy, Memmove, Memset, Strcpy, Strncpy, Strcat, Strncat, Stores
    <3>2. ASSUME NEW size \in Sizes, NEW format \in Formats, Snprintf(size, format)
          PROVE  msg'.format \in Formats
      BY <3>2 DEF Snprintf
    <3> QED
      BY <3>1, <3>2 DEF MessageTyped
  <2>2. CASE Write \/ Sends \/ UNCHANGED vars
    BY <2>2 DEF Write, Sends, vars, MessageTyped
  <2> QED
    BY <2>1, <2>2 DEF Next
<1>3. MessageTyped => NumbersReadBack
  <2> SUFFICES ASSUME MessageTyped, NEW i \in DOMAIN msg.format, msg.format[i].conv \in IntegerConvs
               PROVE  NumberOk(msg.format[i])
    BY DEF NumbersReadBack
  <2>1. msg.format \in Formats
    <3>1. DOMAIN <<>> = {}
      OBVIOUS
    <3> QED
      BY <3>1 DEF MessageTyped
  <2>2. msg.format \in Seq(Items) /\ Fits(msg.format[i])
    BY <2>1, LibraryAssumption DEF LibraryAssumption
  <2>3. msg.format[i] \in Items
    BY <2>2, ElementOfSeq
  <2> QED
    BY <2>2, <2>3, NumberIsOk
<1> QED
  BY <1>1, <1>2, <1>3, PTL DEF Spec

-----------------------------------------------------------------------------
(* vsnprintf *)

\* Formats with arguments that fit them.
Fitting(format) == format \in Seq(Items) /\ \A i \in 1..Len(format) : Fits(format[i])

Texts(format) == [i \in DOMAIN format |-> ItemText(format[i])]

LEMMA TextsTyped ==
    ASSUME NEW format, Fitting(format)
    PROVE  /\ DOMAIN Texts(format) = 1..Len(format) /\ Len(format) \in Nat
           /\ Len(Texts(format)) = Len(format)
           /\ \A i \in 1..Len(format) :
                 Texts(format)[i] = ItemText(format[i]) /\ Texts(format)[i] \in Seq(Codes)
<1>1. format \in Seq(Items) /\ \A i \in 1..Len(format) : Fits(format[i])
  BY DEF Fitting
<1> DEFINE n == Len(format)
<1>2. n \in Nat /\ DOMAIN format = 1..n
  BY <1>1
<1> HIDE DEF n
<1>3. Texts(format) = [i \in 1..n |-> ItemText(format[i])]
  BY <1>2 DEF Texts
<1>4. \A i \in 1..n : ItemText(format[i]) \in Seq(Codes)
  <2> TAKE i \in 1..n
  <2>1. format[i] \in Items /\ Fits(format[i])
    BY <1>1, ElementOfSeq DEF n
  <2> QED
    BY <2>1, ItemIsText
<1>5. Len([i \in 1..n |-> ItemText(format[i])]) = n
  BY <1>2
<1> QED
  BY <1>2, <1>3, <1>4, <1>5 DEF n

\* The text of the first items, item by item.
FlattenRun(f, texts, n) ==
    /\ f \in [0..n -> Seq(Codes)] /\ f[0] = <<>>
    /\ \A i \in 1..n : f[i] = f[i - 1] \o texts[i]

LEMMA FlattenTurns ==
    ASSUME NEW texts, NEW n \in Nat, DOMAIN texts = 1..n, Len(texts) = n, n = 0 => texts = <<>>,
           \A i \in 1..n : texts[i] \in Seq(Codes)
    PROVE  \E f : FlattenRun(f, texts, n) /\ FlattenSeq(texts) = f[n]
<1> DEFINE S == Seq(Codes)
           step == [i \in 1..n |-> [t \in S |-> t \o texts[i]]]
           Loop(x) == x = [i \in 1..Len(texts) |-> IF i = 1 THEN texts[i] ELSE x[i - 1] \o texts[i]]
<1>1. PICK f \in [0..n -> S] : f[0] = <<>> /\ \A k \in 1..n : f[k] = step[k][f[k - 1]]
  <2>1. step \in LoopBodies(n, S)
    BY ConcatProperties DEF LoopBodies
  <2>2. <<>> \in S
    OBVIOUS
  <2> HIDE DEF S, step
  <2>3. PICK f : LoopRun(f, n, S, <<>>, step)
    BY <2>1, <2>2, Iteration
  <2> QED
    BY <2>3 DEF LoopRun
<1>2. ASSUME NEW k \in 1..n
      PROVE  f[k] = f[k - 1] \o texts[k]
  <2>1. k - 1 \in 0..n
    OBVIOUS
  <2>2. f[k - 1] \in S
    BY <1>1, <2>1
  <2> HIDE DEF S
  <2> QED
    BY <1>1, <2>2
<1>3. FlattenRun(f, texts, n)
  BY <1>1, <1>2 DEF FlattenRun
<1>6. 1 \in 1..n => f[1] = texts[1]
  <2> SUFFICES ASSUME 1 \in 1..n
               PROVE  f[1] = texts[1]
    OBVIOUS
  <2>1. f[1] = f[1 - 1] \o texts[1]
    BY <1>2
  <2>2. f[1 - 1] = f[0]
    OBVIOUS
  <2>3. f[1] = <<>> \o texts[1]
    BY <1>1, <2>1, <2>2
  <2> QED
    BY <2>3, ConcatEmptySeq
<1>4. CASE n = 0
  <2>1. FlattenSeq(texts) = <<>>
    BY <1>4 DEF FlattenSeq
  <2> QED
    BY <1>1, <1>3, <1>4, <2>1
<1>5. CASE n # 0
  <2>1. FlattenSeq(texts) = (CHOOSE x : Loop(x))[n]
    BY Zenon, <1>5 DEF FlattenSeq
  <2> DEFINE g == [i \in 1..n |-> f[i]]
  <2>2. Loop(g)
    <3>1. f[1] = texts[1]
      BY <1>5, <1>6
    <3>2. \A i \in 1..n : i = 1 \/ i - 1 \in 1..n
      OBVIOUS
    <3> QED
      BY <1>2, <3>1, <3>2
  <2>3. ASSUME NEW x, Loop(x)
        PROVE  x[n] = f[n]
    <3> DEFINE T == {k \in 0..n : k = 0 \/ x[k] = f[k]}
    <3>1. 0 \in T
      OBVIOUS
    <3>2. ASSUME NEW k \in 1..n, k - 1 \in T
          PROVE  k \in T
      <4>1. CASE k = 1
        <5>1. x[1] = texts[1]
          BY <2>3, <4>1
        <5> QED
          BY <1>6, <4>1, <5>1
      <4>2. CASE k # 1
        <5>1. x[k] = x[k - 1] \o texts[k]
          BY <2>3, <4>2
        <5>2. x[k - 1] = f[k - 1]
          BY <3>2, <4>2
        <5>3. f[k] = f[k - 1] \o texts[k]
          BY <1>2
        <5>4. x[k] = f[k]
          BY <5>1, <5>2, <5>3
        <5>5. k \in 0..n
          OBVIOUS
        <5> QED
          BY <5>4, <5>5
      <4> QED
        BY <4>1, <4>2
    <3>3. \A k \in 0..n : k \in T
      <4> HIDE DEF T
      <4> QED
        BY <3>1, <3>2, Turns
    <3> QED
      BY <1>5, <3>3
  <2>4. Loop(CHOOSE x : Loop(x))
    <3> HIDE DEF Loop, g
    <3> QED
      BY <2>2
  <2>5. (CHOOSE x : Loop(x))[n] = f[n]
    <3> HIDE DEF Loop
    <3> QED
      BY <2>3, <2>4
  <2> QED
    BY <1>3, <2>1, <2>5
<1> QED
  BY <1>4, <1>5

FormatStates(n) == [mem : MemoryOn(1..n, Bytes), str : Int, hangs : BOOLEAN]

LEMMA PutTyped ==
    ASSUME NEW n \in Nat, NEW m \in MemoryOn(1..n, Bytes), NEW at \in Int, NEW end \in Int,
           NEW text \in Seq(Codes)
    PROVE  /\ Put(m, at, end, text) \in MemoryOn(1..n, Bytes)
           /\ \A a \in 1..n : Put(m, at, end, text)[a] =
                 IF a \in at..at + Len(text) - 1 /\ a <= end THEN text[a - at + 1] ELSE m[a]
<1>1. DOMAIN m = 1..n /\ \A a \in 1..n : m[a] \in Bytes
  BY DEF MemoryOn
<1>2. Put(m, at, end, text) =
        [a \in 1..n |-> IF a \in at..at + Len(text) - 1 /\ a <= end THEN text[a - at + 1] ELSE m[a]]
  BY <1>1 DEF Put
<1>3. \A a \in at..at + Len(text) - 1 : text[a - at + 1] \in Bytes
  <2> TAKE a \in at..at + Len(text) - 1
  <2>1. a - at + 1 \in 1..Len(text)
    OBVIOUS
  <2>2. text[a - at + 1] \in Codes
    BY <2>1, ElementOfSeq
  <2> QED
    BY <2>2 DEF Codes, Bytes
<1> QED
  BY <1>1, <1>2, <1>3 DEF MemoryOn

LEMMA ItemStep ==
    ASSUME NEW n \in Nat, NEW end \in Int, NEW c \in Items, Fits(c), NEW r \in FormatStates(n)
    PROVE  PutItem(r, end, c) \in FormatStates(n)
<1>1. r.mem \in MemoryOn(1..n, Bytes) /\ r.str \in Int /\ r.hangs \in BOOLEAN
  BY DEF FormatStates
<1>2. ItemText(c) \in Seq(Codes)
  BY ItemIsText
<1>3. Put(r.mem, r.str, end, ItemText(c)) \in MemoryOn(1..n, Bytes)
  BY <1>1, <1>2, PutTyped
<1>4. r.str + Len(ItemText(c)) \in Int
  BY <1>1, <1>2
<1>5. (r.hangs \/ Hangs(r.str, end, c)) \in BOOLEAN
  BY DEF Hangs
<1> QED
  BY <1>3, <1>4, <1>5 DEF PutItem, FormatStates

FormatRun(r, m, buf, end, format, n) ==
    /\ r \in [0..Len(format) -> FormatStates(n)]
    /\ r[0] = [mem |-> m, str |-> buf, hangs |-> FALSE]
    /\ \A i \in 1..Len(format) : r[i] = PutItem(r[i - 1], end, format[i])

LEMMA FormatTurns ==
    ASSUME NEW n \in Nat, NEW m \in MemoryOn(1..n, Bytes), NEW buf \in Int, NEW end \in Int,
           NEW format, Fitting(format)
    PROVE  \E r : /\ FormatRun(r, m, buf, end, format, n)
                  /\ Formatted(m, buf, end, format) = r[Len(format)]
<1> DEFINE k == Len(format)
           S == FormatStates(n)
           start == [mem |-> m, str |-> buf, hangs |-> FALSE]
           step == [i \in 1..k |-> [x \in S |-> PutItem(x, end, format[i])]]
           Loop(x) == x = [i \in 0..k |-> IF i = 0 THEN start ELSE PutItem(x[i - 1], end, format[i])]
<1>1. k \in Nat /\ \A i \in 1..k : format[i] \in Items /\ Fits(format[i])
  BY ElementOfSeq DEF Fitting
<1> HIDE DEF k
<1>2. PICK g \in [0..k -> S] : g[0] = start /\ \A i \in 1..k : g[i] = step[i][g[i - 1]]
  <2>1. step \in LoopBodies(k, S)
    <3>1. \A i \in 1..k, x \in S : PutItem(x, end, format[i]) \in S
      BY <1>1, ItemStep
    <3> HIDE DEF S
    <3> QED
      BY <3>1 DEF LoopBodies
  <2>2. start \in S
    BY DEF FormatStates
  <2>3. k \in Nat
    BY <1>1
  <2> HIDE DEF S, step, start
  <2>4. PICK g : LoopRun(g, k, S, start, step)
    BY <2>1, <2>2, <2>3, Iteration
  <2> QED
    BY <2>4 DEF LoopRun
<1> HIDE DEF start, S
<1>3. ASSUME NEW i \in 1..k
      PROVE  g[i] = PutItem(g[i - 1], end, format[i])
  <2>1. i - 1 \in 0..k
    BY <1>1
  <2>2. g[i - 1] \in S
    BY <1>2, <2>1
  <2> QED
    BY <1>2, <2>2
<1>4. Loop(g)
  <2>1. \A i \in 0..k : i = 0 \/ i \in 1..k
    BY <1>1
  <2> QED
    BY <1>2, <1>3, <2>1
<1>5. ASSUME NEW x, Loop(x)
      PROVE  x = g
  <2> DEFINE T == {i \in 0..k : x[i] = g[i]}
  <2>1. 0 \in T
    BY <1>1, <1>2, <1>5
  <2>2. ASSUME NEW i \in 1..k, i - 1 \in T
        PROVE  i \in T
    <3>1. x[i] = PutItem(x[i - 1], end, format[i])
      BY <1>1, <1>5
    <3>2. i \in 0..k
      BY <1>1
    <3> QED
      BY <1>3, <2>2, <3>1, <3>2
  <2>3. \A i \in 0..k : i \in T
    <3> HIDE DEF T
    <3> QED
      BY <1>1, <2>1, <2>2, Turns
  <2>4. \A i \in 0..k : x[i] = g[i]
    BY <2>3
  <2>5. x = [i \in 0..k |-> x[i]]
    BY <1>5
  <2>6. g = [i \in 0..k |-> g[i]]
    BY <1>2
  <2> HIDE DEF Loop, T
  <2> QED
    BY <2>4, <2>5, <2>6
<1>6. Formatted(m, buf, end, format) = (CHOOSE x : Loop(x))[k]
  BY Zenon DEF Formatted, k, start
<1>7. (CHOOSE x : Loop(x)) = g
  <2> HIDE DEF Loop
  <2> QED
    BY <1>4, <1>5
<1>8. FormatRun(g, m, buf, end, format, n)
  BY <1>2, <1>3 DEF FormatRun, k, S, start
<1>9. Formatted(m, buf, end, format) = g[Len(format)]
  BY <1>6, <1>7 DEF k
<1> QED
  BY <1>8, <1>9

\* As much of text stands in the memory from its start as there is room for; the rest is as
\* it was.
Wrote(r, m, end, text) ==
    /\ r.str = Len(text) + 1
    /\ \A a \in DOMAIN m : r.mem[a] = IF a <= Len(text) /\ a <= end THEN text[a] ELSE m[a]

LEMMA PutWrote ==
    ASSUME NEW n \in Nat, NEW m \in MemoryOn(1..n, Bytes), NEW end \in Int, NEW r \in FormatStates(n),
           NEW text \in Seq(Codes), Wrote(r, m, end, text), NEW c \in Items, Fits(c)
    PROVE  Wrote(PutItem(r, end, c), m, end, text \o ItemText(c))
<1> DEFINE more == ItemText(c)
           both == text \o more
           s == PutItem(r, end, c)
           l == Len(text)
           k == Len(more)
<1>1. more \in Seq(Codes)
  BY ItemIsText
<1>2. r.mem \in MemoryOn(1..n, Bytes) /\ r.str = l + 1 /\ l \in Nat /\ DOMAIN m = 1..n
  BY DEF FormatStates, Wrote, MemoryOn
<1>3. \A a \in 1..n : r.mem[a] = IF a <= l /\ a <= end THEN text[a] ELSE m[a]
  BY <1>2 DEF Wrote
<1>4. s.mem = Put(r.mem, r.str, end, more) /\ s.str = r.str + k
  BY DEF PutItem
<1> HIDE DEF more, s, l
<1>5. k \in Nat /\ Len(both) = l + k
  BY <1>1, ConcatProperties DEF l
<1>6. \A a \in 1..l + k : both[a] = IF a <= l THEN text[a] ELSE more[a - l]
  BY <1>1 DEF l
<1> HIDE DEF k, both
<1>7. \A a \in 1..n : s.mem[a] = IF a \in l + 1..l + 1 + k - 1 /\ a <= end
                                 THEN more[a - (l + 1) + 1] ELSE r.mem[a]
  <2>1. r.str \in Int
    BY <1>2
  <2> QED
    BY <1>1, <1>2, <1>4, <2>1, PutTyped DEF k
<1>8. ASSUME NEW a \in 1..n
      PROVE  s.mem[a] = IF a <= l + k /\ a <= end THEN both[a] ELSE m[a]
  <2>1. CASE a \in l + 1..l + k /\ a <= end
    <3>1. a - (l + 1) + 1 = a - l /\ ~(a <= l) /\ a \in 1..l + k /\ a \in l + 1..l + 1 + k - 1
      BY <1>2, <1>5, <2>1
    <3>2. both[a] = more[a - l]
      BY <1>6, <3>1
    <3>3. s.mem[a] = more[a - (l + 1) + 1]
      BY <1>7, <2>1, <3>1
    <3>4. a <= l + k
      BY <1>2, <1>5, <2>1
    <3> QED
      BY <2>1, <3>1, <3>2, <3>3, <3>4
  <2>2. CASE ~(a \in l + 1..l + k /\ a <= end)
    <3>1. ~(a \in l + 1..l + 1 + k - 1 /\ a <= end)
      BY <1>2, <1>5, <2>2
    <3>2. s.mem[a] = r.mem[a]
      BY <1>7, <3>1
    <3>3. CASE a <= l /\ a <= end
      <4>1. a \in 1..l + k /\ a <= l + k
        BY <1>2, <1>5, <3>3
      <4>2. both[a] = text[a]
        BY <1>6, <3>3, <4>1
      <4> QED
        BY <1>3, <3>2, <3>3, <4>1, <4>2
    <3>4. CASE ~(a <= l /\ a <= end)
      <4>1. ~(a <= l + k /\ a <= end)
        BY <1>2, <1>5, <2>2, <3>4
      <4> QED
        BY <1>3, <3>2, <3>4, <4>1
    <3> QED
      BY <3>3, <3>4
  <2> QED
    BY <2>1, <2>2
<1>9. s.str = (l + k) + 1
  BY <1>2, <1>4, <1>5
<1> QED
  BY <1>2, <1>5, <1>8, <1>9 DEF Wrote, s, both, more

LEMMA FormattedWrites ==
    ASSUME NEW n \in Nat, NEW m \in MemoryOn(1..n, Bytes), NEW end \in Int,
           NEW format, Fitting(format)
    PROVE  LET text == FlattenSeq(Texts(format))
               r == Formatted(m, 1, end, format)
           IN  text \in Seq(Codes) /\ r \in FormatStates(n) /\ Wrote(r, m, end, text)
<1> DEFINE k == Len(format)
           texts == Texts(format)
<1>1. /\ DOMAIN texts = 1..k /\ k \in Nat /\ Len(texts) = k
      /\ \A i \in 1..k : texts[i] = ItemText(format[i]) /\ texts[i] \in Seq(Codes)
  BY TextsTyped
<1>2. k = 0 => texts = <<>>
  <2> SUFFICES ASSUME k = 0
               PROVE  texts = <<>>
    OBVIOUS
  <2>1. texts = [i \in DOMAIN texts |-> texts[i]]
    BY DEF Texts
  <2>2. DOMAIN texts = {}
    BY <1>1
  <2>3. <<>> = [i \in {} |-> texts[i]]
    OBVIOUS
  <2> HIDE DEF texts
  <2> QED
    BY <2>1, <2>2, <2>3
<1>3. \A i \in 1..k : format[i] \in Items /\ Fits(format[i])
  BY ElementOfSeq DEF Fitting
<1>4. PICK r : FormatRun(r, m, 1, end, format, n) /\ Formatted(m, 1, end, format) = r[k]
  <2>1. 1 \in Int
    OBVIOUS
  <2> QED
    BY <2>1, FormatTurns
<1> HIDE DEF texts
<1>5. PICK f : FlattenRun(f, texts, k) /\ FlattenSeq(texts) = f[k]
  <2> HIDE DEF k
  <2> QED
    BY <1>1, <1>2, FlattenTurns
<1>6. /\ r \in [0..k -> FormatStates(n)] /\ r[0] = [mem |-> m, str |-> 1, hangs |-> FALSE]
      /\ \A i \in 1..k : r[i] = PutItem(r[i - 1], end, format[i])
  BY <1>4 DEF FormatRun
<1>7. /\ f \in [0..k -> Seq(Codes)] /\ f[0] = <<>>
      /\ \A i \in 1..k : f[i] = f[i - 1] \o texts[i]
  BY <1>5 DEF FlattenRun
<1> HIDE DEF k
<1> DEFINE T == {i \in 0..k : Wrote(r[i], m, end, f[i])}
<1>8. 0 \in T
  <2>1. Wrote([mem |-> m, str |-> 1, hangs |-> FALSE], m, end, <<>>)
    <3>1. DOMAIN m = 1..n
      BY DEF MemoryOn
    <3>2. \A a \in 1..n : ~(a <= Len(<<>>))
      OBVIOUS
    <3> QED
      BY <3>1, <3>2 DEF Wrote
  <2>2. 0 \in 0..k
    BY <1>1
  <2> QED
    BY <1>6, <1>7, <2>1, <2>2
<1>9. ASSUME NEW i \in 1..k, i - 1 \in T
      PROVE  i \in T
  <2>1. i - 1 \in 0..k /\ i \in 0..k
    BY <1>1
  <2>2. r[i - 1] \in FormatStates(n) /\ f[i - 1] \in Seq(Codes)
    BY <1>6, <1>7, <2>1
  <2>3. Wrote(r[i - 1], m, end, f[i - 1])
    BY <1>9
  <2>4. Wrote(PutItem(r[i - 1], end, format[i]), m, end, f[i - 1] \o ItemText(format[i]))
    BY <1>3, <2>2, <2>3, PutWrote
  <2>5. r[i] = PutItem(r[i - 1], end, format[i]) /\ f[i] = f[i - 1] \o ItemText(format[i])
    <3>1. f[i] = f[i - 1] \o texts[i] /\ texts[i] = ItemText(format[i])
      BY <1>1, <1>7
    <3> QED
      BY <1>6, <3>1
  <2> QED
    BY <2>1, <2>4, <2>5
<1>10. \A i \in 0..k : i \in T
  <2> HIDE DEF T
  <2> QED
    BY <1>1, <1>8, <1>9, Turns
<1>11. k \in 0..k
  BY <1>1
<1>12. Wrote(r[k], m, end, f[k]) /\ r[k] \in FormatStates(n) /\ f[k] \in Seq(Codes)
  BY <1>6, <1>7, <1>10, <1>11
<1> QED
  BY <1>4, <1>5, <1>12 DEF texts

\* The string that vsnprintf leaves in a buffer of size characters at address 1.
Buffered(after, m, size, format, n) ==
    LET text == FlattenSeq(Texts(format))
        fits == Min({Len(text), size - 1})
    IN  /\ after \in MemoryOn(1..n, Bytes)
        /\ \A a \in 1..n : a >= 1 + size => after[a] = m[a]
        /\ size > 0 => /\ IsString(after, 1)
                       /\ StringAt(after, 1) = SubSeq(text, 1, fits)
                       /\ SubSeq(text, 1, fits) \in Seq(Codes)

LEMMA BufferHolds ==
    ASSUME NEW n \in Nat, NEW m \in MemoryOn(1..n, Bytes), NEW size \in 0..n,
           NEW format, Fitting(format)
    PROVE  Buffered(vsnprintf(m, 1, size, format).mem, m, size, format, n)
<1> DEFINE text == FlattenSeq(Texts(format))
           r == Formatted(m, 1, size, format)
           after == vsnprintf(m, 1, size, format).mem
           fits == Min({Len(text), size - 1})
           l == Len(text)
<1>1. text \in Seq(Codes) /\ r \in FormatStates(n) /\ Wrote(r, m, size, text)
  BY FormattedWrites
<1>2. after = Terminate(r.mem, r.str, size, size)
  <2>1. 1 + size - 1 = size
    OBVIOUS
  <2> QED
    BY <2>1 DEF vsnprintf
<1> HIDE DEF text, r, after
<1>3. r.mem \in MemoryOn(1..n, Bytes) /\ r.str = l + 1 /\ l \in Nat
  BY <1>1 DEF FormatStates, Wrote
<1>4. \A a \in 1..n : r.mem[a] = IF a <= l /\ a <= size THEN text[a] ELSE m[a]
  BY <1>1 DEF Wrote, MemoryOn
<1>5. \A a \in 1..l : text[a] \in Codes
  BY <1>1, ElementOfSeq
<1> HIDE DEF l
<1> DEFINE last == IF l + 1 <= size THEN l + 1 ELSE size
<1>6. after = IF size > 0 THEN [r.mem EXCEPT ![last] = 0] ELSE r.mem
  BY <1>2, <1>3 DEF Terminate
<1>7. last \in 0..size /\ (size > 0 => last \in 1..n)
  BY <1>3
<1> HIDE DEF last
<1>8. after \in MemoryOn(1..n, Bytes)
      /\ \A a \in 1..n : after[a] = IF size > 0 /\ a = last THEN 0 ELSE r.mem[a]
  <2> DEFINE M == r.mem
  <2>1. M \in [1..n -> Bytes] /\ 0 \in Bytes
    <3>1. M \in [1..n -> Bytes]
      BY <1>3 DEF MemoryOn
    <3>2. 0 \in Bytes
      BY DEF Bytes
    <3> QED
      BY <3>1, <3>2
  <2>2. after = IF size > 0 THEN [M EXCEPT ![last] = 0] ELSE M
    BY <1>6
  <2> HIDE DEF M
  <2>3. CASE size > 0
    <3>1. after = [M EXCEPT ![last] = 0] /\ last \in 1..n
      BY <1>7, <2>2, <2>3
    <3>2. after \in [1..n -> Bytes] /\ \A a \in 1..n : after[a] = IF a = last THEN 0 ELSE M[a]
      BY <2>1, <3>1
    <3> QED
      BY <2>3, <3>2 DEF MemoryOn, M
  <2>4. CASE ~(size > 0)
    BY <2>1, <2>2, <2>4 DEF MemoryOn, M
  <2> QED
    BY <2>3, <2>4
<1>9. ASSUME NEW a \in 1..n, a >= 1 + size
      PROVE  after[a] = m[a]
  BY <1>4, <1>7, <1>8, <1>9
<1>10. ASSUME size > 0
       PROVE  /\ IsString(after, 1)
              /\ StringAt(after, 1) = SubSeq(text, 1, fits)
              /\ SubSeq(text, 1, fits) \in Seq(Codes)
  <2>1. fits = last - 1
    <3>1. l \in Nat /\ size - 1 \in Nat
      BY <1>3, <1>10
    <3>2. Min({l, size - 1}) = IF l <= size - 1 THEN l ELSE size - 1
      BY <3>1, MinOfTwo
    <3> QED
      BY <1>3, <3>2 DEF last, l
  <2> HIDE DEF fits
  <2>2. last \in 1..n /\ fits \in Nat /\ fits <= l /\ fits < size /\ fits \in 0..n - 1
    BY <1>3, <1>7, <1>10, <2>1 DEF last
  <2>3. \A i \in 1..fits : after[i] = text[i] /\ text[i] \in Codes
    <3> TAKE i \in 1..fits
    <3>1. i \in 1..n /\ i # last /\ i <= l /\ i <= size /\ i \in 1..l
      BY <1>3, <2>1, <2>2
    <3> QED
      BY <1>4, <1>5, <1>8, <3>1
  <2>4. StringOf(after, 1, fits)
    <3>1. after[1 + fits] = 0
      <4>1. 1 + fits = last
        BY <2>1, <2>2
      <4> QED
        BY <1>8, <1>10, <2>2, <4>1
    <3>2. ASSUME NEW i \in 0..fits - 1
          PROVE  after[1 + i] # 0
      <4>1. 1 + i \in 1..fits
        BY <2>2
      <4>2. after[1 + i] \in Codes
        BY <2>3, <4>1
      <4> DEFINE v == after[1 + i]
      <4>3. v \in Codes
        BY <4>2
      <4> HIDE DEF v
      <4>4. v # 0
        BY <4>3 DEF Codes
      <4> QED
        BY <4>4 DEF v
    <3> QED
      BY <3>1, <3>2 DEF StringOf
  <2>5. IsString(after, 1) /\ strlen(after, 1) = fits
    <3>1. 1 \in 1..n
      BY <2>2
    <3> QED
      BY <1>8, <2>2, <2>4, <3>1, StrlenUnique
  <2>6. StringAt(after, 1) = [i \in 1..fits |-> after[i]]
    <3>1. StringAt(after, 1) = [i \in 1..fits |-> after[1 + i - 1]]
      BY <2>5 DEF StringAt
    <3>2. \A i \in 1..fits : 1 + i - 1 = i
      BY <2>2
    <3> QED
      BY <3>1, <3>2
  <2>7. [i \in 1..fits |-> after[i]] = [i \in 1..fits |-> text[i]]
    BY <2>3
  <2>8. /\ SubSeq(text, 1, fits) \in Seq(Codes)
        /\ SubSeq(text, 1, fits) = [i \in 1..fits |-> text[i]]
    <3> DEFINE sub == SubSeq(text, 1, fits)
               cut == [i \in 1..fits |-> text[i]]
    <3>1. /\ sub \in Seq(Codes) /\ Len(sub) = IF 1 <= fits THEN fits - 1 + 1 ELSE 0
          /\ \A i \in 1..fits - 1 + 1 : sub[i] = text[1 + i - 1]
      <4>1. 1 \in Int /\ fits \in Int
        BY <2>2
      <4> QED
        BY <2>3, <4>1, SubSeqProperties
    <3> HIDE DEF sub
    <3>2. Len(sub) = fits
      BY <2>2, <3>1
    <3>3. cut \in Seq(Codes) /\ Len(cut) = fits /\ \A i \in 1..fits : cut[i] = text[i]
      BY <2>2, <2>3
    <3> HIDE DEF cut
    <3>4. \A i \in 1..fits : sub[i] = cut[i]
      <4> TAKE i \in 1..fits
      <4>1. i \in 1..fits - 1 + 1 /\ 1 + i - 1 = i
        BY <2>2
      <4>2. sub[i] = text[1 + i - 1]
        BY <3>1, <4>1
      <4> QED
        BY <3>3, <4>1, <4>2
    <3>5. sub = cut
      BY <3>1, <3>2, <3>3, <3>4, SeqEqual
    <3> QED
      BY <3>1, <3>5 DEF sub, cut
  <2> QED
    BY <2>5, <2>6, <2>7, <2>8
<1> QED
  BY <1>8, <1>9, <1>10 DEF Buffered, text, after, l

\* What a call of vsnprintf in a free buffer gets and leaves.
LEMMA SnprintfLeaves ==
    ASSUME mem \in MessageBuffers, NEW size \in Sizes, NEW format \in Formats, Snprintf(size, format)
    PROVE  LET text == FlattenSeq(Texts(format))
               fits == Min({Len(text), size - 1})
           IN  /\ msg' = [size |-> size, format |-> format]
               /\ \A a \in Addr : a >= Buf + size => mem'[a] = mem[a]
               /\ size > 0 => /\ StringAt(mem', Buf) = SubSeq(text, 1, fits)
                              /\ SubSeq(text, 1, fits) \in Seq(Codes)
<1>1. mem \in Memories
  BY LibraryAssumption DEF LibraryAssumption
<1> DEFINE n == Cardinality(DOMAIN mem)
<1>2. n \in Nat /\ mem \in MemoryOn(1..n, Bytes) /\ size \in 0..n
  BY <1>1, MemoriesTyped
<1>3. Addr = 1..n
  BY <1>2 DEF MemoryOn, Addr
<1>4. Fitting(format)
  <2>1. format \in Seq(Items) /\ \A i \in DOMAIN format : Fits(format[i])
    BY LibraryAssumption DEF LibraryAssumption
  <2> QED
    BY <2>1 DEF Fitting
<1> DEFINE after == vsnprintf(mem, 1, size, format).mem
<1>5. mem' = after /\ msg' = [size |-> size, format |-> format]
  BY DEF Snprintf, Buf
<1> HIDE DEF n
<1>6. Buffered(after, mem, size, format, n)
  BY <1>2, <1>4, BufferHolds
<1> HIDE DEF after
<1> QED
  BY <1>3, <1>5, <1>6 DEF Buf, Buffered

\* A memory is no longer free after a call of vsnprintf only.
LEMMA LeavesFree ==
    ASSUME [Next]_vars, task = "free", task' # "free"
    PROVE  mem \in MessageBuffers /\ \E size \in Sizes, format \in Formats : Snprintf(size, format)
<1>1. CASE Calls
  BY <1>1 DEF Calls, Memcpy, Memmove, Memset, Strcpy, Strncpy, Strcat, Strncat, Stores
<1>2. CASE Write \/ Sends \/ UNCHANGED vars
  BY <1>2 DEF Write, Sends, vars
<1> QED
  BY <1>1, <1>2 DEF Next

\* For memories, buffers, formats and texts of any length: nothing outside the buffer changes,
\* and the buffer holds as much of the message as fits, and a terminator
\* (vsprintf.c:142-152, 331-336).
THEOREM MessageFits == Spec => BufferKept
<1>1. ASSUME [Next]_vars
      PROVE  task = "free" /\ task' # "free" =>
             LET text == FlattenSeq([i \in DOMAIN msg'.format |-> ItemText(msg'.format[i])])
                 fits == Min({Len(text), msg'.size - 1})
             IN  /\ \A a \in Addr : a >= Buf + msg'.size => mem'[a] = mem[a]
                 /\ task' = "formatted" /\ msg'.size > 0 =>
                       StringAt(mem', Buf) = SubSeq(text, 1, fits)
  <2> SUFFICES ASSUME task = "free", task' # "free"
               PROVE  /\ \A a \in Addr : a >= Buf + msg'.size => mem'[a] = mem[a]
                      /\ msg'.size > 0 =>
                            StringAt(mem', Buf)
                            = SubSeq(FlattenSeq(Texts(msg'.format)), 1,
                                     Min({Len(FlattenSeq(Texts(msg'.format))), msg'.size - 1}))
    BY DEF Texts
  <2>1. PICK size \in Sizes, format \in Formats : Snprintf(size, format)
    BY <1>1, LeavesFree
  <2>2. mem \in MessageBuffers
    BY <1>1, LeavesFree
  <2>3. msg' = [size |-> size, format |-> format]
    BY <2>1 DEF Snprintf
  <2>4. msg'.size = size /\ msg'.format = format
    BY <2>3
  <2>5. /\ \A a \in Addr : a >= Buf + size => mem'[a] = mem[a]
        /\ size > 0 => StringAt(mem', Buf)
                       = SubSeq(FlattenSeq(Texts(format)), 1,
                                Min({Len(FlattenSeq(Texts(format))), size - 1}))
    BY <2>1, <2>2, SnprintfLeaves
  <2> QED
    BY <2>4, <2>5
<1> QED
  BY <1>1, PTL DEF Spec, BufferKept

-----------------------------------------------------------------------------
(* The serial line *)

Lines == [dlab : {0}, divisor : {1}, format : {3}, holds : Seq(Codes)]

\* The line is set up, and carries or has carried what was written.
LineRight ==
    /\ uart \in Lines
    /\ str \in Seq(Codes) /\ sent \in Seq(Codes) /\ wire \in Seq(Codes)
    /\ WireIsText

\* A message formatted is a string.
MessageIsText == task = "formatted" /\ msg.size > 0 => StringAt(mem, Buf) \in Seq(Codes)

\* What a write to a register leaves in the others.
LEMMA RegisterWritten ==
    ASSUME NEW u, NEW value
    PROVE  /\ UartWrite(u, "LINE_CTRL", value)
              = [dlab |-> value \div 128, divisor |-> Divisor(u, "LINE_CTRL", value),
                 format |-> value % 128, holds |-> u.holds]
           /\ UartWrite(u, "INT_EN", value)
              = [dlab |-> u.dlab, divisor |-> Divisor(u, "INT_EN", value),
                 format |-> u.format, holds |-> u.holds]
           /\ UartWrite(u, "MODEM_CTRL", value)
              = [dlab |-> u.dlab, divisor |-> Divisor(u, "MODEM_CTRL", value),
                 format |-> u.format, holds |-> u.holds]
           /\ UartWrite(u, "DATA", value)
              = [dlab |-> u.dlab, divisor |-> Divisor(u, "DATA", value), format |-> u.format,
                 holds |-> IF u.dlab = 0 THEN Sending(value) ELSE u.holds]
BY DEF UartWrite

\* serial_init programs the divisor 1 and eight bits, and lets go of the divisor's latch.
LEMMA LineSetUp == serial_init(Reset) \in Lines /\ serial_init(Reset).holds = <<>>
<1> DEFINE R(d, v, f) == [dlab |-> d, divisor |-> v, format |-> f, holds |-> Idle]
           off == UartWrite(Reset, "INT_EN", 0)
           access == UartWrite(off, "LINE_CTRL", 128)
           low == UartWrite(access, "DATA", 1)
           high == UartWrite(low, "INT_EN", 0)
           line == UartWrite(high, "LINE_CTRL", 3)
           end == UartWrite(line, "MODEM_CTRL", 11)
<1>1. off = R(0, 12, 0)
  <2>1. Reset = R(0, 12, 0)
    BY DEF Reset
  <2>2. Divisor(R(0, 12, 0), "INT_EN", 0) = 12
    BY DEF Divisor
  <2> QED
    BY <2>1, <2>2, RegisterWritten
<1> HIDE DEF off
<1>2. access = R(1, 12, 0)
  <2>1. 128 \div 128 = 1 /\ 128 % 128 = 0
    OBVIOUS
  <2>2. Divisor(R(0, 12, 0), "LINE_CTRL", 128) = 12
    BY DEF Divisor
  <2> QED
    BY <1>1, <2>1, <2>2, RegisterWritten
<1> HIDE DEF access
<1>3. low = R(1, 1, 0)
  <2>1. (12 \div 256) * 256 + 1 = 1
    OBVIOUS
  <2>2. Divisor(R(1, 12, 0), "DATA", 1) = 1
    BY <2>1 DEF Divisor
  <2> QED
    BY <1>2, <2>2, RegisterWritten
<1> HIDE DEF low
<1>4. high = R(1, 1, 0)
  <2>1. (1 % 256) + 0 * 256 = 1
    OBVIOUS
  <2>2. Divisor(R(1, 1, 0), "INT_EN", 0) = 1
    BY <2>1 DEF Divisor
  <2> QED
    BY <1>3, <2>2, RegisterWritten
<1> HIDE DEF high
<1>5. line = R(0, 1, 3)
  <2>1. 3 \div 128 = 0 /\ 3 % 128 = 3
    OBVIOUS
  <2>2. Divisor(R(1, 1, 0), "LINE_CTRL", 3) = 1
    BY DEF Divisor
  <2> QED
    BY <1>4, <2>1, <2>2, RegisterWritten
<1> HIDE DEF line
<1>6. end = R(0, 1, 3)
  <2>1. Divisor(R(0, 1, 3), "MODEM_CTRL", 11) = 1
    BY DEF Divisor
  <2> QED
    BY <1>5, <2>1, RegisterWritten
<1> HIDE DEF end
<1>7. (115200 \div 115200) % 65536 = 1 /\ 1 % 256 = 1 /\ 1 \div 256 = 0
      /\ ~(115200 < 2 \/ 115200 > 115200)
  OBVIOUS
<1>8. serial_init(Reset) = end
  BY <1>7 DEF serial_init, _init_com, LINE_CTRL_DLAB, LINE_CTRL_8BIT, off, access, low, high, line, end
<1>9. R(0, 1, 3) \in Lines /\ R(0, 1, 3).holds = <<>>
  <2>1. Idle \in Seq(Codes) /\ Idle = <<>>
    BY DEF Idle
  <2>2. R(0, 1, 3) \in Lines /\ R(0, 1, 3).holds = Idle
    BY <2>1 DEF Lines
  <2> HIDE DEF R
  <2> QED
    BY <2>1, <2>2
<1> HIDE DEF R
<1> QED
  BY <1>6, <1>8, <1>9

LEMMA LineStep ==
    ASSUME LineRight, Driver = "kernel", serial_write_byte \/ Transmit
    PROVE  LineRight'
<1>1. /\ uart \in Lines /\ uart.holds \in Seq(Codes)
      /\ str \in Seq(Codes) /\ sent \in Seq(Codes) /\ wire \in Seq(Codes)
      /\ wire \o uart.holds \o str = sent
  BY DEF LineRight, WireIsText, Lines
<1>2. CASE serial_write_byte
  <2>1. str # <<>> /\ uart.holds = <<>> /\ str' = Tail(str) /\ sent' = sent /\ wire' = wire
        /\ uart' = UartWrite(uart, "DATA", Head(str))
    BY <1>2 DEF serial_write_byte, _is_transmit_empty, Idle
  <2>2. Head(str) \in Codes /\ Tail(str) \in Seq(Codes) /\ str = <<Head(str)>> \o Tail(str)
    BY <1>1, <2>1
  <2>3. uart.dlab = 0 /\ uart.divisor = 1 /\ uart.format = 3
    BY <1>1 DEF Lines
  <2>4. <<Head(str)>> \in Seq(Codes) /\ Sending(Head(str)) = <<Head(str)>>
    BY <2>2 DEF Sending
  <2>5. uart' \in Lines /\ uart'.holds = <<Head(str)>>
    <3> DEFINE byte == Head(str)
    <3>1. Divisor(uart, "DATA", byte) = 1
      BY <2>3 DEF Divisor
    <3> HIDE DEF byte
    <3>2. UartWrite(uart, "DATA", byte) = [dlab |-> 0, divisor |-> 1, format |-> 3, holds |-> Sending(byte)]
      BY <2>3, <3>1, RegisterWritten
    <3>3. Sending(byte) \in Seq(Codes)
      BY <2>4 DEF byte
    <3>4. UartWrite(uart, "DATA", byte) \in Lines /\ UartWrite(uart, "DATA", byte).holds = Sending(byte)
      BY <3>2, <3>3 DEF Lines
    <3> QED
      BY <2>1, <2>4, <3>4 DEF byte
  <2>6. wire \o <<Head(str)>> \o Tail(str) = wire \o (<<Head(str)>> \o Tail(str))
    <3> DEFINE one == <<Head(str)>>
               rest == Tail(str)
    <3>1. wire \in Seq(Codes) /\ one \in Seq(Codes) /\ rest \in Seq(Codes)
      BY <1>1, <2>2, <2>4
    <3> HIDE DEF one, rest
    <3>2. (wire \o one) \o rest = wire \o (one \o rest)
      BY <3>1, ConcatAssociative
    <3> QED
      BY <3>2 DEF one, rest
  <2>7. wire \o <<>> \o str = wire \o str
    BY <1>1, ConcatEmptySeq
  <2>8. wire' \o uart'.holds \o str' = sent'
    BY <1>1, <2>1, <2>2, <2>5, <2>6, <2>7
  <2> QED
    BY <1>1, <2>1, <2>2, <2>5, <2>8 DEF LineRight, WireIsText
<1>3. CASE Transmit
  <2>1. uart.divisor = 1 /\ uart.format = 3
    BY <1>1 DEF Lines
  <2>2. wire' = wire \o uart.holds /\ uart' = [uart EXCEPT !.holds = Idle] /\ str' = str /\ sent' = sent
    BY <1>3, <2>1 DEF Transmit
  <2>3. uart' \in Lines /\ uart'.holds = <<>>
    <3>1. Idle \in Seq(Codes) /\ Idle = <<>>
      BY DEF Idle
    <3>2. uart' \in Lines /\ uart'.holds = Idle
      BY <1>1, <2>2, <3>1 DEF Lines
    <3> QED
      BY <3>1, <3>2
  <2>4. wire' \in Seq(Codes)
    BY <1>1, <2>2, ConcatProperties
  <2>5. wire' \o <<>> = wire'
    BY <2>4, ConcatEmptySeq
  <2>6. wire' \o uart'.holds \o str' = sent'
    BY <1>1, <2>2, <2>3, <2>5
  <2> QED
    BY <1>1, <2>2, <2>3, <2>4, <2>6 DEF LineRight, WireIsText
<1> QED
  BY <1>2, <1>3

\* With the kernel's driver, whatever is written: at any moment the other end has what is
\* neither in the device nor still to be written, whole and in order (serial.c:80-106).
THEOREM LineCarriesText ==
    ASSUME Driver = "kernel"
    PROVE  Spec => []WireIsText
<1> DEFINE Inv == LineRight /\ MessageIsText
<1>1. LibraryInit => Inv
  <2> SUFFICES ASSUME LibraryInit
               PROVE  Inv
    OBVIOUS
  <2>1. uart = serial_init(Reset) /\ str = <<>> /\ sent = <<>> /\ wire = <<>> /\ task = "free"
    BY DEF LibraryInit, SerialInit
  <2>2. uart \in Lines /\ uart.holds = <<>>
    BY <2>1, LineSetUp
  <2>3. <<>> \in Seq(Codes) /\ <<>> \o <<>> \o <<>> = <<>>
    BY ConcatEmptySeq
  <2> QED
    BY <2>1, <2>2, <2>3 DEF LineRight, WireIsText, MessageIsText
<1>2. Inv /\ [Next]_vars => Inv'
  <2> SUFFICES ASSUME Inv, [Next]_vars
               PROVE  Inv'
    OBVIOUS
  <2>1. CASE task = "free" /\ Calls
    <3>1. UNCHANGED serialVars
      BY <2>1 DEF Calls, Memcpy, Memmove, Memset, Strcpy, Strncpy, Strcat, Strncat, Stores, Snprintf
    <3>2. LineRight'
      BY <3>1 DEF LineRight, WireIsText, serialVars
    <3>3. CASE task' = "free"
      BY <3>2, <3>3 DEF MessageIsText
    <3>4. CASE task' # "free"
      <4>1. PICK size \in Sizes, format \in Formats : Snprintf(size, format)
        BY <2>1, <3>4, LeavesFree
      <4>2. mem \in MessageBuffers
        BY <2>1, <3>4, LeavesFree
      <4>3. msg' = [size |-> size, format |-> format]
        BY <4>1 DEF Snprintf
      <4>4. size > 0 => StringAt(mem', Buf) \in Seq(Codes)
        BY <4>1, <4>2, SnprintfLeaves
      <4> QED
        BY <3>2, <4>3, <4>4 DEF MessageIsText
    <3> QED
      BY <3>3, <3>4
  <2>2. CASE Write
    <3> DEFINE text == StringAt(mem, Buf)
    <3>1. /\ uart.holds = <<>> /\ uart' = uart /\ str' = text /\ sent' = text /\ wire' = <<>>
          /\ task' = "writing" /\ text \in Seq(Codes)
      BY <2>2 DEF Write, StartWrite, MessageIsText, Idle
    <3> HIDE DEF text
    <3>2. <<>> \in Seq(Codes) /\ <<>> \o <<>> \o text = text
      <4>1. <<>> \o <<>> = <<>>
        OBVIOUS
      <4> QED
        BY <3>1, <4>1, ConcatEmptySeq
    <3>3. LineRight'
      BY <3>1, <3>2 DEF LineRight, WireIsText
    <3> QED
      BY <3>1, <3>3 DEF MessageIsText
  <2>3. CASE Sends
    <3>1. LineRight'
      BY <2>3, LineStep DEF Sends
    <3> QED
      BY <2>3, <3>1 DEF Sends, MessageIsText
  <2>4. CASE UNCHANGED vars
    BY <2>4 DEF vars, serialVars, LineRight, WireIsText, MessageIsText
  <2> QED
    BY <2>1, <2>2, <2>3, <2>4 DEF Next
<1>3. Inv => WireIsText
  BY DEF LineRight
<1> HIDE DEF Inv
<1> QED
  BY <1>1, <1>2, <1>3, PTL DEF Spec
=============================================================================
