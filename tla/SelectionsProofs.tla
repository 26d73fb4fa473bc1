-------------------------- MODULE SelectionsProofs --------------------------
(***************************************************************************)
(* Facts about Select for lists of any length: what it returns is a list   *)
(* of the same elements, no longer than the one it selects from, and it    *)
(* grows with the set.  Each is proved by induction on how much of the list*)
(* has been looked at (Induct).                                            *)
(***************************************************************************)
EXTENDS Selections, WellFoundedInduction, TLAPS

\* The definition of upTo in Select, for the first m elements.
UpTo(f, s, S, m) ==
    f = [n \in 0 .. m |-> IF n = 0 THEN <<>>
                          ELSE IF s[n] \in S THEN Append(f[n - 1], s[n]) ELSE f[n - 1]]

\* A set of numbers that holds 0 and, with a number, the next one has them all.
LEMMA Induct ==
  ASSUME NEW N \in Nat, NEW P, 0 \in P, \A n \in 0 .. N - 1 : n \in P => n + 1 \in P
  PROVE  0 .. N \subseteq P
<1>. SUFFICES ASSUME NEW k \in 0 .. N, k \notin P PROVE FALSE
  OBVIOUS
<1>. DEFINE T == {n \in 0 .. N : n \notin P}
<1>1. T \in SUBSET Nat /\ k \in T
  OBVIOUS
<1>2. PICK m \in T : \A n \in T : m <= n
  <2>1. T # {} /\ T \subseteq Nat
    BY <1>1
  <2>2. T \subseteq 0 .. N
    OBVIOUS
  <2>. HIDE DEF T
  <2>3. PICK m \in T : \A n \in T : ~(<<n, m>> \in OpToRel(<, Nat))
    BY <2>1, WFMin, NatLessThanWellFounded, Zenon
  <2>4. \A n \in T : ~(n < m)
    BY <2>1, <2>3 DEF OpToRel
  <2>. QED
    BY <2>1, <2>2, <2>4
<1>3. m \in Nat /\ m # 0 /\ m <= N /\ m - 1 \in 0 .. N - 1 /\ m - 1 \notin T
  BY <1>2
<1>4. m - 1 \in P
  BY <1>3
<1>. QED
  BY <1>2, <1>3, <1>4

LEMMA UpToExists ==
  ASSUME NEW T, NEW s \in Seq(T), NEW S
  PROVE  \E f : UpTo(f, s, S, Len(s))
<1>. DEFINE P == {n \in 0 .. Len(s) : \E f : UpTo(f, s, S, n)}
<1>1. Len(s) \in Nat
  OBVIOUS
<1>2. 0 \in P
  <2>1. UpTo([n \in 0 .. 0 |-> <<>>], s, S, 0)
    BY DEF UpTo
  <2>. QED
    BY <1>1, <2>1
<1>3. ASSUME NEW m \in 0 .. Len(s) - 1, m \in P PROVE m + 1 \in P
  <2>1. PICK f : UpTo(f, s, S, m)
    BY <1>3
  <2>. DEFINE g == [n \in 0 .. m + 1 |-> IF n <= m THEN f[n]
                                        ELSE IF s[n] \in S THEN Append(f[n - 1], s[n]) ELSE f[n - 1]]
  <2>2. m \in Nat /\ m + 1 \in 0 .. Len(s) /\ DOMAIN f = 0 .. m
    BY <1>1, <2>1 DEF UpTo
  <2>3. \A n \in 0 .. m : f[n] = IF n = 0 THEN <<>> ELSE IF s[n] \in S THEN Append(f[n - 1], s[n]) ELSE f[n - 1]
    BY <2>1 DEF UpTo
  <2>4. ASSUME NEW n \in 0 .. m + 1
        PROVE  g[n] = IF n = 0 THEN <<>> ELSE IF s[n] \in S THEN Append(g[n - 1], s[n]) ELSE g[n - 1]
    <3>1. CASE n <= m /\ n # 0
      <4>1. n \in 0 .. m /\ n - 1 \in 0 .. m /\ n - 1 \in 0 .. m + 1 /\ n - 1 <= m
        BY <2>2, <3>1
      <4>2. g[n] = f[n] /\ g[n - 1] = f[n - 1]
        BY <3>1, <4>1
      <4>. HIDE DEF g
      <4>. QED
        BY <2>3, <3>1, <4>1, <4>2
    <3>2. CASE n = 0
      <4>1. n \in 0 .. m /\ n <= m
        BY <2>2, <3>2
      <4>. QED
        BY <2>3, <3>2, <4>1
    <3>3. CASE n = m + 1
      BY <2>2, <3>3
    <3>. QED
      BY <2>2, <3>1, <3>2, <3>3
  <2>5. UpTo(g, s, S, m + 1)
    BY <2>4 DEF UpTo
  <2>. QED
    BY <2>2, <2>5
<1>. HIDE DEF P
<1>4. 0 .. Len(s) \subseteq P
  BY <1>1, <1>2, <1>3, Induct
<1>. QED
  BY <1>1, <1>4 DEF P

\* What Select takes of the first n elements, step by step.
LEMMA SelectSteps ==
  ASSUME NEW T, NEW s \in Seq(T), NEW S
  PROVE  \E f : /\ Select(s, S) = f[Len(s)] /\ f[0] = <<>>
                /\ \A n \in 1 .. Len(s) : f[n] = IF s[n] \in S THEN Append(f[n - 1], s[n]) ELSE f[n - 1]
<1>. DEFINE f == CHOOSE g : UpTo(g, s, S, Len(s))
<1>1. Select(s, S) = f[Len(s)]
  BY DEF Select, UpTo
<1>2. UpTo(f, s, S, Len(s))
  BY UpToExists
<1>. HIDE DEF f
<1>3. Len(s) \in Nat /\ 0 \in 0 .. Len(s) /\ \A n \in 1 .. Len(s) : n \in 0 .. Len(s) /\ n # 0
  OBVIOUS
<1>4. f[0] = <<>> /\ \A n \in 1 .. Len(s) : f[n] = IF s[n] \in S THEN Append(f[n - 1], s[n]) ELSE f[n - 1]
  BY <1>2, <1>3 DEF UpTo
<1>. QED
  BY <1>1, <1>4

\* At every step it has a list of the same kind of elements, and no longer one
\* than it has looked at.
LEMMA SelectStepsType ==
  ASSUME NEW T, NEW s \in Seq(T), NEW S, NEW f, f[0] = <<>>,
         \A n \in 1 .. Len(s) : f[n] = IF s[n] \in S THEN Append(f[n - 1], s[n]) ELSE f[n - 1]
  PROVE  \A n \in 0 .. Len(s) : f[n] \in Seq(T) /\ Len(f[n]) <= n
<1>. DEFINE P == {n \in 0 .. Len(s) : f[n] \in Seq(T) /\ Len(f[n]) <= n}
<1>1. Len(s) \in Nat
  OBVIOUS
<1>2. 0 \in P
  <2>1. <<>> \in Seq(T) /\ Len(<<>>) = 0 /\ 0 \in 0 .. Len(s)
    BY <1>1
  <2>2. f[0] \in Seq(T) /\ Len(f[0]) = 0
    BY <2>1, Zenon
  <2>3. Len(f[0]) <= 0
    BY <2>2
  <2>. QED
    BY <2>1, <2>2, <2>3, Zenon
<1>3. ASSUME NEW n \in 0 .. Len(s) - 1, n \in P PROVE n + 1 \in P
  <2>1. n \in Nat /\ n + 1 \in 1 .. Len(s) /\ n + 1 - 1 = n /\ n + 1 \in 0 .. Len(s)
    BY <1>1
  <2>2. s[n + 1] \in T /\ f[n] \in Seq(T) /\ Len(f[n]) <= n
    BY <1>3, <2>1
  <2>3. Append(f[n], s[n + 1]) \in Seq(T) /\ Len(Append(f[n], s[n + 1])) = Len(f[n]) + 1 /\ Len(f[n]) \in Nat
    BY <2>2
  <2>4. f[n + 1] = IF s[n + 1] \in S THEN Append(f[n], s[n + 1]) ELSE f[n]
    <3>1. f[n + 1] = IF s[n + 1] \in S THEN Append(f[n + 1 - 1], s[n + 1]) ELSE f[n + 1 - 1]
      BY <2>1
    <3>. QED
      BY <2>1, <3>1, Zenon
  <2>5. f[n + 1] \in Seq(T)
    BY <2>2, <2>3, <2>4
  <2>6. Len(f[n + 1]) <= n + 1
    BY <2>1, <2>2, <2>3, <2>4
  <2>. QED
    BY <2>1, <2>5, <2>6
<1>. HIDE DEF P
<1>4. 0 .. Len(s) \subseteq P
  BY <1>1, <1>2, <1>3, Induct
<1>. QED
  BY <1>4 DEF P

LEMMA SelectType ==
  ASSUME NEW T, NEW s \in Seq(T), NEW S
  PROVE  Select(s, S) \in Seq(T) /\ Len(Select(s, S)) <= Len(s)
<1>1. PICK f : /\ Select(s, S) = f[Len(s)] /\ f[0] = <<>>
               /\ \A n \in 1 .. Len(s) : f[n] = IF s[n] \in S THEN Append(f[n - 1], s[n]) ELSE f[n - 1]
  BY SelectSteps
<1>2. Len(s) \in 0 .. Len(s)
  OBVIOUS
<1>3. f[Len(s)] \in Seq(T) /\ Len(f[Len(s)]) <= Len(s)
  BY <1>1, <1>2, SelectStepsType
<1>. QED
  BY <1>1, <1>3

\* A set that holds more of the elements selects as many of them or more.
LEMMA SelectMore ==
  ASSUME NEW T, NEW s \in Seq(T), NEW S, NEW U, \A e \in T : e \in S => e \in U
  PROVE  Len(Select(s, S)) <= Len(Select(s, U))
<1>1. PICK f : /\ Select(s, S) = f[Len(s)] /\ f[0] = <<>>
               /\ \A n \in 1 .. Len(s) : f[n] = IF s[n] \in S THEN Append(f[n - 1], s[n]) ELSE f[n - 1]
  BY SelectSteps
<1>2. PICK g : /\ Select(s, U) = g[Len(s)] /\ g[0] = <<>>
               /\ \A n \in 1 .. Len(s) : g[n] = IF s[n] \in U THEN Append(g[n - 1], s[n]) ELSE g[n - 1]
  BY SelectSteps
<1>3. \A n \in 0 .. Len(s) : f[n] \in Seq(T)
  BY <1>1, SelectStepsType
<1>4. \A n \in 0 .. Len(s) : g[n] \in Seq(T)
  BY <1>2, SelectStepsType
<1>. DEFINE P == {n \in 0 .. Len(s) : Len(f[n]) <= Len(g[n])}
<1>5. Len(s) \in Nat
  OBVIOUS
<1>6. 0 \in P
  <2>1. Len(<<>>) = 0 /\ 0 \in 0 .. Len(s)
    BY <1>5
  <2>2. Len(f[0]) = 0 /\ Len(g[0]) = 0
    BY <1>1, <1>2, <2>1, Zenon
  <2>. QED
    BY <2>1, <2>2
<1>7. ASSUME NEW n \in 0 .. Len(s) - 1, n \in P PROVE n + 1 \in P
  <2>1. n \in 0 .. Len(s) /\ n + 1 \in 1 .. Len(s) /\ n + 1 - 1 = n /\ n + 1 \in 0 .. Len(s)
    BY <1>5
  <2>2. s[n + 1] \in T /\ f[n] \in Seq(T) /\ g[n] \in Seq(T) /\ Len(f[n]) <= Len(g[n])
    BY <1>3, <1>4, <1>7, <2>1
  <2>3. f[n + 1] = IF s[n + 1] \in S THEN Append(f[n], s[n + 1]) ELSE f[n]
    <3>1. f[n + 1] = IF s[n + 1] \in S THEN Append(f[n + 1 - 1], s[n + 1]) ELSE f[n + 1 - 1]
      BY <1>1, <2>1
    <3>. QED
      BY <2>1, <3>1, Zenon
  <2>4. g[n + 1] = IF s[n + 1] \in U THEN Append(g[n], s[n + 1]) ELSE g[n]
    <3>1. g[n + 1] = IF s[n + 1] \in U THEN Append(g[n + 1 - 1], s[n + 1]) ELSE g[n + 1 - 1]
      BY <1>2, <2>1
    <3>. QED
      BY <2>1, <3>1, Zenon
  <2>5. Len(Append(f[n], s[n + 1])) = Len(f[n]) + 1 /\ Len(f[n]) \in Nat
    BY <2>2
  <2>6. Len(Append(g[n], s[n + 1])) = Len(g[n]) + 1 /\ Len(g[n]) \in Nat
    BY <2>2
  <2>7. s[n + 1] \in S => s[n + 1] \in U
    BY <2>2
  <2>8. Len(f[n + 1]) <= Len(g[n + 1])
    <3>1. Len(f[n + 1]) = IF s[n + 1] \in S THEN Len(f[n]) + 1 ELSE Len(f[n])
      BY <2>3, <2>5
    <3>2. Len(g[n + 1]) = IF s[n + 1] \in U THEN Len(g[n]) + 1 ELSE Len(g[n])
      BY <2>4, <2>6
    <3>. QED
      BY <2>2, <2>5, <2>6, <2>7, <3>1, <3>2
  <2>. QED
    BY <2>1, <2>8
<1>. HIDE DEF P
<1>8. 0 .. Len(s) \subseteq P
  BY <1>5, <1>6, <1>7, Induct
<1>. QED
  BY <1>1, <1>2, <1>5, <1>8 DEF P

LEMMA SelectNone ==
  ASSUME NEW S
  PROVE  Select(<<>>, S) = <<>>
<1>1. <<>> \in Seq({}) /\ Len(<<>>) = 0
  OBVIOUS
<1>2. Select(<<>>, S) \in Seq({}) /\ Len(Select(<<>>, S)) <= Len(<<>>)
  BY <1>1, SelectType
<1>. QED
  BY <1>1, <1>2
=============================================================================
