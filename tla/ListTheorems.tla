----------------------------- MODULE ListTheorems -----------------------------
(***************************************************************************)
(* Induction on the natural numbers, the existence of functions that are   *)
(* defined by recursion on them, and lemmas on Without. The induction rule *)
(* of the library takes a predicate; here it is stated for a set, so that  *)
(* it can be cited.                                                        *)
(***************************************************************************)
EXTENDS Lists, Integers, SequenceTheorems, WellFoundedInduction, TLAPS

-----------------------------------------------------------------------------
(* Induction.                                                              *)

LEMMA LessIsWellFounded ==
    \E R : IsWellFoundedOn(R, Nat) /\ \A m, n \in Nat : m < n <=> <<m, n>> \in R
<1>1. IsWellFoundedOn(OpToRel(<, Nat), Nat)
    BY NatLessThanWellFounded, Zenon
<1>2. \A m, n \in Nat : m < n <=> <<m, n>> \in OpToRel(<, Nat)
    BY DEF OpToRel
<1>3. QED BY <1>1, <1>2, Zenon

\* Every set of natural numbers that is not empty has a least element.
LEMMA LeastNat ==
    ASSUME NEW T, T \subseteq Nat, T # {}
    PROVE  \E n \in T : \A m \in T : n <= m
<1>1. PICK R : IsWellFoundedOn(R, Nat) /\ \A m, n \in Nat : m < n <=> <<m, n>> \in R
    BY LessIsWellFounded
<1>2. IsWellFoundedOn(R, Nat)
    BY <1>1
<1>3. \E n \in T : \A m \in T : ~ (<<m, n>> \in R)
    BY <1>2, WFMin, Zenon
<1>4. PICK n \in T : \A m \in T : ~ (<<m, n>> \in R)
    BY <1>3
<1>5. \A m \in T : ~ (m < n)
    BY <1>1, <1>4
<1>6. \A m \in T : n <= m
    BY <1>5
<1>7. QED BY <1>6

\* A set with 0 and the successors of its elements has all natural numbers.
LEMMA Induction ==
    ASSUME NEW S, 0 \in S, \A n \in Nat : n \in S => n + 1 \in S
    PROVE  Nat \subseteq S
<1>1. SUFFICES ASSUME Nat \ S # {} PROVE FALSE
    OBVIOUS
<1>2. PICK n \in Nat \ S : \A m \in Nat \ S : n <= m
    <2>1. Nat \ S \subseteq Nat
        OBVIOUS
    <2>2. QED BY <1>1, <2>1, LeastNat
<1>3. n - 1 \in Nat
    BY <1>2
<1>4. n - 1 \in S
    BY <1>2, <1>3
<1>5. (n - 1) + 1 \in S
    BY <1>3, <1>4
<1>6. QED BY <1>2, <1>5

\* Induction up to a bound.
LEMMA BoundedInduction ==
    ASSUME NEW N \in Nat, NEW S, 0 \in S, \A n \in 0 .. N - 1 : n \in S => n + 1 \in S
    PROVE  0 .. N \subseteq S
<1> DEFINE T == {n \in Nat : n <= N => n \in S}
<1>1. 0 \in T
    OBVIOUS
<1>2. \A n \in Nat : n \in T => n + 1 \in T
    OBVIOUS
<1>3. Nat \subseteq T
    <2> HIDE DEF T
    <2>1. QED BY <1>1, <1>2, Induction
<1>4. QED BY <1>3

-----------------------------------------------------------------------------
(* Recursion: from b, the n-th step takes x to g[x, n].                    *)

IsRecursion(h, N, b, g) ==
    /\ h[0] = b
    /\ \A n \in 1 .. N : h[n] = g[<<h[n - 1], n>>]

LEMMA RecursionExists ==
    ASSUME NEW N \in Nat, NEW T, NEW b \in T, NEW g \in [T \X (1 .. N) -> T]
    PROVE  \E h \in [0 .. N -> T] : IsRecursion(h, N, b, g)
<1> DEFINE S == {m \in 0 .. N : \E h \in [0 .. m -> T] : IsRecursion(h, m, b, g)}
<1>1. 0 \in S
    <2>1. [k \in 0 .. 0 |-> b] \in [0 .. 0 -> T] /\ IsRecursion([k \in 0 .. 0 |-> b], 0, b, g)
        BY DEF IsRecursion
    <2>2. QED BY <2>1
<1>2. ASSUME NEW m \in 0 .. N - 1, m \in S PROVE m + 1 \in S
    <2>1. PICK h \in [0 .. m -> T] : IsRecursion(h, m, b, g)
        BY <1>2
    <2> DEFINE k == [n \in 0 .. m + 1 |-> IF n <= m THEN h[n] ELSE g[<<h[m], m + 1>>]]
    <2>2. m \in Nat /\ m + 1 \in 1 .. N /\ m + 1 \in 0 .. N /\ (m + 1) - 1 = m
        OBVIOUS
    <2>3. h[m] \in T
        BY <2>1, <2>2
    <2>4. g[<<h[m], m + 1>>] \in T
        BY <2>2, <2>3
    <2>5. k \in [0 .. m + 1 -> T]
        BY <2>1, <2>2, <2>4
    <2>6. \A n \in 0 .. m : k[n] = h[n]
        BY <2>2
    <2>7. k[m + 1] = g[<<h[m], m + 1>>]
        BY <2>2
    <2>8. k[0] = b
        BY <2>1, <2>2, <2>6 DEF IsRecursion
    <2>9. ASSUME NEW n \in 1 .. m + 1 PROVE k[n] = g[<<k[n - 1], n>>]
        <3>1. CASE n \in 1 .. m
            <4>1. n \in 0 .. m /\ n - 1 \in 0 .. m
                BY <2>2, <3>1
            <4>2. h[n] = g[<<h[n - 1], n>>]
                BY <2>1, <3>1 DEF IsRecursion
            <4> HIDE DEF k
            <4>3. QED BY <2>6, <4>1, <4>2
        <3>2. CASE n = m + 1
            <4>1. n - 1 = m /\ m \in 0 .. m
                BY <2>2, <3>2
            <4> HIDE DEF k
            <4>2. QED BY <2>6, <2>7, <3>2, <4>1
        <3>3. QED BY <2>2, <3>1, <3>2
    <2>10. IsRecursion(k, m + 1, b, g)
        <3> HIDE DEF k
        <3>1. QED BY <2>8, <2>9 DEF IsRecursion
    <2>11. QED
        <3> HIDE DEF k
        <3>1. QED BY <2>2, <2>5, <2>10
<1>3. 0 .. N \subseteq S
    <2> HIDE DEF S
    <2>1. QED BY <1>1, <1>2, BoundedInduction
<1>4. N \in S
    BY <1>3
<1>5. QED BY <1>4

-----------------------------------------------------------------------------
(* What Without leaves.                                                    *)

\* The list that is kept of the first n elements, for each n.
IsKept(h, s, S) ==
    /\ h[0] = <<>>
    /\ \A n \in 1 .. Len(s) : h[n] = IF s[n] \in S THEN h[n - 1] ELSE Append(h[n - 1], s[n])

\* The function that Without defines by recursion.
KeptFunction(h, s, S) ==
    h = [n \in 0 .. Len(s) |->
            IF n = 0 THEN <<>>
            ELSE IF s[n] \in S THEN h[n - 1] ELSE Append(h[n - 1], s[n])]

LEMMA KeptFunctionExists ==
    ASSUME NEW X, NEW s \in Seq(X), NEW S
    PROVE  \E h : KeptFunction(h, s, S)
<1> DEFINE N == Len(s)
<1> DEFINE g == [p \in Seq(X) \X (1 .. N) |-> IF s[p[2]] \in S THEN p[1] ELSE Append(p[1], s[p[2]])]
<1>1. N \in Nat /\ <<>> \in Seq(X)
    OBVIOUS
<1>2. g \in [Seq(X) \X (1 .. N) -> Seq(X)]
    OBVIOUS
<1>3. PICK h \in [0 .. N -> Seq(X)] : IsRecursion(h, N, <<>>, g)
    <2> HIDE DEF g, N
    <2>1. QED BY <1>1, <1>2, RecursionExists
<1>4. ASSUME NEW n \in 1 .. N
      PROVE  h[n] = IF s[n] \in S THEN h[n - 1] ELSE Append(h[n - 1], s[n])
    <2>1. n - 1 \in 0 .. N
        BY <1>1
    <2>2. h[n - 1] \in Seq(X)
        BY <1>3, <2>1
    <2>3. h[n] = g[<<h[n - 1], n>>]
        <3> HIDE DEF g
        <3>1. QED BY <1>3 DEF IsRecursion
    <2>4. g[<<h[n - 1], n>>] = IF s[n] \in S THEN h[n - 1] ELSE Append(h[n - 1], s[n])
        BY <2>2
    <2>5. QED BY <2>3, <2>4
<1>5. h[0] = <<>>
    BY <1>3 DEF IsRecursion
<1>6. KeptFunction(h, s, S)
    <2> DEFINE e == [n \in 0 .. N |-> IF n = 0 THEN <<>>
                                     ELSE IF s[n] \in S THEN h[n - 1] ELSE Append(h[n - 1], s[n])]
    <2>1. ASSUME NEW n \in 0 .. N PROVE h[n] = e[n]
        <3>1. CASE n = 0
            BY <1>5, <3>1
        <3>2. CASE n # 0
            <4>1. n \in 1 .. N
                BY <1>1, <3>2
            <4>2. QED BY <1>4, <3>2, <4>1, Zenon
        <3>3. QED BY <3>1, <3>2
    <2>2. h = [n \in 0 .. N |-> h[n]]
        BY <1>3
    <2>3. e = [n \in 0 .. N |-> e[n]]
        OBVIOUS
    <2>4. h = e
        <3> HIDE DEF e
        <3>1. QED BY <2>1, <2>2, <2>3
    <2>5. QED BY <2>4, Zenon DEF KeptFunction
<1>7. QED BY <1>6

LEMMA WithoutByRecursion ==
    ASSUME NEW X, NEW s \in Seq(X), NEW S
    PROVE  \E h \in [0 .. Len(s) -> Seq(X)] : IsKept(h, s, S) /\ Without(s, S) = h[Len(s)]
<1> DEFINE h == CHOOSE k : KeptFunction(k, s, S)
<1>1. KeptFunction(h, s, S)
    <2>1. \E k : KeptFunction(k, s, S)
        BY KeptFunctionExists
    <2>2. QED BY <2>1, Zenon
<1>2. Without(s, S) = h[Len(s)]
    BY DEF Without, KeptFunction
<1> HIDE DEF h
<1>3. Len(s) \in Nat
    OBVIOUS
<1>4. IsKept(h, s, S)
    <2>1. \A n \in 0 .. Len(s) :
             h[n] = IF n = 0 THEN <<>>
                    ELSE IF s[n] \in S THEN h[n - 1] ELSE Append(h[n - 1], s[n])
        BY <1>1, Zenon DEF KeptFunction
    <2>2. h[0] = <<>>
        BY <1>3, <2>1
    <2>3. ASSUME NEW n \in 1 .. Len(s)
          PROVE  h[n] = IF s[n] \in S THEN h[n - 1] ELSE Append(h[n - 1], s[n])
        <3>1. n \in 0 .. Len(s) /\ n # 0
            BY <1>3
        <3>2. QED BY <2>1, <3>1, Zenon
    <2>4. QED BY <2>2, <2>3 DEF IsKept
<1>5. h \in [0 .. Len(s) -> Seq(X)]
    <2> DEFINE T == {n \in 0 .. Len(s) : h[n] \in Seq(X)}
    <2>1. 0 \in T
        <3>1. h[0] \in Seq(X) /\ 0 \in 0 .. Len(s)
            BY <1>3, <1>4, EmptySeq DEF IsKept
        <3>2. QED BY <3>1
    <2>2. ASSUME NEW n \in 0 .. Len(s) - 1, n \in T PROVE n + 1 \in T
        <3>1. n + 1 \in 1 .. Len(s) /\ n + 1 \in 0 .. Len(s) /\ (n + 1) - 1 = n
            BY <1>3
        <3>2. h[n + 1] = IF s[n + 1] \in S THEN h[n] ELSE Append(h[n], s[n + 1])
            BY <1>4, <3>1 DEF IsKept
        <3>3. h[n] \in Seq(X) /\ s[n + 1] \in X
            BY <2>2, <3>1
        <3>4. h[n + 1] \in Seq(X)
            BY <3>2, <3>3
        <3>5. QED BY <3>1, <3>4
    <2>3. 0 .. Len(s) \subseteq T
        <3> HIDE DEF T
        <3>1. QED BY <1>3, <2>1, <2>2, BoundedInduction
    <2>4. h = [n \in 0 .. Len(s) |-> h[n]]
        BY <1>1 DEF KeptFunction
    <2>5. QED BY <2>3, <2>4
<1>6. QED BY <1>2, <1>4, <1>5

LEMMA AppendElements ==
    ASSUME NEW X, NEW s \in Seq(X), NEW x \in X
    PROVE  Elements(Append(s, x)) = Elements(s) \cup {x}
<1>1. /\ DOMAIN s = 1 .. Len(s) /\ Len(s) \in Nat
      /\ DOMAIN Append(s, x) = 1 .. Len(s) + 1
      /\ \A k \in 1 .. Len(s) : Append(s, x)[k] = s[k]
      /\ Append(s, x)[Len(s) + 1] = x
    OBVIOUS
<1>2. QED BY <1>1 DEF Elements

\* What is left is a list of the elements that are not taken out.
LEMMA WithoutElements ==
    ASSUME NEW X, NEW s \in Seq(X), NEW S
    PROVE  /\ Without(s, S) \in Seq(X)
           /\ Elements(Without(s, S)) = Elements(s) \ S
<1> DEFINE N == Len(s)
<1>1. PICK h \in [0 .. N -> Seq(X)] : IsKept(h, s, S) /\ Without(s, S) = h[N]
    BY WithoutByRecursion
<1>2. N \in Nat /\ DOMAIN s = 1 .. N
    OBVIOUS
<1> DEFINE T == {n \in 0 .. N : Elements(h[n]) = {s[k] : k \in 1 .. n} \ S}
<1>3. 0 \in T
    BY <1>1, <1>2 DEF IsKept, Elements
<1>4. ASSUME NEW n \in 0 .. N - 1, n \in T PROVE n + 1 \in T
    <2>1. n + 1 \in 1 .. N /\ n + 1 \in 0 .. N /\ (n + 1) - 1 = n
        BY <1>2
    <2>2. h[n + 1] = IF s[n + 1] \in S THEN h[n] ELSE Append(h[n], s[n + 1])
        BY <1>1, <2>1 DEF IsKept
    <2>3. h[n] \in Seq(X) /\ s[n + 1] \in X
        BY <1>1, <2>1
    <2>4. {s[k] : k \in 1 .. n + 1} = {s[k] : k \in 1 .. n} \cup {s[n + 1]}
        BY <2>1
    <2>5. Elements(Append(h[n], s[n + 1])) = Elements(h[n]) \cup {s[n + 1]}
        BY <2>3, AppendElements
    <2>6. Elements(h[n + 1]) = {s[k] : k \in 1 .. n + 1} \ S
        BY <1>4, <2>2, <2>4, <2>5
    <2>7. QED BY <2>1, <2>6
<1>5. 0 .. N \subseteq T
    <2> HIDE DEF T, N
    <2>1. QED BY <1>2, <1>3, <1>4, BoundedInduction
<1>6. N \in T
    BY <1>2, <1>5
<1>7. QED BY <1>1, <1>2, <1>6 DEF Elements

\* And it has no element twice if the list has none twice.
LEMMA WithoutDistinct ==
    ASSUME NEW X, NEW s \in Seq(X), NEW S, Distinct(s)
    PROVE  Distinct(Without(s, S))
<1> DEFINE N == Len(s)
<1>1. PICK h \in [0 .. N -> Seq(X)] : IsKept(h, s, S) /\ Without(s, S) = h[N]
    BY WithoutByRecursion
<1>2. N \in Nat /\ DOMAIN s = 1 .. N
    OBVIOUS
<1> DEFINE T == {n \in 0 .. N : Distinct(h[n]) /\ Elements(h[n]) \subseteq {s[k] : k \in 1 .. n}}
<1>3. 0 \in T
    BY <1>1, <1>2 DEF IsKept, Elements, Distinct
<1>4. ASSUME NEW n \in 0 .. N - 1, n \in T PROVE n + 1 \in T
    <2>1. n + 1 \in 1 .. N /\ n + 1 \in 0 .. N /\ (n + 1) - 1 = n
        BY <1>2
    <2>2. h[n + 1] = IF s[n + 1] \in S THEN h[n] ELSE Append(h[n], s[n + 1])
        BY <1>1, <2>1 DEF IsKept
    <2>3. h[n] \in Seq(X) /\ s[n + 1] \in X
        BY <1>1, <2>1
    <2>4. {s[k] : k \in 1 .. n + 1} = {s[k] : k \in 1 .. n} \cup {s[n + 1]}
        BY <2>1
    <2>5. Elements(Append(h[n], s[n + 1])) = Elements(h[n]) \cup {s[n + 1]}
        BY <2>3, AppendElements
    <2>6. Elements(h[n + 1]) \subseteq {s[k] : k \in 1 .. n + 1}
        BY <1>4, <2>2, <2>4, <2>5
    <2>7. s[n + 1] \notin Elements(h[n])
        <3>1. \A k \in 1 .. n : s[k] # s[n + 1]
            BY <1>2, <2>1 DEF Distinct
        <3>2. QED BY <1>4, <3>1
    <2>8. Distinct(Append(h[n], s[n + 1]))
        <3>1. \A k \in 1 .. Len(h[n]) : h[n][k] # s[n + 1]
            BY <2>3, <2>7 DEF Elements
        <3>2. Len(h[n]) \in Nat /\ DOMAIN h[n] = 1 .. Len(h[n])
            BY <2>3
        <3>3. /\ DOMAIN Append(h[n], s[n + 1]) = 1 .. Len(h[n]) + 1
              /\ \A k \in 1 .. Len(h[n]) : Append(h[n], s[n + 1])[k] = h[n][k]
              /\ Append(h[n], s[n + 1])[Len(h[n]) + 1] = s[n + 1]
            BY <2>3
        <3>4. QED BY <1>4, <3>1, <3>2, <3>3 DEF Distinct
    <2>9. QED BY <1>4, <2>1, <2>2, <2>6, <2>8
<1>5. 0 .. N \subseteq T
    <2> HIDE DEF T, N
    <2>1. QED BY <1>2, <1>3, <1>4, BoundedInduction
<1>6. QED BY <1>1, <1>2, <1>5

-----------------------------------------------------------------------------
(* What Without does to a list that grows, and which elements it looks at. *)

AppendKept(s, x, S) ==
    Without(Append(s, x), S) = IF x \in S THEN Without(s, S) ELSE Append(Without(s, S), x)

LEMMA WithoutAppend ==
    ASSUME NEW X, NEW s \in Seq(X), NEW x \in X, NEW S
    PROVE  AppendKept(s, x, S)
<1> DEFINE N == Len(s)
<1> DEFINE t == Append(s, x)
<1>1. PICK h \in [0 .. Len(s) -> Seq(X)] : IsKept(h, s, S) /\ Without(s, S) = h[Len(s)]
    BY WithoutByRecursion
<1>2. /\ t \in Seq(X) /\ Len(t) = N + 1 /\ N \in Nat
      /\ \A n \in 1 .. N : t[n] = s[n]
      /\ t[N + 1] = x
    OBVIOUS
<1> HIDE DEF t, N
<1>3. PICK k \in [0 .. Len(t) -> Seq(X)] : IsKept(k, t, S) /\ Without(t, S) = k[Len(t)]
    BY <1>2, WithoutByRecursion
<1> DEFINE T == {n \in 0 .. N : k[n] = h[n]}
<1>4. 0 \in T
    BY <1>1, <1>2, <1>3 DEF IsKept
<1>5. ASSUME NEW n \in 0 .. N - 1, n \in T PROVE n + 1 \in T
    <2>1. /\ n + 1 \in 1 .. N /\ n + 1 \in 0 .. N /\ n + 1 \in 1 .. Len(t) /\ (n + 1) - 1 = n
        BY <1>2
    <2>2. h[n + 1] = IF s[n + 1] \in S THEN h[n] ELSE Append(h[n], s[n + 1])
        BY <1>1, <2>1 DEF IsKept, N
    <2>3. k[n + 1] = IF t[n + 1] \in S THEN k[n] ELSE Append(k[n], t[n + 1])
        BY <1>3, <2>1 DEF IsKept
    <2>4. k[n] = h[n] /\ t[n + 1] = s[n + 1]
        BY <1>2, <1>5, <2>1
    <2>5. k[n + 1] = h[n + 1]
        BY <2>2, <2>3, <2>4, Zenon
    <2>6. QED BY <2>1, <2>5
<1>6. 0 .. N \subseteq T
    <2> HIDE DEF T
    <2>1. QED BY <1>2, <1>4, <1>5, BoundedInduction
<1>7. k[N] = h[N]
    BY <1>2, <1>6
<1>8. k[N + 1] = IF t[N + 1] \in S THEN k[N] ELSE Append(k[N], t[N + 1])
    <2>1. N + 1 \in 1 .. Len(t) /\ (N + 1) - 1 = N
        BY <1>2
    <2>2. QED BY <1>3, <2>1 DEF IsKept
<1>9. Without(s, S) = h[N] /\ Without(t, S) = k[N + 1]
    BY <1>1, <1>2, <1>3, Zenon DEF N
<1>10. QED BY <1>2, <1>7, <1>8, <1>9, Zenon DEF AppendKept, t

\* Two sets that agree on the elements of a list leave the same of it.
LEMMA WithoutSame ==
    ASSUME NEW X, NEW s \in Seq(X), NEW S, NEW R,
           \A k \in 1 .. Len(s) : s[k] \in S <=> s[k] \in R
    PROVE  Without(s, S) = Without(s, R)
<1> DEFINE N == Len(s)
<1>1. PICK h \in [0 .. Len(s) -> Seq(X)] : IsKept(h, s, S) /\ Without(s, S) = h[Len(s)]
    BY WithoutByRecursion
<1>2. PICK k \in [0 .. Len(s) -> Seq(X)] : IsKept(k, s, R) /\ Without(s, R) = k[Len(s)]
    BY WithoutByRecursion
<1>3. N \in Nat
    OBVIOUS
<1> DEFINE T == {n \in 0 .. N : k[n] = h[n]}
<1>4. 0 \in T
    BY <1>1, <1>2, <1>3 DEF IsKept
<1>5. ASSUME NEW n \in 0 .. N - 1, n \in T PROVE n + 1 \in T
    <2>1. n + 1 \in 1 .. N /\ n + 1 \in 0 .. N /\ (n + 1) - 1 = n
        BY <1>3
    <2>2. h[n + 1] = IF s[n + 1] \in S THEN h[n] ELSE Append(h[n], s[n + 1])
        BY <1>1, <2>1 DEF IsKept
    <2>3. k[n + 1] = IF s[n + 1] \in R THEN k[n] ELSE Append(k[n], s[n + 1])
        BY <1>2, <2>1 DEF IsKept
    <2>4. k[n] = h[n] /\ (s[n + 1] \in S <=> s[n + 1] \in R)
        BY <1>5, <2>1
    <2>5. k[n + 1] = h[n + 1]
        <3>1. CASE s[n + 1] \in S
            <4>1. k[n + 1] = k[n] /\ h[n + 1] = h[n]
                BY <2>2, <2>3, <2>4, <3>1, Zenon
            <4>2. QED BY <2>4, <4>1
        <3>2. CASE s[n + 1] \notin S
            <4>1. k[n + 1] = Append(k[n], s[n + 1]) /\ h[n + 1] = Append(h[n], s[n + 1])
                BY <2>2, <2>3, <2>4, <3>2, Zenon
            <4>2. QED BY <2>4, <4>1, Zenon
        <3>3. QED BY <3>1, <3>2
    <2>6. QED BY <2>1, <2>5
<1>6. 0 .. N \subseteq T
    <2> HIDE DEF T, N
    <2>1. QED BY <1>3, <1>4, <1>5, BoundedInduction
<1>7. k[N] = h[N]
    BY <1>3, <1>6
<1>8. QED BY <1>1, <1>2, <1>7

LEMMA WithoutOfEmpty ==
    ASSUME NEW S
    PROVE  Without(<<>>, S) = <<>>
<1>1. <<>> \in Seq({}) /\ Len(<<>>) = 0
    OBVIOUS
<1>2. PICK h \in [0 .. Len(<<>>) -> Seq({})] : IsKept(h, <<>>, S) /\ Without(<<>>, S) = h[Len(<<>>)]
    BY <1>1, WithoutByRecursion
<1>3. QED BY <1>1, <1>2 DEF IsKept

\* Nothing is taken out of a list that has none of the elements.
LEMMA WithoutNone ==
    ASSUME NEW X, NEW s \in Seq(X), NEW S, \A k \in 1 .. Len(s) : s[k] \notin S
    PROVE  Without(s, S) = s
<1> DEFINE N == Len(s)
<1>1. PICK h \in [0 .. Len(s) -> Seq(X)] : IsKept(h, s, S) /\ Without(s, S) = h[Len(s)]
    BY WithoutByRecursion
<1>2. N \in Nat /\ DOMAIN s = 1 .. N
    OBVIOUS
<1> HIDE DEF N
<1> DEFINE Prefix(n) == Len(h[n]) = n /\ \A k \in 1 .. n : h[n][k] = s[k]
<1> DEFINE T == {n \in 0 .. N : Prefix(n)}
<1>3. 0 \in T
    BY <1>1, <1>2 DEF IsKept
<1>4. ASSUME NEW n \in 0 .. N - 1, n \in T PROVE n + 1 \in T
    <2>1. n + 1 \in 1 .. N /\ n + 1 \in 0 .. N /\ (n + 1) - 1 = n /\ n \in 0 .. N /\ n \in Nat
        BY <1>2
    <2>2. h[n + 1] = Append(h[n], s[n + 1])
        BY <1>1, <2>1 DEF IsKept, N
    <2>3. h[n] \in Seq(X) /\ s[n + 1] \in X
        BY <1>1, <2>1 DEF N
    <2>4. Len(h[n]) = n /\ \A k \in 1 .. n : h[n][k] = s[k]
        BY <1>4
    <2>5. Len(h[n + 1]) = n + 1 /\ \A k \in 1 .. n + 1 : h[n + 1][k] = s[k]
        <3> DEFINE u == h[n]
        <3>1. u \in Seq(X) /\ Len(u) = n /\ (\A k \in 1 .. n : u[k] = s[k]) /\ h[n + 1] = Append(u, s[n + 1])
            BY <2>2, <2>3, <2>4
        <3> HIDE DEF u
        <3>2. /\ Len(Append(u, s[n + 1])) = n + 1
              /\ \A k \in 1 .. n : Append(u, s[n + 1])[k] = u[k]
              /\ Append(u, s[n + 1])[n + 1] = s[n + 1]
            BY <2>1, <2>3, <3>1
        <3>3. \A k \in 1 .. n + 1 : k \in 1 .. n \/ k = n + 1
            BY <2>1
        <3>4. QED BY <3>1, <3>2, <3>3
    <2>6. QED BY <2>1, <2>5
<1>5. 0 .. N \subseteq T
    <2> HIDE DEF T
    <2>1. QED BY <1>2, <1>3, <1>4, BoundedInduction
<1>6. Len(h[N]) = N /\ \A k \in 1 .. N : h[N][k] = s[k]
    <2>1. N \in T
        <3> HIDE DEF T
        <3>1. QED BY <1>2, <1>5
    <2>2. QED BY <2>1
<1>7. h[N] \in Seq(X) /\ Without(s, S) = h[N]
    BY <1>1, <1>2 DEF N
<1>8. QED BY <1>6, <1>7 DEF N

\* t is s without its element at k.
OneLess(t, s, k) ==
    /\ Len(t) = Len(s) - 1
    /\ \A l \in 1 .. Len(s) - 1 : t[l] = IF l < k THEN s[l] ELSE s[l + 1]

\* It makes no difference whether an element that is taken out was in the list.
LEMMA WithoutOneLess ==
    ASSUME NEW X, NEW s \in Seq(X), NEW t \in Seq(X), NEW S, NEW k \in 1 .. Len(s), s[k] \in S,
           OneLess(t, s, k)
    PROVE  Without(t, S) = Without(s, S)
<1> DEFINE N == Len(s)
<1>1. PICK h \in [0 .. Len(s) -> Seq(X)] : IsKept(h, s, S) /\ Without(s, S) = h[Len(s)]
    BY WithoutByRecursion
<1>2. PICK g \in [0 .. Len(t) -> Seq(X)] : IsKept(g, t, S) /\ Without(t, S) = g[Len(t)]
    BY WithoutByRecursion
<1>3. N \in Nat /\ k \in 1 .. N /\ Len(t) = N - 1 /\ k \in Nat
    BY DEF OneLess
<1>4. \A n \in 1 .. N : h[n] = IF s[n] \in S THEN h[n - 1] ELSE Append(h[n - 1], s[n])
    BY <1>1 DEF IsKept
<1>5. \A n \in 1 .. N - 1 : g[n] = IF t[n] \in S THEN g[n - 1] ELSE Append(g[n - 1], t[n])
    BY <1>2, <1>3 DEF IsKept
<1>6. \A n \in 1 .. N - 1 : t[n] = IF n < k THEN s[n] ELSE s[n + 1]
    BY DEF OneLess
<1>7. h[k] = h[k - 1]
    BY <1>3, <1>4
<1> HIDE DEF N
<1> DEFINE T == {n \in 0 .. N - 1 : g[n] = IF n < k THEN h[n] ELSE h[n + 1]}
<1>8. 0 \in T
    <2>1. g[0] = <<>> /\ h[0] = <<>> /\ 0 \in 0 .. N - 1 /\ 0 < k
        BY <1>1, <1>2, <1>3 DEF IsKept
    <2>2. QED BY <2>1
<1>9. ASSUME NEW n \in 0 .. (N - 1) - 1, n \in T PROVE n + 1 \in T
    <2>1. /\ n + 1 \in 1 .. N - 1 /\ n + 1 \in 0 .. N - 1 /\ (n + 1) - 1 = n /\ n + 1 \in 1 .. N
          /\ (n + 1) + 1 \in 1 .. N /\ ((n + 1) + 1) - 1 = n + 1 /\ n \in Nat
        BY <1>3
    <2>2. g[n] = IF n < k THEN h[n] ELSE h[n + 1]
        BY <1>9
    <2>3. g[n + 1] = IF t[n + 1] \in S THEN g[n] ELSE Append(g[n], t[n + 1])
        BY <1>5, <2>1
    <2>4. CASE n + 1 < k
        <3>1. n < k /\ t[n + 1] = s[n + 1]
            BY <1>3, <1>6, <2>1, <2>4
        <3>2. h[n + 1] = IF s[n + 1] \in S THEN h[n] ELSE Append(h[n], s[n + 1])
            BY <1>4, <2>1
        <3>3. g[n + 1] = h[n + 1]
            BY <2>2, <2>3, <3>1, <3>2, Zenon
        <3>4. QED BY <2>1, <2>4, <3>3
    <2>5. CASE ~(n + 1 < k)
        <3>1. t[n + 1] = s[(n + 1) + 1]
            BY <1>6, <2>1, <2>5
        <3>2. g[n] = h[n + 1]
            <4>1. CASE n + 1 = k
                <5>1. n < k /\ k - 1 = n
                    BY <2>1, <4>1
                <5>2. g[n] = h[n] /\ h[n + 1] = h[n]
                    BY <1>7, <2>2, <4>1, <5>1
                <5>3. QED BY <5>2
            <4>2. CASE n + 1 # k
                <5>1. ~(n < k)
                    BY <1>3, <2>1, <2>5, <4>2
                <5>2. QED BY <2>2, <5>1
            <4>3. QED BY <4>1, <4>2
        <3>3. h[(n + 1) + 1] = IF s[(n + 1) + 1] \in S THEN h[n + 1] ELSE Append(h[n + 1], s[(n + 1) + 1])
            BY <1>4, <2>1
        <3>4. g[n + 1] = h[(n + 1) + 1]
            BY <2>3, <3>1, <3>2, <3>3, Zenon
        <3>5. QED BY <2>1, <2>5, <3>4
    <2>6. QED BY <2>4, <2>5
<1>10. 0 .. N - 1 \subseteq T
    <2> DEFINE M == N - 1
    <2>1. M \in Nat /\ M = N - 1
        BY <1>3
    <2>2. 0 \in T /\ \A n \in 0 .. M - 1 : n \in T => n + 1 \in T
        BY <1>8, <1>9
    <2> HIDE DEF T, M
    <2>3. 0 .. M \subseteq T
        BY <2>1, <2>2, BoundedInduction
    <2>4. QED BY <2>1, <2>3
<1>11. g[N - 1] = h[N]
    <2>1. g[N - 1] = IF N - 1 < k THEN h[N - 1] ELSE h[(N - 1) + 1]
        <3>1. N - 1 \in T
            <4> HIDE DEF T
            <4>1. QED BY <1>3, <1>10
        <3>2. QED BY <3>1
    <2>2. CASE N - 1 < k
        <3>1. k = N
            BY <1>3, <2>2
        <3>2. QED BY <1>7, <2>1, <2>2, <3>1
    <2>3. CASE ~(N - 1 < k)
        <3>1. (N - 1) + 1 = N
            BY <1>3
        <3>2. QED BY <2>1, <2>3, <3>1
    <2>4. QED BY <2>2, <2>3
<1>12. QED BY <1>1, <1>2, <1>3, <1>11 DEF N

\* The list of the first numbers grows by one.
UpToGrows(n) == UpTo(n + 1) = Append(UpTo(n), n + 1)

LEMMA UpToNext ==
    ASSUME NEW n \in Nat
    PROVE  /\ UpTo(n) \in Seq(Nat) /\ Len(UpTo(n)) = n /\ \A k \in 1 .. n : UpTo(n)[k] = k
           /\ Elements(UpTo(n)) = 1 .. n
           /\ UpToGrows(n)
<1>1. UpTo(n) \in Seq(Nat) /\ Len(UpTo(n)) = n /\ \A k \in 1 .. n : UpTo(n)[k] = k
    BY DEF UpTo
<1>2. UpTo(n + 1) \in Seq(Nat) /\ Len(UpTo(n + 1)) = n + 1 /\ \A k \in 1 .. n + 1 : UpTo(n + 1)[k] = k
    BY DEF UpTo
<1>3. Elements(UpTo(n)) = 1 .. n
    BY <1>1 DEF Elements
<1>4. UpToGrows(n)
    <2>1. /\ Append(UpTo(n), n + 1) \in Seq(Nat) /\ Len(Append(UpTo(n), n + 1)) = n + 1
          /\ \A k \in 1 .. n : Append(UpTo(n), n + 1)[k] = UpTo(n)[k]
          /\ Append(UpTo(n), n + 1)[n + 1] = n + 1
        BY <1>1
    <2>2. \A k \in 1 .. n + 1 : Append(UpTo(n), n + 1)[k] = UpTo(n + 1)[k]
        BY <1>1, <1>2, <2>1
    <2>3. QED BY <1>2, <2>1, <2>2 DEF UpToGrows
<1>5. QED BY <1>1, <1>3, <1>4

-----------------------------------------------------------------------------
(* A list whose first part is kept, and whose second part is the image of  *)
(* another list.                                                           *)

LEMMA ImageType ==
    ASSUME NEW X, NEW Y, NEW F \in [Y -> X], NEW s \in Seq(Y)
    PROVE  Image(F, s) \in Seq(X) /\ Len(Image(F, s)) = Len(s)
BY DEF Image

\* The image of a list with one more element, and a concatenation with one more.
ImageAppends(F, Y) == \A u \in Seq(Y), y \in Y : Image(F, Append(u, y)) = Append(Image(F, u), F[y])
ConcatAppends(d, X) == \A u \in Seq(X), x \in X : Append(d \o u, x) = d \o Append(u, x)

LEMMA ImageAppend ==
    ASSUME NEW X, NEW Y, NEW F \in [Y -> X]
    PROVE  ImageAppends(F, Y)
<1>1. SUFFICES ASSUME NEW u \in Seq(Y), NEW y \in Y
               PROVE  Image(F, Append(u, y)) = Append(Image(F, u), F[y])
    BY Zenon DEF ImageAppends
<1>2. /\ Image(F, u) \in Seq(X) /\ Len(Image(F, u)) = Len(u) /\ Len(u) \in Nat
      /\ F[y] \in X /\ Append(u, y) \in Seq(Y)
    BY DEF Image
<1>3. Image(F, Append(u, y)) \in Seq(X) /\ Len(Image(F, Append(u, y))) = Len(u) + 1
    BY DEF Image
<1>4. Append(Image(F, u), F[y]) \in Seq(X) /\ Len(Append(Image(F, u), F[y])) = Len(u) + 1
    BY <1>2
<1>5. ASSUME NEW k \in 1 .. Len(u) + 1
      PROVE  Image(F, Append(u, y))[k] = Append(Image(F, u), F[y])[k]
    BY <1>2 DEF Image
<1>6. QED BY <1>2, <1>3, <1>4, <1>5, SeqEqual

LEMMA ConcatAppend ==
    ASSUME NEW X, NEW d \in Seq(X)
    PROVE  ConcatAppends(d, X)
BY DEF ConcatAppends

\* Taking S out of the whole takes R out of the other list, and nothing from the first part.
PartsKept(d, F, l, S, R) == Without(d \o Image(F, l), S) = d \o Image(F, Without(l, R))

LEMMA WithoutOfImage ==
    ASSUME NEW X, NEW Y, NEW F \in [Y -> X], NEW d \in Seq(X), NEW l \in Seq(Y), NEW S, NEW R,
           \A k \in 1 .. Len(d) : d[k] \notin S,
           \A k \in 1 .. Len(l) : F[l[k]] \in S <=> l[k] \in R
    PROVE  PartsKept(d, F, l, S, R)
<1>6. \A u \in Seq(X), x \in X : Append(d \o u, x) = d \o Append(u, x)
    <2>1. ConcatAppends(d, X)
        BY ConcatAppend, Zenon
    <2>2. QED BY <2>1, Zenon DEF ConcatAppends
<1>7. \A u \in Seq(Y), y \in Y : Image(F, Append(u, y)) = Append(Image(F, u), F[y])
    <2>1. ImageAppends(F, Y)
        BY ImageAppend, Zenon
    <2>2. QED BY <2>1, Zenon DEF ImageAppends
<1> DEFINE s == d \o Image(F, l)
<1> DEFINE M == Len(d)
<1> DEFINE N == Len(l)
<1>1. /\ Image(F, l) \in Seq(X) /\ Len(Image(F, l)) = N
      /\ s \in Seq(X) /\ Len(s) = M + N /\ M \in Nat /\ N \in Nat
    <2>1. Image(F, l) \in Seq(X) /\ Len(Image(F, l)) = N
        BY DEF Image
    <2>2. QED BY <2>1
<1>2. /\ \A k \in 1 .. M : s[k] = d[k]
      /\ \A k \in 1 .. N : s[M + k] = F[l[k]]
    <2>1. \A k \in 1 .. N : s[M + k] = Image(F, l)[k]
        BY <1>1
    <2>2. \A k \in 1 .. N : Image(F, l)[k] = F[l[k]]
        BY DEF Image
    <2>3. \A k \in 1 .. M : s[k] = d[k]
        BY <1>1
    <2>4. QED
        <3> HIDE DEF s
        <3>1. QED BY <2>1, <2>2, <2>3
<1>3. PICK h \in [0 .. M + N -> Seq(X)] : IsKept(h, s, S) /\ Without(s, S) = h[M + N]
    <2> HIDE DEF s, M, N
    <2>1. PICK h \in [0 .. Len(s) -> Seq(X)] : IsKept(h, s, S) /\ Without(s, S) = h[Len(s)]
        BY <1>1, WithoutByRecursion, Zenon
    <2>2. QED BY <1>1, <2>1
<1>4. PICK g \in [0 .. N -> Seq(Y)] : IsKept(g, l, R) /\ Without(l, R) = g[N]
    BY WithoutByRecursion
<1> HIDE DEF s
<1>5. h[M] = d
    <2> DEFINE T == {n \in 0 .. M : Len(h[n]) = n /\ \A k \in 1 .. n : h[n][k] = d[k]}
    <2>1. 0 \in T
        BY <1>1, <1>3 DEF IsKept
    <2>2. ASSUME NEW n \in 0 .. M - 1, n \in T PROVE n + 1 \in T
        <3>1. n + 1 \in 1 .. M /\ n + 1 \in 1 .. Len(s) /\ n \in 0 .. M + N /\ (n + 1) - 1 = n
            BY <1>1
        <3>2. s[n + 1] \notin S /\ s[n + 1] = d[n + 1]
            BY <1>2, <3>1
        <3>3. h[n + 1] = Append(h[n], d[n + 1])
            BY <1>3, <3>1, <3>2 DEF IsKept
        <3>4. h[n] \in Seq(X) /\ d[n + 1] \in X /\ Len(h[n]) = n
            BY <1>3, <2>2, <3>1
        <3>5. Len(h[n + 1]) = n + 1 /\ h[n + 1][n + 1] = d[n + 1]
            BY <3>3, <3>4
        <3>6. \A k \in 1 .. n : h[n + 1][k] = d[k]
            BY <2>2, <3>3, <3>4
        <3>7. QED BY <3>1, <3>5, <3>6
    <2>3. 0 .. M \subseteq T
        <3> HIDE DEF T, M
        <3>1. QED BY <1>1, <2>1, <2>2, BoundedInduction
    <2>4. M \in T /\ h[M] \in Seq(X)
        BY <1>1, <1>3, <2>3
    <2>5. QED BY <2>4, SeqEqual
<1>8. h[M + N] = d \o Image(F, g[N])
    <2> DEFINE T == {n \in 0 .. N : h[M + n] = d \o Image(F, g[n])}
    <2>1. 0 \in T
        <3>1. g[0] = <<>> /\ M + 0 = M
            BY <1>1, <1>4 DEF IsKept
        <3>2. Image(F, <<>>) = <<>>
            BY DEF Image
        <3>3. d \o <<>> = d
            OBVIOUS
        <3>4. QED BY <1>1, <1>5, <3>1, <3>2, <3>3
    <2>2. ASSUME NEW n \in 0 .. N - 1, n \in T PROVE n + 1 \in T
        <3>1. /\ n + 1 \in 1 .. N /\ n \in 0 .. N /\ (n + 1) - 1 = n
              /\ M + (n + 1) \in 1 .. Len(s) /\ (M + (n + 1)) - 1 = M + n
            BY <1>1
        <3>2. s[M + (n + 1)] = F[l[n + 1]] /\ l[n + 1] \in Y
            BY <1>2, <3>1
        <3>3. h[M + (n + 1)] = IF F[l[n + 1]] \in S THEN h[M + n] ELSE Append(h[M + n], F[l[n + 1]])
            BY <1>3, <3>1, <3>2 DEF IsKept
        <3>4. g[n + 1] = IF l[n + 1] \in R THEN g[n] ELSE Append(g[n], l[n + 1])
            BY <1>4, <3>1 DEF IsKept
        <3>5. g[n] \in Seq(Y) /\ F[l[n + 1]] \in X
            BY <1>4, <3>1, <3>2
        <3>6. Image(F, g[n]) \in Seq(X)
            BY <3>5, ImageType, Zenon
        <3>7. h[M + n] = d \o Image(F, g[n])
            BY <2>2
        <3>8. CASE l[n + 1] \in R
            <4>1. F[l[n + 1]] \in S
                BY <3>1, <3>8
            <4>2. h[M + (n + 1)] = d \o Image(F, g[n + 1])
                BY <3>3, <3>4, <3>7, <3>8, <4>1, Zenon
            <4>3. QED BY <3>1, <4>2
        <3>9. CASE l[n + 1] \notin R
            <4>1. F[l[n + 1]] \notin S
                BY <3>1, <3>9
            <4>2. Append(h[M + n], F[l[n + 1]]) = d \o Append(Image(F, g[n]), F[l[n + 1]])
                <5>1. Append(d \o Image(F, g[n]), F[l[n + 1]]) = d \o Append(Image(F, g[n]), F[l[n + 1]])
                    BY <3>5, <3>6, <1>6, Zenon
                <5>2. QED BY <3>7, <5>1, Zenon
            <4>3. Append(Image(F, g[n]), F[l[n + 1]]) = Image(F, g[n + 1])
                <5>1. g[n + 1] = Append(g[n], l[n + 1])
                    BY <3>4, <3>9
                <5>2. Image(F, Append(g[n], l[n + 1])) = Append(Image(F, g[n]), F[l[n + 1]])
                    BY <3>2, <3>5, <1>7, Zenon
                <5>3. QED BY <5>1, <5>2
            <4>4. h[M + (n + 1)] = d \o Image(F, g[n + 1])
                BY <3>3, <4>1, <4>2, <4>3, Zenon
            <4>5. QED BY <3>1, <4>4
        <3>10. QED BY <3>8, <3>9
    <2>3. 0 .. N \subseteq T
        <3> HIDE DEF T, N
        <3>1. QED BY <1>1, <2>1, <2>2, BoundedInduction
    <2>4. N \in T
        <3> HIDE DEF T
        <3>1. QED BY <1>1, <2>3
    <2>5. QED BY <2>4
<1>9. QED BY <1>3, <1>4, <1>8 DEF s, PartsKept

-----------------------------------------------------------------------------
(* The list of the values of a map in the order of its keys.               *)

Keys(F, n) == Without(UpTo(n), (1 .. n) \ DOMAIN F)
Listed(F, n) == Image(F, Keys(F, n))

Extended(F, n) == Listed(F, n + 1) = IF n + 1 \in DOMAIN F THEN Append(Listed(F, n), F[n + 1])
                                                          ELSE Listed(F, n)

\* One more key: its value comes last, if it has one.
LEMMA ListedNext ==
    ASSUME NEW X, NEW D \in SUBSET Nat, NEW F \in [D -> X], NEW n \in Nat
    PROVE  Extended(F, n)
<1> DEFINE S == (1 .. n) \ D
<1> DEFINE R == (1 .. n + 1) \ D
<1>1. /\ UpTo(n) \in Seq(Nat) /\ Len(UpTo(n)) = n /\ \A k \in 1 .. n : UpTo(n)[k] = k
      /\ Elements(UpTo(n)) = 1 .. n
      /\ UpTo(n + 1) = Append(UpTo(n), n + 1)
    BY UpToNext DEF UpToGrows
<1>2. Without(UpTo(n), R) = Without(UpTo(n), S)
    <2>1. \A k \in 1 .. Len(UpTo(n)) : UpTo(n)[k] \in R <=> UpTo(n)[k] \in S
        BY <1>1
    <2>2. QED
        <3> HIDE DEF R, S
        <3>1. QED BY <1>1, <2>1, WithoutSame
<1>3. Without(UpTo(n + 1), R) = IF n + 1 \in R THEN Without(UpTo(n), R) ELSE Append(Without(UpTo(n), R), n + 1)
    <2> HIDE DEF R
    <2>1. AppendKept(UpTo(n), n + 1, R)
        <3>1. UpTo(n) \in Seq(Nat) /\ n + 1 \in Nat
            BY <1>1
        <3>2. QED BY <3>1, WithoutAppend, Zenon
    <2>2. QED BY <1>1, <2>1, Zenon DEF AppendKept
<1>4. Keys(F, n) = Without(UpTo(n), S) /\ Keys(F, n + 1) = Without(UpTo(n + 1), R)
    BY DEF Keys
<1>5. n + 1 \in R <=> n + 1 \notin D
    OBVIOUS
<1>6. Keys(F, n) \in Seq(D)
    <2>1. Keys(F, n) \in Seq(Nat) /\ Elements(Keys(F, n)) = 1 .. n \ S
        <3> HIDE DEF S
        <3>1. QED BY <1>1, <1>4, WithoutElements
    <2>2. Elements(Keys(F, n)) \subseteq D
        BY <2>1
    <2>3. QED BY <2>1, <2>2 DEF Elements
<1> HIDE DEF R, S
<1>7. CASE n + 1 \in D
    <2>1. Keys(F, n + 1) = Append(Keys(F, n), n + 1)
        BY <1>2, <1>3, <1>4, <1>5, <1>7, Zenon
    <2>2. ImageAppends(F, D)
        BY ImageAppend
    <2>3. Image(F, Append(Keys(F, n), n + 1)) = Append(Image(F, Keys(F, n)), F[n + 1])
        BY <1>6, <1>7, <2>2, Zenon DEF ImageAppends
    <2>4. QED BY <1>7, <2>1, <2>3, Zenon DEF Extended, Listed
<1>8. CASE n + 1 \notin D
    <2>1. Keys(F, n + 1) = Keys(F, n)
        BY <1>2, <1>3, <1>4, <1>5, <1>8, Zenon
    <2>2. QED BY <1>8, <2>1, Zenon DEF Extended, Listed
<1>9. QED BY <1>7, <1>8

\* Maps that agree up to n list the same up to there.
LEMMA ListedSame ==
    ASSUME NEW X, NEW D \in SUBSET Nat, NEW E \in SUBSET Nat, NEW F \in [D -> X], NEW G \in [E -> X],
           NEW n \in Nat, \A k \in 1 .. n : (k \in D <=> k \in E) /\ (k \in D => F[k] = G[k])
    PROVE  Listed(F, n) = Listed(G, n)
<1>1. (1 .. n) \ D = (1 .. n) \ E
    OBVIOUS
<1>2. Keys(F, n) = Keys(G, n) /\ Keys(F, n) = Without(UpTo(n), (1 .. n) \ D)
    BY <1>1 DEF Keys
<1> DEFINE s == Keys(F, n)
<1>3. s \in Seq(Nat) /\ Elements(s) = 1 .. n \ ((1 .. n) \ D)
    <2>1. UpTo(n) \in Seq(Nat) /\ Elements(UpTo(n)) = 1 .. n
        BY UpToNext
    <2> DEFINE S == (1 .. n) \ D
    <2>2. Without(UpTo(n), S) \in Seq(Nat) /\ Elements(Without(UpTo(n), S)) = Elements(UpTo(n)) \ S
        <3> HIDE DEF S
        <3>1. QED BY <2>1, WithoutElements
    <2>3. QED BY <1>2, <2>1, <2>2, Zenon
<1>4. \A k \in DOMAIN s : s[k] \in 1 .. n /\ s[k] \in D
    BY <1>3 DEF Elements
<1>5. \A k \in DOMAIN s : F[s[k]] = G[s[k]]
    BY <1>4
<1> HIDE DEF s
<1>6. [k \in DOMAIN s |-> F[s[k]]] = [k \in DOMAIN s |-> G[s[k]]]
    BY <1>5
<1>7. Listed(F, n) = [k \in DOMAIN s |-> F[s[k]]] /\ Listed(G, n) = [k \in DOMAIN s |-> G[s[k]]]
    BY <1>2, Zenon DEF Listed, Image, s
<1>8. QED BY <1>6, <1>7

\* Where there is no key, nothing is listed.
LEMMA ListedSpan ==
    ASSUME NEW X, NEW D \in SUBSET Nat, NEW F \in [D -> X], NEW m \in Nat, NEW n \in Nat,
           m <= n, \A k \in m + 1 .. n : k \notin D
    PROVE  Listed(F, n) = Listed(F, m)
<1> DEFINE T == {l \in 0 .. n - m : Listed(F, m + l) = Listed(F, m)}
<1>1. 0 \in T
    <2>1. m + 0 = m /\ 0 \in 0 .. n - m
        OBVIOUS
    <2>2. QED BY <2>1
<1>2. ASSUME NEW l \in 0 .. n - m - 1, l \in T PROVE l + 1 \in T
    <2>1. m + l \in Nat /\ (m + l) + 1 = m + (l + 1) /\ m + (l + 1) \in m + 1 .. n /\ l + 1 \in 0 .. n - m
        OBVIOUS
    <2>2. Extended(F, m + l)
        BY <2>1, ListedNext
    <2>3. Listed(F, m + (l + 1)) = Listed(F, m + l)
        <3>1. m + (l + 1) \notin DOMAIN F
            BY <2>1
        <3>2. QED BY <2>1, <2>2, <3>1, Zenon DEF Extended
    <2>4. QED BY <1>2, <2>1, <2>3
<1>3. 0 .. n - m \subseteq T
    <2> HIDE DEF T
    <2>1. n - m \in Nat
        OBVIOUS
    <2>2. QED BY <1>1, <1>2, <2>1, BoundedInduction
<1>4. n - m \in T /\ m + (n - m) = n
    BY <1>3
<1>5. QED BY <1>4

=============================================================================
