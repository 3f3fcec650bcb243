-------------------------- MODULE InductionLemmas ---------------------------
(***************************************************************************)
(* Induction over the naturals and what follows from it: definitions by    *)
(* recursion have a solution, bounded sets have a greatest member, and a   *)
(* list without repetition is as long as the set of its members.           *)
(*                                                                         *)
(* The library states induction for a predicate; a set does as well, and   *)
(* needs no operator as a parameter.                                       *)
(***************************************************************************)
EXTENDS Naturals, Sequences, FiniteSets, Functions, FiniteSetTheorems, WellFoundedInduction, TLAPS

\* A nonempty set of naturals has a least member.
LEMMA LeastNatural ==
    ASSUME NEW T \in SUBSET Nat, T # {}
    PROVE  \E x \in T : \A y \in T : x <= y
<1> DEFINE R == OpToRel(<, Nat)
<1>1. \E x \in T : \A y \in T : ~(<<y, x>> \in R)
  BY NatLessThanWellFounded, WFMin, Zenon
<1>2. \A x, y \in Nat : <<y, x>> \in R <=> y < x
  BY DEF OpToRel
<1>3. PICK x \in T : \A y \in T : ~(<<y, x>> \in R)
  BY <1>1
<1>4. ASSUME NEW y \in T PROVE x <= y
  <2>1. x \in Nat /\ y \in Nat
    OBVIOUS
  <2>2. ~(y < x)
    BY <1>2, <1>3, <2>1
  <2> QED BY <2>1, <2>2
<1> QED BY <1>4

\* Induction with a set for the predicate.
LEMMA Induction ==
    ASSUME NEW S, 0 \in S, \A n \in Nat : n \in S => n + 1 \in S
    PROVE  Nat \subseteq S
<1> SUFFICES ASSUME Nat \ S # {} PROVE FALSE
  OBVIOUS
<1>1. PICK x \in Nat \ S : \A y \in Nat \ S : x <= y
  <2> Nat \ S \in SUBSET Nat OBVIOUS
  <2> QED BY LeastNatural
<1>2. x # 0 /\ x - 1 \in Nat /\ x - 1 \in S
  BY <1>1
<1>3. x - 1 + 1 = x
  BY <1>1
<1> QED BY <1>1, <1>2, <1>3

\* A function can be iterated: the recursive definitions of the model exist.
LEMMA Iterate ==
    ASSUME NEW T, NEW a \in T, NEW G \in [T -> T]
    PROVE  \E f \in [Nat -> T] : f[0] = a /\ \A n \in Nat : f[n + 1] = G[f[n]]
<1> DEFINE Up(f, n) == f \in [0..n -> T] /\ f[0] = a /\ \A k \in 0..n : k # n => f[k + 1] = G[f[k]]
<1> DEFINE S == {n \in Nat : \E f \in [0..n -> T] : Up(f, n)}
<1>1. 0 \in S
  <2>1. Up([k \in 0..0 |-> a], 0)
    OBVIOUS
  <2> QED BY <2>1
<1>2. ASSUME NEW n \in Nat, n \in S PROVE n + 1 \in S
  <2>1. PICK f \in [0..n -> T] : Up(f, n)
    BY <1>2
  <2> DEFINE g == [k \in 0..(n + 1) |-> IF k = n + 1 THEN G[f[n]] ELSE f[k]]
  <2>2. g \in [0..(n+1) -> T]
    OBVIOUS
  <2>3. g[0] = a
    BY <2>1
  <2>4. ASSUME NEW k \in 0..(n+1), k # n + 1 PROVE g[k + 1] = G[g[k]]
    <3>1. CASE k = n
      BY <3>1, <2>4
    <3>2. CASE k # n
      <4>1. k \in 0..n /\ k + 1 \in 0..n
        BY <3>2, <2>4
      <4> QED BY <4>1, <2>1, <3>2
    <3> QED BY <3>1, <3>2
  <2> HIDE DEF g
  <2>5. Up(g, n + 1)
    BY <2>2, <2>3, <2>4
  <2> QED BY <2>5, <2>2
<1>3. Nat \subseteq S
  <2> HIDE DEF S
  <2> QED BY <1>1, <1>2, Induction
<1>4. ASSUME NEW n \in Nat, NEW m \in Nat, n <= m,
             NEW f \in [0..n -> T], NEW g \in [0..m -> T], Up(f, n), Up(g, m)
      PROVE  f[n] = g[n]
  <2> DEFINE E == {k \in Nat : k <= n => f[k] = g[k]}
  <2>1. 0 \in E
    BY <1>4
  <2>2. ASSUME NEW k \in Nat, k \in E PROVE k + 1 \in E
    <3> SUFFICES ASSUME k + 1 <= n PROVE f[k+1] = g[k+1]
      OBVIOUS
    <3>1. k \in 0..n /\ k \in 0..m /\ k # n /\ k # m
      BY <1>4
    <3> QED BY <3>1, <1>4, <2>2
  <2>3. Nat \subseteq E
    <3> HIDE DEF E
    <3> QED BY <2>1, <2>2, Induction
  <2> QED BY <2>3
<1> DEFINE at == [n \in Nat |-> CHOOSE f \in [0..n -> T] : Up(f, n)]
<1>5. ASSUME NEW n \in Nat PROVE at[n] \in [0..n -> T] /\ Up(at[n], n)
  <2>1. \E f \in [0..n -> T] : Up(f, n)
    BY <1>3
  <2> QED BY <2>1, Zenon
<1> DEFINE h == [n \in Nat |-> at[n][n]]
<1>6. h \in [Nat -> T] 
  <2>1. ASSUME NEW n \in Nat PROVE at[n][n] \in T
    <3> HIDE DEF at
    <3> QED BY <1>5
  <2> HIDE DEF at
  <2> QED BY <2>1
<1>7. h[0] = a
  <2> HIDE DEF at
  <2> QED BY <1>5
<1>8. ASSUME NEW n \in Nat PROVE h[n + 1] = G[h[n]]
  <2> HIDE DEF at
  <2>1. at[n+1] \in [0..(n+1) -> T] /\ Up(at[n + 1], n + 1) /\ at[n] \in [0..n -> T] /\ Up(at[n], n)
    BY <1>5
  <2>2. at[n][n] = at[n+1][n]
    <3> HIDE DEF Up
    <3> n + 1 \in Nat /\ n <= n + 1 OBVIOUS
    <3> QED BY <1>4, <2>1, Zenon
  <2>3. at[n+1][n+1] = G[at[n+1][n]]
    BY <2>1
  <2> QED BY <2>2, <2>3
<1> QED BY <1>6, <1>7, <1>8

\* A list without repetition is as long as the set of its members.
LEMMA ListLength ==
    ASSUME NEW n \in Nat, NEW S, NEW f \in [1..n -> S],
           \A x, y \in 1..n : f[x] = f[y] => x = y,
           \A c \in S : \E x \in 1..n : f[x] = c
    PROVE  n = Cardinality(S)
<1>1. f \in Bijection(1..n, S)
  <2>1. f \in Injection(1..n, S)
    BY DEF Injection, IsInjective
  <2>2. f \in Surjection(1..n, S)
    BY DEF Surjection
  <2> QED BY <2>1, <2>2 DEF Bijection
<1>2. ExistsBijection(1..n, S)
  BY <1>1 DEF ExistsBijection
<1> QED BY <1>2, FS_CountingElements

\* f is defined by recursion up to N.
Recursion(f, N, T, a, G) ==
    f \in [0..N -> T] /\ f[0] = a /\ \A i \in 1..N : f[i] = G[<<f[i - 1], i>>]

\* A definition by recursion up to N has a solution.
LEMMA RecursionTo ==
    ASSUME NEW N, NEW T, NEW a, NEW G,
           N \in Nat, a \in T, G \in [T \X (1..N) -> T]
    PROVE  \E f : Recursion(f, N, T, a, G)
<1> DEFINE Value(q) == IF q[2] + 1 \in 1..N THEN G[<<q[1], q[2] + 1>>] ELSE q[1]
           Go(q) == <<Value(q), q[2] + 1>>
<1>1. PICK P, z, H : P = T \X Nat /\ z = <<a, 0>> /\ H = [q \in P |-> Go(q)]
  OBVIOUS
<1>2. H \in [P -> P]
  <2>1. ASSUME NEW q \in P PROVE Go(q) \in P
    <3>1. q[1] \in T /\ q[2] \in Nat
      BY <1>1
    <3>2. q[2] + 1 \in Nat
      BY <3>1
    <3>3. q[2] + 1 \in 1..N => G[<<q[1], q[2] + 1>>] \in T
      BY <3>1
    <3>4. Value(q) \in T
      BY <3>1, <3>3
    <3> HIDE DEF Value
    <3>5. <<Value(q), q[2] + 1>> \in T \X Nat
      BY <3>2, <3>4
    <3> QED BY <1>1, <3>5
  <2> HIDE DEF Go
  <2> QED BY <1>1, <2>1
<1>3. PICK c \in [Nat -> P] : c[0] = z /\ \A n \in Nat : c[n + 1] = H[c[n]]
  <2>1. z \in P
    BY <1>1
  <2> QED BY ONLY <1>2, <2>1, Iterate
<1>4. \A n \in Nat : c[n] \in P /\ c[n + 1] = Go(c[n])
  <2> HIDE DEF Go
  <2> QED BY <1>1, <1>3
<1>5. \A n \in Nat : c[n][2] = n
  <2> DEFINE S == {n \in Nat : c[n][2] = n}
  <2>1. 0 \in S
    BY <1>1, <1>3
  <2>2. ASSUME NEW n \in Nat, n \in S PROVE n + 1 \in S
    <3>1. c[n + 1] = Go(c[n]) /\ c[n][2] = n
      BY <1>4, <2>2
    <3>2. c[n + 1][2] = n + 1
      BY <3>1
    <3> QED BY <3>2
  <2>3. Nat \subseteq S
    <3> HIDE DEF S
    <3> QED BY <2>1, <2>2, Induction
  <2> QED BY <2>3
<1> DEFINE f == [i \in 0..N |-> c[i][1]]
<1>6. f \in [0..N -> T]
  BY <1>1, <1>4
<1>7. f[0] = a
  BY <1>1, <1>3
<1>8. ASSUME NEW i \in 1..N PROVE f[i] = G[<<f[i - 1], i>>]
  <2>1. i - 1 \in Nat /\ i - 1 + 1 = i /\ i - 1 \in 0..N /\ i \in 0..N
    OBVIOUS
  <2>2. c[i] = Go(c[i - 1]) /\ c[i - 1][2] = i - 1
    BY <1>4, <1>5, <2>1
  <2>3. c[i][1] = G[<<c[i - 1][1], i>>]
    BY <2>1, <2>2
  <2> QED BY <2>1, <2>3
<1>9. Recursion(f, N, T, a, G)
  <2> HIDE DEF f
  <2> QED BY <1>6, <1>7, <1>8 DEF Recursion
<1> QED BY <1>9

\* A nonempty set of naturals up to n has a greatest member.
LEMMA GreatestNatural ==
    ASSUME NEW n \in Nat, NEW S \in SUBSET (0..n), S # {}
    PROVE  \E x \in S : \A y \in S : y <= x
<1> DEFINE T == {k \in Nat : \A y \in S : y <= k}
<1>1. T \in SUBSET Nat /\ n \in T
  OBVIOUS
<1>2. PICK x \in T : \A k \in T : x <= k
  <2> HIDE DEF T
  <2> QED BY <1>1, LeastNatural
<1>3. x \in Nat /\ \A y \in S : y <= x
  OBVIOUS
<1>4. x \in S
  <2> SUFFICES ASSUME x \notin S PROVE FALSE
    OBVIOUS
  <2>1. PICK y \in S : TRUE
    OBVIOUS
  <2>2. y < x /\ y \in Nat
    BY <1>3
  <2>3. x - 1 \in T
    BY <1>3, <2>2
  <2> QED BY <1>2, <1>3, <2>3
<1> QED BY <1>3, <1>4

\* The entries of two lists one after the other.
LEMMA RangeConcat ==
  ASSUME NEW S, NEW s, NEW t, s \in Seq(S), t \in Seq(S)
  PROVE  s \o t \in Seq(S) /\ Range(s \o t) = Range(s) \cup Range(t)
  <1>0. PICK m, n, r : m = Len(s) /\ n = Len(t) /\ r = s \o t
    OBVIOUS
  <1>1. /\ m = Len(s) /\ n = Len(t) /\ r = s \o t /\ m \in Nat /\ n \in Nat
        /\ DOMAIN s = 1..m /\ DOMAIN t = 1..n /\ DOMAIN r = 1..(m + n) /\ r \in Seq(S)
    BY <1>0
  <1>2. /\ \A i \in 1..m : r[i] = s[i]
        /\ \A i \in 1..n : r[m + i] = t[i]
    BY <1>1
  <1>3. ASSUME NEW x \in Range(r) PROVE x \in Range(s) \cup Range(t)
    <2>1. PICK i \in 1..(m + n) : x = r[i]
      BY <1>1, <1>3 DEF Range
    <2>2. CASE i \in 1..m
      BY <1>1, <1>2, <2>1, <2>2 DEF Range
    <2>3. CASE i \notin 1..m
      <3>1. i - m \in 1..n /\ m + (i - m) = i
        BY <1>1, <2>3
      <3>2. x = t[i - m]
        BY <1>2, <2>1, <3>1
      <3> QED BY <1>1, <3>1, <3>2 DEF Range
    <2> QED BY <2>2, <2>3
  <1>4. ASSUME NEW x \in Range(s) PROVE x \in Range(r)
    <2>1. PICK i \in 1..m : x = s[i]
      BY <1>1, <1>4 DEF Range
    <2>2. i \in 1..(m + n)
      BY <1>1
    <2> QED BY <1>1, <1>2, <2>1, <2>2 DEF Range
  <1>5. ASSUME NEW x \in Range(t) PROVE x \in Range(r)
    <2>1. PICK i \in 1..n : x = t[i]
      BY <1>1, <1>5 DEF Range
    <2>2. m + i \in 1..(m + n)
      BY <1>1
    <2> QED BY <1>1, <1>2, <2>1, <2>2 DEF Range
  <1> QED BY <1>1, <1>3, <1>4, <1>5

-----------------------------------------------------------------------------
(* Lists, and walks along a function from places to places.                *)

\* Assigning one element of a sequence.
LEMMA SeqUpdate ==
    ASSUME NEW S, NEW s \in Seq(S), NEW n \in DOMAIN s, NEW x \in S, NEW t,
           t = [s EXCEPT ![n] = x]
    PROVE  /\ t \in Seq(S) /\ Len(t) = Len(s) /\ DOMAIN t = DOMAIN s
           /\ t[n] = x
           /\ \A i \in DOMAIN s : i # n => t[i] = s[i]
OBVIOUS

\* Appending to a sequence.
LEMMA SeqAppend ==
    ASSUME NEW S, NEW s \in Seq(S), NEW x \in S, NEW t, t = Append(s, x)
    PROVE  /\ t \in Seq(S) /\ Len(t) = Len(s) + 1 /\ DOMAIN t = DOMAIN s \cup {Len(s) + 1}
           /\ Len(s) + 1 \notin DOMAIN s
           /\ t[Len(s) + 1] = x
           /\ \A i \in DOMAIN s : t[i] = s[i]
OBVIOUS

\* t is s with x at the end.
Appends(s, x, t, n) ==
    /\ n \in Nat /\ Len(t) = n + 1 /\ t[n + 1] = x /\ \A i \in 1..n : t[i] = s[i]
    /\ Range(t) = Range(s) \cup {x} /\ t \in Seq(Range(t))

LEMMA AppendRange ==
  ASSUME NEW s, s \in Seq(Range(s)), NEW x, NEW t, t = Append(s, x), NEW n, n = Len(s)
  PROVE  Appends(s, x, t, n)
  <1>1. PICK S : S = Range(s) \cup {x}
    OBVIOUS
  <1>2. n \in Nat /\ DOMAIN s = 1..n /\ \A i \in 1..n : s[i] \in Range(s)
    OBVIOUS
  <1>3. PICK R : R = Range(s)
    OBVIOUS
  <1>4. s \in Seq(S) /\ t \in Seq(S) /\ Len(t) = n + 1 /\ t[n + 1] = x /\ DOMAIN t = 1..(n + 1)
        /\ \A i \in 1..n : t[i] = s[i]
    <2>1. s \in Seq(R) /\ S = R \cup {x}
      BY <1>1, <1>3
    <2>2. s \in Seq(S) /\ x \in S
      BY ONLY <2>1
    <2> QED BY ONLY <2>2, t = Append(s, x), n = Len(s)
  <1>5. Range(s) = {s[i] : i \in 1..n} /\ Range(t) = {t[i] : i \in 1..(n + 1)}
    BY <1>2, <1>4 DEF Range
  <1>6. ASSUME NEW e PROVE e \in Range(t) <=> e \in Range(s) \/ e = x
    <2>1. \A i \in 1..n : i \in 1..(n + 1)
      BY <1>2
    <2>2. \A i \in 1..(n + 1) : i \in 1..n \/ i = n + 1
      BY <1>2
    <2>3. n + 1 \in 1..(n + 1)
      BY <1>2
    <2> QED BY <1>4, <1>5, <2>1, <2>2, <2>3
  <1>7. Range(t) = S
    BY <1>1, <1>6
  <1> QED BY <1>1, <1>2, <1>4, <1>7 DEF Appends

\* The places of two lists one after the other.
LEMMA ConcatPlaces ==
  ASSUME NEW S, NEW s \in Seq(S), NEW t \in Seq(S), NEW m, NEW n, m = Len(s), n = Len(t)
  PROVE  /\ s \o t \in Seq(S) /\ Len(s \o t) = m + n /\ m \in Nat /\ n \in Nat
         /\ DOMAIN (s \o t) = 1..(m + n) /\ DOMAIN s = 1..m /\ DOMAIN t = 1..n
         /\ \A i \in 1..m : (s \o t)[i] = s[i]
         /\ \A i \in 1..n : (s \o t)[m + i] = t[i]
         /\ \A i \in 1..(m + n) : i > m => i - m \in 1..n /\ (s \o t)[i] = t[i - m]
  <1>0. m \in Nat /\ n \in Nat /\ DOMAIN s = 1..m /\ DOMAIN t = 1..n
    OBVIOUS
  <1>1. PICK r : r = s \o t
    OBVIOUS
  <1>2. r \in Seq(S) /\ Len(r) = m + n /\ DOMAIN r = 1..(m + n)
    BY <1>0, <1>1
  <1>3. \A i \in 1..m : r[i] = s[i]
    BY <1>0, <1>1
  <1>4. \A i \in 1..n : r[m + i] = t[i]
    BY <1>0, <1>1
  <1>5. ASSUME NEW i \in 1..(m + n), i > m PROVE i - m \in 1..n /\ r[i] = t[i - m]
    <2>1. PICK k : k = i - m
      OBVIOUS
    <2>2. k \in 1..n /\ m + k = i
      BY <1>0, <1>5, <2>1
    <2>3. r[m + k] = t[k]
      BY <1>4, <2>2
    <2> QED BY <2>1, <2>2, <2>3
  <1> QED BY <1>0, <1>1, <1>2, <1>3, <1>4, <1>5

LEMMA ConcatLength ==
  ASSUME NEW S, NEW s \in Seq(S), NEW t \in Seq(S)
  PROVE  Len(s \o t) = Len(s) + Len(t) /\ Len(s) \in Nat /\ Len(t) \in Nat
  OBVIOUS

\* G defines a function from D to R by recursion along m.
Descends(D, R, m, G) ==
    /\ R # {} /\ m \in [D -> Nat] /\ G \in [[D -> R] -> [D -> R]]
    /\ \A f, g \in [D -> R] : \A x \in D :
          (\A y \in D : m[y] < m[x] => f[y] = g[y]) => G[f][x] = G[g][x]
FixedPoint(f, D, R, G) == f \in [D -> R] /\ f = G[f]

\* A definition by recursion whose calls descend has a solution.
LEMMA Descent ==
  ASSUME NEW D, NEW R, NEW m, NEW G, Descends(D, R, m, G)
  PROVE  \E f : FixedPoint(f, D, R, G)
  <1> USE DEF Descends
  <1> DEFINE T == [D -> R]
  <1>0. PICK z, U : z \in U /\ U = T
    <2>1. PICK r : r \in R
      OBVIOUS
    <2>2. [x \in D |-> r] \in T
      BY <2>1
    <2> QED BY <2>2
  <1>1. PICK c \in [Nat -> U] : c[0] = z /\ \A n \in Nat : c[n + 1] = G[c[n]]
    <2>1. z \in U /\ G \in [U -> U]
      BY <1>0
    <2> HIDE DEF T
    <2> QED BY ONLY <2>1, Iterate
  <1>2. \A n \in Nat : c[n] \in T
    BY <1>0, <1>1
  <1> DEFINE Stable == {n \in Nat : \A x \in D : m[x] < n => c[n + 1][x] = c[n][x]}
  <1>3. Nat \subseteq Stable
    <2>1. 0 \in Stable
      BY <1>1
    <2>2. ASSUME NEW n \in Nat, n \in Stable PROVE n + 1 \in Stable
      <3> SUFFICES ASSUME NEW x \in D, m[x] < n + 1
                   PROVE  c[n + 1 + 1][x] = c[n + 1][x]
        OBVIOUS
      <3>1. c[n + 1 + 1] = G[c[n + 1]] /\ c[n + 1] = G[c[n]] /\ n + 1 \in Nat
        BY <1>1
      <3>2. \A y \in D : m[y] < m[x] => c[n + 1][y] = c[n][y]
        <4>1. \A y \in D : m[y] \in Nat
          OBVIOUS
        <4> QED BY <2>2, <4>1
      <3>3. c[n + 1] \in T /\ c[n] \in T
        BY <1>2, <3>1
      <3>4. G[c[n + 1]][x] = G[c[n]][x]
        BY ONLY <3>2, <3>3, x \in D, \A f, g \in [D -> R] : \A w \in D :
            (\A y \in D : m[y] < m[w] => f[y] = g[y]) => G[f][w] = G[g][w]
      <3> QED BY <3>1, <3>4
    <2> HIDE DEF Stable
    <2> QED BY <2>1, <2>2, Induction
  <1>4. ASSUME NEW x \in D, NEW k \in Nat, m[x] < k PROVE c[k][x] = c[m[x] + 1][x]
    <2> DEFINE Agree == {i \in Nat : c[m[x] + 1 + i][x] = c[m[x] + 1][x]}
    <2>1. m[x] \in Nat
      OBVIOUS
    <2>2. 0 \in Agree
      BY <2>1
    <2>3. ASSUME NEW i \in Nat, i \in Agree PROVE i + 1 \in Agree
      <3>1. m[x] + 1 + i \in Nat /\ m[x] < m[x] + 1 + i
        BY <2>1
      <3>2. c[m[x] + 1 + i + 1][x] = c[m[x] + 1 + i][x]
        BY <1>3, <3>1
      <3>3. m[x] + 1 + i + 1 = m[x] + 1 + (i + 1)
        BY <2>1
      <3> QED BY <2>3, <3>2, <3>3
    <2>4. Nat \subseteq Agree
      <3> HIDE DEF Agree
      <3> QED BY <2>2, <2>3, Induction
    <2>5. k - (m[x] + 1) \in Nat /\ m[x] + 1 + (k - (m[x] + 1)) = k
      BY <1>4, <2>1
    <2> QED BY <2>4, <2>5
  <1> DEFINE f == [x \in D |-> c[m[x] + 1][x]]
  <1>5. f \in T
    <2>1. ASSUME NEW x \in D PROVE c[m[x] + 1][x] \in R
      <3>1. m[x] + 1 \in Nat
        OBVIOUS
      <3> QED BY <1>2, <3>1
    <2> QED BY <2>1
  <1>6. ASSUME NEW x \in D PROVE f[x] = G[f][x]
    <2>1. m[x] \in Nat /\ c[m[x]] \in T /\ c[m[x] + 1] = G[c[m[x]]]
      BY <1>1, <1>2
    <2>2. ASSUME NEW y \in D, m[y] < m[x] PROVE f[y] = c[m[x]][y]
      BY <1>4, <2>1, <2>2
    <2> HIDE DEF f
    <2>3. G[f][x] = G[c[m[x]]][x]
      BY <1>5, <2>1, <2>2
    <2>4. f[x] = c[m[x] + 1][x]
      BY DEF f
    <2> QED BY <2>1, <2>3, <2>4
  <1> HIDE DEF f
  <1>7. f = G[f]
    <2>1. G[f] \in T
      BY <1>5
    <2> QED BY <1>5, <1>6, <2>1
  <1> QED BY <1>5, <1>7 DEF FixedPoint

\* A walk along par, which gives every place the next or 0: way is the path of
\* different places so far, here where it stands.
Wander(par, n, way, L, here) ==
    /\ n \in Nat /\ L \in Nat /\ way \in [1..L -> 1..n] /\ here \in 0..n
    /\ \A i, j \in 1..L : way[i] = way[j] => i = j
    /\ \A j \in 1..L : j < L => way[j + 1] = par[way[j]]
    /\ L > 0 => here = par[way[L]]

\* f goes from the place i on, K steps along par.
Climb(par, n, f, K, i) ==
    /\ K \in Nat /\ f \in [0..K -> 0..n] /\ f[0] = i
    /\ \A j \in 1..K : f[j - 1] # 0 /\ f[j] = par[f[j - 1]]

\* From i the steps end.
Rooted(par, n, i) ==
    \E K, f : Climb(par, n, f, K, i) /\ f[K] = 0 /\ \A j \in 1..K : f[j] # i

\* From the place first of the path on, the path leads to where it stands.
LEMMA PathChain ==
  ASSUME NEW par, NEW n, NEW way, NEW L, NEW here, Wander(par, n, way, L, here),
         NEW first, first \in 1..L
  PROVE  \E f : /\ Climb(par, n, f, L - first + 1, way[first])
                /\ f[L - first + 1] = here
                /\ \A j \in 0..(L - first) : f[j] = way[first + j]
  <1> USE DEF Wander
  <1>1. PICK K : K = L - first + 1 /\ K \in Nat /\ K > 0 /\ L - first = K - 1
    OBVIOUS
  <1>2. PICK f : f = [j \in 0..K |-> IF j = K THEN here ELSE way[first + j]]
    OBVIOUS
  <1>3. \A j \in 0..(K - 1) : f[j] = way[first + j] /\ first + j \in 1..L
    BY <1>1, <1>2
  <1>4. f[K] = here
    BY <1>1, <1>2
  <1>5. f \in [0..K -> 0..n]
    <2>1. \A j \in 0..K : f[j] \in 0..n
      <3> SUFFICES ASSUME NEW j \in 0..K PROVE f[j] \in 0..n
        OBVIOUS
      <3>1. CASE j = K
        BY <1>4, <3>1
      <3>2. CASE j # K
        <4>1. j \in 0..(K - 1)
          BY <1>1, <3>2
        <4> QED BY <1>3, <4>1
      <3> QED BY <3>1, <3>2
    <2> QED BY <1>2, <2>1
  <1>6. f[0] = way[first]
    <2>1. 0 \in 0..(K - 1) /\ first + 0 = first
      BY <1>1
    <2> QED BY <1>3, <2>1
  <1>7. ASSUME NEW j \in 1..K PROVE f[j - 1] # 0 /\ f[j] = par[f[j - 1]]
    <2>1. PICK k, a : k = j - 1 /\ a = first + k /\ k \in 0..(K - 1) /\ k + 1 = j
      BY <1>1
    <2>2. f[k] = way[a] /\ a \in 1..L
      BY <1>3, <2>1
    <2>3. f[k] \in 1..n
      BY <2>2
    <2>4. f[j] = par[f[k]]
      <3>1. CASE j = K
        <4>1. a = L /\ L > 0
          BY <1>1, <2>1, <3>1
        <4> QED BY <1>4, <2>2, <3>1, <4>1
      <3>2. CASE j # K
        <4>1. j \in 0..(K - 1) /\ first + j = a + 1 /\ a < L
          BY <1>1, <2>1, <3>2
        <4>2. f[j] = way[a + 1]
          BY <1>3, <4>1
        <4> QED BY <2>2, <4>1, <4>2
      <3> QED BY <3>1, <3>2
    <2> QED BY <2>1, <2>3, <2>4
  <1>8. Climb(par, n, f, K, way[first])
    BY <1>1, <1>5, <1>6, <1>7 DEF Climb
  <1> QED BY <1>1, <1>3, <1>4, <1>8

\* A path that ended is a root's.
LEMMA PathRooted ==
  ASSUME NEW par, NEW n, NEW way, NEW L, NEW here, Wander(par, n, way, L, here),
         here = 0, L > 0
  PROVE  Rooted(par, n, way[1])
  <1> USE DEF Wander
  <1>1. PICK f : /\ Climb(par, n, f, L - 1 + 1, way[1])
                 /\ f[L - 1 + 1] = here
                 /\ \A j \in 0..(L - 1) : f[j] = way[1 + j]
    <2>1. PICK first : first = 1
      OBVIOUS
    <2>2. Wander(par, n, way, L, here) /\ first \in 1..L
      BY <2>1
    <2> HIDE DEF Wander
    <2>3. PICK f : /\ Climb(par, n, f, L - first + 1, way[first])
                   /\ f[L - first + 1] = here
                   /\ \A j \in 0..(L - first) : f[j] = way[first + j]
      BY ONLY <2>2, PathChain
    <2> QED BY ONLY <2>1, <2>3
  <1>2. L - 1 + 1 = L
    OBVIOUS
  <1>3. Climb(par, n, f, L, way[1]) /\ f[L] = 0
    BY <1>1, <1>2
  <1>4. ASSUME NEW j \in 1..L PROVE f[j] # way[1]
    <2>1. CASE j = L
      BY <1>3, <2>1
    <2>2. CASE j # L
      <3>1. PICK a : a = 1 + j /\ a \in 1..L /\ a # 1 /\ j \in 0..(L - 1)
        BY <2>2
      <3>2. f[j] = way[a]
        BY <1>1, <3>1
      <3> QED BY <3>1, <3>2
    <2> QED BY <2>1, <2>2
  <1> QED BY <1>3, <1>4 DEF Rooted

\* A path through all places has the next one on it.
LEMMA PathFull ==
  ASSUME NEW par, NEW n, NEW way, NEW L, NEW here, Wander(par, n, way, L, here),
         here # 0, L = n
  PROVE  \E i \in 1..L : way[i] = here
  <1> USE DEF Wander
  <1> SUFFICES ASSUME \A i \in 1..L : way[i] # here PROVE FALSE
    OBVIOUS
  <1>1. PICK S : S = {way[i] : i \in 1..L}
    OBVIOUS
  <1>2. L = Cardinality(S)
    <2>1. way \in [1..L -> S] /\ \A c \in S : \E x \in 1..L : way[x] = c
      BY <1>1
    <2>2. L \in Nat /\ \A x, y \in 1..L : way[x] = way[y] => x = y
      OBVIOUS
    <2> QED BY ONLY <2>1, <2>2, ListLength
  <1>3. IsFiniteSet(1..n) /\ Cardinality(1..n) = n
    BY FS_Interval
  <1>4. S \subseteq (1..n) \ {here} /\ here \in 1..n
    BY <1>1
  <1>5. IsFiniteSet((1..n) \ {here}) /\ Cardinality((1..n) \ {here}) = n - 1
    BY <1>3, <1>4, FS_RemoveElement
  <1>6. Cardinality(S) <= n - 1
    <2>1. PICK T : T = (1..n) \ {here}
      OBVIOUS
    <2>2. IsFiniteSet(T) /\ S \in SUBSET T /\ Cardinality(T) = n - 1
      BY <1>4, <1>5, <2>1
    <2>3. Cardinality(S) <= Cardinality(T)
      BY ONLY <2>2, FS_Subset
    <2> QED BY <2>2, <2>3
  <1> QED BY <1>2, <1>6

\* loop is the path from the place first on, where the walk stands again.
Loop(par, n, way, L, here, first, loop, K) ==
    /\ Wander(par, n, way, L, here) /\ first \in 1..L /\ way[first] = here
    /\ K = L - first + 1 /\ DOMAIN loop = 1..K /\ Len(loop) = K
    /\ \A i \in 1..K : loop[i] = way[first + i - 1]

\* It is a cycle of par.
LEMMA CycleReported ==
  ASSUME NEW par, NEW n, NEW way, NEW L, NEW here, NEW first, NEW loop, NEW K,
         Loop(par, n, way, L, here, first, loop, K)
  PROVE  /\ loop # <<>>
         /\ \A i, j \in DOMAIN loop : loop[i] = loop[j] => i = j
         /\ \A i \in DOMAIN loop : par[loop[i]] = loop[(i % Len(loop)) + 1]
  <1>1. /\ L \in Nat /\ first \in 1..L /\ K = L - first + 1
        /\ way[first] = here /\ here = par[way[L]]
        /\ \A i \in 1..K : loop[i] = way[first + i - 1]
        /\ DOMAIN loop = 1..K /\ Len(loop) = K
    BY DEF Loop, Wander
  <1>2. K \in Nat /\ K > 0 /\ \A i \in 1..K : first + i - 1 \in 1..L
    BY <1>1
  <1>3. loop # <<>>
    BY <1>1, <1>2
  <1>4. ASSUME NEW i \in 1..K, NEW j \in 1..K, loop[i] = loop[j] PROVE i = j
    <2>1. PICK a, b : a = first + i - 1 /\ b = first + j - 1
      OBVIOUS
    <2>2. a \in 1..L /\ b \in 1..L /\ way[a] = way[b]
      BY <1>1, <1>2, <1>4, <2>1
    <2>3. a = b
      BY <2>2 DEF Loop, Wander
    <2> QED BY <1>1, <1>2, <2>1, <2>3
  <1>5. ASSUME NEW i \in 1..K PROVE par[loop[i]] = loop[(i % K) + 1]
    <2>1. PICK a : a = first + i - 1 /\ a \in 1..L /\ loop[i] = way[a]
      BY <1>1, <1>2
    <2>2. CASE i = K
      <3>1. a = L /\ i % K = 0
        BY <1>1, <1>2, <2>1, <2>2
      <3>2. par[loop[i]] = here
        BY <1>1, <2>1, <3>1
      <3>3. 1 \in 1..K /\ first + 1 - 1 = first
        BY <1>1, <1>2
      <3>4. loop[1] = here
        BY <1>1, <3>3
      <3> QED BY <3>1, <3>2, <3>4
    <2>3. CASE i # K
      <3>1. L \in Nat /\ first \in 1..L /\ K = L - first + 1 /\ a = first + i - 1
        BY <1>1, <2>1
      <3>2. PICK j : j = i + 1
        OBVIOUS
      <3>3. j \in 1..K /\ first + j - 1 = a + 1 /\ a < L /\ K \in Nat /\ i \in Nat /\ i < K
        BY ONLY <2>3, <3>1, <3>2, i \in 1..K
      <3>4. i % K = i
        BY ONLY <3>3
      <3>5. par[way[a]] = way[a + 1]
        BY <2>1, <3>3 DEF Loop, Wander
      <3>6. loop[j] = way[a + 1]
        BY <1>1, <3>3
      <3> QED BY <2>1, <3>2, <3>4, <3>5, <3>6
    <2> QED BY <2>2, <2>3
  <1> QED BY <1>1, <1>3, <1>4, <1>5
=============================================================================
