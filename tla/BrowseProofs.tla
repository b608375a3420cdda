---------------------------- MODULE BrowseProofs -----------------------------
(***************************************************************************)
(* What a client of Browse is answered, for every set of names, points and *)
(* requests.                                                               *)
(***************************************************************************)
EXTENDS Browse, Sums, SequenceTheorems

-----------------------------------------------------------------------------
(* Sets in order.                                                          *)

LEMMA PlaceIsCount ==
  ASSUME NEW S, IsFiniteSet(S), NEW R, IsStrictOrder(R, S), NEW x \in S
  PROVE  Place(x, S, R) \in 0..(Cardinality(S) - 1)
<1> DEFINE T == {y \in S : <<y, x>> \in R}
<1>1. T \in SUBSET S /\ x \notin T
  BY DEF IsStrictOrder
<1>2. IsFiniteSet(T) /\ Cardinality(T) <= Cardinality(S) /\ Cardinality(S) # Cardinality(T)
  <2> HIDE DEF T
  <2> QED
    BY <1>1, FS_Subset
<1>3. Cardinality(T) \in Nat /\ Cardinality(S) \in Nat
  BY <1>2, FS_CardinalityType
<1> QED
  BY <1>2, <1>3 DEF Place

LEMMA PlaceGrows ==
  ASSUME NEW S, IsFiniteSet(S), NEW R, IsStrictOrder(R, S), NEW x \in S, NEW y \in S,
         <<x, y>> \in R
  PROVE  Place(x, S, R) < Place(y, S, R)
<1> DEFINE T == {z \in S : <<z, x>> \in R}
           U == {z \in S : <<z, y>> \in R}
<1>1. T \in SUBSET U /\ x \in U /\ x \notin T /\ U \in SUBSET S
  BY DEF IsStrictOrder
<1>2. IsFiniteSet(U)
  <2> HIDE DEF U
  <2> QED
    BY <1>1, FS_Subset
<1>3. IsFiniteSet(T) /\ Cardinality(T) <= Cardinality(U) /\ Cardinality(T) # Cardinality(U)
  <2> HIDE DEF T, U
  <2> QED
    BY <1>1, <1>2, FS_Subset
<1>4. Cardinality(T) \in Nat /\ Cardinality(U) \in Nat
  BY <1>2, <1>3, FS_CardinalityType
<1> QED
  BY <1>3, <1>4 DEF Place

LEMMA PlaceDiffers ==
  ASSUME NEW S, IsFiniteSet(S), NEW R, IsStrictOrder(R, S), NEW x \in S, NEW y \in S,
         Place(x, S, R) = Place(y, S, R)
  PROVE  x = y
<1>1. Place(x, S, R) \in Int
  BY PlaceIsCount
<1>2. CASE <<x, y>> \in R
  BY <1>1, <1>2, PlaceGrows
<1>3. CASE <<y, x>> \in R
  BY <1>1, <1>3, PlaceGrows
<1> QED
  BY <1>2, <1>3 DEF IsStrictOrder

(* An element's place can only sink when fewer come before it.             *)
LEMMA PlaceSinks ==
  ASSUME NEW S, NEW T, IsFiniteSet(T), NEW R, NEW Q, NEW x,
         \A y \in S : <<y, x>> \in R => y \in T /\ <<y, x>> \in Q
  PROVE  /\ Place(x, S, R) <= Place(x, T, Q)
         /\ Place(x, S, R) \in Nat /\ Place(x, T, Q) \in Nat
<1> DEFINE A == {y \in S : <<y, x>> \in R}
           B == {y \in T : <<y, x>> \in Q}
<1>1. A \in SUBSET B /\ B \in SUBSET T
  OBVIOUS
<1>2. IsFiniteSet(B)
  <2> HIDE DEF B
  <2> QED
    BY <1>1, FS_Subset
<1>3. IsFiniteSet(A) /\ Cardinality(A) <= Cardinality(B)
  <2> HIDE DEF A, B
  <2> QED
    BY <1>1, <1>2, FS_Subset
<1>4. Cardinality(A) \in Nat /\ Cardinality(B) \in Nat
  BY <1>2, <1>3, FS_CardinalityType
<1> QED
  BY <1>3, <1>4 DEF Place

(* Every place is taken.                                                   *)
LEMMA PlaceTaken ==
  ASSUME NEW S, IsFiniteSet(S), NEW R, IsStrictOrder(R, S), NEW i \in 0..(Cardinality(S) - 1)
  PROVE  \E x \in S : Place(x, S, R) = i
<1> DEFINE T == 0..(Cardinality(S) - 1)
           f == [x \in S |-> Place(x, S, R)]
<1>1. Cardinality(S) \in Nat
  BY FS_CardinalityType
<1>2. IsFiniteSet(T) /\ Cardinality(T) = Cardinality(S)
  <2> DEFINE n == Cardinality(S) - 1
  <2>1. n \in Int /\ 0 \in Int
    BY <1>1
  <2>2. IsFiniteSet(0..n) /\ Cardinality(0..n) = IF 0 > n THEN 0 ELSE n - 0 + 1
    <3> HIDE DEF n
    <3> QED
      BY <2>1, FS_Interval
  <2> QED
    BY <1>1, <2>2
<1>3. f \in [S -> T]
  BY PlaceIsCount
<1>4. \A x, y \in S : f[x] = f[y] => x = y
  BY PlaceDiffers
<1>5. f \in Injection(S, T)
  <2> HIDE DEF f, T
  <2> QED
    BY <1>3, <1>4 DEF Injection, IsInjective
<1>6. f \in Surjection(S, T)
  <2> HIDE DEF f, T
  <2> QED
    BY <1>2, <1>5, FS_Injection
<1>7. \E x \in S : f[x] = i
  <2> HIDE DEF f
  <2> QED
    BY <1>6 DEF Surjection
<1> QED
  BY <1>7

LEMMA SortedIs ==
  ASSUME NEW S, IsFiniteSet(S), NEW R, IsStrictOrder(R, S)
  PROVE  /\ Cardinality(S) \in Nat
         /\ SortedBy(S, R) \in [1..Cardinality(S) -> S]
         /\ \A i \in 1..Cardinality(S) : Place(SortedBy(S, R)[i], S, R) = i - 1
         /\ \A x \in S : /\ Place(x, S, R) \in 0..(Cardinality(S) - 1)
                         /\ SortedBy(S, R)[Place(x, S, R) + 1] = x
<1>1. Cardinality(S) \in Nat
  BY FS_CardinalityType
<1>2. ASSUME NEW i \in 1..Cardinality(S)
      PROVE  /\ SortedBy(S, R)[i] \in S
             /\ Place(SortedBy(S, R)[i], S, R) = i - 1
  <2> DEFINE j == i - 1
  <2>1. j \in 0..(Cardinality(S) - 1)
    BY <1>1
  <2>2. \E x \in S : Place(x, S, R) = j
    <3> HIDE DEF j
    <3> QED
      BY <2>1, PlaceTaken
  <2> QED
    BY <2>2 DEF SortedBy
<1>3. ASSUME NEW x \in S
      PROVE  /\ Place(x, S, R) \in 0..(Cardinality(S) - 1)
             /\ SortedBy(S, R)[Place(x, S, R) + 1] = x
  <2>1. Place(x, S, R) \in 0..(Cardinality(S) - 1)
    BY PlaceIsCount
  <2>2. PICK i \in 1..Cardinality(S) : i = Place(x, S, R) + 1
    BY <1>1, <2>1
  <2>3. SortedBy(S, R)[i] \in S /\ Place(SortedBy(S, R)[i], S, R) = Place(x, S, R)
    BY <1>1, <1>2, <2>1, <2>2
  <2> QED
    BY <2>1, <2>2, <2>3, PlaceDiffers
<1>4. SortedBy(S, R) \in [1..Cardinality(S) -> S]
  BY <1>2 DEF SortedBy
<1> QED
  BY <1>1, <1>2, <1>3, <1>4

(* A set in the same order as another, by some translation.                *)
Translates(g, S, R, T, Q) ==
  /\ g \in Bijection(S, T)
  /\ \A x, y \in S : <<x, y>> \in R <=> <<g[x], g[y]>> \in Q

LEMMA SameOrder ==
  ASSUME NEW S, IsFiniteSet(S), NEW R, IsStrictOrder(R, S), NEW T, NEW Q, NEW g,
         Translates(g, S, R, T, Q)
  PROVE  /\ IsFiniteSet(T)
         /\ Cardinality(T) = Cardinality(S)
         /\ IsStrictOrder(Q, T)
         /\ \A x \in S : Place(g[x], T, Q) = Place(x, S, R)
<1>0. g \in Bijection(S, T) /\ \A x, y \in S : <<x, y>> \in R <=> <<g[x], g[y]>> \in Q
  BY DEF Translates
<1>1. /\ g \in [S -> T]
      /\ \A x, y \in S : g[x] = g[y] => x = y
      /\ \A y \in T : \E x \in S : g[x] = y
  BY <1>0 DEF Bijection, Injection, Surjection, IsInjective
<1>2. IsFiniteSet(T) /\ Cardinality(T) = Cardinality(S)
  <2>1. ExistsBijection(S, T)
    BY <1>0 DEF ExistsBijection
  <2> QED
    BY <2>1, FS_Bijection
<1>3. IsStrictOrder(Q, T)
  <2>1. ASSUME NEW u \in T, NEW v \in T
        PROVE  u # v <=> (<<u, v>> \in Q \/ <<v, u>> \in Q)
    <3>1. PICK x \in S, y \in S : u = g[x] /\ v = g[y]
      BY <1>1
    <3>2. u # v <=> x # y
      BY <1>1, <3>1
    <3>3. x # y <=> (<<x, y>> \in R \/ <<y, x>> \in R)
      BY DEF IsStrictOrder
    <3>4. (<<x, y>> \in R <=> <<u, v>> \in Q) /\ (<<y, x>> \in R <=> <<v, u>> \in Q)
      BY <1>0, <3>1
    <3> QED
      BY <3>2, <3>3, <3>4
  <2>2. ASSUME NEW u \in T, NEW v \in T, NEW w \in T, <<u, v>> \in Q, <<v, w>> \in Q
        PROVE  <<u, w>> \in Q
    <3>1. PICK x \in S, y \in S, z \in S : u = g[x] /\ v = g[y] /\ w = g[z]
      BY <1>1
    <3>2. <<x, y>> \in R /\ <<y, z>> \in R
      BY <1>0, <2>2, <3>1
    <3>3. <<x, z>> \in R
      BY <3>2 DEF IsStrictOrder
    <3> QED
      BY <1>0, <3>1, <3>3
  <2> QED
    BY <2>1, <2>2 DEF IsStrictOrder
<1>4. ASSUME NEW x \in S
      PROVE  Place(g[x], T, Q) = Place(x, S, R)
  <2> DEFINE A == {y \in S : <<y, x>> \in R}
             B == {y \in T : <<y, g[x]>> \in Q}
             h == [y \in A |-> g[y]]
  <2>1. IsFiniteSet(A)
    <3>1. A \in SUBSET S
      OBVIOUS
    <3> HIDE DEF A
    <3> QED
      BY <3>1, FS_Subset
  <2>2. h \in [A -> B]
    BY <1>0, <1>1
  <2>3. \A y, z \in A : h[y] = h[z] => y = z
    BY <1>1
  <2>4. \A z \in B : \E y \in A : h[y] = z
    BY <1>0, <1>1
  <2>5. h \in Bijection(A, B)
    <3> HIDE DEF A, B, h
    <3> QED
      BY <2>2, <2>3, <2>4 DEF Bijection, Injection, Surjection, IsInjective
  <2>6. Cardinality(B) = Cardinality(A)
    <3> HIDE DEF A, B, h
    <3>1. ExistsBijection(A, B)
      BY <2>5 DEF ExistsBijection
    <3> QED
      BY <2>1, <3>1, FS_Bijection
  <2> QED
    BY <2>6 DEF Place
<1> QED
  BY <1>2, <1>3, <1>4

(* What p has in common with a subsequence of s from a on.                 *)
IsPartOf(p, s, a) ==
  /\ Len(p) \in Nat
  /\ DOMAIN p = 1..Len(p)
  /\ Len(p) = 0 \/ a + Len(p) <= Len(s)
  /\ \A i \in 1..Len(p) : p[i] = s[a + i]

(* A page has the elements of L whose places follow a.                     *)
Serves(page, a, L, Q) ==
  /\ Len(page) \in Nat
  /\ ToSet(page) = {x \in L : a <= Place(x, L, Q) /\ Place(x, L, Q) < a + Len(page)}
  /\ Cardinality(ToSet(page)) = Len(page)

(* ... by a translation g of the n elements of s.                          *)
IsPartBy(g, q, s, a, n) ==
  /\ Len(q) \in Nat
  /\ DOMAIN q = 1..Len(q)
  /\ Len(q) = 0 \/ a + Len(q) <= n
  /\ \A i \in 1..Len(q) : q[i] = g[s[a + i]]

LEMMA PartServes ==
  ASSUME NEW S, IsFiniteSet(S), NEW R, IsStrictOrder(R, S), NEW T, NEW Q, NEW g,
         Translates(g, S, R, T, Q), NEW a \in Nat, NEW q,
         IsPartBy(g, q, SortedBy(S, R), a, Cardinality(S))
  PROVE  Serves(q, a, T, Q)
<1> DEFINE s == SortedBy(S, R)
           n == Cardinality(S)
           m == Len(q)
<1>1. /\ n \in Nat
      /\ s \in [1..n -> S]
      /\ \A i \in 1..n : Place(s[i], S, R) = i - 1
      /\ \A x \in S : Place(x, S, R) \in 0..(n - 1) /\ s[Place(x, S, R) + 1] = x
  BY SortedIs
<1>2. /\ g \in [S -> T]
      /\ \A x, y \in S : g[x] = g[y] => x = y
      /\ \A y \in T : \E x \in S : g[x] = y
  BY DEF Translates, Bijection, Injection, Surjection, IsInjective
<1>3. \A x \in S : Place(g[x], T, Q) = Place(x, S, R)
  BY SameOrder
<1>4. /\ m \in Nat /\ DOMAIN q = 1..m
      /\ m = 0 \/ a + m <= n
      /\ \A i \in 1..m : q[i] = g[s[a + i]]
  BY DEF IsPartBy
<1> HIDE DEF s, n, m
<1>5. ASSUME NEW i \in 1..m
      PROVE  /\ q[i] \in T
             /\ Place(q[i], T, Q) = a + i - 1
  <2>1. PICK k \in 1..n : k = a + i
    BY <1>1, <1>4
  <2>2. s[k] \in S /\ Place(s[k], S, R) = k - 1
    BY <1>1
  <2>3. q[i] = g[s[k]]
    BY <1>4, <2>1
  <2> QED
    BY <1>1, <1>2, <1>3, <2>1, <2>2, <2>3
<1>6. ASSUME NEW y \in T, a <= Place(y, T, Q), Place(y, T, Q) < a + m
      PROVE  \E i \in 1..m : q[i] = y
  <2>1. PICK x \in S : g[x] = y
    BY <1>2
  <2>2. Place(y, T, Q) = Place(x, S, R) /\ Place(x, S, R) \in 0..(n - 1)
    BY <1>1, <1>3, <2>1
  <2>3. PICK i \in 1..m : a + i = Place(x, S, R) + 1
    <3>1. Place(x, S, R) + 1 - a \in 1..m
      BY <1>1, <1>4, <1>6, <2>2
    <3> QED
      BY <1>1, <2>2, <3>1
  <2>4. q[i] = g[s[a + i]]
    BY <1>4
  <2>5. s[a + i] = x
    BY <1>1, <2>3
  <2> QED
    BY <2>1, <2>4, <2>5
<1>7. ToSet(q) = {x \in T : a <= Place(x, T, Q) /\ Place(x, T, Q) < a + m}
  <2>1. DOMAIN q = 1..m
    BY <1>4
  <2>2. \A i \in 1..m : a <= Place(q[i], T, Q) /\ Place(q[i], T, Q) < a + m
    BY <1>4, <1>5
  <2> QED
    BY <1>5, <1>6, <2>1, <2>2 DEF ToSet
<1>8. Cardinality(ToSet(q)) = m
  <2> DEFINE f == [i \in 1..m |-> q[i]]
  <2>0. DOMAIN q = 1..m
    BY <1>4
  <2>1. f \in [1..m -> ToSet(q)]
    BY <2>0 DEF ToSet
  <2>2. \A i, j \in 1..m : f[i] = f[j] => i = j
    <3>1. \A i, j \in 1..m : a + i - 1 = a + j - 1 => i = j
      BY <1>4
    <3> QED
      BY <1>5, <3>1
  <2>3. \A y \in ToSet(q) : \E i \in 1..m : f[i] = y
    BY <2>0 DEF ToSet
  <2>4. f \in Bijection(1..m, ToSet(q))
    <3> HIDE DEF f
    <3> QED
      BY <2>1, <2>2, <2>3 DEF Bijection, Injection, Surjection, IsInjective
  <2>5. ExistsBijection(1..m, ToSet(q))
    BY <2>4 DEF ExistsBijection
  <2> QED
    BY <1>4, <2>5, FS_CountingElements
<1> QED
  BY <1>4, <1>7, <1>8 DEF Serves, m

(* ... where nothing is translated.                                        *)
LEMMA PlainPartServes ==
  ASSUME NEW S, IsFiniteSet(S), NEW R, IsStrictOrder(R, S), NEW a \in Nat, NEW q,
         IsPartOf(q, SortedBy(S, R), a)
  PROVE  Serves(q, a, S, R)
<1> DEFINE g == [x \in S |-> x]
<1>1. g \in [S -> S] /\ (\A x, y \in S : g[x] = g[y] => x = y) /\ \A x \in S : g[x] = x
  OBVIOUS
<1>2. \A x \in S : \E y \in S : g[y] = x
  OBVIOUS
<1>3. Translates(g, S, R, S, R)
  <2>1. \A x, y \in S : <<x, y>> \in R <=> <<g[x], g[y]>> \in R
    BY <1>1
  <2> HIDE DEF g
  <2> QED
    BY <1>1, <1>2, <2>1 DEF Translates, Bijection, Injection, Surjection, IsInjective
<1>4. Cardinality(S) \in Nat /\ SortedBy(S, R) \in [1..Cardinality(S) -> S]
  BY SortedIs
<1>5. Len(SortedBy(S, R)) = Cardinality(S)
  BY <1>4
<1>6. /\ Len(q) \in Nat
      /\ DOMAIN q = 1..Len(q)
      /\ Len(q) = 0 \/ a + Len(q) <= Cardinality(S)
      /\ \A i \in 1..Len(q) : q[i] = SortedBy(S, R)[a + i]
  BY <1>5 DEF IsPartOf
<1>7. \A i \in 1..Len(q) : q[i] = g[SortedBy(S, R)[a + i]]
  <2>1. \A i \in 1..Len(q) : a + i \in 1..Cardinality(S)
    BY <1>4, <1>6
  <2> QED
    BY <1>1, <1>4, <1>6, <2>1
<1>8. IsPartBy(g, q, SortedBy(S, R), a, Cardinality(S))
  BY <1>6, <1>7 DEF IsPartBy
<1> QED
  <2> HIDE DEF g
  <2> QED
    BY <1>3, <1>8, PartServes

-----------------------------------------------------------------------------
(* Pages.                                                                  *)

LEMMA MinOfTwo ==
  ASSUME NEW a \in Int, NEW b \in Int
  PROVE  Min({a, b}) = IF a <= b THEN a ELSE b
<1>1. \A m \in {a, b} : (\A y \in {a, b} : m =< y) => m = IF a <= b THEN a ELSE b
  OBVIOUS
<1>2. \E m \in {a, b} : \A y \in {a, b} : m =< y
  OBVIOUS
<1> QED
  BY <1>1, <1>2 DEF Min

LEMMA SubSeqIsPart ==
  ASSUME NEW T, NEW s \in Seq(T), NEW a \in Nat, NEW b \in Int, b <= Len(s)
  PROVE  /\ IsPartOf(SubSeq(s, a + 1, b), s, a)
         /\ SubSeq(s, a + 1, b) \in Seq(T)
         /\ Len(SubSeq(s, a + 1, b)) = IF a < b THEN b - a ELSE 0
<1> DEFINE m == a + 1
           p == SubSeq(s, m, b)
<1>1. Len(s) \in Nat /\ \A i \in 1..Len(s) : s[i] \in T
  BY LenProperties, ElementOfSeq
<1>2. m \in Int /\ \A i \in m..b : s[i] \in T
  BY <1>1
<1>3. /\ p \in Seq(T)
      /\ Len(p) = IF m <= b THEN b - m + 1 ELSE 0
      /\ \A i \in 1..(b - m + 1) : p[i] = s[m + i - 1]
  <2> HIDE DEF m
  <2> QED
    BY <1>2, SubSeqProperties
<1>4. Len(p) = IF a < b THEN b - a ELSE 0
  BY <1>3
<1>5. DOMAIN p = 1..Len(p)
  <2> HIDE DEF p
  <2> QED
    BY <1>3, LenProperties
<1>6. \A i \in 1..Len(p) : p[i] = s[a + i]
  <2> HIDE DEF p
  <2>1. ASSUME NEW i \in 1..Len(p)
        PROVE  p[i] = s[a + i]
    <3>1. i \in 1..(b - m + 1) /\ m + i - 1 = a + i
      BY <1>4, <2>1
    <3> QED
      BY <1>3, <3>1
  <2> QED
    BY <2>1
<1> QED
  <2> HIDE DEF p
  <2>1. Len(p) \in Nat /\ (Len(p) = 0 \/ a + Len(p) <= Len(s))
    BY <1>1, <1>4
  <2> QED
    BY <1>3, <1>4, <1>5, <1>6, <2>1 DEF IsPartOf, p, m

LEMMA PageIsPart ==
  ASSUME NEW T, NEW s \in Seq(T), NEW a \in Nat, NEW limit \in Nat
  PROVE  /\ IsPartOf(Page(s, a, limit), s, a)
         /\ Page(s, a, limit) \in Seq(T)
         /\ Len(Page(s, a, limit)) = 0 => Len(s) <= a
         /\ a = 0 /\ (limit = 0 \/ limit >= Len(s)) => Len(Page(s, a, limit)) = Len(s)
<1> DEFINE b == IF limit = 0 THEN Len(s) ELSE Min({a + limit, Len(s)})
<1>1. Len(s) \in Nat
  BY LenProperties
<1>2. a + limit \in Int /\ Min({a + limit, Len(s)}) = IF a + limit <= Len(s) THEN a + limit ELSE Len(s)
  <2> DEFINE c == a + limit
  <2>1. c \in Int /\ Len(s) \in Int
    BY <1>1
  <2> HIDE DEF c
  <2>2. Min({c, Len(s)}) = IF c <= Len(s) THEN c ELSE Len(s)
    BY <2>1, MinOfTwo
  <2> QED
    BY <2>1, <2>2 DEF c
<1>3. b \in Int /\ b <= Len(s) /\ (b <= a => Len(s) <= a)
      /\ (a = 0 /\ (limit = 0 \/ limit >= Len(s)) => b = Len(s))
  BY <1>1, <1>2
<1>4. Page(s, a, limit) = SubSeq(s, a + 1, b)
  BY DEF Page
<1> HIDE DEF b
<1>5. /\ IsPartOf(SubSeq(s, a + 1, b), s, a)
      /\ SubSeq(s, a + 1, b) \in Seq(T)
      /\ Len(SubSeq(s, a + 1, b)) = IF a < b THEN b - a ELSE 0
  BY <1>3, SubSeqIsPart
<1> QED
  BY <1>1, <1>3, <1>4, <1>5

(* A client that asks tree for pages without a limit has all in the first. *)
LEMMA TreePageIsPart ==
  ASSUME NEW T, NEW s \in Seq(T), NEW a \in Nat, NEW limit \in Nat
  PROVE  /\ IsPartOf(TreePage(s, a, limit), s, a)
         /\ TreePage(s, a, limit) \in Seq(T)
         /\ Len(TreePage(s, a, limit)) = 0 => Len(s) <= a \/ (limit = 0 /\ a > 0)
         /\ a = 0 /\ (limit = 0 \/ limit >= Len(s)) => Len(TreePage(s, a, limit)) = Len(s)
<1>1. CASE a = 0
  <2>1. TreePage(s, a, limit) = Page(s, a, limit)
    BY <1>1 DEF TreePage
  <2> QED
    BY <2>1, PageIsPart
<1>2. CASE a # 0
  <2> DEFINE b == Min({a + limit, Len(s)})
             c == a + limit
  <2>1. Len(s) \in Nat /\ c \in Int
    BY LenProperties
  <2>2. b = IF c <= Len(s) THEN c ELSE Len(s)
    <3>1. Min({c, Len(s)}) = IF c <= Len(s) THEN c ELSE Len(s)
      <4> HIDE DEF c
      <4> QED
        BY <2>1, MinOfTwo
    <3> QED
      BY <3>1
  <2>3. b \in Int /\ b <= Len(s) /\ (b <= a => Len(s) <= a \/ limit = 0)
    BY <2>1, <2>2
  <2>4. TreePage(s, a, limit) = SubSeq(s, a + 1, b)
    BY <1>2 DEF TreePage
  <2> HIDE DEF b
  <2>5. /\ IsPartOf(SubSeq(s, a + 1, b), s, a)
        /\ SubSeq(s, a + 1, b) \in Seq(T)
        /\ Len(SubSeq(s, a + 1, b)) = IF a < b THEN b - a ELSE 0
    BY <2>3, SubSeqIsPart
  <2> QED
    BY <1>2, <2>1, <2>3, <2>4, <2>5
<1> QED
  BY <1>1, <1>2

-----------------------------------------------------------------------------
(* Names.                                                                  *)

Name == Seq(1..Sep)

LEMMA NameIs ==
  ASSUME NEW n \in Name
  PROVE  /\ Len(n) \in Nat /\ DOMAIN n = 1..Len(n)
         /\ \A i \in 1..Len(n) : n[i] \in Int /\ n[i] \in 1..Sep
<1>1. Len(n) \in Nat /\ n \in [1..Len(n) -> 1..Sep]
  BY LenProperties DEF Name
<1> QED
  BY <1>1, SepAssumption

LEMMA SameName ==
  ASSUME NEW a \in Name, NEW b \in Name, Len(a) = Len(b), \A i \in 1..Len(a) : a[i] = b[i]
  PROVE  a = b
BY SeqEqual DEF Name

LEMMA PrefixIs ==
  ASSUME NEW a \in Name, NEW b \in Name
  PROVE  IsPrefix(a, b) <=> Len(a) <= Len(b) /\ \A i \in 1..Len(a) : a[i] = b[i]
<1>1. Len(a) \in Nat /\ Len(b) \in Nat
  BY NameIs
<1>2. SUFFICES ASSUME Len(a) <= Len(b)
      PROVE  SubSeq(a, 1, Len(a)) = SubSeq(b, 1, Len(a)) <=> \A i \in 1..Len(a) : a[i] = b[i]
  BY DEF IsPrefix
<1> DEFINE n == Len(a)
           p == SubSeq(b, 1, n)
<1>3. SubSeq(a, 1, n) = a
  BY SubSeqFull DEF Name
<1>4. n \in Int /\ 1 \in Int /\ \A i \in 1..n : b[i] \in 1..Sep
  BY <1>1, <1>2, NameIs
<1>5. /\ p \in Seq(1..Sep)
      /\ Len(p) = IF 1 <= n THEN n - 1 + 1 ELSE 0
      /\ \A i \in 1..(n - 1 + 1) : p[i] = b[1 + i - 1]
  <2> HIDE DEF n
  <2> QED
    BY <1>4, SubSeqProperties
<1>6. p \in Name /\ Len(p) = n /\ \A i \in 1..n : p[i] = b[i]
  <2> HIDE DEF p
  <2>1. n - 1 + 1 = n /\ \A i \in 1..n : 1 + i - 1 = i
    BY <1>1
  <2> QED
    BY <1>1, <1>5, <2>1 DEF Name
<1> HIDE DEF p
<1>7. a = p <=> \A i \in 1..n : a[i] = b[i]
  <2>1. ASSUME a = p PROVE \A i \in 1..n : a[i] = b[i]
    BY <1>6, <2>1
  <2>2. ASSUME \A i \in 1..n : a[i] = b[i] PROVE a = p
    BY <1>6, <2>2, SameName
  <2> QED
    BY <2>1, <2>2
<1> QED
  BY <1>3, <1>7 DEF p

LEMMA StrictPrefixIs ==
  ASSUME NEW a \in Name, NEW b \in Name
  PROVE  IsStrictPrefix(a, b) <=> Len(a) < Len(b) /\ \A i \in 1..Len(a) : a[i] = b[i]
<1>1. Len(a) \in Nat /\ Len(b) \in Nat
  BY NameIs
<1>2. IsPrefix(a, b) <=> Len(a) <= Len(b) /\ \A i \in 1..Len(a) : a[i] = b[i]
  BY PrefixIs
<1>3. ASSUME IsPrefix(a, b), Len(a) = Len(b) PROVE a = b
  BY <1>2, <1>3, SameName
<1> QED
  BY <1>1, <1>2, <1>3 DEF IsStrictPrefix

(* a and b agree up to i and part there.                                   *)
Parts(a, b, i) ==
  /\ i \in 1..Len(a) /\ i \in 1..Len(b)
  /\ a[i] < b[i]
  /\ \A j \in 1..(i - 1) : a[j] = b[j]

LEMMA LessIs ==
  ASSUME NEW a \in Name, NEW b \in Name
  PROVE  Less(a, b) <=> IsStrictPrefix(a, b) \/ \E i \in Nat : Parts(a, b, i)
<1>1. Len(a) \in Nat /\ Len(b) \in Nat /\ DOMAIN a = 1..Len(a) /\ DOMAIN b = 1..Len(b)
  BY NameIs
<1>2. (\E i \in DOMAIN a \cap DOMAIN b : a[i] < b[i] /\ \A j \in 1..(i - 1) : a[j] = b[j])
        <=> \E i \in Nat : Parts(a, b, i)
  BY <1>1 DEF Parts
<1> QED
  BY <1>2 DEF Less

LEMMA LessCompares ==
  ASSUME NEW a \in Name, NEW b \in Name, a # b
  PROVE  Less(a, b) \/ Less(b, a)
<1>1. Len(a) \in Nat /\ Len(b) \in Nat
      /\ (\A i \in 1..Len(a) : a[i] \in Int) /\ (\A i \in 1..Len(b) : b[i] \in Int)
  BY NameIs
<1> DEFINE D == {i \in Nat : i \in 1..Len(a) /\ i \in 1..Len(b) /\ a[i] # b[i]}
<1>2. CASE D = {}
  <2>1. \A i \in Nat : i \in 1..Len(a) /\ i \in 1..Len(b) => a[i] = b[i]
    BY <1>2
  <2>2. CASE Len(a) < Len(b)
    <3>1. \A i \in 1..Len(a) : a[i] = b[i]
      BY <1>1, <2>1, <2>2
    <3> QED
      BY <2>2, <3>1, StrictPrefixIs, LessIs
  <2>3. CASE Len(b) < Len(a)
    <3>1. \A i \in 1..Len(b) : b[i] = a[i]
      BY <1>1, <2>1, <2>3
    <3> QED
      BY <2>3, <3>1, StrictPrefixIs, LessIs
  <2>4. CASE Len(a) = Len(b)
    <3>1. \A i \in 1..Len(a) : a[i] = b[i]
      BY <1>1, <2>1, <2>4
    <3> QED
      BY <2>4, <3>1, SameName
  <2> QED
    BY <1>1, <2>2, <2>3, <2>4
<1>3. CASE D # {}
  <2>1. PICK i \in D : \A j \in D : i <= j
    <3>1. D \in SUBSET Nat
      OBVIOUS
    <3> HIDE DEF D
    <3> QED
      BY <1>3, <3>1, SmallestNumber
  <2>2. \A j \in 1..(i - 1) : a[j] = b[j]
    <3>1. ASSUME NEW j \in 1..(i - 1), a[j] # b[j] PROVE FALSE
      <4>1. j \in D
        BY <1>1, <3>1
      <4> QED
        BY <2>1, <4>1
    <3> QED
      BY <3>1
  <2>3. Parts(a, b, i) \/ Parts(b, a, i)
    BY <1>1, <2>2 DEF Parts
  <2> QED
    BY <2>3, LessIs
<1> QED
  BY <1>2, <1>3

LEMMA LessIrreflexive ==
  ASSUME NEW a \in Name
  PROVE  ~Less(a, a)
<1>1. Len(a) \in Nat /\ \A i \in 1..Len(a) : a[i] \in Int
  BY NameIs
<1>2. ~IsStrictPrefix(a, a)
  BY DEF IsStrictPrefix
<1>3. \A i \in Nat : ~Parts(a, a, i)
  BY <1>1 DEF Parts
<1> QED
  BY <1>2, <1>3, LessIs

LEMMA LessTransitive ==
  ASSUME NEW a \in Name, NEW b \in Name, NEW c \in Name, Less(a, b), Less(b, c)
  PROVE  Less(a, c)
<1>1. /\ Len(a) \in Nat /\ Len(b) \in Nat /\ Len(c) \in Nat
      /\ \A i \in 1..Len(a) : a[i] \in Int
      /\ \A i \in 1..Len(b) : b[i] \in Int
      /\ \A i \in 1..Len(c) : c[i] \in Int
  BY NameIs
<1>2. CASE IsStrictPrefix(a, b) /\ IsStrictPrefix(b, c)
  <2>1. /\ Len(a) < Len(b) /\ \A i \in 1..Len(a) : a[i] = b[i]
        /\ Len(b) < Len(c) /\ \A i \in 1..Len(b) : b[i] = c[i]
    BY <1>2, StrictPrefixIs
  <2>2. Len(a) < Len(c) /\ \A i \in 1..Len(a) : a[i] = c[i]
    BY <1>1, <2>1
  <2> QED
    BY <2>2, StrictPrefixIs, LessIs
<1>3. ASSUME IsStrictPrefix(a, b), NEW k \in Nat, Parts(b, c, k) PROVE Less(a, c)
  <2>1. Len(a) < Len(b) /\ \A i \in 1..Len(a) : a[i] = b[i]
    BY <1>3, StrictPrefixIs
  <2>2. CASE k <= Len(a)
    <3>1. Parts(a, c, k)
      BY <1>1, <1>3, <2>1, <2>2 DEF Parts
    <3> QED
      BY <3>1, LessIs
  <2>3. CASE Len(a) < k
    <3>1. Len(a) < Len(c) /\ \A i \in 1..Len(a) : a[i] = c[i]
      BY <1>1, <1>3, <2>1, <2>3 DEF Parts
    <3> QED
      BY <3>1, StrictPrefixIs, LessIs
  <2> QED
    BY <1>1, <2>2, <2>3
<1>4. ASSUME NEW i \in Nat, Parts(a, b, i), IsStrictPrefix(b, c) PROVE Less(a, c)
  <2>1. Len(b) < Len(c) /\ \A j \in 1..Len(b) : b[j] = c[j]
    BY <1>4, StrictPrefixIs
  <2>2. Parts(a, c, i)
    BY <1>1, <1>4, <2>1 DEF Parts
  <2> QED
    BY <2>2, LessIs
<1>5. ASSUME NEW i \in Nat, Parts(a, b, i), NEW k \in Nat, Parts(b, c, k) PROVE Less(a, c)
  <2>1. CASE i <= k
    <3>1. Parts(a, c, i)
      BY <1>1, <1>5, <2>1 DEF Parts
    <3> QED
      BY <3>1, LessIs
  <2>2. CASE k <= i
    <3>1. Parts(a, c, k)
      BY <1>1, <1>5, <2>2 DEF Parts
    <3> QED
      BY <3>1, LessIs
  <2> QED
    BY <2>1, <2>2
<1>6. IsStrictPrefix(a, b) \/ \E i \in Nat : Parts(a, b, i)
  BY LessIs
<1>7. IsStrictPrefix(b, c) \/ \E i \in Nat : Parts(b, c, i)
  BY LessIs
<1> QED
  BY <1>2, <1>3, <1>4, <1>5, <1>6, <1>7

LEMMA NamesOrdered ==
  ASSUME NEW S \in SUBSET Name
  PROVE  IsStrictOrder(ByName(S), S)
<1>1. \A x, y \in S : <<x, y>> \in ByName(S) <=> Less(x, y)
  BY DEF ByName
<1>2. \A x, y \in S : x # y => Less(x, y) \/ Less(y, x)
  BY LessCompares
<1>3. \A x \in S : ~Less(x, x)
  BY LessIrreflexive
<1>4. \A x, y, z \in S : Less(x, y) /\ Less(y, z) => Less(x, z)
  BY LessTransitive
<1> QED
  BY <1>1, <1>2, <1>3, <1>4 DEF IsStrictOrder

(* An order std::sort may give puts greater values first.                  *)
LEMMA RankingOrders ==
  ASSUME NEW S \in SUBSET Name, NEW w, \A n \in S : w[n] \in Nat, NEW R \in Rankings(S, w)
  PROVE  /\ IsStrictOrder(R, S)
         /\ R \subseteq S \X S
         /\ \A x, y \in S : <<x, y>> \in R => w[x] >= w[y]
<1> DEFINE above == {p \in S \X S : w[p[1]] > w[p[2]]}
           ties  == {p \in ByName(S) : w[p[1]] = w[p[2]]}
           Ranked(kept) == above \cup kept \cup {<<p[2], p[1]>> : p \in ties \ kept}
<1>1. R \in {Ranked(kept) : kept \in SUBSET ties} /\ IsStrictOrder(R, S)
  BY DEF Rankings
<1>2. PICK kept \in SUBSET ties : R = Ranked(kept)
  BY <1>1
<1>3. \A p \in ties : p \in S \X S /\ w[p[1]] = w[p[2]]
  BY DEF ByName
<1>4. R \subseteq S \X S
  BY <1>2, <1>3
<1>5. ASSUME NEW x \in S, NEW y \in S, <<x, y>> \in R
      PROVE  w[x] >= w[y]
  <2>1. CASE <<x, y>> \in above
    BY <2>1
  <2>2. CASE <<x, y>> \in kept
    BY <1>3, <2>2
  <2>3. CASE <<x, y>> \in {<<p[2], p[1]>> : p \in ties \ kept}
    <3>1. PICK p \in ties : <<x, y>> = <<p[2], p[1]>>
      BY <2>3
    <3>2. x = p[2] /\ y = p[1] /\ w[p[1]] = w[p[2]]
      BY <1>3, <3>1
    <3> QED
      BY <3>2
  <2> QED
    BY <1>2, <1>5, <2>1, <2>2, <2>3
<1> QED
  BY <1>1, <1>4, <1>5

-----------------------------------------------------------------------------
(* Points.                                                                 *)

LEMMA KeysOrdered ==
  ASSUME NEW S \in SUBSET (Nat \X Nat)
  PROVE  IsStrictOrder(ByKey(S), S)
<1>1. \A x, y \in S : <<x, y>> \in ByKey(S) <=> Before(x, y)
  BY DEF ByKey
<1>2. \A x, y \in S : x # y => Before(x, y) \/ Before(y, x)
  <2>1. ASSUME NEW x \in S, NEW y \in S, x # y PROVE Before(x, y) \/ Before(y, x)
    <3>1. x[1] \in Nat /\ x[2] \in Nat /\ y[1] \in Nat /\ y[2] \in Nat
      OBVIOUS
    <3>2. x[1] # y[1] \/ x[2] # y[2]
      <4>1. x = <<x[1], x[2]>> /\ y = <<y[1], y[2]>>
        OBVIOUS
      <4> QED
        BY <2>1, <4>1
    <3> QED
      BY <3>1, <3>2 DEF Before
  <2> QED
    BY <2>1
<1>3. \A x \in S : ~Before(x, x)
  BY DEF Before
<1>4. \A x, y, z \in S : Before(x, y) /\ Before(y, z) => Before(x, z)
  BY DEF Before
<1> QED
  BY <1>1, <1>2, <1>3, <1>4 DEF IsStrictOrder

(* The points of id are the first m of n.                                  *)
OwnFirst(s, id, m, n) ==
  /\ \A i \in 1..m : s[i][1] = id
  /\ \A i \in (m + 1)..n : s[i][1] # id

(* What is left of a scan when it has come to another id.                  *)
LEMMA UpToIs ==
  ASSUME NEW T, NEW s \in Seq(T), NEW n \in Nat, Len(s) = n, NEW m \in Nat, m <= n,
         NEW id, OwnFirst(s, id, m, n)
  PROVE  /\ UpTo(s, id) \in Seq(T)
         /\ Len(UpTo(s, id)) = m
         /\ \A i \in 1..m : UpTo(s, id)[i] = s[i]
<1>1. s \in [1..n -> T]
  BY LenProperties
<1> DEFINE I == {i \in 1..Len(s) : s[i][1] # id}
           other == IF I # {} THEN Min(I) ELSE 0
<1>2. UpTo(s, id) = IF other = 0 THEN s ELSE SubSeq(s, 1, other - 1)
  BY DEF UpTo, SelectInSeq
<1>3. I = (m + 1)..n
  BY <1>1 DEF OwnFirst
<1>4. CASE m = n
  <2>1. other = 0
    BY <1>3, <1>4
  <2> QED
    BY <1>1, <1>2, <1>4, <2>1
<1>5. CASE m < n
  <2>1. Min(I) = m + 1
    <3>1. m + 1 \in I /\ \A y \in I : m + 1 =< y
      BY <1>3, <1>5
    <3>2. \A x \in I : (\A y \in I : x =< y) => x = m + 1
      BY <1>3, <3>1
    <3> QED
      BY <3>1, <3>2 DEF Min
  <2>2. other = m + 1
    <3>1. I # {}
      BY <1>3, <1>5
    <3> HIDE DEF I
    <3> QED
      BY <2>1, <3>1
  <2>3. UpTo(s, id) = SubSeq(s, 1, m)
    <3>1. other # 0 /\ other - 1 = m
      BY <2>2
    <3> HIDE DEF other
    <3> QED
      BY <1>2, <3>1
  <2>4. m \in Int /\ 1 \in Int /\ \A i \in 1..m : s[i] \in T
    BY <1>5
  <2>5. /\ SubSeq(s, 1, m) \in Seq(T)
        /\ Len(SubSeq(s, 1, m)) = IF 1 <= m THEN m - 1 + 1 ELSE 0
        /\ \A i \in 1..(m - 1 + 1) : SubSeq(s, 1, m)[i] = s[1 + i - 1]
    BY <2>4, SubSeqProperties
  <2>6. m - 1 + 1 = m /\ \A i \in 1..m : 1 + i - 1 = i
    OBVIOUS
  <2>7. Len(SubSeq(s, 1, m)) = m
    BY <2>5
  <2> QED
    BY <2>3, <2>5, <2>6, <2>7
<1> QED
  BY <1>4, <1>5

(* The points of an id from a time on.                                     *)
Own(P, id, start) == {k \in P : k[1] = id /\ k[2] >= start}

LEMMA ScanIs ==
  ASSUME NEW P \in SUBSET (Nat \X Nat), IsFiniteSet(P), NEW id \in Nat, NEW start \in Int
  PROVE  UpTo(Iterate(P, <<id, start>>), id) = SortedBy(Own(P, id, start), ByKey(Own(P, id, start)))
<1> DEFINE from == <<id, start>>
           F == {k \in DbOf(P, id) : ~Before(k, from)}
           O == Own(P, id, start)
           s == SortedBy(F, ByKey(F))
           t == SortedBy(O, ByKey(O))
           n == Cardinality(F)
           m == Cardinality(O)
<1>1. F \in SUBSET P /\ O \in SUBSET P
  BY DEF DbOf, Own
<1>2. Iterate(P, from) = s
  BY DEF Iterate
<1>3. \A k \in F : k[1] >= id
  BY DEF Before, DbOf
<1>4. O = {k \in F : k[1] = id}
  <2>1. \A k \in P : k[1] = id => k \in DbOf(P, id)
    BY DEF DbOf
  <2>2. \A k \in P : k[1] = id => (k[2] >= start <=> ~Before(k, from))
    BY DEF Before
  <2> QED
    BY <2>1, <2>2 DEF Own, DbOf
<1>5. /\ IsFiniteSet(F) /\ IsStrictOrder(ByKey(F), F) /\ F \in SUBSET (Nat \X Nat)
      /\ IsFiniteSet(O) /\ IsStrictOrder(ByKey(O), O) /\ O \in SUBSET (Nat \X Nat)
  <2> HIDE DEF F, O
  <2>1. IsFiniteSet(F) /\ IsFiniteSet(O)
    BY <1>1, FS_Subset
  <2> QED
    BY <1>1, <2>1, KeysOrdered
<1>6. \A x \in O : Place(x, F, ByKey(F)) = Place(x, O, ByKey(O))
  <2>1. ASSUME NEW x \in O
        PROVE  {y \in F : <<y, x>> \in ByKey(F)} = {y \in O : <<y, x>> \in ByKey(O)}
    <3>1. x \in F /\ x[1] = id
      BY <1>4
    <3>2. \A y \in F : Before(y, x) => y \in O
      <4> HIDE DEF F, O
      <4>1. ASSUME NEW y \in F, Before(y, x) PROVE y[1] = id
        <5>1. y[1] \in Nat /\ y[1] >= id
          BY <1>3, <1>5
        <5> QED
          BY <3>1, <4>1, <5>1 DEF Before
      <4> QED
        BY <1>4, <4>1
    <3>3. \A y \in F : <<y, x>> \in ByKey(F) <=> Before(y, x)
      BY <3>1 DEF ByKey
    <3>4. \A y \in O : <<y, x>> \in ByKey(O) <=> Before(y, x)
      BY DEF ByKey
    <3> HIDE DEF F, O
    <3> QED
      BY <1>4, <3>2, <3>3, <3>4
  <2> QED
    BY <2>1 DEF Place
<1>7. /\ n \in Nat
      /\ s \in [1..n -> F]
      /\ \A i \in 1..n : Place(s[i], F, ByKey(F)) = i - 1
      /\ \A x \in F : Place(x, F, ByKey(F)) \in 0..(n - 1) /\ s[Place(x, F, ByKey(F)) + 1] = x
  <2> HIDE DEF F
  <2> QED
    BY <1>5, SortedIs
<1>8. /\ m \in Nat
      /\ t \in [1..m -> O]
      /\ \A i \in 1..m : Place(t[i], O, ByKey(O)) = i - 1
      /\ \A x \in O : Place(x, O, ByKey(O)) \in 0..(m - 1) /\ t[Place(x, O, ByKey(O)) + 1] = x
  <2> HIDE DEF O
  <2> QED
    BY <1>5, SortedIs
<1> HIDE DEF F, O, s, t, n, m
<1>9. m <= n
  <2>1. O \in SUBSET F
    BY <1>4
  <2> QED
    BY <1>5, <2>1, FS_Subset DEF m, n
<1>10. \A i \in 1..m : s[i] = t[i] /\ s[i][1] = id
  <2>1. ASSUME NEW i \in 1..m
        PROVE  s[i] = t[i] /\ s[i][1] = id
    <3>1. t[i] \in O /\ t[i] \in F /\ Place(t[i], F, ByKey(F)) = i - 1
      BY <1>4, <1>6, <1>8
    <3>2. s[Place(t[i], F, ByKey(F)) + 1] = t[i] /\ i - 1 + 1 = i
      BY <1>7, <3>1
    <3> QED
      BY <1>4, <3>1, <3>2
  <2> QED
    BY <2>1
<1>11. \A i \in (m + 1)..n : s[i][1] # id
  <2>1. ASSUME NEW i \in (m + 1)..n, s[i][1] = id
        PROVE  FALSE
    <3>1. i \in 1..n
      BY <1>7, <1>8
    <3>2. s[i] \in F /\ Place(s[i], F, ByKey(F)) = i - 1
      BY <1>7, <3>1
    <3>3. s[i] \in O
      BY <1>4, <2>1, <3>2
    <3>4. Place(s[i], O, ByKey(O)) \in 0..(m - 1)
      BY <1>8, <3>3
    <3>5. i - 1 \in 0..(m - 1)
      BY <1>6, <3>2, <3>3, <3>4
    <3> QED
      BY <1>7, <1>8, <3>5
  <2> QED
    BY <2>1
<1>12. /\ UpTo(s, id) \in Seq(F)
       /\ Len(UpTo(s, id)) = m
       /\ \A i \in 1..m : UpTo(s, id)[i] = s[i]
  <2>1. n \in Nat /\ m \in Nat /\ m <= n /\ s \in Seq(F) /\ Len(s) = n
    BY <1>7, <1>8, <1>9, SeqDef
  <2>2. OwnFirst(s, id, m, n)
    BY <1>10, <1>11 DEF OwnFirst
  <2> QED
    BY <2>1, <2>2, UpToIs
<1>13. t \in Seq(F) /\ Len(t) = m
  <2>1. t \in [1..m -> F]
    BY <1>4, <1>8
  <2> QED
    BY <1>8, <2>1, SeqDef
<1>14. \A i \in 1..Len(t) : UpTo(s, id)[i] = t[i]
  BY <1>10, <1>12, <1>13
<1>15. UpTo(s, id) = t
  BY <1>12, <1>13, <1>14, SeqEqual
<1> QED
  BY <1>2, <1>15 DEF s, t, O

(* What get answers of an id.                                              *)
LEMMA GetServes ==
  ASSUME NEW P \in SUBSET (Nat \X Nat), IsFiniteSet(P), NEW id \in Nat, NEW start \in Int,
         NEW a \in Nat, NEW limit \in Nat
  PROVE  LET O == Own(P, id, start)
             page == Get(P, id, start, a, limit)
         IN  /\ Serves(page, a, O, ByKey(O))
             /\ Len(page) = 0 => Cardinality(O) <= a
<1> DEFINE O == Own(P, id, start)
           s == SortedBy(O, ByKey(O))
           c == a + Capped(limit)
           b == Min({c, Len(s)})
           page == Get(P, id, start, a, limit)
<1>1. IsFiniteSet(O) /\ IsStrictOrder(ByKey(O), O)
  <2>1. O \in SUBSET P
    BY DEF Own
  <2> HIDE DEF O
  <2>2. IsFiniteSet(O)
    BY <2>1, FS_Subset
  <2> QED
    BY <2>1, <2>2, KeysOrdered
<1>2. s \in Seq(O) /\ Len(s) = Cardinality(O) /\ Len(s) \in Nat
  <2> HIDE DEF O
  <2>1. Cardinality(O) \in Nat /\ s \in [1..Cardinality(O) -> O]
    BY <1>1, SortedIs
  <2> HIDE DEF s
  <2> QED
    BY <2>1, SeqDef
<1>3. page = SubSeq(s, a + 1, b)
  BY ScanIs DEF Get
<1>4. Capped(limit) \in Nat \ {0}
  BY ResultLimitAssumption DEF Capped
<1> HIDE DEF O, s, page
<1>5. b = IF c <= Len(s) THEN c ELSE Len(s)
  <2>1. c \in Int
    BY <1>4
  <2> HIDE DEF c
  <2> QED
    BY <1>2, <2>1, MinOfTwo
<1>6. b \in Int /\ b <= Len(s) /\ (b <= a => Len(s) <= a)
  BY <1>2, <1>4, <1>5
<1> HIDE DEF b
<1>7. /\ IsPartOf(page, s, a)
      /\ Len(page) = IF a < b THEN b - a ELSE 0
  BY <1>2, <1>3, <1>6, SubSeqIsPart
<1>8. Serves(page, a, O, ByKey(O))
  BY <1>1, <1>7, PlainPartServes DEF s
<1>9. Len(page) = 0 => Cardinality(O) <= a
  BY <1>2, <1>6, <1>7
<1> QED
  BY <1>8, <1>9 DEF O, page

-----------------------------------------------------------------------------
(* Segments of names.                                                      *)

LEMMA JoinedIs ==
  ASSUME NEW a \in Name, NEW b \in Name
  PROVE  /\ a \o b \in Name
         /\ Len(a \o b) = Len(a) + Len(b)
         /\ \A i \in 1..Len(a) : (a \o b)[i] = a[i]
         /\ \A i \in 1..Len(b) : (a \o b)[Len(a) + i] = b[i]
<1> DEFINE d == a \o b
<1>1. /\ d \in Name
      /\ Len(d) = Len(a) + Len(b)
      /\ \A i \in 1..(Len(a) + Len(b)) : d[i] = IF i <= Len(a) THEN a[i] ELSE b[i - Len(a)]
  BY ConcatProperties DEF Name
<1> HIDE DEF d
<1>2. Len(a) \in Nat /\ Len(b) \in Nat
  BY NameIs
<1>3. ASSUME NEW i \in 1..Len(a)
      PROVE  d[i] = a[i]
  BY <1>1, <1>2
<1>4. ASSUME NEW i \in 1..Len(b)
      PROVE  d[Len(a) + i] = b[i]
  <2>1. PICK k \in 1..(Len(a) + Len(b)) : k = Len(a) + i
    BY <1>2
  <2>2. k - Len(a) = i /\ ~(k <= Len(a))
    BY <1>2, <2>1
  <2>3. d[k] = b[k - Len(a)]
    BY <1>1, <2>2
  <2> QED
    BY <2>1, <2>2, <2>3
<1> QED
  BY <1>1, <1>3, <1>4 DEF d

SepName == <<Sep>>

LEMMA SepIs == SepName \in Name /\ Len(SepName) = 1 /\ SepName[1] = Sep
BY SepAssumption DEF SepName, Name

(* n lies on the branch c below head.                                      *)
OnBranch(n, head, c) ==
  /\ Len(head) + Len(c) < Len(n)
  /\ \A i \in 1..Len(head) : n[i] = head[i]
  /\ \A i \in 1..Len(c) : n[Len(head) + i] = c[i]
  /\ n[Len(head) + Len(c) + 1] = Sep

LEMMA BranchIs ==
  ASSUME NEW n \in Name, NEW head \in Name, NEW c \in Name
  PROVE  /\ head \o c \o <<Sep>> \in Name
         /\ IsPrefix(head \o c \o <<Sep>>, n) <=> OnBranch(n, head, c)
<1> DEFINE b == head \o c
           d == b \o SepName
<1>1. /\ b \in Name /\ Len(b) = Len(head) + Len(c)
      /\ \A i \in 1..Len(head) : b[i] = head[i]
      /\ \A i \in 1..Len(c) : b[Len(head) + i] = c[i]
  BY JoinedIs
<1> HIDE DEF b
<1>0. /\ d \in Name /\ Len(d) = Len(b) + Len(SepName)
      /\ \A i \in 1..Len(b) : d[i] = b[i]
      /\ \A i \in 1..Len(SepName) : d[Len(b) + i] = SepName[i]
  BY <1>1, SepIs, JoinedIs
<1> HIDE DEF d
<1>2. /\ d \in Name /\ Len(d) = Len(b) + 1
      /\ \A i \in 1..Len(b) : d[i] = b[i]
      /\ d[Len(b) + 1] = Sep
  BY <1>0, SepIs
<1>3. Len(head) \in Nat /\ Len(c) \in Nat /\ Len(n) \in Nat
  BY NameIs
<1>5. IsPrefix(d, n) <=> Len(d) <= Len(n) /\ \A i \in 1..Len(d) : d[i] = n[i]
  BY <1>2, PrefixIs
<1>6. ASSUME IsPrefix(d, n) PROVE OnBranch(n, head, c)
  <2>1. Len(d) <= Len(n) /\ \A i \in 1..Len(d) : d[i] = n[i]
    BY <1>5, <1>6
  <2>2. Len(d) = Len(head) + Len(c) + 1
    BY <1>1, <1>2
  <2>3. ASSUME NEW i \in 1..Len(head) PROVE n[i] = head[i]
    <3>1. i \in 1..Len(d) /\ i \in 1..Len(b)
      BY <1>1, <1>3, <2>2
    <3> QED
      BY <1>1, <1>2, <2>1, <3>1
  <2>4. ASSUME NEW i \in 1..Len(c) PROVE n[Len(head) + i] = c[i]
    <3>1. PICK k \in 1..Len(d) : k = Len(head) + i /\ k \in 1..Len(b)
      BY <1>1, <1>3, <2>2
    <3>2. b[k] = c[i]
      BY <1>1, <3>1
    <3> QED
      BY <1>2, <2>1, <3>1, <3>2
  <2>5. n[Len(head) + Len(c) + 1] = Sep
    <3>1. PICK k \in 1..Len(d) : k = Len(head) + Len(c) + 1 /\ k = Len(b) + 1
      BY <1>1, <1>3, <2>2
    <3> QED
      BY <1>2, <2>1, <3>1
  <2> QED
    BY <1>3, <2>1, <2>2, <2>3, <2>4, <2>5 DEF OnBranch
<1>7. ASSUME OnBranch(n, head, c) PROVE IsPrefix(d, n)
  <2>1. Len(d) = Len(head) + Len(c) + 1 /\ Len(d) <= Len(n)
    BY <1>1, <1>2, <1>3, <1>7 DEF OnBranch
  <2>2. ASSUME NEW i \in 1..Len(d) PROVE d[i] = n[i]
    <3>1. CASE i <= Len(head)
      <4>1. i \in 1..Len(head) /\ i \in 1..Len(b)
        BY <1>1, <1>3, <3>1
      <4> QED
        BY <1>1, <1>2, <1>7, <4>1 DEF OnBranch
    <3>2. CASE Len(head) < i /\ i <= Len(b)
      <4>1. PICK j \in 1..Len(c) : i = Len(head) + j
        <5>1. i - Len(head) \in 1..Len(c) /\ i = Len(head) + (i - Len(head))
          BY <1>1, <1>3, <3>2
        <5> QED
          BY <5>1
      <4>2. i \in 1..Len(b)
        BY <1>1, <1>3, <3>2
      <4> QED
        BY <1>1, <1>2, <1>7, <4>1, <4>2 DEF OnBranch
    <3>3. CASE i = Len(b) + 1
      BY <1>1, <1>2, <1>7, <3>3 DEF OnBranch
    <3> QED
      BY <1>1, <1>2, <1>3, <3>1, <3>2, <3>3
  <2> QED
    BY <1>5, <2>1, <2>2
<1> QED
  BY <1>2, <1>6, <1>7 DEF b, d, SepName

LEMMA FindIs ==
  ASSUME NEW n \in Name, NEW pos \in Nat
  PROVE  LET e == Find(n, pos)
         IN  \/ e = Npos /\ \A i \in Nat : pos < i /\ i <= Len(n) => n[i] # Sep
             \/ /\ e \in Nat /\ pos <= e /\ e < Len(n)
                /\ e # Npos
                /\ n[e + 1] = Sep
                /\ \A i \in Nat : pos < i /\ i <= e => n[i] # Sep
<1> DEFINE found == {i \in pos..(Len(n) - 1) : n[i + 1] = Sep}
<1>1. Len(n) \in Nat
  BY NameIs
<1>2. CASE found = {}
  <2>1. ASSUME NEW i \in Nat, pos < i, i <= Len(n), n[i] = Sep PROVE FALSE
    <3>1. i - 1 \in pos..(Len(n) - 1) /\ (i - 1) + 1 = i
      BY <1>1, <2>1
    <3>2. i - 1 \in found
      BY <2>1, <3>1
    <3> QED
      BY <1>2, <3>2
  <2> QED
    BY <1>2, <2>1 DEF Find
<1>3. CASE found # {}
  <2>1. PICK e \in found : \A j \in found : e <= j
    <3>1. found \in SUBSET Nat
      BY <1>1
    <3> HIDE DEF found
    <3> QED
      BY <1>3, <3>1, SmallestNumber
  <2>2. Find(n, pos) = Min(found)
    BY <1>3 DEF Find
  <2>3. Min(found) = e
    <3>1. \A x \in found : (\A y \in found : x =< y) => x = e
      BY <1>1, <2>1
    <3> QED
      BY <2>1, <3>1 DEF Min
  <2>4. ASSUME NEW i \in Nat, pos < i, i <= e, n[i] = Sep PROVE FALSE
    <3>1. i - 1 \in pos..(Len(n) - 1) /\ (i - 1) + 1 = i /\ ~(e <= i - 1)
      BY <1>1, <2>1, <2>4
    <3>2. i - 1 \in found
      BY <2>4, <3>1
    <3> QED
      BY <2>1, <3>1, <3>2
  <2>5. e \in Nat /\ pos <= e /\ e < Len(n) /\ n[e + 1] = Sep /\ e # Npos
    BY <1>1, <2>1 DEF Npos
  <2> QED
    BY <2>2, <2>3, <2>4, <2>5
<1> QED
  BY <1>2, <1>3

LEMMA HeadIs ==
  ASSUME NEW p \in Name
  PROVE  /\ HeadOf(p) \in Name
         /\ p = <<>> => HeadOf(p) = <<>>
         /\ p # <<>> => HeadOf(p) = p \o <<Sep>>
<1>1. CASE p = <<>>
  BY <1>1, EmptySeq DEF HeadOf, Name
<1>2. CASE p # <<>>
  <2>1. HeadOf(p) = p \o SepName
    BY <1>2, AppendIsConcat, SepAssumption DEF HeadOf, SepName, Name
  <2> QED
    BY <1>2, <2>1, JoinedIs, SepIs DEF SepName
<1> QED
  BY <1>1, <1>2

(* The part of n after its first k characters, up to the l-th.             *)
LEMMA RestIs ==
  ASSUME NEW n \in Name, NEW k \in Nat, NEW l \in Nat, k <= l, l <= Len(n)
  PROVE  LET c == SubSeq(n, k + 1, l)
         IN  /\ c \in Name
             /\ Len(c) = l - k
             /\ \A i \in 1..(l - k) : c[i] = n[k + i]
<1> DEFINE c == SubSeq(n, k + 1, l)
<1>1. /\ IsPartOf(c, n, k)
      /\ c \in Name
      /\ Len(c) = IF k < l THEN l - k ELSE 0
  <2> DEFINE T == 1..Sep
  <2>1. n \in Seq(T) /\ l \in Int
    BY DEF Name
  <2> HIDE DEF T
  <2>2. /\ IsPartOf(SubSeq(n, k + 1, l), n, k)
        /\ SubSeq(n, k + 1, l) \in Seq(T)
        /\ Len(SubSeq(n, k + 1, l)) = IF k < l THEN l - k ELSE 0
    BY <2>1, SubSeqIsPart
  <2> QED
    BY <2>2 DEF T, Name
<1> QED
  BY <1>1 DEF IsPartOf

(* A segment has no separator.                                             *)
Plain(c) == \A i \in DOMAIN c : c[i] # Sep

IsLeaf(n, head, depth) == EndOf(n, head, depth) = Npos

(* What a name becomes in the answer is its next segment.                  *)
LEMMA EntryIs ==
  ASSUME NEW n \in Name, NEW head \in Name, IsPrefix(head, n), NEW depth \in Nat \ {0}
  PROVE  LET c == Entry(n, head, depth)
         IN  /\ c \in Name /\ Plain(c)
             /\ \E k \in Len(head)..Len(n) : c = SubSeq(n, Len(head) + 1, k)
             /\ IsLeaf(n, head, depth) => n = head \o c
             /\ ~IsLeaf(n, head, depth) => OnBranch(n, head, c)
<1> DEFINE c == Entry(n, head, depth)
           h == Len(head)
           e == Find(n, h)
<1>1. h \in Nat /\ Len(n) \in Nat /\ h <= Len(n) /\ \A i \in 1..h : n[i] = head[i]
  BY NameIs, PrefixIs
<1>2. EndOf(n, head, depth) = e
  BY DEF EndOf
<1>3. \/ e = Npos /\ \A i \in Nat : h < i /\ i <= Len(n) => n[i] # Sep
      \/ /\ e \in Nat /\ h <= e /\ e < Len(n) /\ e # Npos
         /\ n[e + 1] = Sep
         /\ \A i \in Nat : h < i /\ i <= e => n[i] # Sep
  <2> HIDE DEF h
  <2> QED
    BY <1>1, FindIs
<1> DEFINE l == IF e = Npos THEN Len(n) ELSE e
<1>4. c = SubSeq(n, h + 1, l)
  BY <1>2 DEF Entry
<1> HIDE DEF h, e, c
<1>5. l \in Nat /\ h <= l /\ l <= Len(n) /\ \A i \in Nat : h < i /\ i <= l => n[i] # Sep
  BY <1>1, <1>3
<1>6. (e = Npos => l = Len(n)) /\ (e # Npos => l < Len(n) /\ n[l + 1] = Sep)
  BY <1>3
<1> HIDE DEF l
<1>7. /\ c \in Name
      /\ Len(c) = l - h
      /\ \A i \in 1..(l - h) : c[i] = n[h + i]
  BY <1>1, <1>4, <1>5, RestIs
<1>8. Plain(c)
  <2>1. DOMAIN c = 1..(l - h)
    BY <1>7, NameIs
  <2>2. ASSUME NEW i \in 1..(l - h) PROVE c[i] # Sep
    <3>1. h + i \in Nat /\ h < h + i /\ h + i <= l
      BY <1>1, <1>5
    <3> QED
      BY <1>5, <1>7, <3>1
  <2> QED
    BY <2>1, <2>2 DEF Plain
<1>9. ASSUME e = Npos PROVE n = head \o c
  <2> DEFINE d == head \o c
  <2>1. /\ d \in Name /\ Len(d) = h + Len(c)
        /\ \A i \in 1..h : d[i] = head[i]
        /\ \A i \in 1..Len(c) : d[h + i] = c[i]
    BY <1>7, JoinedIs DEF h
  <2> HIDE DEF d
  <2>2. Len(d) = Len(n)
    BY <1>1, <1>5, <1>6, <1>7, <1>9, <2>1
  <2>3. ASSUME NEW i \in 1..Len(n) PROVE n[i] = d[i]
    <3>1. CASE i <= h
      <4>1. i \in 1..h
        BY <1>1, <3>1
      <4> QED
        BY <1>1, <2>1, <4>1
    <3>2. CASE h < i
      <4>1. PICK j \in 1..(l - h) : i = h + j
        <5>1. i - h \in 1..(l - h) /\ i = h + (i - h)
          BY <1>1, <1>5, <1>6, <1>9, <3>2
        <5> QED
          BY <5>1
      <4> QED
        BY <1>7, <2>1, <4>1
    <3> QED
      BY <1>1, <3>1, <3>2
  <2>4. n = d
    BY <2>1, <2>2, <2>3, SameName
  <2> QED
    BY <2>4 DEF d
<1>10. ASSUME e # Npos PROVE OnBranch(n, head, c)
  <2>1. h + Len(c) = l /\ l < Len(n) /\ n[l + 1] = Sep
    BY <1>1, <1>5, <1>6, <1>7, <1>10
  <2>2. \A i \in 1..Len(c) : n[h + i] = c[i]
    BY <1>7
  <2> QED
    BY <1>1, <2>1, <2>2 DEF OnBranch, h
<1>11. \E k \in h..Len(n) : c = SubSeq(n, h + 1, k)
  <2>1. l \in h..Len(n)
    BY <1>1, <1>5
  <2> QED
    BY <1>4, <2>1
<1> QED
  BY <1>2, <1>7, <1>8, <1>9, <1>10, <1>11 DEF IsLeaf, c, h

(* ... and only that.                                                      *)
LEMMA LeafEntry ==
  ASSUME NEW head \in Name, NEW c \in Name, Plain(c), NEW depth \in Nat \ {0}
  PROVE  /\ IsPrefix(head, head \o c)
         /\ IsLeaf(head \o c, head, depth)
         /\ Entry(head \o c, head, depth) = c
<1> DEFINE n == head \o c
           h == Len(head)
           e == Find(n, h)
<1>1. /\ n \in Name /\ Len(n) = h + Len(c)
      /\ \A i \in 1..h : n[i] = head[i]
      /\ \A i \in 1..Len(c) : n[h + i] = c[i]
  BY JoinedIs
<1>2. h \in Nat /\ Len(c) \in Nat /\ DOMAIN c = 1..Len(c)
  BY NameIs
<1> HIDE DEF n
<1>3. IsPrefix(head, n)
  BY <1>1, <1>2, PrefixIs
<1>4. EndOf(n, head, depth) = e
  BY DEF EndOf
<1>5. \/ e = Npos
      \/ e \in Nat /\ h <= e /\ e < Len(n) /\ n[e + 1] = Sep
  <2> HIDE DEF h
  <2> QED
    BY <1>1, <1>2, FindIs
<1> HIDE DEF h, e
<1>6. e = Npos
  <2>1. ASSUME e \in Nat, h <= e, e < Len(n), n[e + 1] = Sep PROVE FALSE
    <3>1. PICK j \in 1..Len(c) : e + 1 = h + j
      <4>1. e + 1 - h \in 1..Len(c) /\ e + 1 = h + (e + 1 - h)
        BY <1>1, <1>2, <2>1
      <4> QED
        BY <4>1
    <3>2. c[j] # Sep
      BY <1>2 DEF Plain
    <3> QED
      BY <1>1, <2>1, <3>1, <3>2
  <2> QED
    BY <1>5, <2>1
<1>7. Entry(n, head, depth) = SubSeq(n, h + 1, Len(n))
  BY <1>4, <1>6 DEF Entry, h
<1> DEFINE d == SubSeq(n, h + 1, Len(n))
           l == Len(n)
<1>8. l \in Nat /\ h <= l /\ l - h = Len(c)
  BY <1>1, <1>2
<1>9. d \in Name /\ Len(d) = l - h /\ \A i \in 1..(l - h) : d[i] = n[h + i]
  <2>1. l <= Len(n)
    BY <1>8
  <2> HIDE DEF l
  <2>2. /\ SubSeq(n, h + 1, l) \in Name
        /\ Len(SubSeq(n, h + 1, l)) = l - h
        /\ \A i \in 1..(l - h) : SubSeq(n, h + 1, l)[i] = n[h + i]
    BY <1>1, <1>2, <1>8, <2>1, RestIs
  <2> QED
    BY <2>2 DEF l
<1> HIDE DEF d, l
<1>10. d = c
  BY <1>1, <1>8, <1>9, SameName
<1> QED
  BY <1>3, <1>4, <1>6, <1>7, <1>10 DEF IsLeaf, d, n

LEMMA BranchEntry ==
  ASSUME NEW n \in Name, NEW head \in Name, NEW c \in Name, Plain(c), OnBranch(n, head, c),
         NEW depth \in Nat \ {0}
  PROVE  /\ IsPrefix(head, n)
         /\ ~IsLeaf(n, head, depth)
         /\ Entry(n, head, depth) = c
<1> DEFINE h == Len(head)
           e == Find(n, h)
<1>1. /\ h + Len(c) < Len(n)
      /\ \A i \in 1..h : n[i] = head[i]
      /\ \A i \in 1..Len(c) : n[h + i] = c[i]
      /\ n[h + Len(c) + 1] = Sep
  BY DEF OnBranch
<1>2. h \in Nat /\ Len(c) \in Nat /\ Len(n) \in Nat /\ DOMAIN c = 1..Len(c)
  BY NameIs
<1>3. IsPrefix(head, n)
  <2>1. h <= Len(n) /\ \A i \in 1..h : head[i] = n[i]
    BY <1>1, <1>2
  <2> QED
    BY <2>1, PrefixIs
<1>4. EndOf(n, head, depth) = e
  BY DEF EndOf
<1>5. \/ e = Npos /\ \A i \in Nat : h < i /\ i <= Len(n) => n[i] # Sep
      \/ /\ e \in Nat /\ h <= e /\ e < Len(n) /\ e # Npos
         /\ n[e + 1] = Sep
         /\ \A i \in Nat : h < i /\ i <= e => n[i] # Sep
  <2> HIDE DEF h
  <2> QED
    BY <1>2, FindIs
<1> HIDE DEF h, e
<1>6. e # Npos /\ e = h + Len(c)
  <2>1. PICK k \in Nat : k = h + Len(c) + 1
    BY <1>2
  <2>2. h < k /\ k <= Len(n) /\ n[k] = Sep
    BY <1>1, <1>2, <2>1
  <2>3. e \in Nat /\ h <= e /\ e # Npos /\ n[e + 1] = Sep /\ ~(h < k /\ k <= e)
    BY <1>5, <2>2
  <2>4. ASSUME e < h + Len(c) PROVE FALSE
    <3>1. PICK j \in 1..Len(c) : e + 1 = h + j
      <4>1. e + 1 - h \in 1..Len(c) /\ e + 1 = h + (e + 1 - h)
        BY <1>2, <2>3, <2>4
      <4> QED
        BY <4>1
    <3>2. c[j] # Sep
      BY <1>2 DEF Plain
    <3> QED
      BY <1>1, <2>3, <3>1, <3>2
  <2> QED
    BY <1>2, <2>1, <2>2, <2>3, <2>4
<1>7. Entry(n, head, depth) = SubSeq(n, h + 1, e)
  BY <1>4, <1>6 DEF Entry, h
<1>8. e \in Nat /\ h <= e /\ e <= Len(n) /\ e - h = Len(c)
  BY <1>1, <1>2, <1>6
<1> DEFINE d == SubSeq(n, h + 1, e)
<1>9. d \in Name /\ Len(d) = e - h /\ \A i \in 1..(e - h) : d[i] = n[h + i]
  BY <1>2, <1>8, RestIs
<1> HIDE DEF d
<1>10. d = c
  BY <1>1, <1>8, <1>9, SameName
<1> QED
  BY <1>3, <1>4, <1>6, <1>7, <1>10 DEF IsLeaf, d

-----------------------------------------------------------------------------
(* The tree below a head.                                                  *)

LEMMA ImageFinite ==
  ASSUME NEW S, IsFiniteSet(S), NEW f, DOMAIN f = S
  PROVE  LET T == {f[x] : x \in S}
         IN  IsFiniteSet(T) /\ Cardinality(T) <= Cardinality(S)
<1> DEFINE T == {f[x] : x \in S}
           g == [x \in S |-> f[x]]
<1>1. g \in [S -> T] /\ \A y \in T : \E x \in S : g[x] = y
  OBVIOUS
<1>2. g \in Surjection(S, T)
  <2> HIDE DEF g, T
  <2> QED
    BY <1>1 DEF Surjection
<1> HIDE DEF g, T
<1>3. IsFiniteSet(T) /\ Cardinality(T) <= Cardinality(S)
  BY <1>2, FS_Surjection
<1> QED
  BY <1>3 DEF T

UnderIn(N, head) == {n \in N : IsPrefix(head, n)}

LEMMA FittingAll ==
  ASSUME NEW N \in SUBSET Name, NEW head
  PROVE  Fitting(N, head, <<>>) = UnderIn(N, head)
<1>1. ASSUME NEW n \in N PROVE IsSuffix(<<>>, n)
  <2>1. Len(n) \in Nat
    BY NameIs
  <2>2. Reverse(<<>>) = <<>>
    BY DEF Reverse
  <2>3. Len(Reverse(n)) = Len(n)
    BY <2>1 DEF Reverse
  <2>4. \A t : SubSeq(t, 1, 0) = <<>>
    BY SubSeqEmpty
  <2>5. Len(<<>>) = 0
    OBVIOUS
  <2> QED
    BY <2>1, <2>2, <2>3, <2>4, <2>5 DEF IsSuffix, IsPrefix
<1> QED
  BY <1>1 DEF Fitting, UnderIn

(* The names a call of tree answers.                                       *)
WantedIn(N, head, depth, node) ==
  {n \in UnderIn(N, head) : IF IsLeaf(n, head, depth) THEN node # "branch" ELSE node # "leaf"}

EntriesIn(N, head, depth, node) ==
  {Entry(n, head, depth) : n \in WantedIn(N, head, depth, node)}

LEMMA EntriesFinite ==
  ASSUME NEW N, IsFiniteSet(N), NEW head, NEW depth, NEW node
  PROVE  LET W == WantedIn(N, head, depth, node)
             E == EntriesIn(N, head, depth, node)
         IN  /\ IsFiniteSet(W) /\ Cardinality(W) <= Cardinality(N)
             /\ IsFiniteSet(E) /\ Cardinality(E) <= Cardinality(N)
<1> DEFINE W == WantedIn(N, head, depth, node)
           E == EntriesIn(N, head, depth, node)
           f == [n \in W |-> Entry(n, head, depth)]
<1>1. W \in SUBSET N
  BY DEF WantedIn, UnderIn
<1>2. E = {f[n] : n \in W}
  BY DEF EntriesIn
<1>3. DOMAIN f = W
  OBVIOUS
<1> HIDE DEF W, f
<1>4. IsFiniteSet(W) /\ Cardinality(W) <= Cardinality(N)
  BY <1>1, FS_Subset
<1>5. IsFiniteSet({f[n] : n \in W}) /\ Cardinality({f[n] : n \in W}) <= Cardinality(W)
  BY <1>3, <1>4, ImageFinite
<1> HIDE DEF E
<1>6. Cardinality(W) \in Nat /\ Cardinality(E) \in Nat /\ Cardinality(N) \in Nat
  BY <1>2, <1>4, <1>5, FS_CardinalityType
<1> QED
  BY <1>2, <1>4, <1>5, <1>6 DEF W, E

LEMMA EntriesAre ==
  ASSUME NEW N \in SUBSET Name, NEW head \in Name, NEW depth \in Nat \ {0}, NEW node
  PROVE  /\ EntriesIn(N, head, depth, node) \in SUBSET Name
         /\ \A n \in WantedIn(N, head, depth, node) :
              /\ n \in N /\ IsPrefix(head, n)
              /\ Entry(n, head, depth) \in Name /\ Plain(Entry(n, head, depth))
              /\ IsLeaf(n, head, depth) => n = head \o Entry(n, head, depth)
<1>1. ASSUME NEW n \in WantedIn(N, head, depth, node)
      PROVE  /\ n \in N /\ IsPrefix(head, n)
             /\ Entry(n, head, depth) \in Name /\ Plain(Entry(n, head, depth))
             /\ IsLeaf(n, head, depth) => n = head \o Entry(n, head, depth)
  <2>1. n \in N /\ IsPrefix(head, n) /\ n \in Name
    BY DEF WantedIn, UnderIn
  <2> QED
    BY <2>1, EntryIs
<1> QED
  BY <1>1 DEF EntriesIn

(* What the answer means is what the entries are.                          *)
ChildrenIn(N, head) ==
  {c \in UNION {{SubSeq(n, Len(head) + 1, k) : k \in Len(head)..Len(n)} : n \in UnderIn(N, head)} :
      /\ Plain(c)
      /\ \E n \in UnderIn(N, head) : n = head \o c \/ IsPrefix(head \o c \o <<Sep>>, n)}

LEMMA ChildrenAre ==
  ASSUME NEW N \in SUBSET Name, NEW head \in Name, NEW depth \in Nat \ {0}
  PROVE  ChildrenIn(N, head) = EntriesIn(N, head, depth, "any")
<1> DEFINE U == UnderIn(N, head)
           W == WantedIn(N, head, depth, "any")
<1>1. W = U
  BY DEF WantedIn
<1>2. \A n \in U : n \in N /\ n \in Name /\ IsPrefix(head, n)
  BY DEF UnderIn
<1>3. ASSUME NEW c \in ChildrenIn(N, head)
      PROVE  c \in EntriesIn(N, head, depth, "any")
  <2>0. PICK m \in U : \E k \in Len(head)..Len(m) : c = SubSeq(m, Len(head) + 1, k)
    BY <1>3 DEF ChildrenIn
  <2>1. PICK k \in Len(head)..Len(m) : c = SubSeq(m, Len(head) + 1, k)
    BY <2>0
  <2>2. c \in Name
    <3>1. Len(head) \in Nat /\ Len(m) \in Nat
      BY <1>2, NameIs
    <3>2. k \in Nat /\ Len(head) <= k /\ k <= Len(m) /\ m \in Name
      BY <1>2, <3>1
    <3> DEFINE h == Len(head)
    <3>3. h \in Nat /\ h <= k
      BY <3>1, <3>2
    <3> HIDE DEF h
    <3>4. SubSeq(m, h + 1, k) \in Name
      BY <3>2, <3>3, RestIs
    <3> QED
      BY <2>1, <3>4 DEF h
  <2>3. PICK n \in U : n = head \o c \/ IsPrefix(head \o c \o <<Sep>>, n)
    BY <1>3 DEF ChildrenIn
  <2>4. Plain(c) /\ n \in Name
    BY <1>2, <1>3 DEF ChildrenIn
  <2>5. Entry(n, head, depth) = c
    <3>1. CASE n = head \o c
      BY <2>2, <2>4, <3>1, LeafEntry
    <3>2. CASE IsPrefix(head \o c \o <<Sep>>, n)
      BY <2>2, <2>4, <3>2, BranchIs, BranchEntry
    <3> QED
      BY <2>3, <3>1, <3>2
  <2> QED
    BY <1>1, <2>5 DEF EntriesIn
<1>4. ASSUME NEW c \in EntriesIn(N, head, depth, "any")
      PROVE  c \in ChildrenIn(N, head)
  <2>1. PICK n \in U : c = Entry(n, head, depth)
    BY <1>1, <1>4 DEF EntriesIn
  <2>2. n \in Name /\ IsPrefix(head, n)
    BY <1>2
  <2>3. /\ c \in Name /\ Plain(c)
        /\ \E k \in Len(head)..Len(n) : c = SubSeq(n, Len(head) + 1, k)
        /\ IsLeaf(n, head, depth) => n = head \o c
        /\ ~IsLeaf(n, head, depth) => OnBranch(n, head, c)
    BY <2>1, <2>2, EntryIs
  <2>4. n = head \o c \/ IsPrefix(head \o c \o <<Sep>>, n)
    BY <2>2, <2>3, BranchIs
  <2>5. c \in UNION {{SubSeq(m, Len(head) + 1, k) : k \in Len(head)..Len(m)} : m \in U}
    BY <2>3
  <2> QED
    BY <2>3, <2>4, <2>5 DEF ChildrenIn
<1> QED
  BY <1>3, <1>4

LEMMA LeavesAre ==
  ASSUME NEW N \in SUBSET Name, NEW head \in Name, NEW depth \in Nat \ {0}
  PROVE  /\ {c \in ChildrenIn(N, head) : head \o c \in N} = EntriesIn(N, head, depth, "leaf")
         /\ WantedIn(N, head, depth, "leaf") = {n \in UnderIn(N, head) : IsLeaf(n, head, depth)}
<1>1. WantedIn(N, head, depth, "leaf") = {n \in UnderIn(N, head) : IsLeaf(n, head, depth)}
  BY DEF WantedIn
<1>2. ChildrenIn(N, head) = EntriesIn(N, head, depth, "any")
  BY ChildrenAre
<1>3. ASSUME NEW c \in ChildrenIn(N, head), head \o c \in N
      PROVE  c \in EntriesIn(N, head, depth, "leaf")
  <2>1. c \in Name /\ Plain(c)
    <3>1. PICK node : node = "any"
      OBVIOUS
    <3>2. PICK m \in WantedIn(N, head, depth, node) : c = Entry(m, head, depth)
      BY <1>2, <1>3, <3>1 DEF EntriesIn
    <3> QED
      BY <3>2, EntriesAre
  <2>2. /\ IsPrefix(head, head \o c)
        /\ IsLeaf(head \o c, head, depth)
        /\ Entry(head \o c, head, depth) = c
    BY <2>1, LeafEntry
  <2> DEFINE n == head \o c
  <2>3. n \in WantedIn(N, head, depth, "leaf")
    BY <1>1, <1>3, <2>2 DEF UnderIn
  <2>4. Entry(n, head, depth) = c
    BY <2>2
  <2> HIDE DEF n
  <2> QED
    BY <2>3, <2>4 DEF EntriesIn
<1>4. ASSUME NEW c \in EntriesIn(N, head, depth, "leaf")
      PROVE  c \in ChildrenIn(N, head) /\ head \o c \in N
  <2>1. PICK n \in WantedIn(N, head, depth, "leaf") : c = Entry(n, head, depth)
    BY <1>4 DEF EntriesIn
  <2>2. n \in WantedIn(N, head, depth, "any") /\ IsLeaf(n, head, depth) /\ n \in N
    BY <1>1 DEF WantedIn, UnderIn
  <2>3. c \in EntriesIn(N, head, depth, "any")
    BY <2>1, <2>2 DEF EntriesIn
  <2>4. n = head \o c
    BY <2>1, <2>2, EntriesAre
  <2> QED
    BY <1>2, <2>2, <2>3, <2>4
<1> QED
  BY <1>1, <1>3, <1>4

-----------------------------------------------------------------------------
(* Answers.                                                                *)

LEMMA SortedSeq ==
  ASSUME NEW S, IsFiniteSet(S), NEW R, IsStrictOrder(R, S)
  PROVE  /\ Cardinality(S) \in Nat
         /\ SortedBy(S, R) \in Seq(S)
         /\ Len(SortedBy(S, R)) = Cardinality(S)
         /\ DOMAIN SortedBy(S, R) = 1..Cardinality(S)
         /\ ToSet(SortedBy(S, R)) = S
<1> DEFINE n == Cardinality(S)
           s == SortedBy(S, R)
<1>1. /\ n \in Nat
      /\ s \in [1..n -> S]
      /\ \A x \in S : Place(x, S, R) \in 0..(n - 1) /\ s[Place(x, S, R) + 1] = x
  BY SortedIs
<1> HIDE DEF n, s
<1>2. s \in Seq(S) /\ Len(s) = n /\ DOMAIN s = 1..n
  BY <1>1, SeqDef
<1>3. \A x \in S : \E i \in 1..n : s[i] = x
  <2>1. ASSUME NEW x \in S PROVE \E i \in 1..n : s[i] = x
    <3>1. PICK i \in 1..n : i = Place(x, S, R) + 1
      BY <1>1
    <3> QED
      BY <1>1, <3>1
  <2> QED
    BY <2>1
<1>4. ToSet(s) = S
  BY <1>1, <1>2, <1>3 DEF ToSet
<1> QED
  BY <1>1, <1>2, <1>4 DEF n, s

LEMMA SubOrder ==
  ASSUME NEW S, NEW R, IsStrictOrder(R, S), NEW T \in SUBSET S
  PROVE  IsStrictOrder(R, T)
BY DEF IsStrictOrder

(* A page that has as many elements as the set has them all.               *)
LEMMA WholeServed ==
  ASSUME NEW L, IsFiniteSet(L), NEW Q, IsStrictOrder(Q, L), NEW page, Serves(page, 0, L, Q),
         Len(page) = Cardinality(L)
  PROVE  ToSet(page) = L
<1>1. Cardinality(L) \in Nat /\ \A x \in L : Place(x, L, Q) \in 0..(Cardinality(L) - 1)
  BY SortedIs
<1>2. \A x \in L : 0 <= Place(x, L, Q) /\ Place(x, L, Q) < 0 + Len(page)
  BY <1>1
<1> QED
  BY <1>2 DEF Serves

LEMMA SelectServes ==
  ASSUME NEW N \in SUBSET Name, IsFiniteSet(N), NEW prefix, NEW suffix, NEW a \in Nat,
         NEW limit \in Nat
  PROVE  LET F == Fitting(N, prefix, suffix)
             page == Select(N, prefix, suffix, a, limit)
         IN  /\ Serves(page, a, F, ByName(F))
             /\ Len(page) = 0 => Cardinality(F) <= a
<1> DEFINE F == Fitting(N, prefix, suffix)
           s == SortedBy(F, ByName(F))
           page == Page(s, a, limit)
<1>1. F \in SUBSET N /\ F \in SUBSET Name
  BY DEF Fitting
<1>2. Select(N, prefix, suffix, a, limit) = page
  BY DEF Select, InOrder
<1> HIDE DEF F
<1>3. IsFiniteSet(F) /\ IsStrictOrder(ByName(F), F)
  BY <1>1, FS_Subset, NamesOrdered
<1>4. s \in Seq(F) /\ Len(s) = Cardinality(F)
  BY <1>3, SortedSeq
<1>5. IsPartOf(page, s, a) /\ (Len(page) = 0 => Len(s) <= a)
  <2> HIDE DEF s
  <2> QED
    BY <1>4, PageIsPart
<1>6. Serves(page, a, F, ByName(F))
  <2> HIDE DEF page
  <2> QED
    BY <1>3, <1>5, PlainPartServes
<1> QED
  BY <1>2, <1>4, <1>5, <1>6 DEF F

LEMMA TreeWants ==
  ASSUME NEW N \in SUBSET Name, NEW head, NEW depth, NEW node
  PROVE  {n \in UnderIn(N, head) : IF EndOf(n, head, depth) = Npos THEN node # "branch"
                                                                   ELSE node # "leaf"}
           = WantedIn(N, head, depth, node)
BY DEF WantedIn, IsLeaf

(* tree with branches.                                                     *)
LEMMA TreeServes ==
  ASSUME NEW N \in SUBSET Name, IsFiniteSet(N), NEW prefix \in Name, NEW depth \in Nat \ {0},
         NEW node, node # "leaf", NEW a \in Nat, NEW limit \in Nat
  PROVE  LET E == EntriesIn(N, HeadOf(prefix), depth, node)
             page == Tree(N, prefix, depth, node, a, limit)
         IN  /\ IsFiniteSet(E) /\ IsStrictOrder(ByName(E), E)
             /\ Serves(page, a, E, ByName(E))
             /\ Len(page) = 0 => Cardinality(E) <= a \/ (limit = 0 /\ a > 0)
             /\ a = 0 /\ (limit = 0 \/ limit >= Cardinality(E)) => ToSet(page) = E
<1> DEFINE head == HeadOf(prefix)
           U == UnderIn(N, head)
           W == WantedIn(N, head, depth, node)
           E == EntriesIn(N, head, depth, node)
           s == SortedBy(E, ByName(E))
           page == TreePage(s, a, limit)
<1>1. head \in Name
  BY HeadIs
<1>2. Tree(N, prefix, depth, node, a, limit) = page
  <2>1. Tree(N, prefix, depth, node, a, limit) = TreeOf(U, ByName(U), head, depth, node, a, limit)
    BY FittingAll DEF Tree
  <2>2. {n \in U : IF EndOf(n, head, depth) = Npos THEN node # "branch" ELSE node # "leaf"} = W
    <3> HIDE DEF head
    <3> QED
      BY TreeWants
  <2>3. {Entry(n, head, depth) : n \in W} = E
    BY DEF EntriesIn
  <2> HIDE DEF head, U, W, E
  <2>4. TreeOf(U, ByName(U), head, depth, node, a, limit)
          = TreePage(InOrder({Entry(n, head, depth) : n \in W}), a, limit)
    BY <2>2 DEF TreeOf
  <2> QED
    BY <2>1, <2>3, <2>4 DEF InOrder
<1> HIDE DEF head
<1>3. E \in SUBSET Name /\ IsFiniteSet(E)
  BY <1>1, EntriesFinite, EntriesAre
<1> HIDE DEF E
<1>4. IsStrictOrder(ByName(E), E)
  BY <1>3, NamesOrdered
<1>5. s \in Seq(E) /\ Len(s) = Cardinality(E)
  BY <1>3, <1>4, SortedSeq
<1>6. /\ IsPartOf(page, s, a)
      /\ Len(page) = 0 => Len(s) <= a \/ (limit = 0 /\ a > 0)
      /\ a = 0 /\ (limit = 0 \/ limit >= Len(s)) => Len(page) = Len(s)
  <2> HIDE DEF s
  <2> QED
    BY <1>5, TreePageIsPart
<1> HIDE DEF page
<1>7. Serves(page, a, E, ByName(E))
  BY <1>3, <1>4, <1>6, PlainPartServes
<1>8. ASSUME a = 0, limit = 0 \/ limit >= Cardinality(E)
      PROVE  ToSet(page) = E
  <2>1. Len(page) = Cardinality(E) /\ Serves(page, 0, E, ByName(E))
    BY <1>5, <1>6, <1>7, <1>8
  <2> QED
    BY <1>3, <1>4, <2>1, WholeServed
<1> QED
  BY <1>2, <1>3, <1>4, <1>5, <1>6, <1>7, <1>8 DEF E, head

(* tree of leaves only: the whole of it, and as it is sorted.              *)
(* A page of the leaves: n of them in the order of s.                       *)
IsLeafPage(p, s, n, head, depth, a, limit) ==
  /\ Len(p) \in Nat /\ DOMAIN p = 1..Len(p)
  /\ Len(p) = 0 \/ a + Len(p) <= n
  /\ \A i \in 1..Len(p) : a + i \in 1..n /\ p[i] = Entry(s[a + i], head, depth)
  /\ Len(p) = 0 => n <= a \/ (limit = 0 /\ a > 0)
  /\ a = 0 /\ limit = 0 => Len(p) = n

LEMMA LeafTreeIs ==
  ASSUME NEW N \in SUBSET Name, IsFiniteSet(N), NEW head \in Name, NEW depth \in Nat \ {0},
         NEW R, IsStrictOrder(R, UnderIn(N, head)), NEW a \in Nat, NEW limit \in Nat
  PROVE  LET W == WantedIn(N, head, depth, "leaf")
         IN  /\ IsFiniteSet(W) /\ IsStrictOrder(R, W)
             /\ IsLeafPage(TreeOf(UnderIn(N, head), R, head, depth, "leaf", a, limit),
                           SortedBy(W, R), Cardinality(W), head, depth, a, limit)
<1> DEFINE W == WantedIn(N, head, depth, "leaf")
           E == EntriesIn(N, head, depth, "leaf")
           s == SortedBy(W, R)
           t == [i \in DOMAIN s |-> Entry(s[i], head, depth)]
           U == UnderIn(N, head)
           p == TreeOf(U, R, head, depth, "leaf", a, limit)
<1>1. p = TreePage(t, a, limit)
  <2>1. {n \in U : IF EndOf(n, head, depth) = Npos THEN "leaf" # "branch" ELSE "leaf" # "leaf"} = W
    BY DEF WantedIn, IsLeaf
  <2> HIDE DEF U, W
  <2> QED
    BY <2>1 DEF TreeOf
<1>2. W \in SUBSET U
  BY DEF WantedIn
<1>3. IsFiniteSet(W) /\ IsStrictOrder(R, W)
  <2>1. IsFiniteSet(W)
    BY EntriesFinite
  <2> QED
    BY <1>2, <2>1, SubOrder
<1>4. Cardinality(W) \in Nat /\ s \in Seq(W) /\ Len(s) = Cardinality(W) /\ DOMAIN s = 1..Cardinality(W)
  <2> HIDE DEF W
  <2> QED
    BY <1>3, SortedSeq
<1>5. \A n \in W : Entry(n, head, depth) \in E
  BY DEF EntriesIn
<1> DEFINE m == Cardinality(W)
<1> HIDE DEF W, E, s, p
<1>6. \A i \in 1..m : s[i] \in W
  BY <1>4, ElementOfSeq DEF m
<1>7. t \in Seq(E) /\ Len(t) = m /\ \A i \in 1..m : t[i] = Entry(s[i], head, depth)
  <2>1. DOMAIN s = 1..m /\ m \in Nat
    BY <1>4 DEF m
  <2> HIDE DEF m
  <2>2. t \in [1..m -> E]
    BY <1>5, <1>6, <2>1
  <2>3. \A i \in 1..m : t[i] = Entry(s[i], head, depth)
    BY <2>1
  <2> HIDE DEF t
  <2>4. t \in Seq(E) /\ Len(t) = m
    BY <2>1, <2>2, SeqDef
  <2> QED
    BY <2>3, <2>4
<1> HIDE DEF t
<1>8. /\ IsPartOf(p, t, a)
      /\ Len(p) = 0 => Len(t) <= a \/ (limit = 0 /\ a > 0)
      /\ a = 0 /\ (limit = 0 \/ limit >= Len(t)) => Len(p) = Len(t)
  BY <1>1, <1>7, TreePageIsPart
<1>9. ASSUME NEW i \in 1..Len(p)
      PROVE  a + i \in 1..m /\ p[i] = Entry(s[a + i], head, depth)
  <2>1. p[i] = t[a + i] /\ Len(p) # 0 /\ a + Len(p) <= m /\ Len(p) \in Nat /\ m \in Nat
    BY <1>4, <1>7, <1>8 DEF IsPartOf, m
  <2>2. PICK k \in 1..m : k = a + i
    BY <2>1
  <2> QED
    BY <1>7, <2>1, <2>2
<1> QED
  <2> HIDE DEF m
  <2>1. /\ Len(p) \in Nat /\ DOMAIN p = 1..Len(p)
        /\ Len(p) = 0 \/ a + Len(p) <= m
        /\ Len(p) = 0 => m <= a \/ (limit = 0 /\ a > 0)
        /\ a = 0 /\ limit = 0 => Len(p) = m
    BY <1>7, <1>8 DEF IsPartOf
  <2>2. IsLeafPage(p, s, m, head, depth, a, limit)
    BY <1>9, <2>1 DEF IsLeafPage
  <2> QED
    BY <1>3, <2>2 DEF m, W, s, p, U

(* Names with their values, in the order of the names; head is what the    *)
(* names have before the c that the answer gives.                          *)
WithValue(C, head, w) == {<<c, w[head \o c]>> : c \in C}
ByRank(T, head, R) == {p \in T \X T : <<head \o p[1][1], head \o p[2][1]>> \in R}

LEMMA ByRankIs ==
  ASSUME NEW T, NEW head, NEW R, NEW x \in T, NEW y \in T
  PROVE  <<x, y>> \in ByRank(T, head, R) <=> <<head \o x[1], head \o y[1]>> \in R
BY DEF ByRank

(* Sorted names served with their values.                                  *)
CutsHead(f, W, C, head) ==
  /\ \A n \in W : f[n] \in C /\ head \o f[n] = n
  /\ \A c \in C : \E n \in W : f[n] = c

IsValuedPart(f, w, q, s, a, m) ==
  /\ Len(q) \in Nat
  /\ DOMAIN q = 1..Len(q)
  /\ Len(q) = 0 \/ a + Len(q) <= m
  /\ \A i \in 1..Len(q) : a + i \in 1..m /\ q[i] = <<f[s[a + i]], w[s[a + i]]>>

LEMMA ValuedServes ==
  ASSUME NEW W, IsFiniteSet(W), NEW R, IsStrictOrder(R, W), NEW head, NEW w, NEW C, NEW f,
         CutsHead(f, W, C, head), NEW a \in Nat, NEW q,
         IsValuedPart(f, w, q, SortedBy(W, R), a, Cardinality(W))
  PROVE  LET T == WithValue(C, head, w)
             Q == ByRank(T, head, R)
         IN  /\ IsFiniteSet(T) /\ IsStrictOrder(Q, T) /\ Cardinality(T) = Cardinality(W)
             /\ Serves(q, a, T, Q)
<1> DEFINE T == WithValue(C, head, w)
           Q == ByRank(T, head, R)
           g == [n \in W |-> <<f[n], w[n]>>]
           s == SortedBy(W, R)
           m == Cardinality(W)
<1>0. /\ \A n \in W : f[n] \in C /\ head \o f[n] = n
      /\ \A c \in C : \E n \in W : f[n] = c
  BY DEF CutsHead
<1>1. \A n \in W : g[n] \in T /\ head \o g[n][1] = n /\ g[n] = <<f[n], w[n]>>
  BY <1>0 DEF WithValue
<1>2. \A y \in T : \E n \in W : g[n] = y
  <2>1. ASSUME NEW y \in T PROVE \E n \in W : g[n] = y
    <3>1. PICK c \in C : y = <<c, w[head \o c]>>
      BY DEF WithValue
    <3>2. PICK n \in W : f[n] = c
      BY <1>0
    <3> QED
      BY <1>0, <3>1, <3>2
  <2> QED
    BY <2>1
<1>3. g \in [W -> T]
  BY <1>1
<1> HIDE DEF g
<1>4. \A x, y \in W : <<x, y>> \in R <=> <<g[x], g[y]>> \in Q
  <2>1. ASSUME NEW x \in W, NEW y \in W
        PROVE  <<x, y>> \in R <=> <<g[x], g[y]>> \in Q
    <3>1. g[x] \in T /\ g[y] \in T /\ head \o g[x][1] = x /\ head \o g[y][1] = y
      BY <1>1
    <3>2. <<g[x], g[y]>> \in Q <=> <<head \o g[x][1], head \o g[y][1]>> \in R
      <4> HIDE DEF T
      <4> QED
        BY <3>1, ByRankIs
    <3> QED
      BY <3>1, <3>2
  <2> QED
    BY <2>1
<1>5. \A x, y \in W : g[x] = g[y] => x = y
  BY <1>1
<1> HIDE DEF T, Q, s, m
<1>6. Translates(g, W, R, T, Q)
  BY <1>2, <1>3, <1>4, <1>5 DEF Translates, Bijection, Injection, Surjection, IsInjective
<1>7. \A i \in 1..m : s[i] \in W
  BY SortedIs DEF m, s
<1>8. \A i \in 1..Len(q) : q[i] = g[s[a + i]]
  <2>1. ASSUME NEW i \in 1..Len(q) PROVE q[i] = g[s[a + i]]
    <3>1. a + i \in 1..m /\ q[i] = <<f[s[a + i]], w[s[a + i]]>>
      BY DEF m, s, IsValuedPart
    <3>2. PICK k \in 1..m : k = a + i
      BY <3>1
    <3>3. s[k] \in W
      BY <1>7
    <3> QED
      BY <1>1, <3>1, <3>2, <3>3
  <2> QED
    BY <2>1
<1>9. IsFiniteSet(T) /\ Cardinality(T) = Cardinality(W) /\ IsStrictOrder(Q, T)
  BY <1>6, SameOrder
<1>10. Serves(q, a, T, Q)
  <2>1. IsPartBy(g, q, s, a, m)
    BY <1>8 DEF IsPartBy, IsValuedPart, m
  <2> QED
    BY <1>6, <2>1, PartServes DEF s, m
<1> QED
  BY <1>9, <1>10 DEF T, Q

-----------------------------------------------------------------------------
(* Types.                                                                  *)

RankingFine(R, S, w) ==
  /\ IsStrictOrder(R, S)
  /\ R \subseteq S \X S
  /\ \A x, y \in S : <<x, y>> \in R => w[x] >= w[y]

Numbers == now \in Nat /\ offset \in Nat /\ changes \in Nat

Idents == keyId \in Ids \cup {BadKey} /\ taken \in Ids \cup {BadKey}

Flags == {reading, twice, grew, shrank, moved} \subseteq BOOLEAN

(* Only what the client reads is there.                                    *)
Apart ==
  /\ AboutNames => points = {} /\ keyId = BadKey /\ taken = BadKey
  /\ ~AboutNames => names = {}
  /\ ask.what # "walk" => todo = {}

Typed ==
  /\ ask \in Asks
  /\ names \in SUBSET Names
  /\ worth \in [Names -> 0..MaxWorth]
  /\ RankingFine(ranking, Selection, worth)
  /\ points \in SUBSET Keys
  /\ todo \in SUBSET (Name \X {"leaf", "branch"})
  /\ Idents
  /\ Numbers
  /\ Flags
  /\ Apart

Kinds == {"names", "children", "walk", "top", "top leaves", "points", "text"}

LEMMA AskIs ==
  ASSUME NEW q \in Asks
  PROVE  /\ q.what \in Kinds
         /\ q.what # "points" => q.prefix \in Name
         /\ q.what \in {"names", "top"} => q.suffix \in Name
         /\ q.what \in {"children", "walk", "top leaves"} => q.depth \in Nat \ {0}
         /\ q.what \in {"names", "children", "top", "top leaves", "points"} => q.limit \in Nat
         /\ q.what = "points" => q.ts \in Nat
<1> USE AskedAssumption, DepthsAssumption, LimitsAssumption, BoundsAssumption DEF Name, Kinds
<1>1. CASE q \in [what : {"names"}, prefix : Asked, suffix : AskedSuffixes, limit : Limits]
  BY <1>1
<1>2. CASE q \in [what : {"children"}, prefix : Asked, depth : Depths, limit : Limits]
  BY <1>2
<1>3. CASE q \in [what : {"walk"}, prefix : Asked, depth : Depths]
  BY <1>3
<1>4. CASE q \in [what : {"top"}, prefix : Asked, suffix : AskedSuffixes, limit : Limits]
  BY <1>4
<1>5. CASE q \in [what : {"top leaves"}, prefix : Asked, depth : Depths, limit : Limits]
  BY <1>5
<1>6. CASE q \in [what : {"points"}, ts : 0..MaxNow, limit : Limits]
  <2>1. q.what = "points" /\ q.ts \in 0..MaxNow /\ q.limit \in Limits
    BY <1>6
  <2>2. q.ts \in Nat
    BY <2>1
  <2> QED
    BY <2>1, <2>2
<1>7. CASE q \in [what : {"text"}, prefix : Asked]
  BY <1>7
<1> QED
  BY <1>1, <1>2, <1>3, <1>4, <1>5, <1>6, <1>7 DEF Asks

LEMMA FiniteNames ==
  ASSUME NEW N \in SUBSET Names
  PROVE  N \in SUBSET Name /\ IsFiniteSet(N) /\ Cardinality(N) <= TextLimit
<1>1. IsFiniteSet(N) /\ Cardinality(N) <= Cardinality(Names)
  BY NamesAssumption, FS_Subset
<1>2. Cardinality(N) \in Nat /\ Cardinality(Names) \in Nat
  BY <1>1, NamesAssumption, FS_CardinalityType
<1> QED
  BY <1>1, <1>2, NamesAssumption, TextAssumption DEF Name, TextLimit

LEMMA FinitePoints ==
  ASSUME NEW P \in SUBSET Keys
  PROVE  P \in SUBSET (Nat \X Nat) /\ IsFiniteSet(P)
BY KeysAssumption, FS_Subset

LEMMA ChildrenIs ==
  ASSUME NEW head
  PROVE  /\ Children(head) = ChildrenIn(names, head)
         /\ Leaves(head) = {c \in ChildrenIn(names, head) : head \o c \in names}
         /\ Under(head) = UnderIn(names, head)
<1>1. Under(head) = UnderIn(names, head)
  BY DEF Under, UnderIn
<1>2. Children(head) = ChildrenIn(names, head)
  BY <1>1 DEF Children, ChildrenIn, Plain
<1> QED
  BY <1>1, <1>2 DEF Leaves

LEMMA SelectionIs ==
  /\ Selection \subseteq names
  /\ ask.what = "top" => Selection = Fitting(names, ask.prefix, ask.suffix)
  /\ ask.what = "top leaves" => Selection = UnderIn(names, HeadOf(ask.prefix))
  /\ ~Sorted => Selection = {}
BY DEF Selection, Under, UnderIn, Fitting, Sorted

(* The answer is finite.                                                   *)
FiniteListing == IsFiniteSet(Listing)

LEMMA ListingFinite == Typed => FiniteListing
<1> SUFFICES ASSUME Typed PROVE FiniteListing
  OBVIOUS
<1> DEFINE head == HeadOf(ask.prefix)
<1>1. names \in SUBSET Name /\ IsFiniteSet(names)
  BY FiniteNames DEF Typed
<1>2. points \in SUBSET (Nat \X Nat) /\ IsFiniteSet(points)
  BY FinitePoints DEF Typed
<1>3. ask.what \in Kinds /\ (ask.what # "points" => ask.prefix \in Name)
  BY AskIs DEF Typed
<1>4. ask.what # "points" => head \in Name
  BY <1>3, HeadIs
<1> HIDE DEF head
<1>5. ASSUME ask.what # "points" PROVE IsFiniteSet(Children(head))
  <2>1. PICK depth \in Nat \ {0}, node \in {"any"} : depth = 1
    OBVIOUS
  <2>2. Children(head) = EntriesIn(names, head, depth, node)
    BY <1>1, <1>4, <1>5, <2>1, ChildrenAre, ChildrenIs
  <2>3. IsFiniteSet(EntriesIn(names, head, depth, node))
    BY <1>1, EntriesFinite
  <2> QED
    BY <2>2, <2>3
<1>6. CASE ask.what = "names"
  <2>1. Listing \in SUBSET names
    BY <1>6 DEF Listing, Under
  <2> QED
    BY <1>1, <2>1, FS_Subset DEF FiniteListing
<1>7. CASE ask.what \in {"children", "text"}
  BY <1>5, <1>7 DEF Listing, FiniteListing, head
<1>8. CASE ask.what = "walk"
  <2>1. Listing \in SUBSET names
    BY <1>8 DEF Listing, Under
  <2> QED
    BY <1>1, <2>1, FS_Subset DEF FiniteListing
<1>9. CASE ask.what = "top"
  <2> DEFINE f == [n \in Selection |-> <<n, worth[n]>>]
  <2>1. Listing = {f[n] : n \in Selection}
    BY <1>9 DEF Listing
  <2>2. IsFiniteSet(Selection)
    BY <1>1, SelectionIs, FS_Subset
  <2>3. DOMAIN f = Selection
    OBVIOUS
  <2> HIDE DEF f
  <2> QED
    BY <2>1, <2>2, <2>3, ImageFinite DEF FiniteListing
<1>10. CASE ask.what = "top leaves"
  <2> DEFINE f == [c \in Leaves(head) |-> <<c, worth[head \o c]>>]
  <2>1. Listing = {f[c] : c \in Leaves(head)}
    BY <1>10 DEF Listing, head
  <2>2. Leaves(head) \in SUBSET Children(head)
    BY DEF Leaves
  <2>3. IsFiniteSet(Leaves(head))
    BY <1>5, <1>10, <2>2, FS_Subset
  <2>4. DOMAIN f = Leaves(head)
    OBVIOUS
  <2> HIDE DEF f
  <2> QED
    BY <2>1, <2>3, <2>4, ImageFinite DEF FiniteListing
<1>11. CASE ask.what = "points"
  <2>1. Listing \in SUBSET points
    BY <1>11 DEF Listing, PointsOf
  <2> QED
    BY <1>2, <2>1, FS_Subset DEF FiniteListing
<1> QED
  BY <1>3, <1>6, <1>7, <1>8, <1>9, <1>10, <1>11 DEF Kinds

LEMMA ListingFiniteNext == Typed' => FiniteListing'
<1>1. Typed => FiniteListing
  BY ListingFinite
<1> QED
  BY <1>1, PTL

-----------------------------------------------------------------------------
(* What each call answers.                                                 *)

(* The order in which the answer is served.                                *)
Order ==
  CASE ask.what \in {"names", "children"} -> ByName(Listing)
    [] ask.what = "top"        -> ByRank(Listing, <<>>, ranking)
    [] ask.what = "top leaves" -> ByRank(Listing, HeadOf(ask.prefix), ranking)
    [] OTHER                   -> ByKey(Listing)

(* Past its first page, tree without a limit answers nothing.              *)
NoLimit == ask.what \in {"children", "top leaves"} /\ ask.limit = 0

Answers(page) ==
  /\ IsStrictOrder(Order, Listing)
  /\ Serves(page, offset, Listing, Order)
  /\ Len(page) = 0 => Cardinality(Listing) <= offset \/ (NoLimit /\ offset > 0)
  /\ NoLimit /\ offset = 0 => ToSet(page) = Listing

LEMMA NamesAnswer ==
  ASSUME Typed, ask.what = "names"
  PROVE  Answers(Select(names, ask.prefix, ask.suffix, offset, ask.limit))
<1> DEFINE page == Select(names, ask.prefix, ask.suffix, offset, ask.limit)
           F == Fitting(names, ask.prefix, ask.suffix)
<1>1. names \in SUBSET Name /\ IsFiniteSet(names) /\ offset \in Nat /\ ask.limit \in Nat
  BY FiniteNames, AskIs DEF Typed, Numbers
<1>2. Serves(page, offset, F, ByName(F)) /\ (Len(page) = 0 => Cardinality(F) <= offset)
  BY <1>1, SelectServes
<1>3. Listing = F /\ Order = ByName(F)
  BY DEF Listing, Under, Fitting, Order
<1>4. IsStrictOrder(ByName(F), F)
  <2>1. F \in SUBSET Name
    BY <1>1 DEF Fitting
  <2> HIDE DEF F
  <2> QED
    BY <2>1, NamesOrdered
<1> QED
  BY <1>2, <1>3, <1>4 DEF Answers, NoLimit

LEMMA ChildrenAnswer ==
  ASSUME Typed, ask.what = "children"
  PROVE  Answers(Tree(names, ask.prefix, ask.depth, "any", offset, ask.limit))
<1>1. PICK node \in {"any"} : TRUE
  OBVIOUS
<1> DEFINE page == Tree(names, ask.prefix, ask.depth, node, offset, ask.limit)
           E == EntriesIn(names, HeadOf(ask.prefix), ask.depth, node)
<1>2. /\ names \in SUBSET Name /\ IsFiniteSet(names) /\ offset \in Nat /\ ask.limit \in Nat
      /\ ask.prefix \in Name /\ ask.depth \in Nat \ {0}
  BY FiniteNames, AskIs DEF Typed, Numbers
<1>3. /\ IsFiniteSet(E) /\ IsStrictOrder(ByName(E), E)
      /\ Serves(page, offset, E, ByName(E))
      /\ Len(page) = 0 => Cardinality(E) <= offset \/ (ask.limit = 0 /\ offset > 0)
      /\ offset = 0 /\ (ask.limit = 0 \/ ask.limit >= Cardinality(E)) => ToSet(page) = E
  BY <1>2, TreeServes
<1>4. Listing = E /\ Order = ByName(E)
  <2>1. HeadOf(ask.prefix) \in Name
    BY <1>2, HeadIs
  <2>2. Children(HeadOf(ask.prefix)) = E
    BY <1>2, <2>1, ChildrenIs, ChildrenAre
  <2> QED
    BY <2>2 DEF Listing, Order
<1> QED
  BY <1>1, <1>3, <1>4 DEF Answers, NoLimit

LEMMA ValuedIs ==
  ASSUME NEW p, NEW head, Len(p) \in Nat, DOMAIN p = 1..Len(p)
  PROVE  LET q == Valued(p, head)
         IN  /\ Len(q) = Len(p) /\ DOMAIN q = 1..Len(p)
             /\ \A i \in 1..Len(p) : q[i] = <<p[i], worth[head \o p[i]]>>
BY DEF Valued

LEMMA TopIs ==
  ASSUME Typed, ask.what = "top"
  PROVE  /\ Selection \in SUBSET Name /\ IsFiniteSet(Selection)
         /\ IsStrictOrder(ranking, Selection)
         /\ Listing = WithValue(Selection, <<>>, worth)
         /\ Order = ByRank(Listing, <<>>, ranking)
         /\ \A n \in Selection : <<>> \o n = n
<1>1. Selection \in SUBSET Name /\ IsFiniteSet(Selection)
  <2>1. names \in SUBSET Name /\ IsFiniteSet(names)
    BY FiniteNames DEF Typed
  <2> QED
    BY <2>1, SelectionIs, FS_Subset
<1>2. \A n \in Selection : <<>> \o n = n
  BY <1>1, ConcatEmptySeq DEF Name
<1>3. Listing = {<<n, worth[n]>> : n \in Selection}
  BY DEF Listing
<1>4. Listing = WithValue(Selection, <<>>, worth)
  BY <1>2, <1>3 DEF WithValue
<1> QED
  BY <1>1, <1>2, <1>4 DEF Order, Typed, RankingFine

LEMMA TopAnswer ==
  ASSUME Typed, ask.what = "top"
  PROVE  Answers(Valued(SelectRanked(Selection, ranking, offset, ask.limit), <<>>))
<1> DEFINE W == Selection
           s == SortedBy(W, ranking)
           p == Page(s, offset, ask.limit)
           q == Valued(p, <<>>)
           f == [n \in W |-> n]
           T == WithValue(W, <<>>, worth)
           Q == ByRank(T, <<>>, ranking)
<1>1. /\ IsFiniteSet(W) /\ IsStrictOrder(ranking, W)
      /\ Listing = T /\ Order = Q
      /\ \A n \in W : <<>> \o n = n
  BY TopIs
<1>2. offset \in Nat /\ ask.limit \in Nat
  BY AskIs DEF Typed, Numbers
<1> HIDE DEF W
<1>3. s \in Seq(W) /\ Len(s) = Cardinality(W) /\ Cardinality(W) \in Nat
  BY <1>1, SortedSeq
<1>4. IsPartOf(p, s, offset) /\ (Len(p) = 0 => Len(s) <= offset)
  <2> HIDE DEF s
  <2> QED
    BY <1>2, <1>3, PageIsPart
<1> HIDE DEF p
<1>5. Len(p) \in Nat /\ DOMAIN p = 1..Len(p)
  BY <1>4 DEF IsPartOf
<1>6. /\ Len(q) = Len(p) /\ DOMAIN q = 1..Len(p)
      /\ \A i \in 1..Len(p) : q[i] = <<p[i], worth[<<>> \o p[i]]>>
  <2>1. PICK head : head = <<>>
    OBVIOUS
  <2> QED
    BY <1>5, <2>1, ValuedIs
<1> HIDE DEF q
<1>7. \A i \in 1..Cardinality(W) : s[i] \in W
  BY <1>3, ElementOfSeq
<1> HIDE DEF s
<1>8. ASSUME NEW i \in 1..Len(q)
      PROVE  offset + i \in 1..Cardinality(W) /\ q[i] = <<f[s[offset + i]], worth[s[offset + i]]>>
  <2>1. /\ i \in 1..Len(p) /\ p[i] = s[offset + i] /\ Len(p) # 0
        /\ offset + Len(p) <= Cardinality(W)
    BY <1>3, <1>4, <1>5, <1>6 DEF IsPartOf
  <2>2. PICK k \in 1..Cardinality(W) : k = offset + i
    BY <1>2, <1>3, <1>5, <2>1
  <2>3. s[k] \in W /\ f[s[k]] = s[k] /\ <<>> \o s[k] = s[k]
    BY <1>1, <1>7
  <2>4. q[i] = <<p[i], worth[<<>> \o p[i]]>> /\ p[i] = s[k]
    BY <1>6, <2>1, <2>2
  <2> QED
    BY <2>2, <2>3, <2>4
<1>9. \A n \in W : f[n] \in W /\ <<>> \o f[n] = n
  BY <1>1
<1>10. \A c \in W : \E n \in W : f[n] = c
  OBVIOUS
<1> HIDE DEF f
<1>11. Len(q) \in Nat /\ DOMAIN q = 1..Len(q) /\ (Len(q) = 0 \/ offset + Len(q) <= Cardinality(W))
  BY <1>3, <1>4, <1>5, <1>6 DEF IsPartOf
<1>12. /\ IsFiniteSet(T) /\ IsStrictOrder(Q, T) /\ Cardinality(T) = Cardinality(W)
       /\ Serves(q, offset, T, Q)
  <2>1. PICK head : head = <<>>
    OBVIOUS
  <2>2. CutsHead(f, W, W, head)
    BY <1>9, <1>10, <2>1 DEF CutsHead
  <2>3. IsValuedPart(f, worth, q, SortedBy(W, ranking), offset, Cardinality(W))
    BY <1>8, <1>11 DEF s, IsValuedPart
  <2> HIDE DEF T, Q
  <2>4. /\ IsFiniteSet(WithValue(W, head, worth))
        /\ IsStrictOrder(ByRank(WithValue(W, head, worth), head, ranking), WithValue(W, head, worth))
        /\ Cardinality(WithValue(W, head, worth)) = Cardinality(W)
        /\ Serves(q, offset, WithValue(W, head, worth),
                  ByRank(WithValue(W, head, worth), head, ranking))
    BY <1>1, <1>2, <2>2, <2>3, ValuedServes
  <2> QED
    BY <2>1, <2>4 DEF T, Q
<1>13. Len(q) = 0 => Cardinality(Listing) <= offset
  BY <1>1, <1>3, <1>4, <1>6, <1>12
<1>14. SelectRanked(Selection, ranking, offset, ask.limit) = p
  BY DEF SelectRanked, p, s, W
<1> QED
  <2> HIDE DEF T, Q
  <2> QED
    BY <1>1, <1>12, <1>13, <1>14 DEF Answers, NoLimit, q

LEMMA LeavesIs ==
  ASSUME Typed, ask.what = "top leaves"
  PROVE  LET head == HeadOf(ask.prefix)
             W == WantedIn(names, head, ask.depth, "leaf")
             C == EntriesIn(names, head, ask.depth, "leaf")
             f == [n \in W |-> Entry(n, head, ask.depth)]
         IN  /\ head \in Name /\ Selection = UnderIn(names, head)
             /\ IsFiniteSet(W) /\ IsStrictOrder(ranking, W)
             /\ IsStrictOrder(ranking, Selection)
             /\ CutsHead(f, W, C, head)
             /\ Listing = WithValue(C, head, worth)
             /\ Order = ByRank(Listing, head, ranking)
<1> DEFINE head == HeadOf(ask.prefix)
           W == WantedIn(names, head, ask.depth, "leaf")
           C == EntriesIn(names, head, ask.depth, "leaf")
           f == [n \in W |-> Entry(n, head, ask.depth)]
<1>1. /\ names \in SUBSET Name /\ IsFiniteSet(names)
      /\ ask.prefix \in Name /\ ask.depth \in Nat \ {0}
  BY FiniteNames, AskIs DEF Typed
<1>2. head \in Name
  BY <1>1, HeadIs
<1>3. Selection = UnderIn(names, head) /\ IsStrictOrder(ranking, Selection)
  BY SelectionIs DEF Typed, RankingFine
<1>4. Order = ByRank(Listing, head, ranking)
  BY DEF Order
<1> HIDE DEF head
<1>5. W \in SUBSET Selection
  BY <1>3 DEF WantedIn
<1>6. IsFiniteSet(W) /\ IsStrictOrder(ranking, W)
  <2>1. IsFiniteSet(W)
    BY <1>1, EntriesFinite
  <2> HIDE DEF W
  <2> QED
    BY <1>3, <1>5, <2>1, SubOrder
<1>7. CutsHead(f, W, C, head)
  <2>1. ASSUME NEW n \in W
        PROVE  f[n] \in C /\ head \o f[n] = n
    <3>1. PICK node \in {"leaf"} : W = WantedIn(names, head, ask.depth, node)
      OBVIOUS
    <3>2. IsLeaf(n, head, ask.depth)
      BY DEF WantedIn
    <3>3. n = head \o Entry(n, head, ask.depth)
      BY <1>1, <1>2, <3>1, <3>2, EntriesAre
    <3> QED
      BY <3>3 DEF EntriesIn
  <2>2. \A c \in C : \E n \in W : f[n] = c
    BY DEF EntriesIn
  <2> HIDE DEF f, W, C
  <2> QED
    BY <2>1, <2>2 DEF CutsHead
<1>8. Listing = WithValue(C, head, worth)
  <2>1. Leaves(head) = C
    BY <1>1, <1>2, ChildrenIs, LeavesAre
  <2>2. Listing = {<<c, worth[head \o c]>> : c \in Leaves(head)}
    BY DEF Listing, head
  <2> QED
    BY <2>1, <2>2 DEF WithValue
<1> QED
  BY <1>2, <1>3, <1>4, <1>6, <1>7, <1>8 DEF head

LEMMA LeavesAnswer ==
  ASSUME Typed, ask.what = "top leaves"
  PROVE  LET head == HeadOf(ask.prefix)
         IN  Answers(Valued(TreeOf(Selection, ranking, head, ask.depth, "leaf", offset, ask.limit),
                            head))
<1> DEFINE head == HeadOf(ask.prefix)
           W == WantedIn(names, head, ask.depth, "leaf")
           C == EntriesIn(names, head, ask.depth, "leaf")
           f == [n \in W |-> Entry(n, head, ask.depth)]
           s == SortedBy(W, ranking)
           p == TreeOf(Selection, ranking, head, ask.depth, "leaf", offset, ask.limit)
           q == Valued(p, head)
           T == WithValue(C, head, worth)
           Q == ByRank(T, head, ranking)
<1>1. /\ names \in SUBSET Name /\ IsFiniteSet(names) /\ offset \in Nat /\ ask.limit \in Nat
      /\ ask.prefix \in Name /\ ask.depth \in Nat \ {0}
  BY FiniteNames, AskIs DEF Typed, Numbers
<1>2. /\ head \in Name /\ Selection = UnderIn(names, head)
      /\ IsFiniteSet(W) /\ IsStrictOrder(ranking, W)
      /\ IsStrictOrder(ranking, Selection)
      /\ CutsHead(f, W, C, head)
      /\ Listing = T
      /\ Order = Q
  BY LeavesIs
<1> HIDE DEF head
<1>3. /\ Len(p) \in Nat /\ DOMAIN p = 1..Len(p)
      /\ Len(p) = 0 \/ offset + Len(p) <= Cardinality(W)
      /\ \A i \in 1..Len(p) : /\ offset + i \in 1..Cardinality(W)
                              /\ p[i] = Entry(s[offset + i], head, ask.depth)
      /\ Len(p) = 0 => Cardinality(W) <= offset \/ (ask.limit = 0 /\ offset > 0)
      /\ offset = 0 /\ ask.limit = 0 => Len(p) = Cardinality(W)
  <2>1. IsLeafPage(TreeOf(UnderIn(names, head), ranking, head, ask.depth, "leaf", offset, ask.limit),
                   s, Cardinality(W), head, ask.depth, offset, ask.limit)
    <3>1. IsStrictOrder(ranking, UnderIn(names, head))
      BY <1>2
    <3> QED
      BY <1>1, <1>2, <3>1, LeafTreeIs
  <2>2. IsLeafPage(p, s, Cardinality(W), head, ask.depth, offset, ask.limit)
    BY <1>2, <2>1
  <2> HIDE DEF p, s, W
  <2> QED
    BY <2>2 DEF IsLeafPage
<1> HIDE DEF p, T, Q, C
<1>4. /\ Len(q) = Len(p) /\ DOMAIN q = 1..Len(p)
      /\ \A i \in 1..Len(p) : q[i] = <<p[i], worth[head \o p[i]]>>
  BY <1>3, ValuedIs
<1> HIDE DEF q
<1>5. \A i \in 1..Cardinality(W) : s[i] \in W
  <2> HIDE DEF W
  <2> QED
    BY <1>2, SortedIs
<1>6. \A n \in W : f[n] = Entry(n, head, ask.depth) /\ head \o f[n] = n
  BY <1>2 DEF CutsHead
<1> HIDE DEF W, s, f
<1>7. IsValuedPart(f, worth, q, s, offset, Cardinality(W))
  <2>1. ASSUME NEW i \in 1..Len(q)
        PROVE  offset + i \in 1..Cardinality(W) /\ q[i] = <<f[s[offset + i]], worth[s[offset + i]]>>
    <3>1. PICK k \in 1..Cardinality(W) : k = offset + i
      BY <1>3, <1>4
    <3>2. s[k] \in W /\ i \in 1..Len(p)
      BY <1>4, <1>5
    <3>3. p[i] = Entry(s[k], head, ask.depth) /\ q[i] = <<p[i], worth[head \o p[i]]>>
      BY <1>3, <1>4, <3>1, <3>2
    <3>4. p[i] = f[s[k]] /\ head \o p[i] = s[k]
      BY <1>6, <3>2, <3>3
    <3> QED
      BY <3>1, <3>3, <3>4
  <2> QED
    BY <1>3, <1>4, <2>1 DEF IsValuedPart
<1>8. /\ IsFiniteSet(T) /\ IsStrictOrder(Q, T) /\ Cardinality(T) = Cardinality(W)
      /\ Serves(q, offset, T, Q)
  BY <1>1, <1>2, <1>7, ValuedServes DEF s, T, Q
<1>9. ASSUME ask.limit = 0, offset = 0
      PROVE  ToSet(q) = T
  <2>1. Len(q) = Cardinality(T) /\ Serves(q, 0, T, Q)
    BY <1>3, <1>4, <1>8, <1>9
  <2> QED
    BY <1>8, <2>1, WholeServed
<1> QED
  BY <1>2, <1>3, <1>4, <1>8, <1>9 DEF Answers, NoLimit, q, p, head

LEMMA PointsOfIs ==
  ASSUME NEW id
  PROVE  PointsOf(id) = Own(points, id, StartOf(ask.ts, now))
BY DEF PointsOf, Own

LEMMA StartIs ==
  ASSUME Typed, ask.what = "points"
  PROVE  StartOf(ask.ts, now) \in Int
<1>1. ask.ts \in Nat /\ now \in Nat /\ TTL \in Nat
  BY AskIs, TTLAssumption DEF Typed, Numbers
<1> DEFINE c == now - TTL
<1>2. Max({0, c}) \in Int
  <2>1. c \in Int
    BY <1>1
  <2> HIDE DEF c
  <2>2. \E x \in {0, c} : \A y \in {0, c} : x >= y
    BY <2>1
  <2> QED
    BY <2>1, <2>2 DEF Max
<1> QED
  BY <1>1, <1>2 DEF StartOf

LEMMA PointsServed ==
  ASSUME Typed, ask.what = "points", NEW id \in Nat
  PROVE  LET L == PointsOf(id)
             page == Get(points, id, StartOf(ask.ts, now), offset, ask.limit)
         IN  /\ L \in SUBSET (Nat \X Nat) /\ IsFiniteSet(L) /\ IsStrictOrder(ByKey(L), L)
             /\ Serves(page, offset, L, ByKey(L))
             /\ Len(page) = 0 => Cardinality(L) <= offset
<1> DEFINE L == PointsOf(id)
           start == StartOf(ask.ts, now)
           page == Get(points, id, start, offset, ask.limit)
<1>1. /\ points \in SUBSET (Nat \X Nat) /\ IsFiniteSet(points) /\ offset \in Nat
      /\ ask.limit \in Nat /\ start \in Int
  BY FinitePoints, AskIs, StartIs DEF Typed, Numbers
<1>2. L = Own(points, id, start)
  BY PointsOfIs
<1>3. L \in SUBSET points
  BY <1>2 DEF Own
<1> HIDE DEF L, start
<1>4. L \in SUBSET (Nat \X Nat) /\ IsFiniteSet(L) /\ IsStrictOrder(ByKey(L), L)
  BY <1>1, <1>3, FS_Subset, KeysOrdered
<1>5. Serves(page, offset, L, ByKey(L)) /\ (Len(page) = 0 => Cardinality(L) <= offset)
  BY <1>1, <1>2, GetServes
<1> QED
  BY <1>4, <1>5 DEF L, start

LEMMA PointsAnswer ==
  ASSUME Typed, ask.what = "points", taken = keyId
  PROVE  Answers(Get(points, taken, StartOf(ask.ts, now), offset, ask.limit))
<1> DEFINE L == PointsOf(taken)
           page == Get(points, taken, StartOf(ask.ts, now), offset, ask.limit)
<1>1. taken \in Nat
  BY KeysAssumption DEF Typed, Idents, Ids, BadKey
<1>2. /\ L \in SUBSET (Nat \X Nat) /\ IsFiniteSet(L) /\ IsStrictOrder(ByKey(L), L)
      /\ Serves(page, offset, L, ByKey(L))
      /\ Len(page) = 0 => Cardinality(L) <= offset
  BY <1>1, PointsServed
<1>3. Listing = L /\ Order = ByKey(L)
  BY DEF Listing, Order
<1> QED
  BY <1>2, <1>3 DEF Answers, NoLimit

(* The text form gives all there is.                                       *)
LEMMA TextAnswer ==
  ASSUME Typed, ask.what = "text"
  PROVE  ToSet(Tree(names, ask.prefix, 1, "any", 0, TextLimit)) = Listing
<1>1. PICK node \in {"any"}, depth \in Nat \ {0}, a \in Nat : depth = 1 /\ a = 0
  OBVIOUS
<1> DEFINE E == EntriesIn(names, HeadOf(ask.prefix), depth, node)
<1> TextLimit \in Nat
  BY SMT DEF TextLimit
<1>2. /\ names \in SUBSET Name /\ IsFiniteSet(names) /\ ask.prefix \in Name
      /\ Cardinality(names) <= TextLimit
  BY FiniteNames, AskIs DEF Typed
<1>3. HeadOf(ask.prefix) \in Name
  BY <1>2, HeadIs
<1>4. Cardinality(E) <= Cardinality(names) /\ IsFiniteSet(E)
  BY <1>2, EntriesFinite
<1>5. TextLimit >= Cardinality(E)
  <2> HIDE DEF E
  <2>1. Cardinality(E) \in Nat /\ Cardinality(names) \in Nat
    BY <1>2, <1>4, FS_CardinalityType
  <2> QED
    BY <1>2, <1>4, <2>1
<1>6. a = 0 /\ (TextLimit = 0 \/ TextLimit >= Cardinality(E))
        => ToSet(Tree(names, ask.prefix, depth, node, a, TextLimit)) = E
  BY <1>2, TreeServes
<1>7. Listing = E
  BY <1>1, <1>2, <1>3, ChildrenIs, ChildrenAre DEF Listing
<1> QED
  BY <1>1, <1>5, <1>6, <1>7

(* A call of the walk has all leaves, or all branches, below its prefix.   *)
LEMMA WalkAnswer ==
  ASSUME Typed, NEW depth \in Nat \ {0}, NEW prefix \in Name, NEW node \in {"leaf", "branch"}
  PROVE  ToSet(Tree(names, prefix, depth, node, 0, 0))
           = EntriesIn(names, HeadOf(prefix), depth, node)
<1>1. names \in SUBSET Name /\ IsFiniteSet(names)
  BY FiniteNames DEF Typed
<1>2. PICK a \in Nat : a = 0
  OBVIOUS
<1> DEFINE head == HeadOf(prefix)
           E == EntriesIn(names, head, depth, node)
<1>3. head \in Name
  BY HeadIs
<1>4. CASE node = "branch"
  <2>1. a = 0 /\ (a = 0 \/ a >= Cardinality(E))
          => ToSet(Tree(names, prefix, depth, node, a, a)) = E
    BY <1>1, <1>4, TreeServes
  <2> QED
    BY <1>2, <2>1
<1>5. CASE node = "leaf"
  <2> DEFINE U == UnderIn(names, head)
             W == WantedIn(names, head, depth, "leaf")
             s == SortedBy(W, ByName(U))
             p == TreeOf(U, ByName(U), head, depth, "leaf", a, a)
  <2>1. IsStrictOrder(ByName(U), U)
    <3>1. U \in SUBSET Name
      BY <1>1 DEF UnderIn
    <3> HIDE DEF U
    <3> QED
      BY <3>1, NamesOrdered
  <2>2. Tree(names, prefix, depth, node, 0, 0) = p
    BY <1>1, <1>2, <1>5, FittingAll DEF Tree
  <2> HIDE DEF head
  <2>3. IsFiniteSet(W) /\ IsStrictOrder(ByName(U), W) /\ IsLeafPage(p, s, Cardinality(W), head, depth, a, a)
    BY <1>1, <1>3, <2>1, LeafTreeIs
  <2> HIDE DEF W, p, U
  <2>4. Cardinality(W) \in Nat /\ DOMAIN s = 1..Cardinality(W) /\ ToSet(s) = W
    BY <2>3, SortedSeq
  <2> HIDE DEF s
  <2>5. DOMAIN p = 1..Cardinality(W) /\ \A i \in 1..Cardinality(W) : p[i] = Entry(s[i], head, depth)
    BY <1>2, <2>3, <2>4 DEF IsLeafPage
  <2>6. ToSet(p) = {Entry(n, head, depth) : n \in ToSet(s)}
    BY <2>4, <2>5 DEF ToSet
  <2> QED
    BY <1>5, <2>2, <2>4, <2>6 DEF EntriesIn, W, head
<1> QED
  BY <1>4, <1>5

-----------------------------------------------------------------------------
(* The actions: a call for a page, a change meanwhile, and the others.     *)

Reads == ask.what \in {"names", "children", "top", "top leaves", "points"}

(* A get reads the points of the id it has taken.                          *)
Target   == IF ask.what = "points" THEN PointsOf(taken) ELSE Listing
TargetBy == IF ask.what = "points" THEN ByKey(Target) ELSE Order

IsPage(page, L, Q) ==
  /\ IsFiniteSet(L)
  /\ IsStrictOrder(Q, L)
  /\ Serves(page, offset, L, Q)
  /\ Len(page) = 0 => Cardinality(L) <= offset \/ (NoLimit /\ offset > 0)
  /\ NoLimit /\ offset = 0 => ToSet(page) = L

Paging == SelectPage \/ TreePageAny \/ TopPage \/ TopLeaves \/ NoId \/ GetPage

ChangingNames ==
  \/ \E n \in Names : Create(n)
  \/ \E n \in Names : Drop(n)
  \/ \E n \in Names : Rise(n)

ChangingPoints ==
  \/ \E k \in Keys : SavePoint(k)
  \/ \E k \in Keys : DelPoint(k)
  \/ Leave
  \/ \E id \in Ids : ComeBack(id)
  \/ Tick

LEMMA NextIs ==
  Next <=> \/ Paging \/ GetId \/ TextTree \/ ChangingNames \/ ChangingPoints
           \/ \E call \in todo : Walk(call[1], call[2])
BY DEF Next, Paging, ChangingNames, ChangingPoints

(* Nothing was ever saved under no id.                                     *)
LEMMA NoPoints == Typed => PointsOf(BadKey) = {}
BY KeysAssumption DEF Typed, PointsOf, BadKey

LEMMA Paged ==
  ASSUME Typed, Paging
  PROVE  \E page : /\ Turn(page) /\ IsPage(page, Target, TargetBy) /\ Reads
                   /\ ask.what = "points" /\ taken = BadKey => keyId = BadKey
<1> DEFINE Good(page) == /\ Turn(page) /\ IsPage(page, Target, TargetBy) /\ Reads
                         /\ ask.what = "points" /\ taken = BadKey => keyId = BadKey
<1> SUFFICES \E page : Good(page)
  OBVIOUS
<1>1. ASSUME NEW page, Answers(page), Turn(page), Reads, ask.what # "points"
      PROVE  Good(page)
  <2>1. IsFiniteSet(Listing)
    BY ListingFinite DEF FiniteListing
  <2> QED
    BY <1>1, <2>1 DEF Answers, IsPage, Target, TargetBy
<1>2. CASE SelectPage
  BY <1>1, <1>2, NamesAnswer DEF SelectPage, Reads
<1>3. CASE TreePageAny
  BY <1>1, <1>3, ChildrenAnswer DEF TreePageAny, Reads
<1>4. CASE TopPage
  BY <1>1, <1>4, TopAnswer DEF TopPage, Reads
<1>5. CASE TopLeaves
  BY <1>1, <1>5, LeavesAnswer DEF TopLeaves, Reads
<1>6. CASE NoId
  <2>1. ask.what = "points" /\ Turn(<<>>) /\ Target = {}
    BY <1>6, NoPoints DEF NoId, Target
  <2>2. offset \in Nat
    BY DEF Typed, Numbers
  <2>3. PICK page : page = <<>>
    OBVIOUS
  <2>4. Len(page) = 0 /\ ToSet(page) = {}
    BY <2>3 DEF ToSet
  <2>5. IsPage(page, {}, TargetBy)
    BY <2>1, <2>2, <2>4, FS_EmptySet DEF IsPage, IsStrictOrder, Serves, NoLimit
  <2> QED
    BY <1>6, <2>1, <2>3, <2>5 DEF Reads, NoId
<1>7. CASE GetPage
  <2> DEFINE page == Get(points, taken, StartOf(ask.ts, now), offset, ask.limit)
  <2>1. ask.what = "points" /\ Turn(page) /\ taken \in Nat
    BY <1>7, KeysAssumption DEF GetPage, Typed, Apart, AboutNames, Idents, Ids, BadKey
  <2>2. /\ IsFiniteSet(Target) /\ IsStrictOrder(TargetBy, Target)
        /\ Serves(page, offset, Target, TargetBy)
        /\ Len(page) = 0 => Cardinality(Target) <= offset
    BY <2>1, PointsServed DEF Target, TargetBy
  <2>3. taken # BadKey
    BY <1>7 DEF GetPage
  <2> HIDE DEF page
  <2> QED
    BY <2>1, <2>2, <2>3 DEF IsPage, NoLimit, Reads
<1> QED
  BY <1>2, <1>3, <1>4, <1>5, <1>6, <1>7 DEF Paging

(* The names, or the prefixes to walk next, that a call of the walk finds. *)
Below(prefix, node) ==
  {HeadOf(prefix) \o Entry(n, HeadOf(prefix), ask.depth) :
     n \in WantedIn(names, HeadOf(prefix), ask.depth, node)}

LEMMA WalkIs ==
  ASSUME Typed, NEW call \in todo, Walk(call[1], call[2])
  PROVE  /\ ask.what = "walk" /\ ask.depth \in Nat \ {0} /\ ask.prefix \in Name
         /\ call[1] \in Name /\ call[2] \in {"leaf", "branch"}
         /\ call = <<call[1], call[2]>>
         /\ HeadOf(call[1]) \in Name
         /\ Below(call[1], call[2]) \in SUBSET Name
         /\ call[2] = "leaf" => /\ todo' = todo \ {call}
                                /\ seen' = seen \cup Below(call[1], call[2])
         /\ call[2] = "branch" =>
              /\ todo' = (todo \ {call}) \cup Below(call[1], call[2]) \X {"leaf", "branch"}
              /\ seen' = seen
         /\ reading' = (todo' # {})
         /\ UNCHANGED <<shard, ask, offset, taken, twice, ghosts>>
<1>1. PICK prefix \in Name, node \in {"leaf", "branch"} : call = <<prefix, node>>
  BY DEF Typed
<1>2. ask.what = "walk"
  BY DEF Typed, Apart
<1>3. ask.depth \in Nat \ {0} /\ ask.prefix \in Name
  BY <1>2, AskIs DEF Typed
<1> DEFINE head == HeadOf(prefix)
           E == EntriesIn(names, head, ask.depth, node)
<1>4. head \in Name
  BY HeadIs
<1>5. ToSet(Tree(names, prefix, ask.depth, node, 0, 0)) = E
  BY <1>3, WalkAnswer
<1>6. Below(prefix, node) = {head \o a : a \in E}
  BY DEF Below, EntriesIn
<1>7. E \in SUBSET Name
  <2>1. names \in SUBSET Name
    BY FiniteNames DEF Typed
  <2> HIDE DEF head
  <2> QED
    BY <1>3, <1>4, <2>1, EntriesAre
<1>8. Below(prefix, node) \in SUBSET Name
  <2> HIDE DEF E, head
  <2>1. \A a \in E : head \o a \in Name
    BY <1>4, <1>7, ConcatProperties DEF Name
  <2> QED
    BY <1>6, <2>1
<1>9. Walk(prefix, node)
  BY <1>1
<1>10. /\ todo' = IF node = "leaf" THEN todo \ {<<prefix, node>>}
                  ELSE (todo \ {<<prefix, node>>}) \cup Below(prefix, node) \X {"leaf", "branch"}
       /\ seen' = IF node = "leaf" THEN seen \cup Below(prefix, node) ELSE seen
       /\ reading' = (todo' # {})
       /\ UNCHANGED <<shard, ask, offset, taken, twice, ghosts>>
  <2> HIDE DEF E
  <2> QED
    BY <1>5, <1>6, <1>9 DEF Walk
<1> HIDE DEF head
<1> QED
  BY <1>1, <1>2, <1>3, <1>4, <1>8, <1>10 DEF head

-----------------------------------------------------------------------------
(* Type correctness.                                                       *)

LEMMA SelectionNext == Selection' \subseteq names'
BY DEF Selection, Under

LEMMA SameSelection ==
  ASSUME UNCHANGED <<names, ask>>
  PROVE  Selection' = Selection
BY DEF Selection, Under

LEMMA Resorted ==
  ASSUME Typed, Resort, names' \in SUBSET Names, worth' \in [Names -> 0..MaxWorth]
  PROVE  RankingFine(ranking', Selection', worth')
<1>1. PICK S \in {Selection'}, w \in {worth'} :
        IF S = Selection /\ \A n \in S : w[n] = worth[n]
        THEN UNCHANGED ranking
        ELSE ranking' \in Rankings(S, w)
  BY DEF Resort
<1>2. S \in SUBSET Names /\ S \in SUBSET Name
  <2>1. S \in SUBSET Names
    BY SelectionNext
  <2> QED
    BY <2>1, FiniteNames
<1>3. \A n \in S : w[n] \in Nat
  BY <1>2, BoundsAssumption
<1>4. CASE S = Selection /\ \A n \in S : w[n] = worth[n]
  BY <1>1, <1>4 DEF Typed, RankingFine
<1>5. CASE ~(S = Selection /\ \A n \in S : w[n] = worth[n])
  <2>1. ranking' \in Rankings(S, w)
    BY <1>1, <1>5
  <2> QED
    BY <1>2, <1>3, <2>1, RankingOrders DEF RankingFine
<1> QED
  BY <1>1, <1>4, <1>5

LEMMA TypedInit == Init => Typed
<1> SUFFICES ASSUME Init PROVE Typed
  OBVIOUS
<1>1. ask \in Asks /\ names \in SUBSET Names /\ points \in SUBSET Keys
  BY DEF Init
<1>2. worth \in [Names -> 0..MaxWorth]
  BY FirstWorthAssumption DEF Init
<1>3. RankingFine(ranking, Selection, worth)
  <2>1. Selection \in SUBSET Names
    BY <1>1, SelectionIs
  <2>2. Selection \in SUBSET Name
    BY <2>1, FiniteNames
  <2>3. \A n \in Selection : worth[n] \in Nat
    BY <1>2, <2>1, BoundsAssumption
  <2>4. PICK S, w : S = Selection /\ w = worth
    OBVIOUS
  <2>5. RankingFine(ranking, S, w)
    BY <2>2, <2>3, <2>4, RankingOrders DEF RankingFine, Init
  <2> QED
    BY <2>4, <2>5
<1>4. todo \in SUBSET (Name \X {"leaf", "branch"}) /\ (ask.what # "walk" => todo = {})
  BY <1>1, AskIs DEF Init
<1>5. Idents /\ Numbers /\ Flags
  BY DEF Init, Idents, Numbers, Flags
<1>6. Apart
  BY <1>4 DEF Init, Apart, AboutNames
<1> QED
  BY <1>1, <1>2, <1>3, <1>4, <1>5, <1>6 DEF Typed

LEMMA TypedNext == Typed /\ [Next]_vars => Typed'
<1> SUFFICES ASSUME Typed, [Next]_vars PROVE Typed'
  OBVIOUS
<1>1. ASSUME NEW page, Turn(page), Len(page) \in Nat
      PROVE  Typed'
  <2>1. UNCHANGED <<names, worth, ranking, keyId, points, now, ask, todo, changes, grew, shrank, moved>>
    BY <1>1 DEF Turn, shard, cache, ghosts
  <2>2. Selection' = Selection
    BY <2>1, SameSelection
  <2>3. Numbers' /\ Idents'
    BY <1>1, <2>1 DEF Typed, Numbers, Idents, Turn
  <2>4. Flags'
    BY <1>1, <2>1 DEF Typed, Flags, Turn
  <2>5. Apart'
    BY <1>1, <2>1 DEF Typed, Apart, AboutNames, Turn
  <2> QED
    BY <2>1, <2>2, <2>3, <2>4, <2>5 DEF Typed
<1>2. CASE Paging
  BY <1>1, <1>2, Paged DEF IsPage, Serves
<1>3. CASE GetId
  <2>1. UNCHANGED <<names, worth, ranking, keyId, points, now, ask, todo, offset, reading, twice,
                    changes, grew, shrank, moved>>
    BY <1>3 DEF GetId, shard, cache, ghosts
  <2>2. Selection' = Selection
    BY <2>1, SameSelection
  <2>3. Numbers' /\ Idents' /\ Flags'
    BY <1>3, <2>1 DEF Typed, Numbers, Idents, Flags, GetId
  <2>4. Apart'
    BY <1>3, <2>1 DEF Typed, Apart, AboutNames, GetId
  <2> QED
    BY <2>1, <2>2, <2>3, <2>4 DEF Typed
<1>4. CASE TextTree
  <2>1. /\ UNCHANGED <<names, worth, ranking, keyId, points, now, ask, todo, offset, taken, twice,
                       changes, grew, shrank, moved>>
        /\ reading' = FALSE
    BY <1>4 DEF TextTree, shard, cache, ghosts
  <2>2. Selection' = Selection
    BY <2>1, SameSelection
  <2>3. Numbers' /\ Idents' /\ Flags'
    BY <2>1 DEF Typed, Numbers, Idents, Flags
  <2>4. Apart'
    BY <2>1 DEF Typed, Apart, AboutNames
  <2> QED
    BY <2>1, <2>2, <2>3, <2>4 DEF Typed
<1>5. ASSUME NEW call \in todo, Walk(call[1], call[2])
      PROVE  Typed'
  <2>1. /\ UNCHANGED <<names, worth, ranking, keyId, points, now, ask, offset, taken, twice,
                       changes, grew, shrank, moved>>
        /\ reading' = (todo' # {})
        /\ ask.what = "walk"
    BY <1>5, WalkIs DEF shard, cache, ghosts
  <2>2. Selection' = Selection
    BY <2>1, SameSelection
  <2>3. Numbers' /\ Idents' /\ Flags'
    BY <2>1 DEF Typed, Numbers, Idents, Flags
  <2>4. Apart'
    BY <2>1 DEF Typed, Apart, AboutNames
  <2>5. todo' \in SUBSET (Name \X {"leaf", "branch"})
    <3>1. PICK B \in SUBSET Name : B = Below(call[1], call[2])
      BY <1>5, WalkIs
    <3>2. \/ todo' = todo \ {call}
          \/ todo' = (todo \ {call}) \cup B \X {"leaf", "branch"}
      BY <1>5, <3>1, WalkIs
    <3> QED
      BY <3>2 DEF Typed
  <2> QED
    BY <2>1, <2>2, <2>3, <2>4, <2>5 DEF Typed
<1>6. ASSUME Noted, UNCHANGED client PROVE Flags' /\ changes' \in Nat
  BY <1>6 DEF Typed, Flags, Numbers, Noted, client
<1>7. CASE ChangingNames
  <2>1. /\ Noted /\ Resort /\ UNCHANGED client /\ AboutNames
        /\ UNCHANGED <<keyId, points, now>>
        /\ names' \in SUBSET Names /\ worth' \in [Names -> 0..MaxWorth]
    <3>1. CASE \E n \in Names : Create(n)
      BY <3>1, BoundsAssumption DEF Create, Meanwhile, Typed
    <3>2. CASE \E n \in Names : Drop(n)
      BY <3>2 DEF Drop, Meanwhile, Typed
    <3>3. CASE \E n \in Names : Rise(n)
      <4>1. PICK n \in Names : Rise(n)
        BY <3>3
      <4>2. worth[n] \in 0..MaxWorth /\ worth[n] < MaxWorth
        BY <4>1 DEF Rise, Typed
      <4>3. worth[n] + 1 \in 0..MaxWorth
        BY <4>2, BoundsAssumption
      <4>4. worth' \in [Names -> 0..MaxWorth]
        BY <4>1, <4>3 DEF Rise, Typed
      <4> QED
        BY <4>1, <4>4 DEF Rise, Meanwhile, Typed, Sorted, AboutNames
    <3> QED
      BY <1>7, <3>1, <3>2, <3>3 DEF ChangingNames
  <2>2. RankingFine(ranking', Selection', worth')
    BY <2>1, Resorted
  <2>3. UNCHANGED <<ask, offset, taken, todo, reading, seen, twice>>
    BY <2>1 DEF client
  <2>4. Numbers' /\ Idents' /\ Flags' /\ Apart'
    BY <1>6, <2>1, <2>3 DEF Typed, Numbers, Idents, Apart, AboutNames
  <2> QED
    BY <2>1, <2>2, <2>3, <2>4 DEF Typed
<1>8. CASE ChangingPoints
  <2>1. /\ Noted /\ UNCHANGED client /\ UNCHANGED cache /\ ~AboutNames
        /\ points' \in SUBSET Keys /\ keyId' \in Ids \cup {BadKey} /\ now' \in Nat
    <3>1. CASE \E k \in Keys : SavePoint(k)
      BY <3>1 DEF SavePoint, Meanwhile, Typed, Numbers, Idents
    <3>2. CASE \E k \in Keys : DelPoint(k)
      BY <3>2 DEF DelPoint, Meanwhile, Typed, Numbers, Idents
    <3>3. CASE Leave
      BY <3>3 DEF Leave, Meanwhile, Typed, Numbers, Idents, Apart
    <3>4. CASE \E id \in Ids : ComeBack(id)
      BY <3>4 DEF ComeBack, Meanwhile, Typed, Numbers, Idents
    <3>5. CASE Tick
      BY <3>5 DEF Tick, Meanwhile, Typed, Numbers, Idents
    <3> QED
      BY <1>8, <3>1, <3>2, <3>3, <3>4, <3>5 DEF ChangingPoints
  <2>2. UNCHANGED <<ask, offset, taken, todo, reading, seen, twice, names, worth, ranking>>
    BY <2>1 DEF client, cache
  <2>3. Selection' = Selection
    BY <2>2, SameSelection
  <2>4. Numbers' /\ Idents' /\ Flags' /\ Apart'
    BY <1>6, <2>1, <2>2 DEF Typed, Numbers, Idents, Apart, AboutNames
  <2> QED
    BY <2>1, <2>2, <2>3, <2>4 DEF Typed
<1>9. CASE UNCHANGED vars
  <2>1. UNCHANGED <<ask, offset, taken, todo, reading, seen, twice, names, worth, ranking, keyId,
                    points, now, changes, grew, shrank, moved>>
    BY <1>9 DEF vars, shard, cache, client, ghosts
  <2>2. Selection' = Selection
    BY <2>1, SameSelection
  <2>3. Numbers' /\ Idents' /\ Flags' /\ Apart'
    BY <2>1 DEF Typed, Numbers, Idents, Flags, Apart, AboutNames
  <2> QED
    BY <2>1, <2>2, <2>3 DEF Typed
<1> QED
  BY <1>2, <1>3, <1>4, <1>5, <1>7, <1>8, <1>9, NextIs

-----------------------------------------------------------------------------
(* What the client reads, and how it changes.                              *)

LEMMA SameAnswer ==
  ASSUME UNCHANGED <<shard, ask>>
  PROVE  /\ Listing' = Listing /\ Order' = Order
         /\ points' = points /\ keyId' = keyId /\ now' = now
<1>1. UNCHANGED <<names, worth, ranking, keyId, points, now, ask>>
  BY DEF shard, cache
<1>2. Listing' = Listing
  BY <1>1 DEF Listing, Under, Children, Leaves, Selection, PointsOf
<1> QED
  BY <1>1, <1>2 DEF Order

(* What precedes the names of a sorted answer in the names sorted.         *)
RankHead == IF ask.what = "top" THEN <<>> ELSE HeadOf(ask.prefix)

RankedWell ==
  Sorted => /\ IsStrictOrder(ranking, Selection)
            /\ \A x \in Listing : RankHead \o x[1] \in Selection /\ x[2] = worth[RankHead \o x[1]]
            /\ \A x, y \in Listing :
                 <<x, y>> \in Order <=> <<RankHead \o x[1], RankHead \o y[1]>> \in ranking

LEMMA Ranked == Typed => RankedWell
<1> SUFFICES ASSUME Typed, Sorted PROVE RankedWell
  BY DEF RankedWell
<1>1. CASE ask.what = "top"
  <2> DEFINE T == WithValue(Selection, <<>>, worth)
  <2>1. /\ IsStrictOrder(ranking, Selection) /\ Listing = T
        /\ Order = ByRank(Listing, <<>>, ranking)
        /\ \A n \in Selection : <<>> \o n = n
    BY <1>1, TopIs
  <2>2. RankHead = <<>>
    BY <1>1 DEF RankHead
  <2>3. \A x \in Listing : <<>> \o x[1] \in Selection /\ x[2] = worth[<<>> \o x[1]]
    BY <2>1 DEF WithValue
  <2>4. \A x, y \in Listing : <<x, y>> \in Order <=> <<<<>> \o x[1], <<>> \o y[1]>> \in ranking
    <3>1. PICK head, L : head = <<>> /\ L = Listing
      OBVIOUS
    <3>2. \A x, y \in L : <<x, y>> \in ByRank(L, head, ranking)
                           <=> <<head \o x[1], head \o y[1]>> \in ranking
      BY ByRankIs
    <3> QED
      BY <2>1, <3>1, <3>2
  <2> QED
    BY <2>1, <2>2, <2>3, <2>4 DEF RankedWell
<1>2. CASE ask.what = "top leaves"
  <2> DEFINE head == HeadOf(ask.prefix)
             W == WantedIn(names, head, ask.depth, "leaf")
             C == EntriesIn(names, head, ask.depth, "leaf")
             f == [n \in W |-> Entry(n, head, ask.depth)]
  <2>1. /\ Selection = UnderIn(names, head) /\ IsStrictOrder(ranking, Selection)
        /\ CutsHead(f, W, C, head)
        /\ Listing = WithValue(C, head, worth)
        /\ Order = ByRank(Listing, head, ranking)
    BY <1>2, LeavesIs
  <2>2. RankHead = head
    BY <1>2 DEF RankHead
  <2> HIDE DEF head
  <2>3. W \in SUBSET Selection
    BY <2>1 DEF WantedIn
  <2> HIDE DEF W, C, f
  <2>4. \A c \in C : head \o c \in Selection
    BY <2>1, <2>3 DEF CutsHead
  <2>5. \A x \in Listing : head \o x[1] \in Selection /\ x[2] = worth[head \o x[1]]
    BY <2>1, <2>4 DEF WithValue
  <2>6. \A x, y \in Listing : <<x, y>> \in Order <=> <<head \o x[1], head \o y[1]>> \in ranking
    <3>1. PICK L : L = Listing
      OBVIOUS
    <3>2. \A x, y \in L : <<x, y>> \in ByRank(L, head, ranking)
                           <=> <<head \o x[1], head \o y[1]>> \in ranking
      BY ByRankIs
    <3> QED
      BY <2>1, <3>1, <3>2
  <2> QED
    BY <2>1, <2>2, <2>5, <2>6 DEF RankedWell
<1> QED
  BY <1>1, <1>2 DEF Sorted

LEMMA RankedNext == Typed' => RankedWell'
<1>1. Typed => RankedWell
  BY Ranked
<1> QED
  BY <1>1, PTL

(* Names that have kept their values keep their order ...                  *)
Unmoved(R, Q) == ~\E p \in R : <<p[2], p[1]>> \in Q

LEMMA RankingKept ==
  ASSUME NEW S, NEW R, IsStrictOrder(R, S), NEW T, NEW Q, IsStrictOrder(Q, T), Unmoved(R, Q),
         NEW a \in S \cap T, NEW b \in S \cap T
  PROVE  <<a, b>> \in R <=> <<a, b>> \in Q
<1>1. ASSUME NEW c \in S \cap T, NEW d \in S \cap T, <<c, d>> \in R PROVE <<d, c>> \notin Q
  BY <1>1 DEF Unmoved
<1>2. ASSUME <<a, b>> \in R PROVE <<a, b>> \in Q
  <2>1. a # b
    BY <1>2 DEF IsStrictOrder
  <2>2. <<b, a>> \notin Q
    BY <1>1, <1>2
  <2> QED
    BY <2>1, <2>2 DEF IsStrictOrder
<1>3. ASSUME <<a, b>> \in Q PROVE <<a, b>> \in R
  <2>1. a # b
    BY <1>3 DEF IsStrictOrder
  <2>2. <<b, a>> \notin R
    BY <1>1, <1>3
  <2> QED
    BY <2>1, <2>2 DEF IsStrictOrder
<1> QED
  BY <1>2, <1>3

OrderAgrees == \A x, y \in Listing \cap Listing' : <<x, y>> \in Order <=> <<x, y>> \in Order'

LEMMA OrderKept ==
  ASSUME Typed, Typed', Noted, ~moved', UNCHANGED ask, Reads
  PROVE  OrderAgrees
<1>1. CASE ask.what \in {"names", "children"}
  <2>1. Order = ByName(Listing) /\ Order' = ByName(Listing')
    BY <1>1 DEF Order
  <2> QED
    BY <2>1 DEF OrderAgrees, ByName
<1>2. CASE ask.what = "points"
  <2>1. Order = ByKey(Listing) /\ Order' = ByKey(Listing')
    BY <1>2 DEF Order
  <2> QED
    BY <2>1 DEF OrderAgrees, ByKey
<1>3. CASE Sorted
  <2>1. PICK head : head = RankHead /\ head = RankHead'
    BY DEF RankHead
  <2>2. /\ IsStrictOrder(ranking, Selection)
        /\ \A x \in Listing : head \o x[1] \in Selection
        /\ \A x, y \in Listing :
             <<x, y>> \in Order <=> <<head \o x[1], head \o y[1]>> \in ranking
    BY <1>3, <2>1, Ranked DEF RankedWell
  <2>3. /\ IsStrictOrder(ranking', Selection')
        /\ \A x \in Listing' : head \o x[1] \in Selection'
        /\ \A x, y \in Listing' :
             <<x, y>> \in Order' <=> <<head \o x[1], head \o y[1]>> \in ranking'
    <3>1. Sorted'
      BY <1>3 DEF Sorted
    <3> QED
      BY <2>1, <3>1, RankedNext DEF RankedWell
  <2>4. Unmoved(ranking, ranking')
    BY DEF Noted, Unmoved
  <2>5. PICK S, R, T, Q : S = Selection /\ R = ranking /\ T = Selection' /\ Q = ranking'
    OBVIOUS
  <2>6. \A a, b \in S \cap T : <<a, b>> \in R <=> <<a, b>> \in Q
    <3>1. IsStrictOrder(R, S) /\ IsStrictOrder(Q, T) /\ Unmoved(R, Q)
      BY <2>2, <2>3, <2>4, <2>5
    <3> QED
      BY <3>1, RankingKept
  <2> QED
    BY <2>2, <2>3, <2>5, <2>6 DEF OrderAgrees
<1> QED
  BY <1>1, <1>2, <1>3 DEF Reads, Sorted

LEMMA ChangeIs ==
  ASSUME ChangingNames \/ ChangingPoints
  PROVE  /\ Noted /\ reading
         /\ UNCHANGED <<ask, offset, taken, todo, reading, seen, twice>>
BY DEF ChangingNames, ChangingPoints, Create, Drop, Rise, SavePoint, DelPoint, Leave, ComeBack,
       Tick, Meanwhile, client

-----------------------------------------------------------------------------
(* Reading by pages misses nothing.                                        *)

LEMMA TargetIs ==
  ASSUME Reads, ask.what = "points" => taken = keyId
  PROVE  Target = Listing /\ TargetBy = Order
BY DEF Target, TargetBy, Order, Listing, Reads

(* A page moves the offset past what it answers, and past nothing else.    *)
LEMMA PageTakes ==
  ASSUME NEW L, NEW Q, NEW page, offset \in Nat, IsPage(page, L, Q), NEW x \in L
  PROVE  /\ Place(x, L, Q) \in Nat /\ Len(page) \in Nat
         /\ x \in ToSet(page) => offset <= Place(x, L, Q) /\ Place(x, L, Q) < offset + Len(page)
         /\ Place(x, L, Q) < offset + Len(page) => Place(x, L, Q) < offset \/ x \in ToSet(page)
         /\ Len(page) = 0 => Place(x, L, Q) < offset \/ (NoLimit /\ offset > 0)
<1>1. Place(x, L, Q) \in 0..(Cardinality(L) - 1) /\ Cardinality(L) \in Nat
  BY PlaceIsCount, FS_CardinalityType DEF IsPage
<1>2. /\ Len(page) \in Nat
      /\ x \in ToSet(page) <=> offset <= Place(x, L, Q) /\ Place(x, L, Q) < offset + Len(page)
  BY DEF IsPage, Serves
<1>3. Len(page) = 0 => Cardinality(L) <= offset \/ (NoLimit /\ offset > 0)
  BY DEF IsPage
<1> QED
  BY <1>1, <1>2, <1>3

(* What was there all the time has been answered if its place is before    *)
(* the offset, and all of it at the end.  The counter read has not come    *)
(* back under another id, unless there is nothing to miss.                 *)
Had ==
  /\ Reads => \A x \in stable : Place(x, Listing, Order) < offset => x \in seen
  /\ NoLimit /\ offset > 0 => stable \subseteq seen
  /\ ask.what = "points" => stable = {} \/ taken \in {BadKey, keyId}
  /\ ~reading /\ ask.what # "walk" => stable \subseteq seen

HadInv == stable \subseteq Listing /\ (~shrank /\ ~moved => Had)

LEMMA HadNext ==
  ASSUME Typed, Typed', HadInv, [Next]_vars
  PROVE  HadInv'
<1>1. offset \in Nat
  BY DEF Typed, Numbers
<1>2. ASSUME UNCHANGED <<shard, ask, stable, shrank, moved>>
      PROVE  /\ Listing' = Listing /\ Order' = Order /\ stable' \subseteq Listing'
             /\ shrank' = shrank /\ moved' = moved /\ keyId' = keyId
             /\ Reads' = Reads /\ NoLimit' = NoLimit
  BY <1>2, SameAnswer DEF HadInv, Reads, NoLimit
<1>3. CASE Paging
  <2>1. PICK page : /\ Turn(page) /\ IsPage(page, Target, TargetBy) /\ Reads
                    /\ ask.what = "points" /\ taken = BadKey => keyId = BadKey
    BY <1>3, Paged
  <2>2. /\ UNCHANGED <<shard, ask, stable, shrank, moved>>
        /\ offset' = offset + Len(page) /\ taken' = BadKey
        /\ reading' = (page # <<>>) /\ seen' = seen \cup ToSet(page)
    BY <2>1 DEF Turn, ghosts
  <2>3. CASE stable = {}
    BY <1>2, <2>2, <2>3 DEF HadInv, Had
  <2>4. ASSUME ~shrank, ~moved, stable # {}
        PROVE  Had'
    <3>1. Had
      BY <2>4 DEF HadInv
    <3>2. Target = Listing /\ TargetBy = Order
      BY <2>1, <2>4, <3>1, TargetIs DEF Had
    <3>3. \A x \in Listing :
            /\ Place(x, Listing, Order) \in Nat /\ Len(page) \in Nat
            /\ Place(x, Listing, Order) < offset + Len(page)
                 => Place(x, Listing, Order) < offset \/ x \in ToSet(page)
            /\ Len(page) = 0 => Place(x, Listing, Order) < offset \/ (NoLimit /\ offset > 0)
      BY <1>1, <2>1, <3>2, PageTakes
    <3>4. stable \subseteq Listing
      BY DEF HadInv
    <3>5. \A x \in stable : Place(x, Listing, Order) < offset + Len(page) => x \in seen'
      BY <2>1, <2>2, <3>1, <3>3, <3>4 DEF Had
    <3>6. NoLimit /\ offset + Len(page) > 0 => stable \subseteq seen'
      <4>1. NoLimit /\ offset > 0 => stable \subseteq seen'
        BY <2>2, <3>1 DEF Had
      <4>2. NoLimit /\ offset = 0 => stable \subseteq seen'
        BY <2>1, <2>2, <3>2, <3>4 DEF IsPage
      <4> QED
        BY <1>1, <4>1, <4>2
    <3>7. page = <<>> => stable \subseteq seen'
      <4>1. page = <<>> => Len(page) = 0
        OBVIOUS
      <4> QED
        BY <2>1, <2>2, <3>1, <3>3, <3>4, <4>1 DEF Had
    <3>8. Listing' = Listing /\ Order' = Order /\ stable' = stable /\ ask' = ask /\ NoLimit' = NoLimit
      BY <1>2, <2>2
    <3>9. ~reading' => page = <<>>
      BY <2>2
    <3> QED
      BY <2>2, <3>5, <3>6, <3>7, <3>8, <3>9 DEF Had
  <2> QED
    BY <1>2, <2>2, <2>3, <2>4 DEF HadInv
<1>4. CASE GetId
  <2>1. /\ UNCHANGED <<shard, ask, stable, shrank, moved, offset, reading, seen>>
        /\ taken' = keyId
    BY <1>4 DEF GetId, ghosts
  <2> QED
    BY <1>2, <2>1 DEF HadInv, Had
<1>5. CASE TextTree
  <2>1. /\ UNCHANGED <<shard, ask, stable, shrank, moved, offset, taken>>
        /\ ask.what = "text" /\ seen' = Listing
    BY <1>5, TextAnswer DEF TextTree, ghosts
  <2> QED
    BY <1>2, <2>1 DEF HadInv, Had, Reads, NoLimit
<1>6. CASE \E call \in todo : Walk(call[1], call[2])
  <2>1. /\ UNCHANGED <<shard, ask, stable, shrank, moved, offset, taken>>
        /\ ask.what = "walk"
    BY <1>6, WalkIs DEF ghosts
  <2> QED
    BY <1>2, <2>1 DEF HadInv, Had, Reads, NoLimit
<1>7. CASE ChangingNames \/ ChangingPoints
  <2>1. Noted /\ reading /\ UNCHANGED <<ask, offset, taken, reading, seen>>
    BY <1>7, ChangeIs
  <2>2. stable' = stable \cap Listing'
    BY <2>1 DEF Noted
  <2>3. ASSUME ~shrank', ~moved'
        PROVE  Had'
    <3>1. ~shrank /\ ~moved /\ Listing \subseteq Listing'
      BY <2>1, <2>3 DEF Noted, Typed, Flags
    <3>2. Had /\ stable \subseteq Listing /\ stable' = stable
      BY <2>2, <3>1 DEF HadInv
    <3>3. ASSUME Reads, NEW x \in stable, Place(x, Listing', Order') < offset
          PROVE  x \in seen
      <4>1. OrderAgrees
        BY <2>1, <2>3, <3>3, OrderKept
      <4>2. IsFiniteSet(Listing')
        BY ListingFiniteNext DEF FiniteListing
      <4>3. PICK L, Q, M, R : L = Listing /\ Q = Order /\ M = Listing' /\ R = Order'
        OBVIOUS
      <4>4. \A y \in L : <<y, x>> \in Q => y \in M /\ <<y, x>> \in R
        BY <3>1, <3>2, <3>3, <4>1, <4>3 DEF OrderAgrees
      <4>5. /\ Place(x, L, Q) <= Place(x, M, R)
            /\ Place(x, L, Q) \in Nat /\ Place(x, M, R) \in Nat
        BY <4>2, <4>3, <4>4, PlaceSinks
      <4>6. Place(x, L, Q) < offset
        BY <1>1, <3>3, <4>3, <4>5
      <4> QED
        BY <3>2, <3>3, <4>3, <4>6 DEF Had
    <3>4. ask.what = "points" => stable = {} \/ keyId' = keyId
      <4>1. CASE keyId' = keyId
        BY <4>1
      <4>2. ASSUME ask.what = "points", keyId' # keyId
            PROVE  stable = {}
        <5>1. \A k \in Listing : k[1] = keyId
          BY <4>2 DEF Listing, PointsOf
        <5>2. \A k \in Listing' : k[1] = keyId'
          BY <2>1, <4>2 DEF Listing, PointsOf
        <5> QED
          BY <3>1, <3>2, <4>2, <5>1, <5>2
      <4> QED
        BY <4>1, <4>2
    <3>5. Reads' = Reads /\ NoLimit' = NoLimit /\ ask' = ask
      BY <2>1 DEF Reads, NoLimit
    <3> QED
      BY <2>1, <3>2, <3>3, <3>4, <3>5 DEF Had
  <2> QED
    BY <2>2, <2>3 DEF HadInv
<1>8. CASE UNCHANGED vars
  <2>1. UNCHANGED <<shard, ask, stable, shrank, moved, offset, taken, reading, seen>>
    BY <1>8 DEF vars, client, ghosts
  <2> QED
    BY <1>2, <2>1 DEF HadInv, Had
<1> QED
  BY <1>3, <1>4, <1>5, <1>6, <1>7, <1>8, NextIs

-----------------------------------------------------------------------------
(* Reading by pages answers nothing twice.                                 *)

(* What was answered has its place before the offset a.                    *)
Within(S, L, Q, a) == \A x \in S \cap L : Place(x, L, Q) < a

(* What the get under way answers.                                         *)
Got == PointsOf(taken)

LEMMA NoGot == Typed /\ taken = BadKey => Got = {}
BY NoPoints DEF Got

LEMMA NoGotNext == Typed' /\ taken' = BadKey => Got' = {}
<1>1. Typed /\ taken = BadKey => Got = {}
  BY NoGot
<1>2. (Typed /\ taken = BadKey => Got = {})'
  BY <1>1, PTL
<1> QED
  BY <1>2 DEF BadKey

LEMMA GotFinite == Typed => IsFiniteSet(Got)
<1> SUFFICES ASSUME Typed PROVE IsFiniteSet(Got)
  OBVIOUS
<1>1. Got \in SUBSET points
  BY DEF Got, PointsOf
<1> QED
  BY <1>1, FinitePoints, FS_Subset DEF Typed

(* Fewer of them stand no further back.                                    *)
LEMMA FewerStand ==
  ASSUME NEW S, NEW L, IsFiniteSet(L), NEW Q, NEW a \in Nat, Within(S, L, Q, a),
         NEW D \in SUBSET L, NEW P, \A x, y \in D : <<x, y>> \in P => <<x, y>> \in Q
  PROVE  Within(S, D, P, a)
<1> SUFFICES ASSUME NEW x \in S \cap D PROVE Place(x, D, P) < a
  BY DEF Within
<1>1. \A y \in D : <<y, x>> \in P => y \in L /\ <<y, x>> \in Q
  OBVIOUS
<1>2. /\ Place(x, D, P) <= Place(x, L, Q)
      /\ Place(x, D, P) \in Nat /\ Place(x, L, Q) \in Nat
  BY <1>1, PlaceSinks
<1>3. Place(x, L, Q) < a
  BY DEF Within
<1> QED
  BY <1>2, <1>3

OfId(L, id) == \A k \in L : k[1] = id

(* The points of an id are those of one of two others, if they are of both.*)
LEMMA PointsStand ==
  ASSUME NEW S, NEW a \in Nat,
         NEW L, IsFiniteSet(L), NEW l, OfId(L, l), Within(S, L, ByKey(L), a),
         NEW G, IsFiniteSet(G), NEW g, OfId(G, g), Within(S, G, ByKey(G), a), l = g => L = G,
         NEW D \in SUBSET (L \cup G), NEW d, OfId(D, d)
  PROVE  Within(S, D, ByKey(D), a)
<1>1. D \subseteq L \/ D \subseteq G
  BY DEF OfId
<1>2. CASE D \subseteq L
  <2>1. \A x, y \in D : <<x, y>> \in ByKey(D) => <<x, y>> \in ByKey(L)
    BY <1>2 DEF ByKey
  <2> QED
    BY <1>2, <2>1, FewerStand
<1>3. CASE D \subseteq G
  <2>1. \A x, y \in D : <<x, y>> \in ByKey(D) => <<x, y>> \in ByKey(G)
    BY <1>3 DEF ByKey
  <2> QED
    BY <1>3, <2>1, FewerStand
<1> QED
  BY <1>1, <1>2, <1>3

New ==
  /\ ~twice
  /\ Reads => Within(seen, Listing, Order, offset)
  /\ ask.what = "points" => Within(seen, Got, ByKey(Got), offset)

NewInv == ~grew /\ ~moved => New

LEMMA NewNext ==
  ASSUME Typed, Typed', NewInv, [Next]_vars
  PROVE  NewInv'
<1>1. offset \in Nat
  BY DEF Typed, Numbers
<1>2. ASSUME UNCHANGED <<shard, ask, grew, moved>>
      PROVE  /\ Listing' = Listing /\ Order' = Order /\ Reads' = Reads
             /\ grew' = grew /\ moved' = moved /\ ask' = ask
             /\ points' = points /\ now' = now /\ keyId' = keyId
  BY <1>2, SameAnswer DEF Reads
<1>3. CASE Paging
  <2>1. PICK page : Turn(page) /\ IsPage(page, Target, TargetBy) /\ Reads
    BY <1>3, Paged
  <2>2. /\ UNCHANGED <<shard, ask, grew, moved>>
        /\ offset' = offset + Len(page) /\ taken' = BadKey
        /\ seen' = seen \cup ToSet(page)
        /\ twice' = (twice \/ ToSet(page) \cap seen # {} \/ Cardinality(ToSet(page)) < Len(page))
    BY <2>1 DEF Turn, ghosts
  <2> SUFFICES ASSUME ~grew, ~moved PROVE New'
    BY <1>2, <2>2 DEF NewInv
  <2>3. New
    BY DEF NewInv
  <2>4. Within(seen, Target, TargetBy, offset)
    BY <2>1, <2>3 DEF New, Target, TargetBy, Got
  <2>5. PICK L, Q : L = Target /\ Q = TargetBy
    OBVIOUS
  <2>6. \A x \in L : /\ Place(x, L, Q) \in Nat /\ Len(page) \in Nat
                     /\ x \in ToSet(page) => offset <= Place(x, L, Q)
                     /\ x \in ToSet(page) => Place(x, L, Q) < offset + Len(page)
    BY <1>1, <2>1, <2>5, PageTakes
  <2>7. ToSet(page) \subseteq L /\ Len(page) \in Nat /\ Cardinality(ToSet(page)) = Len(page)
    BY <2>1, <2>5 DEF IsPage, Serves
  <2>8. ~twice'
    <3>1. ASSUME NEW x \in ToSet(page) \cap seen PROVE FALSE
      <4>1. Place(x, L, Q) < offset
        BY <2>4, <2>5, <2>7 DEF Within
      <4> QED
        BY <1>1, <2>6, <2>7, <4>1
    <3>2. ~(Cardinality(ToSet(page)) < Len(page))
      BY <2>7
    <3> QED
      BY <2>2, <2>3, <3>1, <3>2 DEF New
  <2>9. Within(seen', Listing, Order, offset')
    <3> SUFFICES ASSUME NEW x \in seen' \cap Listing PROVE Place(x, Listing, Order) < offset'
      BY DEF Within
    <3>1. CASE x \in seen
      <4>1. Place(x, Listing, Order) < offset
        BY <2>1, <2>3, <3>1 DEF New, Within
      <4>2. Place(x, Listing, Order) \in Nat
        <5>1. PICK M, R : M = Listing /\ R = Order
          OBVIOUS
        <5>2. IsFiniteSet(M)
          BY <5>1, ListingFinite DEF FiniteListing
        <5>3. \A y \in M : <<y, x>> \in R => y \in M /\ <<y, x>> \in R
          OBVIOUS
        <5> QED
          BY <5>1, <5>2, <5>3, PlaceSinks
      <4> QED
        BY <1>1, <2>2, <2>7, <4>1, <4>2
    <3>2. CASE x \in ToSet(page)
      <4>1. ask.what = "points" => taken = keyId
        BY <2>5, <2>7, <3>2 DEF Target, Listing, PointsOf
      <4>2. Target = Listing /\ TargetBy = Order
        BY <2>1, <4>1, TargetIs
      <4> QED
        BY <2>2, <2>5, <2>6, <3>2, <4>2
    <3> QED
      BY <2>2, <3>1, <3>2
  <2>10. Got' = {}
    BY <2>2, NoGotNext
  <2>11. Within(seen', Got', ByKey(Got'), offset')
    BY <2>10 DEF Within
  <2>12. Listing' = Listing /\ Order' = Order
    BY <1>2, <2>2
  <2> QED
    BY <2>8, <2>9, <2>11, <2>12 DEF New
<1>4. CASE GetId
  <2>1. /\ UNCHANGED <<shard, ask, grew, moved, offset, seen, twice>>
        /\ taken' = keyId /\ ask.what = "points"
    BY <1>4 DEF GetId, ghosts
  <2>2. Got' = Listing /\ Order = ByKey(Listing)
    BY <1>2, <2>1 DEF Got, PointsOf, Listing, Order
  <2> QED
    BY <1>2, <2>1, <2>2 DEF NewInv, New, Reads
<1>5. CASE TextTree \/ \E call \in todo : Walk(call[1], call[2])
  <2>1. UNCHANGED <<shard, ask, grew, moved, twice>> /\ ~Reads /\ ask.what # "points"
    <3>1. CASE TextTree
      BY <3>1 DEF TextTree, ghosts, Reads
    <3>2. CASE \E call \in todo : Walk(call[1], call[2])
      BY <3>2, WalkIs DEF ghosts, Reads
    <3> QED
      BY <1>5, <3>1, <3>2
  <2> QED
    BY <1>2, <2>1 DEF NewInv, New
<1>6. CASE ChangingNames \/ ChangingPoints
  <2>1. Noted /\ UNCHANGED <<ask, offset, taken, seen, twice>>
    BY <1>6, ChangeIs
  <2> SUFFICES ASSUME ~grew', ~moved' PROVE New'
    BY DEF NewInv
  <2>2. ~grew /\ ~moved /\ Answerable' \subseteq Answerable
    BY <2>1 DEF Noted, Typed, Flags
  <2>3. Listing' \cup Got' \subseteq Listing \cup Got
    BY <2>2 DEF Answerable, Got
  <2>4. New
    BY <2>2 DEF NewInv
  <2>5. IsFiniteSet(Listing) /\ IsFiniteSet(Got)
    BY ListingFinite, GotFinite DEF FiniteListing
  <2>6. CASE Reads /\ ask.what # "points"
    <3>1. Got = {}
      BY <2>6, NoGot DEF Typed, Apart, AboutNames
    <3>2. OrderAgrees
      BY <2>1, <2>6, OrderKept
    <3>3. PICK L, Q, D, P : L = Listing /\ Q = Order /\ D = Listing' /\ P = Order'
      OBVIOUS
    <3>4. D \in SUBSET L
      BY <2>3, <3>1, <3>3
    <3>5. \A x, y \in D : <<x, y>> \in P => <<x, y>> \in Q
      BY <3>2, <3>3, <3>4 DEF OrderAgrees
    <3>6. Within(seen, L, Q, offset) /\ IsFiniteSet(L)
      BY <2>4, <2>5, <2>6, <3>3 DEF New
    <3>7. Within(seen, D, P, offset)
      BY <1>1, <3>4, <3>5, <3>6, FewerStand
    <3> QED
      BY <2>1, <2>4, <2>6, <3>3, <3>7 DEF New
  <2>7. CASE ask.what = "points"
    <3>1. PICK L, G, l, g : L = Listing /\ G = Got /\ l = keyId /\ g = taken
      OBVIOUS
    <3>2. OfId(L, l) /\ OfId(G, g) /\ (l = g => L = G)
      BY <2>7, <3>1 DEF OfId, Listing, Got, PointsOf
    <3>3. Within(seen, L, ByKey(L), offset) /\ Within(seen, G, ByKey(G), offset)
      <4>1. Order = ByKey(Listing) /\ Reads
        BY <2>7 DEF Order, Reads
      <4> QED
        BY <2>4, <2>7, <3>1, <4>1 DEF New
    <3>4. ASSUME NEW D, D \in SUBSET (L \cup G), NEW d, OfId(D, d)
          PROVE  Within(seen, D, ByKey(D), offset)
      <4>1. IsFiniteSet(L) /\ IsFiniteSet(G)
        BY <2>5, <3>1
      <4> QED
        BY <1>1, <3>2, <3>3, <3>4, <4>1, PointsStand
    <3>5. PICK D, d : D = Listing' /\ d = keyId'
      OBVIOUS
    <3>6. PICK E, e : E = Got' /\ e = taken'
      OBVIOUS
    <3>7. ask' = ask
      BY <2>1
    <3>8. OfId(D, d)
      BY <2>7, <3>5, <3>7 DEF OfId, Listing, PointsOf
    <3>9. OfId(E, e)
      BY <3>6 DEF OfId, Got, PointsOf
    <3>10. D \in SUBSET (L \cup G) /\ E \in SUBSET (L \cup G)
      BY <2>3, <3>1, <3>5, <3>6
    <3>11. Within(seen, D, ByKey(D), offset) /\ Within(seen, E, ByKey(E), offset)
      BY <3>4, <3>8, <3>9, <3>10
    <3>12. Order' = ByKey(Listing')
      BY <2>7, <3>7 DEF Order
    <3> QED
      BY <2>1, <2>4, <3>5, <3>6, <3>11, <3>12 DEF New
  <2>8. CASE ~Reads
    <3>1. ~Reads' /\ ask'.what # "points"
      BY <2>1, <2>8 DEF Reads
    <3> QED
      BY <2>1, <2>4, <3>1 DEF New
  <2> QED
    BY <2>6, <2>7, <2>8
<1>7. CASE UNCHANGED vars
  <2>1. UNCHANGED <<shard, ask, grew, moved, offset, taken, seen, twice>>
    BY <1>7 DEF vars, client, ghosts
  <2>2. Got' = Got
    BY <1>2, <2>1 DEF Got, PointsOf
  <2> QED
    BY <1>2, <2>1, <2>2 DEF NewInv, New
<1> QED
  BY <1>3, <1>4, <1>5, <1>6, <1>7, NextIs

-----------------------------------------------------------------------------
(* A sorted answer gives the greatest first.                               *)

LEMMA OrderStrict ==
  ASSUME Typed, Sorted
  PROVE  IsStrictOrder(Order, Listing)
BY TopAnswer, LeavesAnswer DEF Answers, Sorted

(* As long as nothing changes, it has answered what is before the offset.  *)
TopInv ==
  Sorted /\ changes = 0 => seen = {x \in Listing : Place(x, Listing, Order) < offset}

LEMMA TopNext ==
  ASSUME Typed, TopInv, [Next]_vars
  PROVE  TopInv'
<1>1. offset \in Nat /\ changes \in Nat
  BY DEF Typed, Numbers
<1>2. ASSUME UNCHANGED <<shard, ask, changes>>
      PROVE  Listing' = Listing /\ Order' = Order /\ Sorted' = Sorted
  BY <1>2, SameAnswer DEF Sorted
<1>3. CASE Paging
  <2>1. PICK page : Turn(page) /\ IsPage(page, Target, TargetBy) /\ Reads
    BY <1>3, Paged
  <2>2. /\ UNCHANGED <<shard, ask, changes>>
        /\ offset' = offset + Len(page)
        /\ seen' = seen \cup ToSet(page)
    BY <2>1 DEF Turn, ghosts
  <2> SUFFICES ASSUME Sorted, changes = 0
               PROVE  seen' = {x \in Listing : Place(x, Listing, Order) < offset'}
    BY <1>2, <2>2 DEF TopInv
  <2>3. PICK L, Q : L = Listing /\ Q = Order
    OBVIOUS
  <2>4. IsPage(page, L, Q)
    BY <2>1, <2>3, TargetIs DEF Sorted
  <2>5. \A x \in L : Place(x, L, Q) \in Nat
    BY <1>1, <2>4, PageTakes
  <2>6. /\ ToSet(page) = {x \in L : offset <= Place(x, L, Q) /\ Place(x, L, Q) < offset + Len(page)}
        /\ Len(page) \in Nat
    BY <2>4 DEF IsPage, Serves
  <2>7. seen = {x \in L : Place(x, L, Q) < offset}
    BY <2>3 DEF TopInv
  <2>8. seen' = {x \in L : Place(x, L, Q) < offset + Len(page)}
    BY <1>1, <2>2, <2>5, <2>6, <2>7
  <2> QED
    BY <2>2, <2>3, <2>8
<1>4. CASE GetId \/ TextTree \/ \E call \in todo : Walk(call[1], call[2])
  <2>1. UNCHANGED <<ask>> /\ ~Sorted
    BY <1>4, WalkIs DEF GetId, TextTree, Sorted
  <2> QED
    BY <2>1 DEF TopInv, Sorted
<1>5. CASE ChangingNames \/ ChangingPoints
  <2>1. changes' = changes + 1
    BY <1>5, ChangeIs DEF Noted
  <2> QED
    BY <1>1, <2>1 DEF TopInv
<1>6. CASE UNCHANGED vars
  <2>1. UNCHANGED <<shard, ask, changes, offset, seen>>
    BY <1>6 DEF vars, client, ghosts
  <2> QED
    BY <1>2, <2>1 DEF TopInv
<1> QED
  BY <1>3, <1>4, <1>5, <1>6, NextIs

LEMMA TopFirst ==
  ASSUME Typed, TopInv
  PROVE  GreatestFirst
<1> SUFFICES ASSUME Sorted, changes = 0, NEW x \in seen, NEW y \in Listing \ seen
             PROVE  x[2] >= y[2]
  BY DEF GreatestFirst
<1>1. seen = {z \in Listing : Place(z, Listing, Order) < offset}
  BY DEF TopInv
<1>2. PICK L, Q : L = Listing /\ Q = Order
  OBVIOUS
<1>3. IsStrictOrder(Q, L) /\ IsFiniteSet(L) /\ x \in L /\ y \in L
  BY <1>1, <1>2, OrderStrict, ListingFinite DEF FiniteListing
<1>4. Place(x, L, Q) \in Nat /\ Place(y, L, Q) \in Nat
  <2>1. Place(x, L, Q) \in 0..(Cardinality(L) - 1) /\ Place(y, L, Q) \in 0..(Cardinality(L) - 1)
    BY <1>3, PlaceIsCount
  <2> QED
    BY <2>1
<1>5. Place(x, L, Q) < Place(y, L, Q)
  <2>1. Place(x, L, Q) < offset /\ ~(Place(y, L, Q) < offset) /\ offset \in Nat
    BY <1>1, <1>2, <1>3 DEF Typed, Numbers
  <2> QED
    BY <1>4, <2>1
<1>6. <<x, y>> \in Q
  <2>1. x # y
    BY <1>4, <1>5
  <2>2. ASSUME <<y, x>> \in Q PROVE FALSE
    <3>1. Place(y, L, Q) < Place(x, L, Q)
      BY <1>3, <2>2, PlaceGrows
    <3> QED
      BY <1>4, <1>5, <3>1
  <2> QED
    BY <1>3, <2>1, <2>2 DEF IsStrictOrder
<1>7. PICK n \in Selection, m \in Selection :
        <<n, m>> \in ranking /\ x[2] = worth[n] /\ y[2] = worth[m]
  BY <1>2, <1>3, <1>6, Ranked DEF RankedWell
<1> QED
  BY <1>7 DEF Typed, RankingFine

-----------------------------------------------------------------------------
(* No answer holds what never belonged to it.                              *)

LEMMA PrefixTransitive ==
  ASSUME NEW a \in Name, NEW b \in Name, NEW c \in Name, IsPrefix(a, b), IsPrefix(b, c)
  PROVE  IsPrefix(a, c)
<1>1. Len(a) \in Nat /\ Len(b) \in Nat /\ Len(c) \in Nat
  BY NameIs
<1>2. Len(a) <= Len(b) /\ Len(b) <= Len(c)
  BY PrefixIs
<1>3. \A i \in 1..Len(a) : a[i] = c[i]
  BY <1>1, <1>2, PrefixIs
<1> QED
  BY <1>1, <1>2, <1>3, PrefixIs

(* What lies below a prefix has all of it.                                 *)
LEMMA HeadGrows ==
  ASSUME NEW head \in Name, NEW c \in Name
  PROVE  head \o c \in Name /\ IsPrefix(head, HeadOf(head \o c))
<1> DEFINE p == head \o c
<1>1. /\ Len(head) \in Nat /\ Len(c) \in Nat
      /\ p \in Name /\ Len(p) = Len(head) + Len(c)
      /\ \A i \in 1..Len(head) : p[i] = head[i]
  BY NameIs, ConcatProperties DEF Name
<1> HIDE DEF p
<1>2. HeadOf(p) \in Name
  BY <1>1, HeadIs
<1>3. Len(head) <= Len(HeadOf(p)) /\ \A i \in 1..Len(head) : HeadOf(p)[i] = head[i]
  <2>1. CASE p = <<>>
    <3>1. HeadOf(p) = <<>> /\ Len(p) = 0
      BY <1>1, <2>1, HeadIs
    <3> QED
      BY <1>1, <3>1
  <2>2. CASE p # <<>>
    <3>1. HeadOf(p) = p \o SepName
      BY <1>1, <2>2, HeadIs DEF SepName
    <3>2. Len(HeadOf(p)) = Len(p) + 1 /\ \A i \in 1..Len(p) : HeadOf(p)[i] = p[i]
      <4>1. PICK t \in Name : t = SepName /\ Len(t) = 1
        BY SepIs
      <4>2. Len(p \o t) = Len(p) + Len(t) /\ \A i \in 1..Len(p) : (p \o t)[i] = p[i]
        BY <1>1, JoinedIs
      <4> QED
        BY <3>1, <4>1, <4>2
    <3> QED
      BY <1>1, <3>2
  <2> QED
    BY <2>1, <2>2
<1> QED
  BY <1>1, <1>2, <1>3, PrefixIs DEF p

ListedInv ==
  /\ seen \subseteq ever
  /\ Answerable \subseteq ever
  /\ \A call \in todo : IsPrefix(HeadOf(ask.prefix), HeadOf(call[1]))

(* The names a call of the walk finds are below the prefix asked for.      *)
LEMMA WalkListed ==
  ASSUME Typed, NEW call \in todo, Walk(call[1], call[2]),
         IsPrefix(HeadOf(ask.prefix), HeadOf(call[1]))
  PROVE  /\ call[2] = "leaf" => Below(call[1], call[2]) \subseteq Listing
         /\ \A p \in Below(call[1], call[2]) : IsPrefix(HeadOf(ask.prefix), HeadOf(p))
<1> DEFINE head == HeadOf(call[1])
<1>1. /\ ask.what = "walk" /\ ask.depth \in Nat \ {0} /\ ask.prefix \in Name
      /\ head \in Name
  BY WalkIs
<1>2. HeadOf(ask.prefix) \in Name
  BY <1>1, HeadIs
<1>3. PICK depth \in Nat \ {0} : depth = ask.depth
  BY <1>1
<1>4. names \in SUBSET Name
  BY FiniteNames DEF Typed
<1> HIDE DEF head
<1>5. \A n \in WantedIn(names, head, depth, call[2]) :
        /\ n \in names /\ n \in Name /\ IsPrefix(head, n)
        /\ Entry(n, head, depth) \in Name
        /\ IsLeaf(n, head, depth) => n = head \o Entry(n, head, depth)
  BY <1>1, <1>4, EntriesAre
<1>6. ASSUME call[2] = "leaf", NEW p \in Below(call[1], call[2])
      PROVE  p \in Listing
  <2>1. PICK n \in WantedIn(names, head, depth, call[2]) : p = head \o Entry(n, head, depth)
    BY <1>3 DEF Below, head
  <2>2. IsLeaf(n, head, depth)
    BY <1>6 DEF WantedIn
  <2>3. p = n /\ n \in names /\ n \in Name /\ IsPrefix(head, n)
    BY <1>5, <2>1, <2>2
  <2>4. IsPrefix(HeadOf(ask.prefix), head)
    BY DEF head
  <2>5. IsPrefix(HeadOf(ask.prefix), n)
    BY <1>1, <1>2, <2>3, <2>4, PrefixTransitive
  <2> QED
    BY <1>1, <2>3, <2>5 DEF Listing, Under
<1>7. ASSUME NEW p \in Below(call[1], call[2])
      PROVE  IsPrefix(HeadOf(ask.prefix), HeadOf(p))
  <2>1. PICK n \in WantedIn(names, head, depth, call[2]) : p = head \o Entry(n, head, depth)
    BY <1>3 DEF Below, head
  <2>2. PICK c \in Name : c = Entry(n, head, depth)
    BY <1>5
  <2>3. p \in Name /\ IsPrefix(head, HeadOf(p))
    BY <1>1, <2>1, <2>2, HeadGrows
  <2>4. HeadOf(p) \in Name
    BY <2>3, HeadIs
  <2>5. IsPrefix(HeadOf(ask.prefix), head)
    BY DEF head
  <2> QED
    BY <1>1, <1>2, <2>3, <2>4, <2>5, PrefixTransitive
<1> QED
  BY <1>6, <1>7

LEMMA ListedNext ==
  ASSUME Typed, Typed', ListedInv, [Next]_vars
  PROVE  ListedInv'
<1>1. ASSUME UNCHANGED <<shard, ask, ever, taken>>
      PROVE  Answerable' \subseteq ever'
  <2>1. Got' = Got
    BY <1>1, SameAnswer DEF Got, PointsOf
  <2> QED
    BY <1>1, <2>1, SameAnswer DEF ListedInv, Answerable, Got
<1>2. CASE Paging
  <2>1. PICK page : Turn(page) /\ IsPage(page, Target, TargetBy)
    BY <1>2, Paged
  <2>2. /\ UNCHANGED <<shard, ask, todo, ever>>
        /\ taken' = BadKey /\ seen' = seen \cup ToSet(page)
    BY <2>1 DEF Turn, ghosts
  <2>3. ToSet(page) \subseteq Answerable
    BY <2>1 DEF IsPage, Serves, Target, Answerable
  <2>4. Answerable' = Listing
    BY <2>2, SameAnswer, NoGotNext DEF Answerable, Got
  <2> QED
    BY <2>2, <2>3, <2>4 DEF ListedInv, Answerable
<1>3. CASE GetId
  <2>1. /\ UNCHANGED <<shard, ask, todo, ever, seen>>
        /\ taken' = keyId /\ ask.what = "points"
    BY <1>3 DEF GetId, ghosts
  <2>2. Answerable' = Listing
    BY <2>1, SameAnswer DEF Answerable, Listing, PointsOf
  <2> QED
    BY <2>1, <2>2 DEF ListedInv, Answerable
<1>4. CASE TextTree
  <2>1. /\ UNCHANGED <<shard, ask, todo, ever, taken>>
        /\ ask.what = "text" /\ seen' = Listing
    BY <1>4, TextAnswer DEF TextTree, ghosts
  <2> QED
    BY <1>1, <2>1 DEF ListedInv, Answerable
<1>5. CASE \E call \in todo : Walk(call[1], call[2])
  <2>1. PICK call \in todo : Walk(call[1], call[2])
    BY <1>5
  <2>2. UNCHANGED <<shard, ask, ever, taken>>
    BY <2>1, WalkIs DEF ghosts
  <2>3. IsPrefix(HeadOf(ask.prefix), HeadOf(call[1]))
    BY <2>1 DEF ListedInv
  <2>4. PICK B : B = Below(call[1], call[2])
    OBVIOUS
  <2>5. /\ call[2] = "leaf" => B \subseteq Listing
        /\ \A p \in B : IsPrefix(HeadOf(ask.prefix), HeadOf(p))
    BY <2>1, <2>3, <2>4, WalkListed
  <2>6. CASE call[2] = "leaf"
    <3>1. seen' = seen \cup B /\ todo' \subseteq todo
      BY <2>1, <2>4, <2>6, WalkIs
    <3> QED
      BY <1>1, <2>2, <2>5, <2>6, <3>1 DEF ListedInv, Answerable
  <2>7. CASE call[2] = "branch"
    <3>1. seen' = seen /\ todo' \subseteq todo \cup B \X {"leaf", "branch"}
      BY <2>1, <2>4, <2>7, WalkIs
    <3>2. \A c \in todo' : IsPrefix(HeadOf(ask.prefix), HeadOf(c[1]))
      BY <2>5, <3>1 DEF ListedInv
    <3> QED
      BY <1>1, <2>2, <3>1, <3>2 DEF ListedInv
  <2> QED
    BY <2>1, <2>6, <2>7, WalkIs
<1>6. CASE ChangingNames \/ ChangingPoints
  <2>1. Noted /\ UNCHANGED <<ask, todo, seen>>
    BY <1>6, ChangeIs
  <2> QED
    BY <2>1 DEF ListedInv, Noted
<1>7. CASE UNCHANGED vars
  <2>1. UNCHANGED <<shard, ask, ever, taken, todo, seen>>
    BY <1>7 DEF vars, client, ghosts
  <2> QED
    BY <1>1, <2>1 DEF ListedInv
<1> QED
  BY <1>2, <1>3, <1>4, <1>5, <1>6, <1>7, NextIs


-----------------------------------------------------------------------------
(* The walk finds every name.                                              *)

(* The call that is to find n, or the branch it lies on.                   *)
Ahead(call, n) ==
  /\ IsPrefix(HeadOf(call[1]), n)
  /\ call[2] = "leaf" <=> IsLeaf(n, HeadOf(call[1]), ask.depth)

WalkInv ==
  ask.what = "walk" =>
    /\ ~reading => todo = {}
    /\ \A n \in stable : n \in seen \/ \E call \in todo : Ahead(call, n)

(* A call finds the name, or leaves another that will.                     *)
LEMMA WalkGoesOn ==
  ASSUME Typed, NEW call \in todo, Walk(call[1], call[2]), NEW n \in names, Ahead(call, n)
  PROVE  n \in seen' \/ \E c \in todo' : Ahead(c, n)
<1> DEFINE head == HeadOf(call[1])
<1>1. /\ ask.depth \in Nat \ {0} /\ head \in Name
      /\ call[2] \in {"leaf", "branch"}
  BY WalkIs
<1>2. PICK depth \in Nat \ {0} : depth = ask.depth
  BY <1>1
<1>3. n \in Names /\ n \in Name
  BY FiniteNames DEF Typed
<1> HIDE DEF head
<1>4. IsPrefix(head, n) /\ (call[2] = "leaf" <=> IsLeaf(n, head, depth))
  BY <1>2 DEF Ahead, head
<1>5. PICK e \in Name : /\ e = Entry(n, head, depth)
                        /\ IsLeaf(n, head, depth) => n = head \o e
                        /\ ~IsLeaf(n, head, depth) => OnBranch(n, head, e)
  BY <1>1, <1>3, <1>4, EntryIs
<1>6. n \in WantedIn(names, head, depth, call[2])
  BY <1>1, <1>4 DEF WantedIn, UnderIn
<1>7. head \o e \in Below(call[1], call[2])
  BY <1>2, <1>5, <1>6 DEF Below, head
<1>8. CASE call[2] = "leaf"
  <2>1. seen' = seen \cup Below(call[1], call[2])
    BY <1>8, WalkIs
  <2> QED
    BY <1>4, <1>5, <1>7, <1>8, <2>1
<1>9. CASE call[2] = "branch"
  <2> DEFINE p == head \o e
  <2>1. OnBranch(n, head, e)
    BY <1>4, <1>5, <1>9
  <2>2. p \in Name /\ Len(p) = Len(head) + Len(e) /\ Len(head) \in Nat /\ Len(e) \in Nat
    BY <1>1, NameIs, ConcatProperties DEF Name
  <2>3. IsPrefix(p \o <<Sep>>, n)
    BY <1>1, <1>3, <2>1, BranchIs
  <2> HIDE DEF p
  <2>4. p # <<>>
    <3>1. ASSUME p = <<>> PROVE FALSE
      <4>1. Len(head) = 0 /\ Len(e) = 0
        BY <2>2, <3>1
      <4>2. n[1] = Sep
        BY <2>1, <4>1 DEF OnBranch
      <4> QED
        BY <1>3, <4>2, NoEmptyFirst
    <3> QED
      BY <3>1
  <2>5. IsPrefix(HeadOf(p), n)
    BY <2>2, <2>3, <2>4, HeadIs
  <2>6. /\ <<p, "leaf">> \in todo' /\ <<p, "branch">> \in todo'
        /\ <<p, "leaf">>[1] = p /\ <<p, "leaf">>[2] = "leaf"
        /\ <<p, "branch">>[1] = p /\ <<p, "branch">>[2] = "branch"
    <3>1. todo' = (todo \ {call}) \cup Below(call[1], call[2]) \X {"leaf", "branch"}
      BY <1>9, WalkIs
    <3> QED
      BY <1>7, <3>1 DEF p
  <2>7. CASE IsLeaf(n, HeadOf(p), ask.depth)
    <3>1. Ahead(<<p, "leaf">>, n)
      BY <2>5, <2>6, <2>7 DEF Ahead
    <3> QED
      BY <2>6, <3>1
  <2>8. CASE ~IsLeaf(n, HeadOf(p), ask.depth)
    <3>1. Ahead(<<p, "branch">>, n)
      BY <2>5, <2>6, <2>8 DEF Ahead
    <3> QED
      BY <2>6, <3>1
  <2> QED
    BY <2>7, <2>8
<1> QED
  BY <1>1, <1>8, <1>9

LEMMA WalkNext ==
  ASSUME Typed, HadInv, WalkInv, [Next]_vars
  PROVE  WalkInv'
<1>1. CASE UNCHANGED <<ask, todo, reading, seen>> /\ stable' \subseteq stable
  BY <1>1 DEF WalkInv, Ahead
<1>2. ASSUME ask' = ask, ask.what # "walk"
      PROVE  WalkInv'
  BY <1>2 DEF WalkInv
<1>3. CASE Paging \/ GetId \/ TextTree
  <2>1. CASE Paging
    <3>1. ask' = ask /\ Reads
      BY <2>1, Paged DEF Turn
    <3> QED
      BY <1>2, <3>1 DEF Reads
  <2>2. CASE GetId \/ TextTree
    BY <1>2, <2>2 DEF GetId, TextTree
  <2> QED
    BY <1>3, <2>1, <2>2
<1>4. CASE \E call \in todo : Walk(call[1], call[2])
  <2>1. PICK call \in todo : Walk(call[1], call[2])
    BY <1>4
  <2>2. /\ ask.what = "walk" /\ UNCHANGED <<shard, ask, ghosts>>
        /\ reading' = (todo' # {}) /\ seen \subseteq seen'
        /\ todo \ {call} \subseteq todo'
    BY <2>1, WalkIs
  <2>3. stable' = stable /\ stable \subseteq Listing
    BY <2>2 DEF ghosts, HadInv
  <2>4. stable \subseteq names
    BY <2>2, <2>3 DEF Listing, Under
  <2>5. ASSUME NEW n \in stable
        PROVE  n \in seen' \/ \E c \in todo' : Ahead(c, n)
    <3>1. CASE n \in seen
      BY <2>2, <3>1
    <3>2. CASE \E c \in todo : Ahead(c, n)
      <4>1. PICK c \in todo : Ahead(c, n)
        BY <3>2
      <4>2. CASE c = call
        <5>1. n \in names /\ Ahead(call, n)
          BY <2>4, <4>1, <4>2
        <5> QED
          BY <2>1, <5>1, WalkGoesOn
      <4>3. CASE c # call
        BY <2>2, <4>1, <4>3
      <4> QED
        BY <4>2, <4>3
    <3> QED
      BY <2>2, <3>1, <3>2 DEF WalkInv
  <2> QED
    BY <2>2, <2>3, <2>5 DEF WalkInv, Ahead
<1>5. CASE ChangingNames \/ ChangingPoints
  <2>1. Noted /\ UNCHANGED <<ask, todo, reading, seen>>
    BY <1>5, ChangeIs
  <2>2. stable' \subseteq stable
    BY <2>1 DEF Noted
  <2> QED
    BY <1>1, <2>1, <2>2
<1>6. CASE UNCHANGED vars
  <2>1. UNCHANGED <<ask, todo, reading, seen, stable>>
    BY <1>6 DEF vars, client, ghosts
  <2> QED
    BY <1>1, <2>1
<1> QED
  BY <1>3, <1>4, <1>5, <1>6, NextIs

-----------------------------------------------------------------------------
(* What holds of every behaviour.                                          *)

IInv == Typed /\ HadInv /\ NewInv /\ TopInv /\ ListedInv /\ WalkInv

LEMMA InductiveInit == Init => IInv
<1> SUFFICES ASSUME Init PROVE IInv
  OBVIOUS
<1>1. Typed
  BY TypedInit
<1>2. /\ seen = {} /\ offset = 0 /\ taken = BadKey /\ reading /\ ~twice
      /\ stable = Listing /\ ever = Listing
      /\ todo = IF ask.what = "walk" THEN {ask.prefix} \X {"leaf", "branch"} ELSE {}
  BY DEF Init
<1>3. \A x \in Listing : Place(x, Listing, Order) \in Nat
  <2>1. PICK L, Q : L = Listing /\ Q = Order
    OBVIOUS
  <2>2. IsFiniteSet(L)
    BY <1>1, <2>1, ListingFinite DEF FiniteListing
  <2>3. ASSUME NEW x \in L PROVE Place(x, L, Q) \in Nat
    <3>1. \A y \in L : <<y, x>> \in Q => y \in L /\ <<y, x>> \in Q
      OBVIOUS
    <3> QED
      BY <2>2, <3>1, PlaceSinks
  <2> QED
    BY <2>1, <2>3
<1>4. HadInv
  BY <1>2, <1>3 DEF HadInv, Had
<1>5. NewInv
  BY <1>2 DEF NewInv, New, Within
<1>6. TopInv
  BY <1>2, <1>3 DEF TopInv
<1>7. ListedInv
  <2>1. Answerable \subseteq ever
    BY <1>1, <1>2, NoPoints DEF Answerable
  <2>2. \A call \in todo : IsPrefix(HeadOf(ask.prefix), HeadOf(call[1]))
    <3> SUFFICES ASSUME NEW call \in todo PROVE IsPrefix(HeadOf(ask.prefix), HeadOf(call[1]))
      OBVIOUS
    <3>1. call[1] = ask.prefix /\ ask.what = "walk"
      BY <1>2
    <3>2. PICK h \in Name : h = HeadOf(ask.prefix)
      BY <1>1, <3>1, AskIs, HeadIs DEF Typed
    <3>3. IsPrefix(h, h)
      BY NameIs, PrefixIs
    <3> QED
      BY <3>1, <3>2, <3>3
  <2> QED
    BY <1>2, <2>1, <2>2 DEF ListedInv
<1>8. WalkInv
  <2> SUFFICES ASSUME ask.what = "walk", NEW n \in stable
               PROVE  \E call \in todo : Ahead(call, n)
    BY <1>2 DEF WalkInv
  <2>1. IsPrefix(HeadOf(ask.prefix), n)
    BY <1>2 DEF Listing, Under
  <2>2. PICK leaf, branch : leaf = <<ask.prefix, "leaf">> /\ branch = <<ask.prefix, "branch">>
    OBVIOUS
  <2>3. leaf \in todo /\ branch \in todo
    BY <1>2, <2>2
  <2>4. Ahead(leaf, n) \/ Ahead(branch, n)
    BY <2>1, <2>2 DEF Ahead
  <2> QED
    BY <2>3, <2>4
<1> QED
  BY <1>1, <1>4, <1>5, <1>6, <1>7, <1>8 DEF IInv

LEMMA InductiveNext == IInv /\ [Next]_vars => IInv'
<1> SUFFICES ASSUME IInv, [Next]_vars PROVE IInv'
  OBVIOUS
<1>1. Typed'
  BY TypedNext DEF IInv
<1>2. HadInv' /\ NewInv' /\ TopInv' /\ ListedInv' /\ WalkInv'
  BY <1>1, HadNext, NewNext, TopNext, ListedNext, WalkNext DEF IInv
<1> QED
  BY <1>1, <1>2 DEF IInv

(* The inductive invariant holds whatever the client asks for and whatever *)
(* the shard does meanwhile.                                               *)
THEOREM Inductive == Spec => []IInv
BY InductiveInit, InductiveNext, PTL DEF Spec

(* Every variable has its type, std::sort's order fits the values, and     *)
(* only what the client reads is there.                                    *)
THEOREM TypeCorrect == Spec => []Typed
<1>1. IInv => Typed
  BY DEF IInv
<1> QED
  BY <1>1, Inductive, PTL

(* Reading by pages misses nothing that was there all the time, as long as *)
(* nothing leaves the answer and equal values keep their order.            *)
THEOREM PagesMissNothing == Spec => []NoneMissed
<1>1. IInv => NoneMissed
  BY DEF IInv, HadInv, Had, NoneMissed
<1> QED
  BY <1>1, Inductive, PTL

(* Reading by pages answers nothing twice, as long as nothing comes to the *)
(* answer and equal values keep their order.                               *)
THEOREM PagesRepeatNothing == Spec => []NoneTwice
<1>1. IInv => NoneTwice
  BY DEF IInv, NewInv, New, NoneTwice
<1> QED
  BY <1>1, Inductive, PTL

(* What a sorted answer has given by any page is greater than all that is  *)
(* left, as long as nothing changes.                                       *)
THEOREM GreatestComeFirst == Spec => []GreatestFirst
<1>1. IInv => GreatestFirst
  BY TopFirst DEF IInv
<1> QED
  BY <1>1, Inductive, PTL

(* No answer holds anything that never belonged to it.                     *)
THEOREM AnswersBelong == Spec => []OnlyListed
<1>1. IInv => OnlyListed
  BY DEF IInv, ListedInv, OnlyListed
<1> QED
  BY <1>1, Inductive, PTL

(* The walk down the tree finds every name that is there all the time,     *)
(* whatever is created, deleted or collected meanwhile.                    *)
THEOREM WalkComplete == Spec => []WalkFindsAll
<1>1. IInv => WalkFindsAll
  BY DEF IInv, WalkInv, WalkFindsAll
<1> QED
  BY <1>1, Inductive, PTL
=============================================================================
