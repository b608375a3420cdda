-------------------------------- MODULE Sums ---------------------------------
(***************************************************************************)
(* Sums over the values of a function, as SumFunction of the community     *)
(* modules defines them: a step that changes one value changes the sum by  *)
(* as much, whatever order the values are added in.                        *)
(*                                                                         *)
(* SumFunction is a recursive function on the subsets of the domain that   *)
(* takes one element at a time.  What holds of all subsets is proved here  *)
(* of a smallest one of which it would not hold.                           *)
(***************************************************************************)
EXTENDS Integers, FiniteSets, Functions, FiniteSetTheorems, TLAPS

(* Of subsets of a finite set one is smallest, and of naturals one is.     *)
LEMMA SmallestSet ==
  ASSUME NEW S, IsFiniteSet(S), NEW F \in SUBSET (SUBSET S), F # {}
  PROVE  \E T \in F : \A U \in F : U \subseteq T => U = T
<1>1. FiniteSubsetsOf(S) = SUBSET S
  BY FS_FiniteSubsetsOfFinite
<1>2. \E T \in F : \A U \in F : <<U, T>> \notin StrictSubsetOrdering(S)
  BY <1>1, FS_StrictSubsetOrderingWellFounded, WFMin
<1> QED
  BY <1>2 DEF StrictSubsetOrdering

LEMMA SmallestNumber ==
  ASSUME NEW F \in SUBSET Nat, F # {}
  PROVE  \E n \in F : \A m \in F : n <= m
<1>1. PICK k \in F : TRUE
  OBVIOUS
<1> DEFINE Up == {m \in F : m <= k}
           G == {0..m : m \in Up}
<1>2. IsFiniteSet(0..k)
  BY FS_Interval
<1>3. \A T \in G : T \in SUBSET (0..k)
  OBVIOUS
<1>4. 0..k \in G
  OBVIOUS
<1>5. PICK T \in G : \A U \in G : U \subseteq T => U = T
  <2> HIDE DEF G
  <2> QED
    BY <1>2, <1>3, <1>4, SmallestSet
<1>6. PICK n \in Up : T = 0..n
  BY <1>5
<1>7. ASSUME NEW m \in F, ~(n <= m) PROVE FALSE
  <2>1. m \in Up /\ 0..m \in G
    BY <1>6, <1>7
  <2>2. 0..m \subseteq 0..n
    BY <1>6, <1>7
  <2>3. 0..m = 0..n
    BY <1>5, <1>6, <2>1, <2>2
  <2>4. n \in 0..n
    BY <1>6
  <2> QED
    BY <1>7, <2>3, <2>4
<1> QED
  BY <1>6, <1>7

(* What one step of the recursion adds.                                    *)
Pick(s) == CHOOSE x \in s : TRUE
Unfolded(f, h, s) == IF s = {} THEN 0 ELSE f[Pick(s)] + h[s \ {Pick(s)}]

(* The recursion does define a function: it can be built for subsets of    *)
(* more and more elements.                                                 *)
LEMMA FoldExists ==
  ASSUME NEW f, NEW S, IsFiniteSet(S)
  PROVE  \E h : h = [s \in SUBSET S |-> Unfolded(f, h, s)]
<1> DEFINE UpTo(n) == {s \in SUBSET S : Cardinality(s) <= n}
           Bad == {n \in Nat : ~ \E h : DOMAIN h = SUBSET S /\ \A s \in UpTo(n) : h[s] = Unfolded(f, h, s)}
<1>0. \A s \in SUBSET S : IsFiniteSet(s) /\ Cardinality(s) \in Nat /\ Cardinality(s) <= Cardinality(S)
  BY FS_Subset, FS_CardinalityType
<1>1. Bad = {}
  <2>1. SUFFICES ASSUME Bad # {} PROVE FALSE
    OBVIOUS
  <2>2. PICK n \in Bad : \A m \in Bad : n <= m
    BY <2>1, SmallestNumber
  <2>3. CASE n = 0
    <3> DEFINE h == [s \in SUBSET S |-> 0]
    <3>1. \A s \in UpTo(n) : s = {}
      BY <1>0, <2>3, FS_EmptySet
    <3>2. DOMAIN h = SUBSET S /\ \A s \in UpTo(n) : h[s] = Unfolded(f, h, s)
      BY <3>1 DEF Unfolded
    <3> HIDE DEF h
    <3> QED
      BY <3>2
  <2>4. CASE n # 0
    <3>1. n - 1 \in Nat /\ n - 1 \notin Bad
      <4>1. n \in Nat
        OBVIOUS
      <4> HIDE DEF Bad
      <4> QED
        BY <2>2, <2>4, <4>1
    <3>2. PICK g : DOMAIN g = SUBSET S /\ \A s \in UpTo(n - 1) : g[s] = Unfolded(f, g, s)
      BY <3>1
    <3> DEFINE h == [s \in SUBSET S |-> Unfolded(f, g, s)]
    <3>3. \A s \in UpTo(n - 1) : h[s] = g[s]
      <4> HIDE DEF UpTo
      <4>1. UpTo(n - 1) \subseteq SUBSET S
        BY DEF UpTo
      <4> QED
        BY <3>2, <4>1
    <3>4. ASSUME NEW s \in UpTo(n), s # {}
          PROVE  s \ {Pick(s)} \in UpTo(n - 1)
      <4>1. Pick(s) \in s
        BY <3>4 DEF Pick
      <4> QED
        BY <1>0, <3>4, <4>1, FS_RemoveElement
    <3>5. \A s \in UpTo(n) : h[s] = Unfolded(f, h, s)
      BY <3>3, <3>4 DEF Unfolded
    <3>6. DOMAIN h = SUBSET S
      OBVIOUS
    <3> HIDE DEF h
    <3> QED
      BY <2>2, <3>5, <3>6
  <2> QED
    BY <2>3, <2>4
<1>2. Cardinality(S) \in Nat /\ Cardinality(S) \notin Bad
  BY <1>0, <1>1, FS_CardinalityType
<1>3. PICK h : DOMAIN h = SUBSET S /\ \A s \in UpTo(Cardinality(S)) : h[s] = Unfolded(f, h, s)
  BY <1>2
<1> DEFINE g == [s \in SUBSET S |-> Unfolded(f, h, s)]
<1>4. \A s \in SUBSET S : g[s] = h[s]
  BY <1>0, <1>3
<1>5. ASSUME NEW s \in SUBSET S PROVE Unfolded(f, g, s) = Unfolded(f, h, s)
  BY <1>4 DEF Unfolded
<1>6. g = [s \in SUBSET S |-> Unfolded(f, g, s)]
  BY <1>5
<1> HIDE DEF g
<1> QED
  BY <1>6

(* The sums over all subsets of the indices at once.                       *)
Totals(f) == CHOOSE h : h = [s \in SUBSET (DOMAIN f) |-> Unfolded(f, h, s)]

LEMMA SumIsTotal ==
  ASSUME NEW f
  PROVE  SumFunction(f) = Totals(f)[DOMAIN f]
  BY DEF SumFunction, SumFunctionOnSet, FoldFunctionOnSet, MapThenFoldSet, Totals, Unfolded, Pick

LEMMA TotalsUnfold ==
  ASSUME NEW f, IsFiniteSet(DOMAIN f), NEW s \in SUBSET (DOMAIN f)
  PROVE  Totals(f)[s] = Unfolded(f, Totals(f), s)
<1>1. \E h : h = [u \in SUBSET (DOMAIN f) |-> Unfolded(f, h, u)]
  BY FoldExists
<1>2. Totals(f) = [u \in SUBSET (DOMAIN f) |-> Unfolded(f, Totals(f), u)]
  BY <1>1 DEF Totals
<1> QED
  BY <1>2

(* Whatever element is taken first.                                        *)
LEMMA TotalsTakeAny ==
  ASSUME NEW S, IsFiniteSet(S), NEW f \in [S -> Int]
  PROVE  \A s \in SUBSET S :
           /\ Totals(f)[s] \in Int
           /\ \A x \in s : Totals(f)[s] = f[x] + Totals(f)[s \ {x}]
<1> DEFINE Fine(s) == /\ Totals(f)[s] \in Int
                      /\ \A x \in s : Totals(f)[s] = f[x] + Totals(f)[s \ {x}]
           Bad == {s \in SUBSET S : ~Fine(s)}
<1>0. DOMAIN f = S
  OBVIOUS
<1>1. SUFFICES ASSUME Bad # {} PROVE FALSE
  OBVIOUS
<1>2. PICK T \in Bad : \A U \in Bad : U \subseteq T => U = T
  <2>1. Bad \in SUBSET (SUBSET S)
    OBVIOUS
  <2> HIDE DEF Bad
  <2> QED
    BY <1>1, <2>1, SmallestSet
<1>3. \A U \in SUBSET T : U # T => Fine(U)
  <2> HIDE DEF Fine
  <2> QED
    BY <1>2
<1>4. Totals(f)[T] = Unfolded(f, Totals(f), T)
  BY <1>0, TotalsUnfold
<1>5. CASE T = {}
  <2>1. Fine(T)
    BY <1>4, <1>5 DEF Unfolded
  <2> QED
    BY <2>1
<1>6. CASE T # {}
  <2>1. PICK c \in T : c = Pick(T)
    BY <1>6 DEF Pick
  <2>2. Totals(f)[T] = f[c] + Totals(f)[T \ {c}]
    BY <1>4, <1>6, <2>1 DEF Unfolded
  <2>3. Fine(T \ {c})
    BY <1>3, <2>1
  <2>4. Totals(f)[T] \in Int
    BY <2>2, <2>3
  <2>5. ASSUME NEW x \in T, x # c PROVE Totals(f)[T] = f[x] + Totals(f)[T \ {x}]
    <3>1. Totals(f)[T \ {c}] = f[x] + Totals(f)[(T \ {c}) \ {x}]
      BY <2>3, <2>5
    <3>2. Fine(T \ {x}) /\ c \in T \ {x}
      BY <1>3, <2>5
    <3>3. Totals(f)[T \ {x}] = f[c] + Totals(f)[(T \ {x}) \ {c}]
      BY <3>2
    <3>4. (T \ {c}) \ {x} = (T \ {x}) \ {c} /\ (T \ {c}) \ {x} # T
      BY <2>1
    <3>5. Fine((T \ {c}) \ {x})
      <4> HIDE DEF Fine
      <4> QED
        BY <1>3, <3>4
    <3>6. f[x] \in Int /\ f[c] \in Int
      BY <2>1
    <3>7. Totals(f)[(T \ {c}) \ {x}] \in Int
      BY <3>5
    <3>8. Totals(f)[(T \ {x}) \ {c}] = Totals(f)[(T \ {c}) \ {x}]
      BY <3>4
    <3> HIDE DEF Fine
    <3> QED
      BY <2>2, <3>1, <3>3, <3>6, <3>7, <3>8
  <2>6. Fine(T)
    BY <2>2, <2>4, <2>5
  <2> QED
    BY <2>6
<1> QED
  BY <1>5, <1>6

(* Only the values that are added count.                                   *)
LEMMA TotalsLocal ==
  ASSUME NEW S, IsFiniteSet(S), NEW f \in [S -> Int], NEW g \in [S -> Int]
  PROVE  \A s \in SUBSET S : (\A x \in s : f[x] = g[x]) => Totals(f)[s] = Totals(g)[s]
<1> DEFINE Bad == {s \in SUBSET S : (\A x \in s : f[x] = g[x]) /\ Totals(f)[s] # Totals(g)[s]}
<1>1. SUFFICES ASSUME Bad # {} PROVE FALSE
  OBVIOUS
<1>2. PICK T \in Bad : \A U \in Bad : U \subseteq T => U = T
  <2>1. Bad \in SUBSET (SUBSET S)
    OBVIOUS
  <2> HIDE DEF Bad
  <2> QED
    BY <1>1, <2>1, SmallestSet
<1>3. CASE T = {}
  <2>1. Totals(f)[T] = 0 /\ Totals(g)[T] = 0
    BY <1>3, TotalsUnfold DEF Unfolded
  <2> QED
    BY <2>1
<1>4. CASE T # {}
  <2>1. PICK x \in T : TRUE
    BY <1>4
  <2>2. T \ {x} \notin Bad
    BY <1>2, <2>1
  <2>3. Totals(f)[T \ {x}] = Totals(g)[T \ {x}]
    BY <2>2
  <2> QED
    BY <2>1, <2>3, TotalsTakeAny
<1> QED
  BY <1>3, <1>4

(* The sum of integers over a finite set.                                  *)
LEMMA SumType ==
  ASSUME NEW S, IsFiniteSet(S), NEW f \in [S -> Int]
  PROVE  SumFunction(f) \in Int
<1>1. SumFunction(f) = Totals(f)[S]
  BY SumIsTotal
<1> QED
  BY <1>1, TotalsTakeAny

(* It changes by as much as one of them.                                   *)
LEMMA SumChanges ==
  ASSUME NEW S, IsFiniteSet(S), NEW f \in [S -> Int], NEW g \in [S -> Int], NEW x \in S,
         \A y \in S \ {x} : g[y] = f[y]
  PROVE  SumFunction(g) = SumFunction(f) + g[x] - f[x]
<1>1. SumFunction(f) = Totals(f)[S] /\ SumFunction(g) = Totals(g)[S]
  BY SumIsTotal
<1>2. \A h \in [S -> Int] : Totals(h)[S] = h[x] + Totals(h)[S \ {x}]
  BY TotalsTakeAny
<1>3. Totals(f)[S \ {x}] = Totals(g)[S \ {x}]
  BY TotalsLocal
<1>4. Totals(f)[S \ {x}] \in Int /\ f[x] \in Int /\ g[x] \in Int
  BY TotalsTakeAny
<1> QED
  BY <1>1, <1>2, <1>3, <1>4

LEMMA SumSame ==
  ASSUME NEW S, IsFiniteSet(S), NEW f \in [S -> Int], NEW g \in [S -> Int],
         \A y \in S : g[y] = f[y]
  PROVE  SumFunction(g) = SumFunction(f)
  BY SumIsTotal, TotalsLocal

LEMMA SumOfNothing ==
  ASSUME NEW S, IsFiniteSet(S), NEW f \in [S -> Int], \A x \in S : f[x] = 0
  PROVE  SumFunction(f) = 0
<1> DEFINE Bad == {s \in SUBSET S : Totals(f)[s] # 0}
<1>1. Bad = {}
  <2>1. SUFFICES ASSUME Bad # {} PROVE FALSE
    OBVIOUS
  <2>2. PICK T \in Bad : \A U \in Bad : U \subseteq T => U = T
    <3>1. Bad \in SUBSET (SUBSET S)
      OBVIOUS
    <3> HIDE DEF Bad
    <3> QED
      BY <2>1, <3>1, SmallestSet
  <2>3. CASE T = {}
    BY <2>2, <2>3, TotalsUnfold DEF Unfolded
  <2>4. CASE T # {}
    <3>1. PICK x \in T : TRUE
      BY <2>4
    <3>2. T \ {x} \notin Bad
      BY <2>2, <3>1
    <3>3. Totals(f)[T] = f[x] + Totals(f)[T \ {x}]
      BY <3>1, TotalsTakeAny
    <3> QED
      BY <3>1, <3>2, <3>3
  <2> QED
    BY <2>3, <2>4
<1> QED
  BY <1>1, SumIsTotal

(* A sum of noughts and ones counts the ones.                              *)
LEMMA SumCounts ==
  ASSUME NEW S, IsFiniteSet(S), NEW f \in [S -> Int], \A x \in S : f[x] = 0 \/ f[x] = 1
  PROVE  SumFunction(f) = Cardinality({x \in S : f[x] = 1})
<1> DEFINE Ones(s) == {x \in s : f[x] = 1}
           Bad == {s \in SUBSET S : Totals(f)[s] # Cardinality(Ones(s))}
<1>1. Bad = {}
  <2>1. SUFFICES ASSUME Bad # {} PROVE FALSE
    OBVIOUS
  <2>2. PICK T \in Bad : \A U \in Bad : U \subseteq T => U = T
    <3>1. Bad \in SUBSET (SUBSET S)
      OBVIOUS
    <3> HIDE DEF Bad
    <3> QED
      BY <2>1, <3>1, SmallestSet
  <2>3. CASE T = {}
    <3>1. Ones(T) = {}
      BY <2>3
    <3>2. Totals(f)[T] = 0
      BY <2>2, <2>3, TotalsUnfold DEF Unfolded
    <3> QED
      BY <2>2, <3>1, <3>2, FS_EmptySet
  <2>4. CASE T # {}
    <3>1. PICK x \in T : TRUE
      BY <2>4
    <3>2. Totals(f)[T \ {x}] = Cardinality(Ones(T \ {x}))
      BY <2>2, <3>1
    <3>3. Totals(f)[T] = f[x] + Totals(f)[T \ {x}]
      <4>1. T \in SUBSET S /\ x \in T
        BY <2>2, <3>1
      <4> HIDE DEF Bad
      <4> QED
        BY <4>1, TotalsTakeAny
    <3>4. IsFiniteSet(Ones(T))
      <4>1. Ones(T) \subseteq S
        OBVIOUS
      <4> QED
        BY <4>1, FS_Subset
    <3>5. Cardinality(Ones(T)) \in Nat
      BY <3>4, FS_CardinalityType
    <3>6. Ones(T \ {x}) = Ones(T) \ {x}
      OBVIOUS
    <3>7. Cardinality(Ones(T) \ {x}) =
            IF x \in Ones(T) THEN Cardinality(Ones(T)) - 1 ELSE Cardinality(Ones(T))
      <4> HIDE DEF Ones, Bad
      <4> QED
        BY <3>4, FS_RemoveElement
    <3>8. x \in Ones(T) <=> f[x] = 1
      BY <3>1
    <3>9. f[x] = 0 \/ f[x] = 1
      BY <3>1
    <3>10. Totals(f)[T] # Cardinality(Ones(T))
      BY <2>2
    <3> HIDE DEF Ones
    <3> QED
      BY <3>2, <3>3, <3>5, <3>6, <3>7, <3>8, <3>9, <3>10
  <2> QED
    BY <2>3, <2>4
<1> QED
  BY <1>1, SumIsTotal

(* A sum of naturals is one, and at least as great as each of them.        *)
LEMMA SumOfNaturals ==
  ASSUME NEW S, IsFiniteSet(S), NEW f \in [S -> Nat]
  PROVE  SumFunction(f) \in Nat /\ \A x \in S : f[x] <= SumFunction(f)
<1> DEFINE Bad == {s \in SUBSET S : Totals(f)[s] \notin Nat}
<1>1. Bad = {}
  <2>1. SUFFICES ASSUME Bad # {} PROVE FALSE
    OBVIOUS
  <2>2. PICK T \in Bad : \A U \in Bad : U \subseteq T => U = T
    <3>1. Bad \in SUBSET (SUBSET S)
      OBVIOUS
    <3> HIDE DEF Bad
    <3> QED
      BY <2>1, <3>1, SmallestSet
  <2>3. CASE T = {}
    BY <2>2, <2>3, TotalsUnfold DEF Unfolded
  <2>4. CASE T # {}
    <3>1. PICK x \in T : TRUE
      BY <2>4
    <3>2. T \ {x} \notin Bad
      BY <2>2, <3>1
    <3>3. Totals(f)[T] = f[x] + Totals(f)[T \ {x}]
      BY <3>1, TotalsTakeAny
    <3> QED
      BY <3>1, <3>2, <3>3
  <2> QED
    BY <2>3, <2>4
<1>2. SumFunction(f) = Totals(f)[S]
  BY SumIsTotal
<1>3. ASSUME NEW x \in S PROVE f[x] <= SumFunction(f)
  <2>1. Totals(f)[S] = f[x] + Totals(f)[S \ {x}]
    BY TotalsTakeAny
  <2>2. Totals(f)[S \ {x}] \in Nat
    BY <1>1
  <2> QED
    BY <1>2, <2>1, <2>2
<1> QED
  BY <1>1, <1>2, <1>3

-----------------------------------------------------------------------------
(* Sums of sequences: the first k values.                                  *)
Upto(f, k) == Totals(f)[1..k]

LEMMA SumUpto ==
  ASSUME NEW n \in Nat, NEW f \in [1..n -> Int]
  PROVE  /\ SumFunction(f) = Upto(f, n) /\ Upto(f, 0) = 0
         /\ \A k \in 0..n : Upto(f, k) \in Int
         /\ \A k \in 1..n : Upto(f, k) = Upto(f, k - 1) + f[k]
<1>1. IsFiniteSet(1..n) /\ \A k \in 0..n : 1..k \in SUBSET (1..n)
  BY FS_Interval
<1>2. \A s \in SUBSET (1..n) : Totals(f)[s] \in Int
                             /\ \A x \in s : Totals(f)[s] = f[x] + Totals(f)[s \ {x}]
  <2>1. PICK S : S = 1..n
    OBVIOUS
  <2>2. PICK h \in [S -> Int] : h = f
    BY <2>1
  <2>3. IsFiniteSet(S)
    BY <1>1, <2>1
  <2>4. \A s \in SUBSET S : /\ Totals(h)[s] \in Int
                           /\ \A x \in s : Totals(h)[s] = h[x] + Totals(h)[s \ {x}]
    BY <2>3, TotalsTakeAny
  <2> QED
    BY <2>1, <2>2, <2>4
<1>3. SumFunction(f) = Upto(f, n)
  <2>1. DOMAIN f = 1..n
    OBVIOUS
  <2> QED
    BY <2>1, SumIsTotal DEF Upto
<1>4. Upto(f, 0) = 0
  <2>1. 1..0 = {}
    OBVIOUS
  <2>2. Totals(f)[{}] = 0
    BY <1>1, TotalsUnfold DEF Unfolded
  <2> QED
    BY <2>1, <2>2 DEF Upto
<1>5. ASSUME NEW k \in 1..n PROVE Upto(f, k) = Upto(f, k - 1) + f[k]
  <2>1. (1..k) \ {k} = 1..(k - 1) /\ k \in 1..k /\ k \in 0..n /\ k - 1 \in 0..n
    OBVIOUS
  <2>2. PICK u : u = Totals(f)[1..(k - 1)]
    OBVIOUS
  <2>3. Totals(f)[1..k] = f[k] + u
    BY <1>1, <1>2, <2>1, <2>2
  <2>4. u \in Int /\ f[k] \in Int
    BY <1>1, <1>2, <2>1, <2>2
  <2>5. f[k] + u = u + f[k]
    BY <2>4
  <2> QED
    BY <2>2, <2>3, <2>5 DEF Upto
<1> QED
  BY <1>1, <1>2, <1>3, <1>4, <1>5 DEF Upto

(* Where two sequences agree for d values, their sums grow by as much.     *)
Agree(n, f, a, aa, m, g, b, bb, d) ==
    /\ n \in Nat /\ f \in [1..n -> Int] /\ a \in 0..n /\ aa \in 0..n
    /\ m \in Nat /\ g \in [1..m -> Int] /\ b \in 0..m /\ bb \in 0..m
    /\ d \in Nat /\ aa = a + d /\ bb = b + d
    /\ \A j \in 1..d : f[a + j] = g[b + j]

LEMMA SumsGrowAlike ==
  ASSUME NEW n, NEW f, NEW m, NEW g, NEW a, NEW b, NEW d, NEW aa, NEW bb,
         Agree(n, f, a, aa, m, g, b, bb, d)
  PROVE  Upto(f, aa) - Upto(f, a) = Upto(g, bb) - Upto(g, b)
<1> DEFINE Bad == {k \in 0..d : Upto(f, a + k) - Upto(f, a) # Upto(g, b + k) - Upto(g, b)}
<1>a. /\ n \in Nat /\ f \in [1..n -> Int] /\ a \in 0..n /\ m \in Nat /\ g \in [1..m -> Int]
      /\ b \in 0..m /\ d \in Nat
  BY DEF Agree
<1> USE <1>a
<1>0. /\ \A k \in 0..n : Upto(f, k) \in Int
      /\ \A k \in 0..m : Upto(g, k) \in Int
      /\ \A k \in 1..n : Upto(f, k) = Upto(f, k - 1) + f[k]
      /\ \A k \in 1..m : Upto(g, k) = Upto(g, k - 1) + g[k]
  BY SumUpto
<1>1. Bad = {}
  <2>1. SUFFICES ASSUME Bad # {} PROVE FALSE
    OBVIOUS
  <2>2. PICK k \in Bad : \A j \in Bad : k <= j
    <3>1. Bad \in SUBSET Nat
      OBVIOUS
    <3> HIDE DEF Bad
    <3> QED
      BY <2>1, <3>1, SmallestNumber
  <2>3. CASE k = 0
    <3>1. Upto(f, a) \in Int /\ Upto(g, b) \in Int /\ a + 0 = a /\ b + 0 = b
      BY <1>0
    <3> QED
      BY <2>2, <2>3, <3>1
  <2>4. CASE k # 0
    <3>1. k \in 1..d /\ k - 1 \in 0..d /\ k - 1 \notin Bad
      <4>1. k \in 0..d
        BY <2>2
      <4> HIDE DEF Bad
      <4> QED
        BY <2>2, <2>4, <4>1
    <3>2. Upto(f, a + (k - 1)) - Upto(f, a) = Upto(g, b + (k - 1)) - Upto(g, b)
      BY <3>1
    <3>3. a + k \in 1..n /\ b + k \in 1..m /\ a + (k - 1) \in 0..n /\ b + (k - 1) \in 0..m
      BY <3>1 DEF Agree
    <3>4. (a + k) - 1 = a + (k - 1) /\ (b + k) - 1 = b + (k - 1)
      BY <3>1
    <3>5. /\ Upto(f, a + k) = Upto(f, a + (k - 1)) + f[a + k]
          /\ Upto(g, b + k) = Upto(g, b + (k - 1)) + g[b + k]
      BY <1>0, <3>3, <3>4
    <3>6. f[a + k] = g[b + k] /\ f[a + k] \in Int
      BY <3>1, <3>3 DEF Agree
    <3>7. /\ Upto(f, a + (k - 1)) \in Int /\ Upto(f, a) \in Int
          /\ Upto(g, b + (k - 1)) \in Int /\ Upto(g, b) \in Int
      BY <1>0, <3>3
    <3>8. Upto(f, a + k) - Upto(f, a) = Upto(g, b + k) - Upto(g, b)
      <4>1. PICK f0, f1, f2 : f0 \in Int /\ f1 \in Int /\ f0 = Upto(f, a) /\ f1 = Upto(f, a + (k - 1))
             /\ f2 = Upto(f, a + k)
        BY <3>7
      <4>2. PICK g0, g1, g2 : g0 \in Int /\ g1 \in Int /\ g0 = Upto(g, b) /\ g1 = Upto(g, b + (k - 1))
             /\ g2 = Upto(g, b + k)
        BY <3>7
      <4>3. PICK x \in Int : x = f[a + k] /\ x = g[b + k]
        BY <3>6
      <4>4. f1 - f0 = g1 - g0 /\ f2 = f1 + x /\ g2 = g1 + x
        BY <3>2, <3>5, <4>1, <4>2, <4>3, Zenon
      <4>5. f0 \in Int /\ f1 \in Int /\ g0 \in Int /\ g1 \in Int
        BY <4>1, <4>2
      <4>6. f2 - f0 = g2 - g0
        BY <4>4, <4>5
      <4> QED
        BY <4>1, <4>2, <4>6
    <3> QED
      BY <2>2, <3>8
  <2> QED
    BY <2>3, <2>4
<1>2. d \in 0..d
  OBVIOUS
<1>3. d \notin Bad
  <2> HIDE DEF Bad
  <2> QED
    BY <1>1
<1>4. Upto(f, a + d) - Upto(f, a) = Upto(g, b + d) - Upto(g, b)
  BY <1>2, <1>3
<1> QED
  BY <1>4 DEF Agree

(* One more value at the end.                                              *)
LEMMA SumOfOneMore ==
  ASSUME NEW n \in Nat, NEW f \in [1..n -> Int], NEW m \in Nat, m = n + 1, NEW g \in [1..m -> Int],
         Agree(n, f, 0, n, m, g, 0, n, n)
  PROVE  SumFunction(g) = SumFunction(f) + g[m]
<1>1. PICK z \in Nat : z = 0
  OBVIOUS
<1>2. /\ z \in 0..n /\ z \in 0..m /\ n \in 0..n /\ n \in 0..m
      /\ Agree(n, f, z, n, m, g, z, n, n)
  BY <1>1
<1>3. Upto(f, n) - Upto(f, z) = Upto(g, n) - Upto(g, z)
  BY <1>2, SumsGrowAlike
<1>4. /\ SumFunction(f) = Upto(f, n) /\ Upto(f, 0) = 0
      /\ \A k \in 0..n : Upto(f, k) \in Int
  BY SumUpto
<1>5. /\ SumFunction(g) = Upto(g, m) /\ Upto(g, 0) = 0
      /\ \A k \in 0..m : Upto(g, k) \in Int
      /\ \A k \in 1..m : Upto(g, k) = Upto(g, k - 1) + g[k]
  BY SumUpto
<1>6. m \in 1..m /\ m - 1 = n /\ n \in 0..n /\ n \in 0..m
  BY <1>1
<1>7. Upto(g, m) = Upto(g, n) + g[m]
  BY <1>5, <1>6
<1>8. PICK f1 \in Int, g1 \in Int : f1 = Upto(f, n) /\ g1 = Upto(g, n)
  BY <1>4, <1>5, <1>6
<1>9. f1 = g1
  <2>1. f1 - 0 = g1 - 0
    BY <1>1, <1>3, <1>4, <1>5, <1>6, <1>8, Zenon
  <2> QED
    BY <2>1
<1> QED
  BY <1>4, <1>5, <1>7, <1>8, <1>9

(* Two neighbours put together.                                            *)
Joined(n, f, m, g, i) ==
    /\ n \in Nat /\ f \in [1..n -> Int] /\ m \in Nat /\ g \in [1..m -> Int]
    /\ n = m + 1 /\ i \in 1..m /\ g[i] = f[i] + f[i + 1]
    /\ \A j \in 1..(i - 1) : g[j] = f[j]
    /\ \A j \in (i + 1)..m : g[j] = f[j + 1]

LEMMA SumOfNeighbours ==
  ASSUME NEW n, NEW f, NEW m, NEW g, NEW i, Joined(n, f, m, g, i)
  PROVE  SumFunction(g) = SumFunction(f)
<1>a. /\ n \in Nat /\ f \in [1..n -> Int] /\ m \in Nat /\ g \in [1..m -> Int]
      /\ n = m + 1 /\ i \in 1..m /\ g[i] = f[i] + f[i + 1]
  BY DEF Joined
<1>b. /\ \A j \in 1..(i - 1) : g[j] = f[j]
      /\ \A j \in (i + 1)..m : g[j] = f[j + 1]
  BY DEF Joined
<1> USE <1>a
<1>1. PICK z \in Nat, h \in Nat, k \in Nat, d \in Nat : z = 0 /\ h = i - 1 /\ k = i + 1 /\ d = m - i
  <2>1. 0 \in Nat /\ i - 1 \in Nat /\ i + 1 \in Nat /\ m - i \in Nat
    OBVIOUS
  <2> QED
    BY <2>1
<1>2. Upto(f, h) - Upto(f, z) = Upto(g, h) - Upto(g, z)
  <2>1. \A j \in 1..h : f[z + j] = g[z + j]
    BY <1>b, <1>1
  <2>2. Agree(n, f, z, h, m, g, z, h, h)
    BY <1>1, <2>1 DEF Agree
  <2> QED
    BY <2>2, SumsGrowAlike
<1>3. Upto(f, n) - Upto(f, k) = Upto(g, m) - Upto(g, i)
  <2>1. \A j \in 1..d : f[k + j] = g[i + j]
    <3>1. ASSUME NEW j \in 1..d PROVE f[k + j] = g[i + j]
      <4>1. i + j \in (i + 1)..m /\ k + j = (i + j) + 1
        BY <1>1
      <4> QED
        BY <1>b, <4>1
    <3> QED
      BY <3>1
  <2>2. Agree(n, f, k, n, m, g, i, m, d)
    BY <1>1, <2>1 DEF Agree
  <2> QED
    BY <2>2, SumsGrowAlike
<1>4. /\ SumFunction(f) = Upto(f, n) /\ Upto(f, 0) = 0
      /\ \A j \in 0..n : Upto(f, j) \in Int
      /\ \A j \in 1..n : Upto(f, j) = Upto(f, j - 1) + f[j]
  BY SumUpto
<1>5. /\ SumFunction(g) = Upto(g, m) /\ Upto(g, 0) = 0
      /\ \A j \in 0..m : Upto(g, j) \in Int
      /\ \A j \in 1..m : Upto(g, j) = Upto(g, j - 1) + g[j]
  BY SumUpto
<1>6. /\ k - 1 = i
      /\ i \in 1..n /\ k \in 1..n /\ h \in 0..n /\ h \in 0..m /\ i \in 0..n /\ i \in 0..m
      /\ n \in 0..n /\ m \in 0..m /\ k \in 0..n
  BY <1>1
<1>7. /\ Upto(f, k) = Upto(f, i) + f[k] /\ Upto(f, i) = Upto(f, h) + f[i]
      /\ Upto(g, i) = Upto(g, h) + g[i] /\ g[i] = f[i] + f[k]
  BY <1>1, <1>4, <1>5, <1>6
<1>8. PICK f0 \in Int, f1 \in Int, f2 \in Int, f3 \in Int :
        f0 = Upto(f, h) /\ f1 = Upto(f, i) /\ f2 = Upto(f, k) /\ f3 = Upto(f, n)
  BY <1>4, <1>6
<1>9. PICK g0 \in Int, g1 \in Int, g3 \in Int :
        g0 = Upto(g, h) /\ g1 = Upto(g, i) /\ g3 = Upto(g, m)
  BY <1>5, <1>6
<1>10. PICK x \in Int, y \in Int : x = f[i] /\ y = f[k]
  BY <1>6
<1>11. /\ f0 - 0 = g0 - 0 /\ f3 - f2 = g3 - g1
       /\ f2 = f1 + y /\ f1 = f0 + x /\ g1 = g0 + (x + y)
  BY <1>1, <1>2, <1>3, <1>4, <1>5, <1>6, <1>7, <1>8, <1>9, <1>10, Zenon
<1>12. f3 = g3
  BY <1>11
<1> QED
  BY <1>4, <1>5, <1>8, <1>9, <1>12
=============================================================================
