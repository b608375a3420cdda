---------------------------- MODULE AddPathProofs ----------------------------
(***************************************************************************)
(* Theorems about the way of a sample, for every set of threads and every  *)
(* bound: its types, what a saved point and a record may claim, and what a *)
(* compaction leaves.                                                      *)
(***************************************************************************)
EXTENDS AddPath, Sums, SequenceTheorems

-----------------------------------------------------------------------------
(* What a reader finds in a window's entries is the sum of their counts,   *)
(* so long as they can be read; no compaction changes it.                  *)

Logs == Seq(Entries(Nat))

Values(e) == [i \in 1..Len(e) |-> Deserialize(e[i].value)]

SumOf(e) == SumFunction(Values(e))

LEMMA Deserialized ==
  /\ \A v \in Nat \cup {Unreadable} : Deserialize(v) \in Nat
  /\ \A v \in Int : Deserialize(v) = v
  /\ \A v : Deserialize(Deserialize(v)) = Deserialize(v)
  BY UnreadableAssumption DEF Deserialize

LEMMA ValuesTyped ==
  ASSUME NEW e \in Logs
  PROVE  /\ Len(e) \in Nat /\ Values(e) \in [1..Len(e) -> Nat]
         /\ Values(e) \in [1..Len(e) -> Int] /\ SumOf(e) \in Nat
         /\ \A i \in 1..Len(e) : /\ Values(e)[i] = Deserialize(e[i].value)
                                 /\ Values(e)[i] \in Nat /\ Values(e)[i] <= SumOf(e)
<1>1. Len(e) \in Nat
  BY DEF Logs
<1>2. ASSUME NEW i \in 1..Len(e) PROVE e[i].value \in Nat \cup {Unreadable}
  <2>1. e[i] \in Entries(Nat)
    BY DEF Logs
  <2> QED
    BY <2>1 DEF Entries
<1>3. \A i \in 1..Len(e) : Deserialize(e[i].value) \in Nat
  BY <1>2, Deserialized
<1>4. Values(e) \in [1..Len(e) -> Nat] /\ Values(e) \in [1..Len(e) -> Int]
  BY <1>3 DEF Values
<1>5. \A i \in 1..Len(e) : Values(e)[i] = Deserialize(e[i].value) /\ Values(e)[i] \in Nat
  BY <1>3 DEF Values
<1>6. IsFiniteSet(1..Len(e))
  BY <1>1, FS_Interval
<1>7. PICK S : S = 1..Len(e)
  OBVIOUS
<1>8. SumFunction(Values(e)) \in Nat /\ \A x \in S : Values(e)[x] <= SumFunction(Values(e))
  BY <1>4, <1>6, <1>7, SumOfNaturals
<1> QED
  BY <1>1, <1>4, <1>5, <1>7, <1>8 DEF SumOf

Folded(base, e) ==
    CHOOSE h : h = [s \in SUBSET (DOMAIN e) |->
                      IF s = {} THEN base
                      ELSE Merge(h[s \ {Max(s)}], e[Max(s)].value)]

FoldedFrom(base, e) == Folded(base, e)[DOMAIN e]

LEMMA ReadIsFolded ==
  ASSUME NEW e
  PROVE  ReadOf(e) = IF e # <<>> /\ e[1].set
                     THEN FoldedFrom(e[1].value, SubSeq(e, 1 + 1, Len(e)))
                     ELSE FoldedFrom(NoValue, SubSeq(e, 0 + 1, Len(e)))
<1> DEFINE first == IF e # <<>> /\ e[1].set THEN 1 ELSE 0
           base  == IF first = 1 THEN e[1].value ELSE NoValue
           operands == SubSeq(e, first + 1, Len(e))
<1>1. ReadOf(e) = FoldedFrom(base, operands)
  BY DEF ReadOf, FoldLeft, MapThenFoldSet, Folded, FoldedFrom
<1>2. CASE e # <<>> /\ e[1].set
  <2>1. first = 1
    BY <1>2
  <2>2. base = e[1].value /\ operands = SubSeq(e, 1 + 1, Len(e))
    BY <2>1
  <2> HIDE DEF base, operands
  <2> QED
    BY <1>1, <1>2, <2>2
<1>3. CASE ~(e # <<>> /\ e[1].set)
  <2>1. first = 0
    BY <1>3
  <2>2. base = NoValue /\ operands = SubSeq(e, 0 + 1, Len(e))
    BY <2>1
  <2> HIDE DEF base, operands
  <2> QED
    BY <1>1, <1>3, <2>2
<1> QED
  BY <1>2, <1>3

LEMMA MaxOfSome ==
  ASSUME NEW n \in Nat, NEW s \in SUBSET (1..n), s # {}
  PROVE  Max(s) \in s
<1> DEFINE Up == {n - x : x \in s}
<1>1. Up \in SUBSET Nat /\ Up # {}
  <2>1. PICK y \in s : TRUE
    OBVIOUS
  <2>2. n - y \in Up
    BY <2>1
  <2>3. \A k \in s : n - k \in Nat
    OBVIOUS
  <2> QED
    BY <2>2, <2>3
<1>2. PICK m \in Up : \A k \in Up : m <= k
  <2> HIDE DEF Up
  <2> QED
    BY <1>1, SmallestNumber
<1>3. PICK x \in s : m = n - x
  BY <1>2
<1>4. ASSUME NEW y \in s PROVE x >= y
  <2>1. n - y \in Up
    OBVIOUS
  <2>2. m <= n - y
    <3> HIDE DEF Up
    <3> QED
      BY <1>2, <2>1
  <2> QED
    BY <1>3, <2>2
<1> QED
  BY <1>4 DEF Max

(* One after the other: what is not there counts as the first value.       *)
LEMMA FoldedSum ==
  ASSUME NEW base \in Nat \cup {Unreadable}, NEW e \in Logs
  PROVE  FoldedFrom(base, e)
           = IF e = <<>> THEN base ELSE Deserialize(base) + SumOf(e)
<1> DEFINE D == 1..Len(e)
           Step(h, s) == IF s = {} THEN base
                         ELSE Merge(h[s \ {Max(s)}], e[Max(s)].value)
           T == Totals(Values(e))
           g == [s \in SUBSET D |-> IF s = {} THEN base ELSE Deserialize(base) + T[s]]
<1>0. /\ DOMAIN e = D /\ Len(e) \in Nat /\ Deserialize(base) \in Nat
      /\ \A i \in D : Values(e)[i] = Deserialize(e[i].value)
  BY ValuesTyped, Deserialized DEF Logs
<1>1. /\ T[{}] = 0
      /\ \A s \in SUBSET D : /\ T[s] \in Int
                            /\ \A x \in s : T[s] = Values(e)[x] + T[s \ {x}]
  <2>1. Values(e) \in [D -> Int] /\ IsFiniteSet(D) /\ DOMAIN Values(e) = D
    BY <1>0, ValuesTyped, FS_Interval
  <2>2. T[{}] = 0
    <3>1. T[{}] = Unfolded(Values(e), T, {})
      BY <2>1, TotalsUnfold
    <3> QED
      BY <3>1 DEF Unfolded
  <2> HIDE DEF D
  <2> QED
    BY <2>1, <2>2, TotalsTakeAny
<1>2. ASSUME NEW s \in SUBSET D PROVE g[s] = Step(g, s)
  <2>1. CASE s = {}
    BY <2>1
  <2>2. CASE s # {}
    <3>1. PICK x \in s : x = Max(s)
      BY <1>0, <2>2, MaxOfSome
    <3>2. T[s] = Deserialize(e[x].value) + T[s \ {x}] /\ T[s \ {x}] \in Int
      BY <1>0, <1>1
    <3>3. Deserialize(e[x].value) \in Nat
      BY <1>0, ValuesTyped
    <3>4. Deserialize(g[s \ {x}]) = Deserialize(base) + T[s \ {x}]
      <4>1. CASE s \ {x} = {}
        <5>1. T[s \ {x}] = 0 /\ g[s \ {x}] = base
          BY <1>1, <4>1
        <5> QED
          BY <1>0, <5>1
      <4>2. CASE s \ {x} # {}
        <5>1. g[s \ {x}] = Deserialize(base) + T[s \ {x}]
          BY <4>2
        <5>2. g[s \ {x}] \in Int
          BY <1>0, <3>2, <5>1
        <5> QED
          BY <5>1, <5>2, Deserialized
      <4> QED
        BY <4>1, <4>2
    <3>5. g[s] = Deserialize(base) + T[s]
      BY <2>2
    <3>6. Merge(g[s \ {x}], e[x].value) = g[s]
      BY <1>0, <3>2, <3>3, <3>4, <3>5 DEF Merge
    <3> QED
      BY <2>2, <3>1, <3>6
  <2> QED
    BY <2>1, <2>2
<1>3. g = [s \in SUBSET D |-> Step(g, s)]
  BY <1>2
<1> DEFINE h == Folded(base, e)
<1>4. h = [s \in SUBSET D |-> Step(h, s)]
  <2>1. \E k : k = [s \in SUBSET D |-> Step(k, s)]
    <3> HIDE DEF g
    <3> QED
      BY <1>3
  <2> QED
    BY <1>0, <2>1 DEF Folded
<1> DEFINE Bad == {s \in SUBSET D : h[s] # g[s]}
<1>5. Bad = {}
  <2>1. SUFFICES ASSUME Bad # {} PROVE FALSE
    OBVIOUS
  <2>2. PICK s \in Bad : \A u \in Bad : u \subseteq s => u = s
    <3>1. Bad \in SUBSET (SUBSET D) /\ IsFiniteSet(D)
      BY <1>0, FS_Interval
    <3> HIDE DEF Bad, D
    <3> QED
      BY <2>1, <3>1, SmallestSet
  <2>3. h[s] = Step(h, s) /\ g[s] = Step(g, s) /\ s \in SUBSET D /\ h[s] # g[s]
    <3> HIDE DEF h, g, Step
    <3> QED
      BY <1>2, <1>4
  <2>4. CASE s = {}
    BY <2>3, <2>4
  <2>5. CASE s # {}
    <3>1. PICK x \in s : x = Max(s)
      BY <1>0, <2>3, <2>5, MaxOfSome
    <3>2. s \ {x} \notin Bad /\ s \ {x} \in SUBSET D
      <4> HIDE DEF Bad
      <4> QED
        BY <2>2, <2>3, <3>1
    <3>3. h[s \ {x}] = g[s \ {x}]
      <4> HIDE DEF h, g
      <4> QED
        BY <3>2
    <3> HIDE DEF h, g
    <3> QED
      BY <2>3, <2>5, <3>1, <3>3
  <2> QED
    BY <2>4, <2>5
<1>6. D \in SUBSET D /\ D \notin Bad
  <2> HIDE DEF Bad
  <2> QED
    BY <1>5
<1>7. h[D] = g[D]
  <2> HIDE DEF h, g
  <2> QED
    BY <1>6
<1>8. g[D] = IF e = <<>> THEN base ELSE Deserialize(base) + SumOf(e)
  <2>1. D = {} <=> e = <<>>
    BY <1>0 DEF Logs
  <2>2. SumOf(e) = T[D]
    <3>1. DOMAIN Values(e) = D
      BY ValuesTyped
    <3> QED
      BY <3>1, SumIsTotal DEF SumOf
  <2> QED
    BY <2>1, <2>2
<1> QED
  BY <1>0, <1>7, <1>8 DEF FoldedFrom

LEMMA SumOfNone ==
  ASSUME NEW e \in Logs, Len(e) = 0
  PROVE  SumOf(e) = 0
<1>1. PICK S : S = 1..Len(e)
  OBVIOUS
<1>2. S = {} /\ IsFiniteSet(S) /\ Values(e) \in [S -> Int]
  BY <1>1, FS_EmptySet, ValuesTyped
<1> QED
  BY <1>2, SumOfNothing DEF SumOf

LEMMA SumOfFirst ==
  ASSUME NEW e \in Logs, e # <<>>
  PROVE  SumOf(e) = Deserialize(e[1].value) + SumOf(Tail(e))
<1> DEFINE n == Len(e)
           f == Values(e)
           g == Values(Tail(e))
<1>1. Tail(e) \in Logs /\ Len(Tail(e)) = n - 1 /\ n \in Nat /\ n >= 1
  BY DEF Logs
<1>2. /\ f \in [1..n -> Int] /\ g \in [1..(n - 1) -> Int]
      /\ \A i \in 1..n : f[i] = Deserialize(e[i].value)
      /\ \A i \in 1..(n - 1) : g[i] = Deserialize(Tail(e)[i].value)
  BY <1>1, ValuesTyped
<1>a. PICK z \in Nat, l \in Nat, m \in Nat : z = 0 /\ l = n - 1 /\ m = n
  <2>1. 0 \in Nat /\ n - 1 \in Nat /\ n \in Nat
    BY <1>1
  <2> QED
    BY <2>1
<1>b. PICK ff \in [1..m -> Int], gg \in [1..l -> Int] : ff = f /\ gg = g
  BY <1>2, <1>a
<1>3. z = 0 /\ l = n - 1 /\ m = n /\ ff = f /\ gg = g
  BY <1>a, <1>b
<1>4. PICK u \in Nat : u = 1
  OBVIOUS
<1>5. \A i \in 1..l : ff[u + i] = gg[z + i]
  <2>1. ASSUME NEW i \in 1..l PROVE ff[1 + i] = gg[i]
    <3>1. Tail(e)[i] = e[i + 1] /\ i + 1 \in 1..n /\ i \in 1..(n - 1)
      BY <1>1, <1>3 DEF Logs
    <3>2. g[i] = Deserialize(e[i + 1].value) /\ f[i + 1] = Deserialize(e[i + 1].value)
      BY <1>2, <3>1
    <3> QED
      BY <1>3, <3>2
  <2> QED
    BY <1>3, <1>4, <2>1
<1>6. Agree(m, ff, u, m, l, gg, z, l, l)
  BY <1>1, <1>3, <1>4, <1>5 DEF Agree
<1>7. Upto(ff, m) - Upto(ff, u) = Upto(gg, l) - Upto(gg, z)
  BY <1>6, SumsGrowAlike
<1>8. /\ SumFunction(ff) = Upto(ff, m) /\ Upto(ff, 0) = 0
      /\ \A k \in 0..m : Upto(ff, k) \in Int
      /\ \A k \in 1..m : Upto(ff, k) = Upto(ff, k - 1) + ff[k]
  BY SumUpto
<1>9. /\ SumFunction(gg) = Upto(gg, l) /\ Upto(gg, 0) = 0
      /\ \A k \in 0..l : Upto(gg, k) \in Int
  BY SumUpto
<1>10. Upto(ff, u) = 0 + ff[1]
  BY <1>1, <1>3, <1>4, <1>8
<1>11. ff[1] \in Int /\ ff[1] = Deserialize(e[1].value)
  BY <1>1, <1>2, <1>3
<1>12. Upto(ff, m) \in Int /\ Upto(gg, l) \in Int
  BY <1>8, <1>9
<1>13. PICK a \in Int, b \in Int, c \in Int : a = Upto(ff, m) /\ b = Upto(gg, l) /\ c = ff[1]
  BY <1>11, <1>12
<1>14. a - (0 + c) = b - 0
  BY <1>3, <1>7, <1>9, <1>10, <1>13, Zenon
<1>15. a = c + b
  BY <1>14
<1>16. SumOf(e) = a /\ SumOf(Tail(e)) = b
  BY <1>3, <1>8, <1>9, <1>13 DEF SumOf
<1> QED
  BY <1>11, <1>13, <1>15, <1>16

(* ... but for a single value that was set, which is read as it is.        *)
LEMMA ReadIsSum ==
  ASSUME NEW e \in Logs
  PROVE  ReadOf(e) = IF Len(e) = 1 /\ e[1].set THEN e[1].value ELSE SumOf(e)
<1>0. Len(e) \in Nat /\ DOMAIN e = 1..Len(e)
  BY DEF Logs
<1>1. CASE e # <<>> /\ e[1].set
  <2>1. Tail(e) \in Logs /\ Len(Tail(e)) = Len(e) - 1 /\ Len(e) >= 1 /\ SubSeq(e, 1 + 1, Len(e)) = Tail(e)
    BY <1>0, <1>1 DEF Logs
  <2>2. e[1].value \in Nat \cup {Unreadable}
    <3>1. e[1] \in Entries(Nat)
      BY <1>0, <2>1 DEF Logs
    <3> QED
      BY <3>1 DEF Entries
  <2>3. ReadOf(e) = FoldedFrom(e[1].value, Tail(e))
    BY <1>1, <2>1, ReadIsFolded
  <2>4. ReadOf(e) = IF Tail(e) = <<>> THEN e[1].value ELSE Deserialize(e[1].value) + SumOf(Tail(e))
    BY <2>1, <2>2, <2>3, FoldedSum
  <2>5. SumOf(e) = Deserialize(e[1].value) + SumOf(Tail(e))
    BY <2>1, SumOfFirst
  <2> QED
    BY <1>0, <1>1, <2>1, <2>4, <2>5
<1>2. CASE ~(e # <<>> /\ e[1].set)
  <2>1. ReadOf(e) = FoldedFrom(NoValue, e)
    <3>1. SubSeq(e, 0 + 1, Len(e)) = e
      BY <1>0 DEF Logs
    <3> QED
      BY <1>2, <3>1, ReadIsFolded
  <2>2. ReadOf(e) = IF e = <<>> THEN 0 ELSE Deserialize(0) + SumOf(e)
    BY <2>1, FoldedSum DEF NoValue
  <2>3. Deserialize(0) = 0 /\ SumOf(e) \in Nat
    BY Deserialized, ValuesTyped
  <2>4. e = <<>> => SumOf(e) = 0
    BY SumOfNone
  <2> QED
    BY <1>0, <1>2, <2>2, <2>3, <2>4
<1> QED
  BY <1>1, <1>2

LEMMA SumOfOnly ==
  ASSUME NEW e \in Logs, Len(e) = 1
  PROVE  SumOf(e) = Deserialize(e[1].value)
<1>1. e # <<>>
  OBVIOUS
<1>2. Tail(e) \in Logs /\ Len(Tail(e)) = 0
  BY <1>1 DEF Logs
<1>3. Deserialize(e[1].value) \in Nat
  BY ValuesTyped
<1>4. SumOf(Tail(e)) = 0
  BY <1>2, SumOfNone
<1>5. SumOf(e) = Deserialize(e[1].value) + SumOf(Tail(e))
  BY <1>1, SumOfFirst
<1> QED
  BY <1>3, <1>4, <1>5

(* Neighbours combined are a log again, shorter by one.                    *)
LEMMA CombinedLog ==
  ASSUME NEW e \in Logs, NEW i \in 1..Len(e) - 1
  PROVE  /\ Combined(e, i) \in Logs /\ Len(Combined(e, i)) = Len(e) - 1
         /\ \A j \in 1..(i - 1) : Combined(e, i)[j] = e[j]
         /\ Combined(e, i)[i].set = e[i].set
         /\ Combined(e, i)[i].value = Merge(e[i].value, e[i + 1].value)
         /\ \A j \in (i + 1)..Len(e) - 1 : Combined(e, i)[j] = e[j + 1]
<1> DEFINE c == [e[i] EXCEPT !.value = Merge(@, e[i + 1].value)]
           a == SubSeq(e, 1, i - 1)
           b == SubSeq(e, i + 2, Len(e))
<1>0. Len(e) \in Nat /\ DOMAIN e = 1..Len(e) /\ i \in 1..Len(e) /\ i + 1 \in 1..Len(e)
  BY DEF Logs
<1>1. e[i] \in Entries(Nat) /\ e[i + 1] \in Entries(Nat)
  BY <1>0 DEF Logs
<1>2. Merge(e[i].value, e[i + 1].value) \in Nat
  <2>1. e[i].value \in Nat \cup {Unreadable} /\ e[i + 1].value \in Nat \cup {Unreadable}
    BY <1>1 DEF Entries
  <2>2. Deserialize(e[i].value) \in Nat /\ Deserialize(e[i + 1].value) \in Nat
    BY <2>1, Deserialized
  <2> QED
    BY <2>2 DEF Merge
<1>3. /\ c \in Entries(Nat) /\ c.set = e[i].set
      /\ c.value = Merge(e[i].value, e[i + 1].value)
  <2>1. PICK v \in Nat : v = Merge(e[i].value, e[i + 1].value)
    BY <1>2
  <2>2. c = [e[i] EXCEPT !.value = v]
    BY <2>1
  <2> QED
    BY <1>1, <2>1, <2>2 DEF Entries
<1> HIDE DEF c
<1>4. /\ a \in Seq(Entries(Nat)) /\ Len(a) = i - 1 /\ \A j \in 1..(i - 1) : a[j] = e[j]
  <2>1. PICK l \in Int, h \in Int : l = 1 /\ h = i - 1
    BY <1>0
  <2>2. \A j \in l..h : e[j] \in Entries(Nat)
    BY <1>0, <2>1 DEF Logs
  <2>3. a = SubSeq(e, l, h)
    BY <2>1
  <2>4. /\ a \in Seq(Entries(Nat)) /\ Len(a) = IF l <= h THEN h - l + 1 ELSE 0
        /\ \A j \in 1..h - l + 1 : a[j] = e[l + j - 1]
    <3> HIDE DEF a
    <3> QED
      BY <2>2, <2>3, SubSeqProperties
  <2>5. \A j \in 1..(i - 1) : j \in 1..h - l + 1 /\ l + j - 1 = j
    BY <2>1
  <2> QED
    BY <1>0, <2>1, <2>4, <2>5
<1>5. /\ b \in Seq(Entries(Nat)) /\ Len(b) = Len(e) - (i + 1)
      /\ \A j \in 1..(Len(e) - (i + 1)) : b[j] = e[j + (i + 1)]
  <2>1. PICK l \in Int, h \in Int : l = i + 2 /\ h = Len(e)
    <3>1. i + 2 \in Int /\ Len(e) \in Int
      BY <1>0
    <3> QED
      BY <3>1
  <2>2. \A j \in l..h : e[j] \in Entries(Nat)
    BY <1>0, <2>1 DEF Logs
  <2>3. b = SubSeq(e, l, h)
    BY <2>1
  <2>4. /\ b \in Seq(Entries(Nat)) /\ Len(b) = IF l <= h THEN h - l + 1 ELSE 0
        /\ \A j \in 1..h - l + 1 : b[j] = e[l + j - 1]
    <3> HIDE DEF b
    <3> QED
      BY <2>2, <2>3, SubSeqProperties
  <2>5. \A j \in 1..(Len(e) - (i + 1)) : j \in 1..h - l + 1 /\ l + j - 1 = j + (i + 1)
    BY <1>0, <2>1
  <2>6. Len(b) = Len(e) - (i + 1)
    <3>1. (IF l <= h THEN h - l + 1 ELSE 0) = Len(e) - (i + 1)
      <4>1. PICK n \in Nat : n = Len(e)
        BY <1>0
      <4>2. PICK j \in Int : j = i
        BY <1>0
      <4>3. CASE l <= h
        <5>1. h - l + 1 = n - (j + 1)
          BY <2>1, <4>1, <4>2
        <5> QED
          BY <4>1, <4>2, <4>3, <5>1
      <4>4. CASE ~(l <= h)
        <5>1. j + 1 <= n
          BY <1>0, <4>1, <4>2
        <5>2. l = j + 2 /\ h = n
          BY <2>1, <4>1, <4>2
        <5>3. ~(j + 2 <= n)
          BY <4>4, <5>2
        <5>4. n - (j + 1) = 0
          BY <5>1, <5>3
        <5> QED
          BY <4>1, <4>2, <4>4, <5>4
      <4> QED
        BY <4>3, <4>4
    <3> HIDE DEF b
    <3> QED
      BY <2>4, <3>1
  <2> HIDE DEF b
  <2> QED
    BY <2>4, <2>5, <2>6
<1>6. Combined(e, i) = (a \o <<c>>) \o b
  BY DEF Combined, c
<1> HIDE DEF a, b
<1>7. PICK x \in Seq(Entries(Nat)) : x = <<c>> /\ Len(x) = 1 /\ x[1] = c
  <2>1. <<c>> \in Seq(Entries(Nat)) /\ Len(<<c>>) = 1 /\ <<c>>[1] = c
    BY <1>3
  <2> QED
    BY <2>1
<1>8. PICK d \in Seq(Entries(Nat)) :
        /\ d = a \o x /\ Len(d) = i /\ d[i] = c
        /\ \A j \in 1..(i - 1) : d[j] = e[j]
  <2>1. /\ a \o x \in Seq(Entries(Nat)) /\ Len(a \o x) = Len(a) + Len(x)
        /\ \A j \in 1..Len(a) + Len(x) :
             (a \o x)[j] = IF j <= Len(a) THEN a[j] ELSE x[j - Len(a)]
    BY <1>4, ConcatProperties
  <2>2. Len(a) + Len(x) = i /\ i - Len(a) = 1 /\ ~(i <= Len(a)) /\ i \in 1..i
    BY <1>0, <1>4, <1>7
  <2>3. (a \o x)[i] = c
    BY <1>7, <2>1, <2>2
  <2>4. \A j \in 1..(i - 1) : (a \o x)[j] = e[j]
    BY <1>0, <1>4, <2>1, <2>2
  <2> QED
    BY <2>1, <2>2, <2>3, <2>4
<1>9. /\ d \o b \in Seq(Entries(Nat)) /\ Len(d \o b) = Len(e) - 1
      /\ \A j \in 1..i : (d \o b)[j] = d[j]
      /\ \A j \in (i + 1)..Len(e) - 1 : (d \o b)[j] = b[j - i]
  <2>1. /\ d \o b \in Seq(Entries(Nat)) /\ Len(d \o b) = Len(d) + Len(b)
        /\ \A j \in 1..Len(d) + Len(b) :
             (d \o b)[j] = IF j <= Len(d) THEN d[j] ELSE b[j - Len(d)]
    BY <1>5, ConcatProperties
  <2>2. Len(d) + Len(b) = Len(e) - 1 /\ Len(d) = i
    BY <1>0, <1>5, <1>8
  <2>3. ASSUME NEW j \in 1..i PROVE (d \o b)[j] = d[j]
    BY <1>0, <2>1, <2>2
  <2>4. ASSUME NEW j \in (i + 1)..Len(e) - 1 PROVE (d \o b)[j] = b[j - i]
    BY <1>0, <2>1, <2>2
  <2> QED
    BY <2>1, <2>2, <2>3, <2>4
<1>10. ASSUME NEW j \in (i + 1)..Len(e) - 1 PROVE (d \o b)[j] = e[j + 1]
  <2>1. j - i \in 1..(Len(e) - (i + 1)) /\ (j - i) + (i + 1) = j + 1
    BY <1>0
  <2>2. b[j - i] = e[(j - i) + (i + 1)]
    BY <1>5, <2>1
  <2> QED
    BY <1>9, <2>1, <2>2
<1>11. \A j \in 1..(i - 1) : (d \o b)[j] = e[j]
  BY <1>0, <1>8, <1>9
<1>12. (d \o b)[i] = c
  BY <1>0, <1>8, <1>9
<1> QED
  BY <1>3, <1>6, <1>7, <1>8, <1>9, <1>10, <1>11, <1>12 DEF Logs

LEMMA CombinedSum ==
  ASSUME NEW e \in Logs, NEW i \in 1..Len(e) - 1
  PROVE  SumOf(Combined(e, i)) = SumOf(e)
<1> DEFINE k == Combined(e, i)
<1>0. /\ k \in Logs /\ Len(k) = Len(e) - 1
      /\ \A j \in 1..(i - 1) : k[j] = e[j]
      /\ k[i].value = Merge(e[i].value, e[i + 1].value)
      /\ \A j \in (i + 1)..Len(e) - 1 : k[j] = e[j + 1]
  BY CombinedLog
<1> HIDE DEF k
<1>1. PICK n \in Nat, m \in Nat : n = Len(e) /\ m = Len(k) /\ n = m + 1 /\ i \in 1..m
  <2>1. Len(e) \in Nat /\ Len(k) \in Nat
    BY <1>0 DEF Logs
  <2> QED
    BY <1>0, <2>1
<1>2. PICK f \in [1..n -> Int], g \in [1..m -> Int] : f = Values(e) /\ g = Values(k)
  BY <1>0, <1>1, ValuesTyped
<1>3. /\ \A j \in 1..n : f[j] = Deserialize(e[j].value) /\ f[j] \in Nat
      /\ \A j \in 1..m : g[j] = Deserialize(k[j].value)
  BY <1>0, <1>1, <1>2, ValuesTyped
<1>4. g[i] = f[i] + f[i + 1]
  <2>1. i \in 1..n /\ i + 1 \in 1..n
    BY <1>1
  <2>2. Merge(e[i].value, e[i + 1].value) = f[i] + f[i + 1]
    BY <1>3, <2>1 DEF Merge
  <2>3. f[i] + f[i + 1] \in Int
    BY <1>3, <2>1
  <2> QED
    BY <1>0, <1>1, <1>3, <2>2, <2>3, Deserialized
<1>5. \A j \in 1..(i - 1) : f[j] = g[j]
  BY <1>0, <1>1, <1>3
<1>7. Joined(n, f, m, g, i)
  <2>1. ASSUME NEW j \in (i + 1)..m PROVE g[j] = f[j + 1]
    <3>1. j \in (i + 1)..Len(e) - 1 /\ j \in 1..m /\ j + 1 \in 1..n
      BY <1>0, <1>1
    <3>2. k[j] = e[j + 1]
      BY <1>0, <3>1
    <3> QED
      BY <1>3, <3>1, <3>2
  <2> QED
    BY <1>1, <1>4, <1>5, <2>1 DEF Joined
<1>9. SumFunction(g) = SumFunction(f)
  BY <1>7, SumOfNeighbours
<1> QED
  BY <1>2, <1>9 DEF SumOf, k

LEMMA SettledLog ==
  ASSUME NEW e \in Logs, e # <<>>
  PROVE  /\ Settled(e) \in Logs /\ Len(Settled(e)) = Len(e)
         /\ Settled(e)[1].set /\ Settled(e)[1].value = Deserialize(e[1].value)
         /\ \A i \in 2..Len(e) : Settled(e)[i] = e[i]
<1>0. Len(e) \in Nat /\ DOMAIN e = 1..Len(e) /\ Len(e) >= 1
  BY DEF Logs
<1>1. PICK v \in Nat : v = Merge(NoValue, e[1].value) /\ v = Deserialize(e[1].value)
  <2>1. e[1] \in Entries(Nat)
    BY <1>0 DEF Logs
  <2>2. e[1].value \in Nat \cup {Unreadable}
    BY <2>1 DEF Entries
  <2>3. Deserialize(e[1].value) \in Nat /\ Deserialize(0) = 0
    BY <2>2, Deserialized DEF Deserialize
  <2> QED
    BY <2>3 DEF Merge, NoValue
<1>2. SetTo(v) \in Entries(Nat) /\ SetTo(v).set /\ SetTo(v).value = v
  BY DEF SetTo, Entries
<1>3. PICK c \in Entries(Nat) : c = SetTo(v) /\ c.set /\ c.value = v
  BY <1>2
<1>4. PICK x \in Seq(Entries(Nat)) : x = <<c>> /\ Len(x) = 1 /\ x[1] = c
  <2>1. <<c>> \in Seq(Entries(Nat)) /\ Len(<<c>>) = 1 /\ <<c>>[1] = c
    OBVIOUS
  <2> QED
    BY <2>1
<1>5. PICK b \in Seq(Entries(Nat)) : b = Tail(e)
  <2>1. Tail(e) \in Seq(Entries(Nat))
    BY DEF Logs
  <2> QED
    BY <2>1
<1>6. Len(b) = Len(e) - 1 /\ \A i \in 1..Len(b) : b[i] = e[i + 1]
  BY <1>0, <1>5, HeadTailProperties DEF Logs
<1>7. /\ x \o b \in Seq(Entries(Nat)) /\ Len(x \o b) = Len(x) + Len(b)
      /\ \A j \in 1..Len(x) + Len(b) :
           (x \o b)[j] = IF j <= Len(x) THEN x[j] ELSE b[j - Len(x)]
  BY ConcatProperties
<1>8. Len(x) + Len(b) = Len(e) /\ (x \o b)[1] = c
  BY <1>0, <1>4, <1>6, <1>7
<1>9. ASSUME NEW i \in 2..Len(e) PROVE (x \o b)[i] = e[i]
  <2>1. i - 1 \in 1..Len(b) /\ (i - 1) + 1 = i /\ i \in 1..Len(x) + Len(b) /\ ~(i <= Len(x))
    BY <1>0, <1>4, <1>6
  <2> QED
    BY <1>4, <1>6, <1>7, <2>1
<1>10. Settled(e) = x \o b
  BY <1>1, <1>3, <1>4, <1>5 DEF Settled
<1> QED
  BY <1>1, <1>3, <1>7, <1>8, <1>9, <1>10 DEF Logs

LEMMA SettledSum ==
  ASSUME NEW e \in Logs, e # <<>>
  PROVE  SumOf(Settled(e)) = SumOf(e)
<1>1. PICK k \in Logs : k = Settled(e)
  BY SettledLog
<1>2. /\ Len(k) = Len(e) /\ k[1].value = Deserialize(e[1].value)
      /\ \A i \in 2..Len(e) : k[i] = e[i]
  BY <1>1, SettledLog
<1>3. PICK S : S = 1..Len(e)
  OBVIOUS
<1>4. /\ IsFiniteSet(S) /\ Values(e) \in [S -> Int] /\ Values(k) \in [S -> Int]
      /\ \A i \in S : Values(e)[i] = Deserialize(e[i].value)
      /\ \A i \in S : Values(k)[i] = Deserialize(k[i].value)
  <2>1. /\ Len(e) \in Nat /\ Values(e) \in [1..Len(e) -> Int]
        /\ \A i \in 1..Len(e) : Values(e)[i] = Deserialize(e[i].value)
    BY ValuesTyped
  <2>2. /\ Values(k) \in [1..Len(k) -> Int]
        /\ \A i \in 1..Len(k) : Values(k)[i] = Deserialize(k[i].value)
    BY ValuesTyped
  <2>3. IsFiniteSet(S)
    BY <1>3, <2>1, FS_Interval
  <2> QED
    BY <1>2, <1>3, <2>1, <2>2, <2>3
<1>5. ASSUME NEW i \in S PROVE Values(k)[i] = Values(e)[i]
  <2>1. i = 1 \/ i \in 2..Len(e)
    BY <1>3
  <2> QED
    BY <1>2, <1>4, <2>1, Deserialized
<1> QED
  BY <1>1, <1>4, <1>5, SumSame DEF SumOf

(* Only the oldest entry may have been set.                                *)
FirstSet(e) == \A i \in 1..Len(e) : e[i].set => i = 1

Legible(e) == \A i \in 1..Len(e) : e[i].value # Unreadable

LEMMA CompactionReads ==
  ASSUME NEW e \in Logs, NEW k \in Compactions(e)
  PROVE  /\ k \in Logs /\ k # <<>> /\ e # <<>>
         /\ SumOf(k) = SumOf(e) /\ ReadOf(k) = ReadOf(e)
         /\ FirstSet(e) => FirstSet(k)
         /\ Legible(e) => Legible(k)
<1>0. Len(e) \in Nat /\ SumOf(e) \in Nat
  BY ValuesTyped
<1>1. ASSUME NEW i \in 1..Len(e) - 1, k = Combined(e, i)
      PROVE  /\ k \in Logs /\ k # <<>> /\ e # <<>>
             /\ SumOf(k) = SumOf(e) /\ ReadOf(k) = ReadOf(e)
             /\ FirstSet(e) => FirstSet(k)
             /\ Legible(e) => Legible(k)
  <2>0. PICK n \in Nat : n = Len(e) /\ i \in Nat /\ 1 <= i /\ i <= n - 1
    BY <1>0
  <2>1. /\ k \in Logs /\ Len(k) = Len(e) - 1
        /\ \A j \in 1..(i - 1) : k[j] = e[j]
        /\ k[i].set = e[i].set
        /\ k[i].value = Merge(e[i].value, e[i + 1].value)
        /\ \A j \in (i + 1)..Len(e) - 1 : k[j] = e[j + 1]
    BY <1>1, CombinedLog
  <2>2. SumOf(k) = SumOf(e)
    BY <1>1, CombinedSum
  <2>3. k # <<>> /\ e # <<>>
    BY <1>0, <2>1 DEF Logs
  <2>4. Merge(e[i].value, e[i + 1].value) \in Nat
    <3>1. i \in 1..Len(e) /\ i + 1 \in 1..Len(e)
      BY <1>0
    <3>2. Deserialize(e[i].value) \in Nat /\ Deserialize(e[i + 1].value) \in Nat
      BY <3>1, ValuesTyped
    <3> QED
      BY <3>2 DEF Merge
  <2>5. ReadOf(k) = SumOf(k)
    <3>1. CASE Len(k) = 1 /\ k[1].set
      <4>1. i = 1
        <5>1. n = 2
          <6>1. n - 1 = 1
            BY <2>0, <2>1, <3>1
          <6> QED
            BY <6>1
        <5> QED
          BY <2>0, <5>1
      <4>2. SumOf(k) = Deserialize(k[1].value)
        BY <2>1, <3>1, SumOfOnly
      <4>3. SumOf(k) = k[1].value
        BY <2>1, <2>4, <4>1, <4>2, Deserialized
      <4> QED
        BY <2>1, <3>1, <4>3, ReadIsSum
    <3>2. CASE ~(Len(k) = 1 /\ k[1].set)
      BY <2>1, <3>2, ReadIsSum
    <3> QED
      BY <3>1, <3>2
  <2>6. ReadOf(e) = SumOf(e)
    <3>1. n # 1
      BY <2>0
    <3>2. Len(e) # 1
      BY <2>0, <3>1
    <3> QED
      BY <3>2, ReadIsSum
  <2>7. ASSUME FirstSet(e), NEW j \in 1..Len(k), k[j].set PROVE j = 1
    <3>1. j \in 1..(i - 1) \/ j = i \/ j \in (i + 1)..Len(e) - 1
      BY <1>0, <2>1
    <3>2. CASE j \in 1..(i - 1) \/ j = i
      <4>1. e[j].set /\ j \in 1..Len(e)
        BY <1>0, <2>1, <2>7, <3>2
      <4> QED
        BY <2>7, <4>1 DEF FirstSet
    <3>3. CASE j \in (i + 1)..Len(e) - 1
      <4>1. e[j + 1].set /\ j + 1 \in 1..Len(e) /\ j + 1 # 1
        BY <1>0, <2>1, <2>7, <3>3
      <4> QED
        BY <2>7, <4>1 DEF FirstSet
    <3> QED
      BY <3>1, <3>2, <3>3
  <2>8. ASSUME Legible(e), NEW j \in 1..Len(k) PROVE k[j].value # Unreadable
    <3>1. j \in 1..(i - 1) \/ j = i \/ j \in (i + 1)..Len(e) - 1
      BY <1>0, <2>1
    <3>2. CASE j \in 1..(i - 1)
      <4>1. k[j] = e[j] /\ j \in 1..Len(e)
        BY <1>0, <2>1, <3>2
      <4> QED
        BY <2>8, <4>1 DEF Legible
    <3>3. CASE j = i
      BY <2>1, <2>4, <3>3, UnreadableAssumption
    <3>4. CASE j \in (i + 1)..Len(e) - 1
      <4>1. k[j] = e[j + 1] /\ j + 1 \in 1..Len(e)
        BY <1>0, <2>1, <3>4
      <4> QED
        BY <2>8, <4>1 DEF Legible
    <3> QED
      BY <3>1, <3>2, <3>3, <3>4
  <2> QED
    BY <2>1, <2>2, <2>3, <2>5, <2>6, <2>7, <2>8 DEF FirstSet, Legible
<1>2. ASSUME e # <<>>, ~e[1].set, k = Settled(e)
      PROVE  /\ k \in Logs /\ k # <<>> /\ e # <<>>
             /\ SumOf(k) = SumOf(e) /\ ReadOf(k) = ReadOf(e)
             /\ FirstSet(e) => FirstSet(k)
             /\ Legible(e) => Legible(k)
  <2>1. /\ k \in Logs /\ Len(k) = Len(e)
        /\ k[1].set /\ k[1].value = Deserialize(e[1].value)
        /\ \A i \in 2..Len(e) : k[i] = e[i]
    BY <1>2, SettledLog
  <2>2. SumOf(k) = SumOf(e)
    BY <1>2, SettledSum
  <2>3. Len(e) >= 1 /\ k # <<>>
    BY <1>0, <1>2, <2>1 DEF Logs
  <2>4. Deserialize(e[1].value) \in Nat
    BY <1>0, <2>3, ValuesTyped
  <2>5. ReadOf(e) = SumOf(e)
    BY <1>2, ReadIsSum
  <2>6. ReadOf(k) = SumOf(k)
    <3>1. CASE Len(k) = 1
      <4>1. SumOf(k) = Deserialize(k[1].value)
        BY <2>1, <3>1, SumOfOnly
      <4>2. SumOf(k) = k[1].value
        BY <2>1, <2>4, <4>1, Deserialized
      <4> QED
        BY <2>1, <3>1, <4>2, ReadIsSum
    <3>2. CASE Len(k) # 1
      BY <2>1, <3>2, ReadIsSum
    <3> QED
      BY <3>1, <3>2
  <2>7. \A i \in 1..Len(k) : i = 1 \/ (i \in 2..Len(e) /\ i \in 1..Len(e) /\ k[i] = e[i])
    BY <1>0, <2>1
  <2>8. k[1].value # Unreadable
    BY <2>1, <2>4, UnreadableAssumption
  <2> QED
    BY <1>2, <2>1, <2>2, <2>3, <2>5, <2>6, <2>7, <2>8 DEF FirstSet, Legible
<1> QED
  BY <1>1, <1>2 DEF Compactions

LEMMA LegibleReads ==
  ASSUME NEW e \in Logs, Legible(e)
  PROVE  ReadOf(e) = SumOf(e)
<1>1. CASE Len(e) = 1 /\ e[1].set
  <2>1. ReadOf(e) = e[1].value /\ SumOf(e) = Deserialize(e[1].value)
    BY <1>1, ReadIsSum, SumOfOnly
  <2>2. e[1].value # Unreadable
    BY <1>1 DEF Legible
  <2> QED
    BY <2>1, <2>2 DEF Deserialize
<1>2. CASE ~(Len(e) = 1 /\ e[1].set)
  BY <1>2, ReadIsSum
<1> QED
  BY <1>1, <1>2

LEMMA NothingRead == <<>> \in Logs /\ SumOf(<<>>) = 0 /\ FirstSet(<<>>) /\ Legible(<<>>)
<1>1. PICK e : e = <<>>
  OBVIOUS
<1>2. e \in Logs /\ Len(e) = 0
  BY <1>1 DEF Logs
<1> QED
  BY <1>1, <1>2, SumOfNone DEF FirstSet, Legible

(* What SetData leaves.                                                    *)
LEMMA SetReads ==
  ASSUME NEW c \in Nat
  PROVE  /\ <<SetTo(c)>> \in Logs /\ SumOf(<<SetTo(c)>>) = c
         /\ FirstSet(<<SetTo(c)>>) /\ Legible(<<SetTo(c)>>)
<1>1. SetTo(c) \in Entries(Nat) /\ SetTo(c).value = c
  BY DEF SetTo, Entries
<1>2. PICK e : e = <<SetTo(c)>>
  OBVIOUS
<1>3. e \in Logs /\ Len(e) = 1 /\ e[1].value = c
  BY <1>1, <1>2 DEF Logs
<1>4. SumOf(e) = c
  BY <1>3, SumOfOnly, Deserialized
<1> QED
  BY <1>2, <1>3, <1>4, UnreadableAssumption DEF FirstSet, Legible

(* What IncData adds.                                                      *)
LEMMA AppendReads ==
  ASSUME NEW e \in Logs, NEW c \in Nat
  PROVE  /\ Append(e, MergedWith(c)) \in Logs
         /\ SumOf(Append(e, MergedWith(c))) = SumOf(e) + c
         /\ FirstSet(e) => FirstSet(Append(e, MergedWith(c)))
         /\ Legible(e) => Legible(Append(e, MergedWith(c)))
<1>1. PICK x \in Entries(Nat) : x = MergedWith(c) /\ x.value = c /\ ~x.set
  <2>1. MergedWith(c) \in Entries(Nat) /\ MergedWith(c).value = c /\ ~MergedWith(c).set
    BY DEF MergedWith, Entries
  <2> QED
    BY <2>1
<1>2. PICK k : k = Append(e, x)
  OBVIOUS
<1>3. PICK n \in Nat, m \in Nat : n = Len(e) /\ m = n + 1
  <2>1. Len(e) \in Nat /\ Len(e) + 1 \in Nat
    BY DEF Logs
  <2> QED
    BY <2>1
<1>4. /\ k \in Logs /\ Len(k) = m /\ k[m] = x
      /\ \A i \in 1..n : k[i] = e[i]
  BY <1>2, <1>3, AppendProperties DEF Logs
<1>5. PICK f \in [1..n -> Int], g \in [1..m -> Int] : f = Values(e) /\ g = Values(k)
  BY <1>3, <1>4, ValuesTyped
<1>6. /\ \A i \in 1..n : f[i] = Deserialize(e[i].value)
      /\ \A i \in 1..m : g[i] = Deserialize(k[i].value)
  BY <1>3, <1>4, <1>5, ValuesTyped
<1>7. \A i \in 1..n : g[i] = f[i]
  BY <1>3, <1>4, <1>6
<1>8. Agree(n, f, 0, n, m, g, 0, n, n)
  BY <1>3, <1>7 DEF Agree
<1>9. SumFunction(g) = SumFunction(f) + g[m]
  BY <1>3, <1>8, SumOfOneMore
<1>10. g[m] = c
  <2>1. m \in 1..m
    BY <1>3
  <2> QED
    BY <1>1, <1>4, <1>6, <2>1, Deserialized
<1>11. \A i \in 1..m : i = m \/ i \in 1..n
  BY <1>3
<1>12. c # Unreadable
  BY UnreadableAssumption
<1> QED
  BY <1>1, <1>2, <1>3, <1>4, <1>5, <1>9, <1>10, <1>11, <1>12 DEF SumOf, FirstSet, Legible

(* What a value that cannot be read any more takes away.                   *)
Spoiled(e, i) == [e EXCEPT ![i].value = Unreadable]

LEMMA SpoilReads ==
  ASSUME NEW e \in Logs, NEW i \in 1..Len(e), NEW k, k = Spoiled(e, i)
  PROVE  /\ k \in Logs /\ Len(k) = Len(e) /\ SumOf(k) <= SumOf(e)
         /\ FirstSet(e) => FirstSet(k)
<1>1. PICK x \in Entries(Nat) :
        x = [e[i] EXCEPT !.value = Unreadable] /\ x.value = Unreadable /\ x.set = e[i].set
  <2>1. e[i] \in Entries(Nat)
    BY DEF Logs
  <2>2. /\ [e[i] EXCEPT !.value = Unreadable] \in Entries(Nat)
        /\ [e[i] EXCEPT !.value = Unreadable].value = Unreadable
        /\ [e[i] EXCEPT !.value = Unreadable].set = e[i].set
    BY <2>1 DEF Entries
  <2> QED
    BY <2>2
<1>2. k = [e EXCEPT ![i] = x]
  BY <1>1 DEF Spoiled
<1>3. /\ k \in Logs /\ Len(k) = Len(e) /\ k[i] = x
      /\ \A j \in 1..Len(e) : j # i => k[j] = e[j]
  BY <1>2 DEF Logs
<1>4. PICK S : S = 1..Len(e)
  OBVIOUS
<1>5. /\ IsFiniteSet(S) /\ Values(e) \in [S -> Int] /\ Values(k) \in [S -> Int]
      /\ \A j \in S : Values(e)[j] = Deserialize(e[j].value) /\ Values(e)[j] \in Nat
      /\ \A j \in S : Values(k)[j] = Deserialize(k[j].value)
  <2>1. /\ Len(e) \in Nat /\ Values(e) \in [1..Len(e) -> Int]
        /\ \A j \in 1..Len(e) : Values(e)[j] = Deserialize(e[j].value) /\ Values(e)[j] \in Nat
    BY ValuesTyped
  <2>2. /\ Values(k) \in [1..Len(k) -> Int]
        /\ \A j \in 1..Len(k) : Values(k)[j] = Deserialize(k[j].value)
    BY <1>3, ValuesTyped
  <2>3. IsFiniteSet(1..Len(e))
    BY <2>1, FS_Interval
  <2> QED
    BY <1>3, <1>4, <2>1, <2>2, <2>3
<1>6. \A j \in S \ {i} : Values(k)[j] = Values(e)[j]
  BY <1>3, <1>4, <1>5
<1>7. SumOf(k) = SumOf(e) + Values(k)[i] - Values(e)[i]
  <2>1. PICK f \in [S -> Int], g \in [S -> Int], j \in S :
          f = Values(e) /\ g = Values(k) /\ j = i
    BY <1>4, <1>5
  <2>2. \A y \in S \ {j} : g[y] = f[y]
    BY <1>6, <2>1
  <2>3. SumFunction(g) = SumFunction(f) + g[j] - f[j]
    BY <1>5, <2>2, SumChanges
  <2> QED
    BY <2>1, <2>3 DEF SumOf
<1>8. Values(k)[i] = 0 /\ Values(e)[i] \in Nat /\ SumOf(e) \in Nat
  BY <1>1, <1>3, <1>4, <1>5, ValuesTyped DEF Deserialize
<1>9. SumOf(k) <= SumOf(e)
  <2>1. PICK a \in Nat, b \in Nat : a = SumOf(e) /\ b = Values(e)[i]
    BY <1>8
  <2>2. SumOf(k) = a + 0 - b
    BY <1>7, <1>8, <2>1
  <2> QED
    BY <2>1, <2>2
<1>10. FirstSet(e) => FirstSet(k)
  BY <1>1, <1>3 DEF FirstSet
<1> QED
  BY <1>3, <1>9, <1>10

-----------------------------------------------------------------------------
(* Types.                                                                  *)
USE ThreadsAssumption

(* Windows, and 0 for none.                                                *)
Times == 0..MaxWindow

LEMMA WindowsAreTimes ==
  /\ Times = Windows \cup {0} /\ 0 \in Times /\ 0 \notin Windows
  /\ \A w \in Times : w \in Nat
  /\ \A w \in Windows : w \in Nat /\ w \in Times /\ w > 0
  /\ IsFiniteSet(Windows) /\ 1 \in Windows
  BY BoundsAssumption, FS_Interval DEF Times, Windows

Records == [lastUpdate : Times, max : Nat, maxAt : Times]

Aggs == [window : Times, count : Nat, lastPoint : BOOLEAN, record : Records]

(* The merges whose samples have entered but not their maximum.            *)
Merging == {"compare", "max", "maxat"}

Lists == Seq(Points(Windows, Nat))

CallShapes ==
    [pc : Places, window : Times, points : Lists, record : Records]

(* A record that tells of something tells of its last update.              *)
RecordFine(r) == r = EmptyRecord \/ r.lastUpdate \in Windows

FieldsFine(pc, window, points, record) ==
    /\ pc \in {"push", "merge", "late"} \cup Merging => window \in Windows
    /\ pc \in {"late"} \cup Merging => points = <<Point(window, 1)>>
    /\ pc = "setdata" => points # <<>>
    /\ pc \in {"idle", "push", "merge"} => points = <<>>
    /\ Len(points) <= 2
    /\ RecordFine(record)

CallFine(c) == FieldsFine(c.pc, c.window, c.points, c.record)

AggFine ==
    /\ agg \in Aggs /\ agg.lastPoint = lastPoint
    /\ agg.count > 0 => agg.window \in Windows
    /\ RecordFine(agg.record)

CallsFine ==
    /\ call \in [Threads -> CallShapes]
    /\ \A t \in Threads : CallFine(call[t])
    /\ \A t \in Threads : call[t].pc \in Merging => agg.record.lastUpdate \in Windows

DbFine ==
    /\ keyDb \in Records /\ RecordFine(keyDb)
    /\ dataDb \in [Windows -> Logs]
    /\ \A w \in Windows : FirstSet(dataDb[w])

(* The shape of the state in every environment; counts have no bound.      *)
Shapes ==
    /\ features \in Environments /\ lastPoint \in BOOLEAN
    /\ phase \in {"open", "closing", "down"}
    /\ phase = "down" => agg = NoAggregator /\ \A t \in Threads : call[t].pc = "idle"
    /\ AggFine /\ CallsFine /\ DbFine
    /\ pushed \in [Windows -> Nat] /\ cutShort \in SUBSET Windows

-----------------------------------------------------------------------------
(* What the actions do, field by field.                                    *)
LEMMA PointTyped ==
  ASSUME NEW w \in Windows, NEW c \in Nat
  PROVE  /\ Point(w, c) \in Points(Windows, Nat)
         /\ Point(w, c).window = w /\ Point(w, c).count = c
         /\ <<Point(w, c)>> \in Lists /\ Len(<<Point(w, c)>>) = 1
         /\ <<Point(w, c)>>[1] = Point(w, c) /\ <<Point(w, c)>> # <<>>
<1>1. /\ Point(w, c) \in Points(Windows, Nat)
      /\ Point(w, c).window = w /\ Point(w, c).count = c
  BY DEF Point, Points
<1>2. PICK p \in Points(Windows, Nat) : p = Point(w, c)
  BY <1>1
<1>3. <<p>> \in Lists /\ Len(<<p>>) = 1 /\ <<p>>[1] = p /\ <<p>> # <<>>
  BY DEF Lists
<1> QED
  BY <1>1, <1>2, <1>3

LEMMA EmptyTyped ==
  /\ EmptyRecord \in Records /\ RecordFine(EmptyRecord)
  /\ EmptyRecord.max = 0 /\ EmptyRecord.lastUpdate = 0 /\ EmptyRecord.maxAt = 0
  /\ <<>> \in Lists /\ Len(<<>>) = 0
  /\ Idle \in CallShapes
  /\ Idle.pc = "idle" /\ Idle.window = 0 /\ Idle.points = <<>> /\ Idle.record = EmptyRecord
<1>1. /\ EmptyRecord \in Records
      /\ EmptyRecord.max = 0 /\ EmptyRecord.lastUpdate = 0 /\ EmptyRecord.maxAt = 0
  BY WindowsAreTimes DEF EmptyRecord, Records
<1>2. <<>> \in Lists /\ Len(<<>>) = 0
  BY DEF Lists
<1> QED
  BY <1>1, <1>2, WindowsAreTimes DEF RecordFine, Idle, NoRecord, CallShapes, Places

LEMMA NewTyped ==
  ASSUME NEW w \in Times, NEW b \in BOOLEAN
  PROVE  /\ New(w, b) \in Aggs /\ New(w, b).window = w /\ New(w, b).count = 0
         /\ New(w, b).lastPoint = b /\ New(w, b).record = EmptyRecord
  BY EmptyTyped DEF New, Aggs

LEMMA CallTyped ==
  ASSUME Shapes, NEW t \in Threads
  PROVE  /\ call[t] \in CallShapes /\ call[t].pc \in Places /\ call[t].window \in Times
         /\ call[t].points \in Lists /\ call[t].record \in Records
         /\ CallFine(call[t]) /\ RecordFine(call[t].record)
         /\ Len(call[t].points) \in Nat /\ Len(call[t].points) <= 2
<1>1. call[t] \in CallShapes /\ CallFine(call[t])
  BY DEF Shapes, CallsFine
<1>2. /\ call[t].pc \in Places /\ call[t].window \in Times
      /\ call[t].points \in Lists /\ call[t].record \in Records
  BY <1>1 DEF CallShapes
<1>3. Len(call[t].points) \in Nat
  BY <1>2 DEF Lists
<1> QED
  BY <1>1, <1>2, <1>3 DEF CallFine, FieldsFine

LEMMA AggTyped ==
  ASSUME Shapes
  PROVE  /\ agg \in Aggs /\ agg.window \in Times /\ agg.count \in Nat
         /\ agg.lastPoint = lastPoint /\ lastPoint \in BOOLEAN
         /\ agg.record \in Records /\ RecordFine(agg.record)
         /\ agg.count > 0 => agg.window \in Windows
  BY DEF Shapes, AggFine, Aggs

(* Thread t moves on, the others stay where they are.                      *)
Moved(t, pc, window, points, record) ==
    /\ call' \in [Threads -> CallShapes]
    /\ \A u \in Threads \ {t} : call'[u] = call[u]
    /\ call'[t].pc = pc /\ call'[t].window = window
    /\ call'[t].points = points /\ call'[t].record = record

LEMMA ReturnMoves ==
  ASSUME Shapes, NEW t \in Threads, Return(t)
  PROVE  Moved(t, "idle", 0, <<>>, EmptyRecord)
  BY EmptyTyped DEF Return, Moved, Shapes, CallsFine

LEMMA MovesOn ==
  ASSUME Shapes, NEW t \in Threads, NEW pc \in Places, call' = [call EXCEPT ![t].pc = pc]
  PROVE  Moved(t, pc, call[t].window, call[t].points, call[t].record)
<1>1. call \in [Threads -> CallShapes]
  BY DEF Shapes, CallsFine
<1>2. call' \in [Threads -> CallShapes]
  BY <1>1 DEF CallShapes
<1> QED
  BY <1>1, <1>2 DEF Moved, CallShapes

LEMMA MovesWithPoints ==
  ASSUME Shapes, NEW t \in Threads, NEW pc \in Places, NEW points \in Lists,
         call' = [call EXCEPT ![t].pc = pc, ![t].points = points]
  PROVE  Moved(t, pc, call[t].window, points, call[t].record)
<1>1. call \in [Threads -> CallShapes]
  BY DEF Shapes, CallsFine
<1>2. call' \in [Threads -> CallShapes]
  BY <1>1 DEF CallShapes
<1> QED
  BY <1>1, <1>2 DEF Moved, CallShapes

LEMMA LearnIs ==
  ASSUME NEW r \in Records, NEW w \in Windows, NEW c \in Nat, RecordFine(r)
  PROVE  /\ Learn(r, Point(w, c)) \in Records /\ RecordFine(Learn(r, Point(w, c)))
         /\ Learn(r, Point(w, c)).lastUpdate = w
         /\ \/ Learn(r, Point(w, c)).max = r.max /\ Learn(r, Point(w, c)).maxAt = r.maxAt
            \/ Learn(r, Point(w, c)).max = c /\ Learn(r, Point(w, c)).maxAt = w
<1>1. PICK p \in Points(Windows, Nat) : p = Point(w, c) /\ p.window = w /\ p.count = c
  BY PointTyped
<1>2. r.max \in Nat /\ r.maxAt \in Times
  BY DEF Records
<1>3. PICK x : x = Learn(r, p)
  OBVIOUS
<1>4. /\ x.lastUpdate = w
      /\ x.max = IF r.max < c THEN c ELSE r.max
      /\ x.maxAt = IF r.max < c THEN w ELSE r.maxAt
      /\ x \in Records
  BY <1>1, <1>2, <1>3, WindowsAreTimes DEF Learn, Records
<1>5. RecordFine(x)
  BY <1>2, <1>4 DEF RecordFine
<1> QED
  BY <1>1, <1>3, <1>4, <1>5

LEMMA RoomForOne ==
  ASSUME NEW t \in Threads, NEW w, NEW pc, Start(t, w, pc)
  PROVE  SumFunction(pushed) < MaxSamples
  BY DEF Start, FoldFunction, SumFunction, SumFunctionOnSet, FoldFunctionOnSet, MapThenFoldSet

LEMMA StartEffect ==
  ASSUME Shapes, NEW t \in Threads, NEW w \in Windows, NEW pc \in {"push", "merge"},
         Start(t, w, pc)
  PROVE  /\ Moved(t, pc, w, <<>>, EmptyRecord)
         /\ call[t].pc = "idle" /\ phase = "open"
         /\ "alone" \in features => \A u \in Threads : call[u].pc = "idle"
         /\ SumFunction(pushed) < MaxSamples
         /\ pushed' \in [Windows -> Nat]
         /\ \A v \in Windows : pushed'[v] = IF v = w THEN pushed[w] + 1 ELSE pushed[v]
         /\ agg' = agg \/ (agg = New(0, lastPoint) /\ agg' = New(w, lastPoint))
         /\ UNCHANGED <<features, lastPoint, cutShort, phase, keyDb, dataDb>>
<1>1. Moved(t, pc, w, <<>>, EmptyRecord)
  <2>1. call' = [call EXCEPT ![t] = [Idle EXCEPT !.pc = pc, !.window = w]]
    BY DEF Start
  <2> DEFINE c == [Idle EXCEPT !.pc = pc, !.window = w]
  <2>2. /\ c \in CallShapes /\ c.pc = pc /\ c.window = w /\ c.points = <<>>
        /\ c.record = EmptyRecord
    BY EmptyTyped, WindowsAreTimes DEF CallShapes, Places
  <2>3. call' = [call EXCEPT ![t] = c] /\ call \in [Threads -> CallShapes]
    BY <2>1 DEF Shapes, CallsFine
  <2> HIDE DEF c
  <2> QED
    BY <2>2, <2>3 DEF Moved
<1>2. /\ pushed' \in [Windows -> Nat]
      /\ \A v \in Windows : pushed'[v] = IF v = w THEN pushed[w] + 1 ELSE pushed[v]
  <2>1. pushed' = [pushed EXCEPT ![w] = @ + 1] /\ pushed \in [Windows -> Nat]
    BY DEF Start, Shapes
  <2> QED
    BY <2>1
<1>3. agg' = agg \/ (agg = New(0, lastPoint) /\ agg' = New(w, lastPoint))
  BY DEF Start, NoAggregator
<1>4. /\ call[t].pc = "idle" /\ phase = "open"
      /\ "alone" \in features => \A u \in Threads : call[u].pc = "idle"
      /\ UNCHANGED <<features, lastPoint, cutShort, phase, keyDb, dataDb>>
  BY DEF Start, options
<1> QED
  BY <1>1, <1>2, <1>3, <1>4, RoomForOne

LEMMA PushLateEffect ==
  ASSUME Shapes, NEW t \in Threads, PushLate(t)
  PROVE  /\ call[t].pc = "push" /\ call[t].window \in Windows /\ call[t].window < agg.window
         /\ Moved(t, "late", call[t].window, <<Point(call[t].window, 1)>>, call[t].record)
         /\ phase # "down"
         /\ UNCHANGED <<features, lastPoint, cutShort, phase, agg, keyDb, dataDb, pushed>>
<1>1. call[t].pc = "push" /\ call[t].window < agg.window /\ phase # "down"
  BY DEF PushLate, IsLate, Running
<1>2. call[t].window \in Windows
  BY <1>1, CallTyped DEF CallFine, FieldsFine
<1>3. <<Point(call[t].window, 1)>> \in Lists
  BY <1>2, PointTyped
<1>4. Moved(t, "late", call[t].window, <<Point(call[t].window, 1)>>, call[t].record)
  <2>1. call' = [call EXCEPT ![t].pc = "late", ![t].points = <<Point(call[t].window, 1)>>]
    BY DEF PushLate
  <2> QED
    BY <1>3, <2>1, MovesWithPoints DEF Places
<1> QED
  BY <1>1, <1>2, <1>4 DEF PushLate, options

(* The points of an add on time and what the record learns of them.        *)
LEMMA YieldedIs ==
  ASSUME Shapes, NEW w \in Windows, agg.window <= w
  PROVE  /\ CountIn(agg, w) \in Nat /\ CountIn(agg, w) > 0
         /\ Yielded(agg, w) \in Lists /\ Len(Yielded(agg, w)) <= 2
         /\ \A i \in 1..Len(Yielded(agg, w)) :
              \/ Completes(agg, w) /\ i = 1 /\ Yielded(agg, w)[i] = Point(agg.window, agg.count)
              \/ lastPoint /\ i = Len(Yielded(agg, w))
                           /\ Yielded(agg, w)[i] = Point(w, CountIn(agg, w))
         /\ Completes(agg, w) => /\ Yielded(agg, w) # <<>>
                                 /\ Yielded(agg, w)[1] = Point(agg.window, agg.count)
         /\ lastPoint => /\ Yielded(agg, w) # <<>>
                         /\ Yielded(agg, w)[Len(Yielded(agg, w))] = Point(w, CountIn(agg, w))
<1>1. CountIn(agg, w) \in Nat /\ CountIn(agg, w) > 0
  BY AggTyped DEF CountIn
<1>2. PICK p \in Points(Windows, Nat) : p = Point(w, CountIn(agg, w))
  BY <1>1, PointTyped
<1>3. Completes(agg, w) => Point(agg.window, agg.count) \in Points(Windows, Nat)
  BY AggTyped, PointTyped DEF Completes
<1>4. CASE Completes(agg, w)
  <2>1. PICK q \in Points(Windows, Nat) : q = Point(agg.window, agg.count)
    BY <1>3, <1>4
  <2>2. CASE lastPoint
    <3>1. Yielded(agg, w) = <<q>> \o <<p>>
      BY <1>2, <1>4, <2>1, <2>2, AggTyped DEF Yielded
    <3>2. /\ <<q>> \o <<p>> \in Lists /\ Len(<<q>> \o <<p>>) = 2
          /\ (<<q>> \o <<p>>)[1] = q /\ (<<q>> \o <<p>>)[2] = p
      BY DEF Lists
    <3>3. PICK y : y = Yielded(agg, w)
      OBVIOUS
    <3>4. y \in Lists /\ Len(y) = 2 /\ y[1] = q /\ y[2] = p /\ y # <<>>
      BY <3>1, <3>2, <3>3
    <3> QED
      BY <1>1, <1>2, <1>4, <2>1, <2>2, <3>3, <3>4
  <2>3. CASE ~lastPoint
    <3>1. Yielded(agg, w) = <<q>> \o <<>>
      BY <1>4, <2>1, <2>3, AggTyped DEF Yielded
    <3>2. <<q>> \o <<>> \in Lists /\ Len(<<q>> \o <<>>) = 1 /\ (<<q>> \o <<>>)[1] = q
      BY DEF Lists
    <3>3. PICK y : y = Yielded(agg, w)
      OBVIOUS
    <3>4. y \in Lists /\ Len(y) = 1 /\ y[1] = q /\ y # <<>>
      BY <3>1, <3>2, <3>3
    <3> QED
      BY <1>1, <1>4, <2>1, <2>3, <3>3, <3>4
  <2> QED
    BY <2>2, <2>3
<1>5. CASE ~Completes(agg, w)
  <2>2. CASE lastPoint
    <3>1. Yielded(agg, w) = <<>> \o <<p>>
      BY <1>2, <1>5, <2>2, AggTyped DEF Yielded
    <3>2. <<>> \o <<p>> \in Lists /\ Len(<<>> \o <<p>>) = 1 /\ (<<>> \o <<p>>)[1] = p
      BY DEF Lists
    <3>3. PICK y : y = Yielded(agg, w)
      OBVIOUS
    <3>4. y \in Lists /\ Len(y) = 1 /\ y[1] = p /\ y # <<>>
      BY <3>1, <3>2, <3>3
    <3> QED
      BY <1>1, <1>2, <1>5, <2>2, <3>3, <3>4
  <2>3. CASE ~lastPoint
    <3>1. Yielded(agg, w) = <<>> \o <<>>
      BY <1>5, <2>3, AggTyped DEF Yielded
    <3>2. <<>> \o <<>> \in Lists /\ Len(<<>> \o <<>>) = 0
      BY DEF Lists
    <3>3. PICK y : y = Yielded(agg, w)
      OBVIOUS
    <3>4. y \in Lists /\ Len(y) = 0
      BY <3>1, <3>2, <3>3
    <3> QED
      BY <1>1, <1>5, <2>3, <3>3, <3>4
  <2> QED
    BY <2>2, <2>3
<1> QED
  BY <1>4, <1>5

LEMMA PushIs ==
  ASSUME Shapes, NEW w \in Windows
  PROVE  /\ Push(agg, w) \in Aggs /\ Push(agg, w).window = w
         /\ Push(agg, w).count = CountIn(agg, w) /\ Push(agg, w).lastPoint = lastPoint
         /\ RecordFine(Push(agg, w).record)
         /\ Push(agg, w).record.lastUpdate = IF lastPoint THEN w
                                             ELSE IF Completes(agg, w) THEN agg.window
                                             ELSE agg.record.lastUpdate
         /\ LET r == Push(agg, w).record
            IN  \/ r.max = agg.record.max /\ r.maxAt = agg.record.maxAt
                \/ Completes(agg, w) /\ r.max = agg.count /\ r.maxAt = agg.window
                \/ r.max = CountIn(agg, w) /\ r.maxAt = w
<1> DEFINE completed == IF Completes(agg, w)
                        THEN Learn(agg.record, Point(agg.window, agg.count))
                        ELSE agg.record
           record == IF agg.lastPoint THEN Learn(completed, Point(w, CountIn(agg, w)))
                     ELSE completed
<1>1. CountIn(agg, w) \in Nat
  BY AggTyped, WindowsAreTimes DEF CountIn
<1>2. /\ completed \in Records /\ RecordFine(completed)
      /\ completed.lastUpdate = IF Completes(agg, w) THEN agg.window ELSE agg.record.lastUpdate
      /\ \/ completed.max = agg.record.max /\ completed.maxAt = agg.record.maxAt
         \/ Completes(agg, w) /\ completed.max = agg.count /\ completed.maxAt = agg.window
  <2>1. CASE Completes(agg, w)
    <3>1. agg.window \in Windows /\ agg.count \in Nat /\ agg.record \in Records
      BY <2>1, AggTyped DEF Completes
    <3> QED
      BY <2>1, <3>1, AggTyped, LearnIs
  <2>2. CASE ~Completes(agg, w)
    BY <2>2, AggTyped
  <2> QED
    BY <2>1, <2>2
<1> HIDE DEF completed
<1>3. /\ record \in Records /\ RecordFine(record)
      /\ record.lastUpdate = IF lastPoint THEN w ELSE completed.lastUpdate
      /\ \/ record.max = completed.max /\ record.maxAt = completed.maxAt
         \/ record.max = CountIn(agg, w) /\ record.maxAt = w
  <2>1. CASE lastPoint
    <3>1. PICK r \in Records, c \in Nat : r = completed /\ c = CountIn(agg, w) /\ RecordFine(r)
      BY <1>1, <1>2
    <3>2. record = Learn(r, Point(w, c))
      BY <2>1, <3>1, AggTyped
    <3>3. /\ Learn(r, Point(w, c)) \in Records /\ RecordFine(Learn(r, Point(w, c)))
          /\ Learn(r, Point(w, c)).lastUpdate = w
          /\ \/ Learn(r, Point(w, c)).max = r.max /\ Learn(r, Point(w, c)).maxAt = r.maxAt
             \/ Learn(r, Point(w, c)).max = c /\ Learn(r, Point(w, c)).maxAt = w
      BY <3>1, LearnIs
    <3> HIDE DEF record
    <3> QED
      BY <2>1, <3>1, <3>2, <3>3
  <2>2. CASE ~lastPoint
    BY <1>2, <2>2, AggTyped
  <2> QED
    BY <2>1, <2>2
<1>4. Push(agg, w) = [agg EXCEPT !.window = w, !.count = CountIn(agg, w), !.record = record]
  BY DEF Push, completed
<1> HIDE DEF record
<1>5. /\ Push(agg, w) \in Aggs /\ Push(agg, w).window = w
      /\ Push(agg, w).count = CountIn(agg, w) /\ Push(agg, w).lastPoint = lastPoint
      /\ Push(agg, w).record = record
  BY <1>1, <1>3, <1>4, AggTyped, WindowsAreTimes DEF Aggs
<1>6. \/ record.max = agg.record.max /\ record.maxAt = agg.record.maxAt
      \/ Completes(agg, w) /\ record.max = agg.count /\ record.maxAt = agg.window
      \/ record.max = CountIn(agg, w) /\ record.maxAt = w
  BY <1>2, <1>3
<1>7. record.lastUpdate = IF lastPoint THEN w
                          ELSE IF Completes(agg, w) THEN agg.window
                          ELSE agg.record.lastUpdate
  BY <1>2, <1>3
<1> QED
  BY <1>3, <1>5, <1>6, <1>7

LEMMA PushOnTimeEffect ==
  ASSUME Shapes, NEW t \in Threads, PushOnTime(t)
  PROVE  /\ call[t].pc = "push" /\ call[t].window \in Windows /\ agg.window <= call[t].window
         /\ agg' = Push(agg, call[t].window)
         /\ Moved(t, "info", call[t].window, Yielded(agg, call[t].window), call[t].record)
         /\ phase # "down"
         /\ UNCHANGED <<features, lastPoint, cutShort, phase, keyDb, dataDb, pushed>>
<1>1. /\ call[t].pc = "push" /\ phase # "down" /\ ~(call[t].window < agg.window)
      /\ agg' = Push(agg, call[t].window)
      /\ call' = [call EXCEPT ![t].pc = "info",
                              ![t].points = Yielded(agg, call[t].window)]
      /\ UNCHANGED <<features, lastPoint, cutShort, phase, keyDb, dataDb, pushed>>
  BY DEF PushOnTime, IsLate, Running, options
<1>2. call[t].window \in Windows /\ agg.window <= call[t].window
  BY <1>1, CallTyped, AggTyped, WindowsAreTimes DEF CallFine, FieldsFine
<1>3. Yielded(agg, call[t].window) \in Lists
  BY <1>2, YieldedIs
<1> QED
  BY <1>1, <1>2, <1>3, MovesWithPoints DEF Places

LEMMA MergeUpdatesEffect ==
  ASSUME Shapes, NEW t \in Threads, MergeUpdates(t)
  PROVE  /\ call[t].pc = "merge" /\ call[t].window \in Windows
         /\ agg' \in Aggs /\ agg'.window = agg.window /\ agg'.count = agg.count
         /\ agg'.lastPoint = lastPoint /\ RecordFine(agg'.record)
         /\ agg'.record.lastUpdate = call[t].window
         /\ agg'.record.max = agg.record.max /\ agg'.record.maxAt = agg.record.maxAt
         /\ Moved(t, "compare", call[t].window, <<Point(call[t].window, 1)>>, call[t].record)
         /\ phase # "down"
         /\ UNCHANGED <<features, lastPoint, cutShort, phase, keyDb, dataDb, pushed>>
<1>1. /\ call[t].pc = "merge" /\ phase # "down"
      /\ agg' = [agg EXCEPT !.record.lastUpdate = call[t].window]
      /\ call' = [call EXCEPT ![t].pc = "compare",
                              ![t].points = <<Point(call[t].window, 1)>>]
      /\ UNCHANGED <<features, lastPoint, cutShort, phase, keyDb, dataDb, pushed>>
  BY DEF MergeUpdates, Running, options
<1>2. PICK w \in Windows : w = call[t].window /\ w \in Times
  BY <1>1, CallTyped, WindowsAreTimes DEF CallFine, FieldsFine
<1>3. /\ agg' \in Aggs /\ agg'.window = agg.window /\ agg'.count = agg.count
      /\ agg'.lastPoint = lastPoint
      /\ agg'.record.lastUpdate = call[t].window
      /\ agg'.record.max = agg.record.max /\ agg'.record.maxAt = agg.record.maxAt
  BY <1>1, <1>2, AggTyped DEF Aggs, Records
<1>4. RecordFine(agg'.record)
  BY <1>2, <1>3 DEF RecordFine
<1>5. PICK c \in Nat : c = 1
  OBVIOUS
<1>6. <<Point(w, c)>> \in Lists
  BY PointTyped
<1>7. Moved(t, "compare", call[t].window, <<Point(call[t].window, 1)>>, call[t].record)
  BY <1>1, <1>2, <1>5, <1>6, MovesWithPoints DEF Places
<1> QED
  BY <1>1, <1>2, <1>3, <1>4, <1>7

(* The rest of the update of a maximum: compare, assign it, assign its     *)
(* time.                                                                   *)
MergeGoesOn(t) == MergeCompares(t) \/ MergeAssigns(t) \/ MergeDates(t)

LEMMA MergeGoesOnEffect ==
  ASSUME Shapes, NEW t \in Threads, MergeGoesOn(t)
  PROVE  /\ call[t].pc \in Merging /\ call[t].window \in Windows
         /\ call[t].points = <<Point(call[t].window, 1)>>
         /\ agg' \in Aggs /\ agg'.window = agg.window /\ agg'.count = agg.count
         /\ agg'.lastPoint = lastPoint /\ RecordFine(agg'.record)
         /\ agg'.record.lastUpdate = agg.record.lastUpdate
         /\ agg'.record.max \in {agg.record.max, 1}
         /\ \E pc \in {"max", "maxat", "info"} :
              Moved(t, pc, call[t].window, <<Point(call[t].window, 1)>>, call[t].record)
         /\ phase # "down"
         /\ UNCHANGED <<features, lastPoint, cutShort, phase, keyDb, dataDb, pushed>>
<1>1. /\ call[t].pc \in Merging /\ phase # "down"
      /\ \/ agg' = agg
         \/ agg' = [agg EXCEPT !.record.max = 1]
         \/ agg' = [agg EXCEPT !.record.maxAt = call[t].window]
      /\ \E pc \in {"max", "maxat", "info"} : call' = [call EXCEPT ![t].pc = pc]
      /\ UNCHANGED <<features, lastPoint, cutShort, phase, keyDb, dataDb, pushed>>
  BY DEF MergeGoesOn, MergeCompares, MergeAssigns, MergeDates, Running, options, Merging
<1>2. PICK w \in Windows : /\ w = call[t].window /\ w \in Times
                           /\ call[t].points = <<Point(w, 1)>>
  BY <1>1, CallTyped, WindowsAreTimes DEF CallFine, FieldsFine
<1>3. agg.record.lastUpdate \in Windows
  BY <1>1 DEF Shapes, CallsFine
<1>4. /\ agg' \in Aggs /\ agg'.window = agg.window /\ agg'.count = agg.count
      /\ agg'.lastPoint = lastPoint
      /\ agg'.record.lastUpdate = agg.record.lastUpdate
      /\ agg'.record.max \in {agg.record.max, 1}
  <2>1. CASE agg' = agg
    BY <2>1, AggTyped
  <2>2. CASE agg' = [agg EXCEPT !.record.max = 1]
    BY <2>2, AggTyped DEF Aggs, Records
  <2>3. CASE agg' = [agg EXCEPT !.record.maxAt = call[t].window]
    BY <1>2, <2>3, AggTyped DEF Aggs, Records
  <2> QED
    BY <1>1, <2>1, <2>2, <2>3
<1>5. RecordFine(agg'.record)
  BY <1>3, <1>4 DEF RecordFine
<1>6. PICK pc \in {"max", "maxat", "info"} : call' = [call EXCEPT ![t].pc = pc]
  BY <1>1
<1>7. Moved(t, pc, call[t].window, call[t].points, call[t].record)
  BY <1>6, MovesOn DEF Places
<1> QED
  BY <1>1, <1>2, <1>4, <1>5, <1>7

LEMMA TakeRecordEffect ==
  ASSUME Shapes, NEW t \in Threads, TakeRecord(t)
  PROVE  /\ call[t].pc = "info"
         /\ Moved(t, "setkey", call[t].window, call[t].points, agg.record)
         /\ phase # "down"
         /\ UNCHANGED <<features, lastPoint, cutShort, phase, agg, keyDb, dataDb, pushed>>
<1>1. /\ call[t].pc = "info" /\ phase # "down"
      /\ call' = [call EXCEPT ![t].pc = "setkey", ![t].record = agg.record]
      /\ UNCHANGED <<features, lastPoint, cutShort, phase, agg, keyDb, dataDb, pushed>>
  BY DEF TakeRecord, Running, options
<1>2. call \in [Threads -> CallShapes] /\ agg.record \in Records
  BY AggTyped DEF Shapes, CallsFine
<1>3. call' \in [Threads -> CallShapes]
  BY <1>1, <1>2 DEF CallShapes, Places
<1>4. Moved(t, "setkey", call[t].window, call[t].points, agg.record)
  BY <1>1, <1>2, <1>3 DEF Moved, CallShapes
<1> QED
  BY <1>1, <1>4

LEMMA SetKeyEffect ==
  ASSUME Shapes, NEW t \in Threads, SetKey(t)
  PROVE  /\ call[t].pc = "setkey" /\ keyDb' = call[t].record
         /\ \/ call[t].points = <<>> /\ Moved(t, "idle", 0, <<>>, EmptyRecord)
            \/ /\ call[t].points # <<>>
               /\ Moved(t, "setdata", call[t].window, call[t].points, call[t].record)
         /\ phase # "down"
         /\ UNCHANGED <<features, lastPoint, cutShort, phase, agg, dataDb, pushed>>
<1>1. /\ call[t].pc = "setkey" /\ phase # "down" /\ keyDb' = call[t].record
      /\ \/ call[t].points = <<>> /\ Return(t)
         \/ call[t].points # <<>> /\ call' = [call EXCEPT ![t].pc = "setdata"]
      /\ UNCHANGED <<features, lastPoint, cutShort, phase, agg, dataDb, pushed>>
  BY DEF SetKey, Running, options
<1> QED
  BY <1>1, ReturnMoves, MovesOn DEF Places

(* The logs after window w got the entries e.                              *)
Filed(w, e) ==
    /\ dataDb' \in [Windows -> Logs]
    /\ \A v \in Windows : dataDb'[v] = IF v = w THEN e ELSE dataDb[v]
    /\ FirstSet(e)

LEMMA FiledFine ==
  ASSUME Shapes, NEW w \in Windows, NEW e \in Logs, FirstSet(e),
         dataDb' = [dataDb EXCEPT ![w] = e]
  PROVE  Filed(w, e)
  BY DEF Shapes, DbFine, Filed

(* The points of a call, at most two of them.                              *)
LEMMA PointsTyped ==
  ASSUME Shapes, NEW t \in Threads
  PROVE  /\ \A i \in 1..Len(call[t].points) :
              /\ call[t].points[i] \in Points(Windows, Nat)
              /\ call[t].points[i].window \in Windows /\ call[t].points[i].count \in Nat
         /\ \/ Len(call[t].points) = 0 /\ call[t].points = <<>>
            \/ Len(call[t].points) = 1
            \/ Len(call[t].points) = 2
<1>1. call[t].points \in Seq(Points(Windows, Nat)) /\ Len(call[t].points) <= 2
  BY CallTyped DEF Lists
<1>2. PICK ps \in Seq(Points(Windows, Nat)) : ps = call[t].points
  BY <1>1
<1>3. \A i \in 1..Len(ps) : ps[i] \in Points(Windows, Nat)
  OBVIOUS
<1>4. \A p \in Points(Windows, Nat) : p.window \in Windows /\ p.count \in Nat
  BY DEF Points
<1>5. Len(ps) = 0 \/ Len(ps) = 1 \/ Len(ps) = 2
  <2>1. PICK n \in Nat : n = Len(ps) /\ n <= 2
    BY <1>1, <1>2
  <2>2. n = 0 \/ n = 1 \/ n = 2
    BY <2>1
  <2> QED
    BY <2>1, <2>2
<1>6. Len(ps) = 0 => ps = <<>>
  OBVIOUS
<1> QED
  BY <1>2, <1>3, <1>4, <1>5, <1>6

LEMMA SetDataEffect ==
  ASSUME Shapes, NEW t \in Threads, SetData(t)
  PROVE  /\ call[t].pc = "setdata" /\ Len(call[t].points) \in {1, 2}
         /\ call[t].points[1].window \in Windows /\ call[t].points[1].count \in Nat
         /\ Filed(call[t].points[1].window, <<SetTo(call[t].points[1].count)>>)
         /\ \/ /\ Len(call[t].points) = 1
               /\ Moved(t, "idle", 0, <<>>, EmptyRecord)
            \/ /\ Len(call[t].points) = 2
               /\ Moved(t, "setdata", call[t].window, <<call[t].points[2]>>, call[t].record)
         /\ phase # "down"
         /\ UNCHANGED <<features, lastPoint, cutShort, phase, agg, keyDb, pushed>>
<1>1. /\ call[t].pc = "setdata" /\ phase # "down"
      /\ dataDb' = [dataDb EXCEPT ![Head(call[t].points).window] =
                                     <<SetTo(Head(call[t].points).count)>>]
      /\ \/ Len(call[t].points) = 1 /\ Return(t)
         \/ Len(call[t].points) # 1 /\ call' = [call EXCEPT ![t].points = Tail(@)]
      /\ UNCHANGED <<features, lastPoint, cutShort, phase, agg, keyDb, pushed>>
  BY DEF SetData, Running, options
<1>2. PICK ps \in Lists : ps = call[t].points
  BY CallTyped
<1>3. ps # <<>> /\ Len(ps) \in {1, 2}
  BY <1>1, <1>2, CallTyped, PointsTyped DEF CallFine, FieldsFine
<1>4. Head(ps) = ps[1] /\ 1 \in 1..Len(ps)
  BY <1>3 DEF Lists
<1>5. ps[1].window \in Windows /\ ps[1].count \in Nat
  BY <1>2, <1>4, PointsTyped
<1>6. Filed(ps[1].window, <<SetTo(ps[1].count)>>)
  <2>1. PICK c \in Nat : c = ps[1].count
    BY <1>5
  <2>2. <<SetTo(c)>> \in Logs /\ FirstSet(<<SetTo(c)>>)
    BY SetReads
  <2> QED
    BY <1>1, <1>2, <1>4, <1>5, <2>1, <2>2, FiledFine
<1>7. CASE Len(ps) = 1
  BY <1>1, <1>2, <1>3, <1>5, <1>6, <1>7, ReturnMoves
<1>8. CASE Len(ps) = 2
  <2>1. Tail(ps) = <<ps[2]>> /\ Tail(ps) \in Lists
    <3>1. ps[2] \in Points(Windows, Nat)
      BY <1>2, <1>8, PointsTyped
    <3>2. PICK x \in Points(Windows, Nat) : x = ps[2]
      BY <3>1
    <3>3. PICK s \in Seq(Points(Windows, Nat)) :
            /\ s = Tail(ps) /\ Len(s) = Len(ps) - 1
            /\ \A i \in 1..Len(s) : s[i] = ps[i + 1]
      <4>1. /\ Tail(ps) \in Seq(Points(Windows, Nat)) /\ Len(Tail(ps)) = Len(ps) - 1
            /\ \A i \in 1..Len(Tail(ps)) : Tail(ps)[i] = ps[i + 1]
        BY <1>3, HeadTailProperties DEF Lists
      <4> QED
        BY <4>1
    <3>4. Len(s) = 1 /\ s[1] = x
      <4>1. Len(s) = 1
        BY <1>8, <3>3
      <4>2. 1 \in 1..Len(s) /\ 1 + 1 = 2
        BY <4>1
      <4> QED
        BY <3>2, <3>3, <4>1, <4>2
    <3>5. s = <<x>>
      BY <3>4
    <3> QED
      BY <3>2, <3>3, <3>5 DEF Lists
  <2>2. call' = [call EXCEPT ![t].points = Tail(ps)]
    BY <1>1, <1>2, <1>8
  <2>3. PICK s \in Lists : s = Tail(ps)
    BY <2>1
  <2>4. call \in [Threads -> CallShapes]
    BY DEF Shapes, CallsFine
  <2>5. call' \in [Threads -> CallShapes]
    BY <2>2, <2>3, <2>4 DEF CallShapes
  <2>6. Moved(t, call[t].pc, call[t].window, Tail(ps), call[t].record)
    BY <2>2, <2>3, <2>4, <2>5 DEF Moved, CallShapes
  <2> QED
    BY <1>1, <1>2, <1>3, <1>5, <1>6, <1>8, <2>1, <2>6
<1> QED
  BY <1>3, <1>7, <1>8

(* What a late sample leaves of a window's entries.                        *)
LateOn(e) ==
    IF "setlate" \in features THEN <<SetTo(1)>> ELSE Append(e, MergedWith(1))

LEMMA LateReads ==
  ASSUME NEW e \in Logs, FirstSet(e)
  PROVE  /\ LateOn(e) \in Logs /\ FirstSet(LateOn(e))
         /\ SumOf(LateOn(e)) \in Nat /\ SumOf(LateOn(e)) <= SumOf(e) + 1
         /\ "setlate" \notin features => SumOf(LateOn(e)) = SumOf(e) + 1
         /\ Legible(e) => Legible(LateOn(e))
<1>1. PICK c \in Nat, s \in Nat : c = 1 /\ s = SumOf(e)
  BY ValuesTyped
<1>2. CASE "setlate" \in features
  <2>1. LateOn(e) = <<SetTo(c)>>
    BY <1>1, <1>2 DEF LateOn
  <2>2. /\ <<SetTo(c)>> \in Logs /\ FirstSet(<<SetTo(c)>>)
        /\ SumOf(<<SetTo(c)>>) = c /\ Legible(<<SetTo(c)>>)
    BY SetReads
  <2>3. c <= s + 1
    BY <1>1
  <2> QED
    BY <1>1, <1>2, <2>1, <2>2, <2>3
<1>3. CASE "setlate" \notin features
  <2>1. LateOn(e) = Append(e, MergedWith(c))
    BY <1>1, <1>3 DEF LateOn
  <2>2. /\ Append(e, MergedWith(c)) \in Logs /\ FirstSet(Append(e, MergedWith(c)))
        /\ SumOf(Append(e, MergedWith(c))) = s + c
        /\ Legible(e) => Legible(Append(e, MergedWith(c)))
    BY <1>1, AppendReads
  <2>3. s + c \in Nat /\ s + c = s + 1 /\ s + c <= s + 1
    BY <1>1
  <2> QED
    BY <1>1, <1>3, <2>1, <2>2, <2>3
<1> QED
  BY <1>2, <1>3

LEMMA IncDataEffect ==
  ASSUME Shapes, NEW t \in Threads, IncData(t)
  PROVE  /\ call[t].pc = "late" /\ call[t].window \in Windows
         /\ Filed(call[t].window, LateOn(dataDb[call[t].window]))
         /\ Moved(t, "idle", 0, <<>>, EmptyRecord)
         /\ phase # "down"
         /\ UNCHANGED <<features, lastPoint, cutShort, phase, agg, keyDb, pushed>>
<1>1. /\ call[t].pc = "late" /\ phase # "down" /\ Return(t)
      /\ dataDb' = [dataDb EXCEPT ![Head(call[t].points).window] =
                      IF "setlate" \in features
                      THEN <<SetTo(Head(call[t].points).count)>>
                      ELSE Append(@, MergedWith(Head(call[t].points).count))]
      /\ UNCHANGED <<features, lastPoint, cutShort, phase, agg, keyDb, pushed>>
  BY DEF IncData, Running, options
<1>2. PICK w \in Windows : w = call[t].window /\ call[t].points = <<Point(w, 1)>>
  BY <1>1, CallTyped DEF CallFine, FieldsFine
<1>3. PICK c \in Nat : c = 1
  OBVIOUS
<1>4. Head(call[t].points) = Point(w, c)
  BY <1>2, <1>3
<1>5. Head(call[t].points).window = w /\ Head(call[t].points).count = 1
  <2>1. Point(w, c).window = w /\ Point(w, c).count = c
    BY PointTyped
  <2> QED
    BY <1>3, <1>4, <2>1
<1>6. PICK e \in Logs : e = dataDb[w] /\ FirstSet(e)
  BY DEF Shapes, DbFine
<1>7. dataDb' = [dataDb EXCEPT ![w] = LateOn(e)]
  BY <1>1, <1>5, <1>6 DEF LateOn
<1>8. LateOn(e) \in Logs /\ FirstSet(LateOn(e))
  BY <1>6, LateReads
<1>9. Filed(w, LateOn(e))
  BY <1>7, <1>8, FiledFine
<1> QED
  BY <1>1, <1>2, <1>6, <1>9, ReturnMoves

LEMMA DbFailsEffect ==
  ASSUME Shapes, NEW t \in Threads, DbFails(t)
  PROVE  /\ "io" \in features /\ call[t].pc \in {"setkey", "setdata", "late"}
         /\ Moved(t, "idle", 0, <<>>, EmptyRecord)
         /\ phase # "down"
         /\ UNCHANGED <<features, lastPoint, cutShort, phase, agg, keyDb, dataDb, pushed>>
  BY ReturnMoves DEF DbFails, Running, options

LEMMA StartCloseEffect ==
  ASSUME Shapes, NEW t \in Threads, StartClose(t)
  PROVE  /\ "close" \in features /\ phase = "open" /\ phase' = "closing"
         /\ \A u \in Threads : call[u].pc = "idle"
         /\ \/ Moved(t, "setkey", 0, <<>>, agg.record) /\ ~(lastPoint /\ agg.count > 0)
            \/ /\ lastPoint /\ agg.count > 0 /\ agg.window \in Windows
               /\ Moved(t, "setkey", 0, <<Point(agg.window, agg.count)>>, agg.record)
         /\ UNCHANGED <<features, lastPoint, cutShort, agg, keyDb, dataDb, pushed>>
<1>1. /\ "close" \in features /\ phase = "open" /\ phase' = "closing"
      /\ \A u \in Threads : call[u].pc = "idle"
      /\ call' = [call EXCEPT ![t] =
           [Idle EXCEPT !.pc = "setkey", !.record = agg.record, !.points = ForcedPoints(agg)]]
      /\ UNCHANGED <<features, lastPoint, cutShort, agg, keyDb, dataDb, pushed>>
  BY DEF StartClose, options
<1>2. \/ ForcedPoints(agg) = <<>> /\ ~(lastPoint /\ agg.count > 0)
      \/ /\ lastPoint /\ agg.count > 0 /\ agg.window \in Windows
         /\ ForcedPoints(agg) = <<Point(agg.window, agg.count)>>
  BY AggTyped DEF ForcedPoints
<1>3. PICK ps \in Lists : ps = ForcedPoints(agg)
  BY <1>2, AggTyped, PointTyped, EmptyTyped
<1>4. Moved(t, "setkey", 0, ps, agg.record)
  <2> DEFINE c == [Idle EXCEPT !.pc = "setkey", !.record = agg.record, !.points = ps]
  <2>1. /\ c \in CallShapes /\ c.pc = "setkey" /\ c.window = 0 /\ c.points = ps
        /\ c.record = agg.record
    BY EmptyTyped, AggTyped DEF CallShapes, Places
  <2>2. call' = [call EXCEPT ![t] = c] /\ call \in [Threads -> CallShapes]
    BY <1>1, <1>3 DEF Shapes, CallsFine
  <2> HIDE DEF c
  <2> QED
    BY <2>1, <2>2 DEF Moved
<1> QED
  BY <1>1, <1>2, <1>3, <1>4

LEMMA VanishEffect ==
  ASSUME Shapes, Vanish
  PROVE  /\ phase' = "down" /\ agg' = New(0, lastPoint)
         /\ call' \in [Threads -> CallShapes] /\ \A t \in Threads : call'[t] = Idle
         /\ cutShort' \in SUBSET Windows /\ cutShort \subseteq cutShort'
         /\ keyDb.lastUpdate \in Windows => keyDb.lastUpdate \in cutShort'
         /\ \A w \in Windows : keyDb.lastUpdate <= w /\ w <= agg.window => w \in cutShort'
         /\ \A t \in Threads : call[t].window \in Windows => call[t].window \in cutShort'
         /\ \A t \in Threads : \A i \in 1..Len(call[t].points) :
              call[t].points[i].window \in cutShort'
         /\ UNCHANGED <<features, lastPoint, keyDb, dataDb, pushed>>
<1>1. /\ phase' = "down" /\ agg' = New(0, lastPoint)
      /\ call' = [t \in Threads |-> Idle]
      /\ UNCHANGED <<features, lastPoint, keyDb, dataDb, pushed>>
  BY DEF Vanish, NoAggregator
<1>2. cutShort' = cutShort \cup (Windows \cap
         ({keyDb.lastUpdate} \cup keyDb.lastUpdate..agg.window
            \cup UNION {UnderWay(t) : t \in Threads}))
  BY DEF Vanish
<1>3. cutShort' \in SUBSET Windows /\ cutShort \subseteq cutShort'
  BY <1>2 DEF Shapes
<1>4. ASSUME NEW w \in Windows, keyDb.lastUpdate <= w, w <= agg.window PROVE w \in cutShort'
  <2>1. w \in keyDb.lastUpdate..agg.window
    <3>1. keyDb.lastUpdate \in Int /\ agg.window \in Int /\ w \in Int
      BY WindowsAreTimes, AggTyped DEF Shapes, DbFine, Records
    <3> QED
      BY <1>4, <3>1
  <2> QED
    BY <1>2, <2>1
<1>5. ASSUME NEW t \in Threads, NEW w \in Windows, w \in UnderWay(t) PROVE w \in cutShort'
  BY <1>2, <1>5
<1>6. ASSUME NEW t \in Threads, call[t].window \in Windows PROVE call[t].window \in cutShort'
  BY <1>5, <1>6 DEF UnderWay
<1>7. ASSUME NEW t \in Threads, NEW i \in 1..Len(call[t].points)
      PROVE  call[t].points[i].window \in cutShort'
  <2>1. call[t].points[i].window \in Windows /\ DOMAIN call[t].points = 1..Len(call[t].points)
    BY PointsTyped, CallTyped DEF Lists
  <2>2. call[t].points[i].window \in UnderWay(t)
    BY <2>1 DEF UnderWay
  <2> QED
    BY <1>5, <2>1, <2>2
<1> QED
  BY <1>1, <1>2, <1>3, <1>4, <1>6, <1>7, EmptyTyped

LEMMA OpenEffect ==
  ASSUME Shapes, Open
  PROVE  /\ phase = "down" /\ phase' = "open"
         /\ agg' \in Aggs /\ agg'.lastPoint = lastPoint
         /\ agg'.window = keyDb.lastUpdate /\ agg'.count \in {0, keyDb.max}
         /\ agg'.record = keyDb
         /\ UNCHANGED <<features, lastPoint, cutShort, call, keyDb, dataDb, pushed>>
<1>1. /\ phase = "down" /\ phase' = "open"
      /\ agg' \in IF keyDb = NoRecord THEN {NoAggregator} ELSE Restored(keyDb, lastPoint)
      /\ UNCHANGED <<features, lastPoint, cutShort, call, keyDb, dataDb, pushed>>
  BY DEF Open, options
<1>2. keyDb \in Records /\ lastPoint \in BOOLEAN
  BY DEF Shapes, DbFine
<1>3. CASE keyDb = EmptyRecord
  <2>1. agg' = New(0, lastPoint)
    BY <1>1, <1>3 DEF NoRecord, NoAggregator
  <2> QED
    BY <1>1, <1>2, <1>3, <2>1, NewTyped, EmptyTyped, WindowsAreTimes
<1>4. CASE keyDb # EmptyRecord
  <2>1. keyDb.lastUpdate \in Times /\ keyDb.max \in Nat
    BY <1>2 DEF Records
  <2>2. PICK a \in Aggs : /\ a = New(keyDb.lastUpdate, lastPoint)
                          /\ a.window = keyDb.lastUpdate /\ a.lastPoint = lastPoint
    BY <1>2, <2>1, NewTyped
  <2>3. PICK c \in {0, keyDb.max} : agg' = [a EXCEPT !.count = c, !.record = keyDb]
    BY <1>1, <1>4, <2>2 DEF NoRecord, Restored
  <2>4. c \in Nat
    BY <2>1
  <2> QED
    BY <1>1, <1>2, <2>2, <2>3, <2>4 DEF Aggs
<1> QED
  BY <1>3, <1>4

LEMMA CompactEffect ==
  ASSUME Shapes, NEW w \in Windows, Compact(w)
  PROVE  /\ dataDb' \in [Windows -> Logs]
         /\ \A v \in Windows : /\ SumOf(dataDb'[v]) = SumOf(dataDb[v])
                               /\ ReadOf(dataDb'[v]) = ReadOf(dataDb[v])
                               /\ dataDb'[v] = <<>> <=> dataDb[v] = <<>>
                               /\ FirstSet(dataDb'[v])
                               /\ Legible(dataDb[v]) => Legible(dataDb'[v])
         /\ UNCHANGED <<features, lastPoint, cutShort, phase, agg, call, keyDb, pushed>>
<1>1. PICK entries \in Compactions(dataDb[w]) : dataDb' = [dataDb EXCEPT ![w] = entries]
  BY DEF Compact
<1>2. dataDb \in [Windows -> Logs] /\ \A v \in Windows : FirstSet(dataDb[v])
  BY DEF Shapes, DbFine
<1>3. PICK e \in Logs : e = dataDb[w]
  BY <1>2
<1>4. /\ entries \in Logs /\ entries # <<>> /\ e # <<>>
      /\ SumOf(entries) = SumOf(e) /\ ReadOf(entries) = ReadOf(e)
      /\ FirstSet(e) => FirstSet(entries)
      /\ Legible(e) => Legible(entries)
  BY <1>1, <1>3, CompactionReads
<1>5. /\ dataDb' \in [Windows -> Logs]
      /\ \A v \in Windows : dataDb'[v] = IF v = w THEN entries ELSE dataDb[v]
  BY <1>1, <1>2, <1>4
<1>6. UNCHANGED <<features, lastPoint, cutShort, phase, agg, call, keyDb, pushed>>
  BY DEF Compact, options
<1> QED
  BY <1>2, <1>3, <1>4, <1>5, <1>6

LEMMA SpoilEffect ==
  ASSUME Shapes, NEW w \in Windows, Spoil(w)
  PROVE  /\ dataDb' \in [Windows -> Logs]
         /\ \A v \in Windows : /\ SumOf(dataDb'[v]) <= SumOf(dataDb[v])
                               /\ dataDb'[v] = <<>> <=> dataDb[v] = <<>>
                               /\ FirstSet(dataDb'[v])
                               /\ v # w => dataDb'[v] = dataDb[v]
         /\ cutShort' = cutShort \cup {w}
         /\ UNCHANGED <<features, lastPoint, phase, agg, call, keyDb, pushed>>
<1>1. PICK i \in DOMAIN dataDb[w] : dataDb' = [dataDb EXCEPT ![w][i].value = Unreadable]
  BY DEF Spoil
<1>2. dataDb \in [Windows -> Logs] /\ \A v \in Windows : FirstSet(dataDb[v])
  BY DEF Shapes, DbFine
<1>3. PICK e \in Logs : e = dataDb[w] /\ i \in 1..Len(e) /\ FirstSet(e)
  BY <1>2 DEF Logs
<1>4. PICK k : k = Spoiled(e, i)
  OBVIOUS
<1>5. k \in Logs /\ Len(k) = Len(e) /\ SumOf(k) <= SumOf(e) /\ FirstSet(k)
  BY <1>3, <1>4, SpoilReads
<1>6. dataDb' = [dataDb EXCEPT ![w] = k]
  BY <1>1, <1>2, <1>3, <1>4 DEF Spoiled
<1>7. /\ dataDb' \in [Windows -> Logs]
      /\ \A v \in Windows : dataDb'[v] = IF v = w THEN k ELSE dataDb[v]
  BY <1>2, <1>5, <1>6
<1>8. k = <<>> <=> e = <<>>
  BY <1>5 DEF Logs
<1>9. /\ cutShort' = cutShort \cup {w}
      /\ UNCHANGED <<features, lastPoint, phase, agg, call, keyDb, pushed>>
  BY DEF Spoil
<1>10. \A v \in Windows : SumOf(dataDb[v]) \in Nat
  BY <1>2, ValuesTyped
<1> QED
  BY <1>2, <1>3, <1>5, <1>7, <1>8, <1>9, <1>10

-----------------------------------------------------------------------------
(* The shape of the state is kept by every step of every environment.      *)
LEMMA CallsMove ==
  ASSUME Shapes, NEW t \in Threads, NEW pc, NEW window, NEW points, NEW record,
         Moved(t, pc, window, points, record), FieldsFine(pc, window, points, record),
         pc \in Merging \/ agg.record.lastUpdate \in Windows => agg'.record.lastUpdate \in Windows
  PROVE  CallsFine'
<1>1. call' \in [Threads -> CallShapes]
  BY DEF Moved
<1>2. ASSUME NEW u \in Threads
      PROVE  CallFine(call'[u]) /\ (call'[u].pc \in Merging => agg'.record.lastUpdate \in Windows)
  <2>1. CASE u = t
    BY <2>1 DEF Moved, CallFine
  <2>2. CASE u # t
    <3>1. call'[u] = call[u]
      BY <2>2 DEF Moved
    <3> QED
      BY <3>1 DEF Shapes, CallsFine
  <2> QED
    BY <2>1, <2>2
<1> QED
  BY <1>1, <1>2 DEF CallsFine

(* One call moves on, the process runs, the databases and the aggregator   *)
(* are well shaped.                                                        *)
LEMMA ShapesMove ==
  ASSUME Shapes, NEW t \in Threads, NEW pc, NEW window, NEW points, NEW record,
         Moved(t, pc, window, points, record), FieldsFine(pc, window, points, record),
         pc \in Merging \/ agg.record.lastUpdate \in Windows => agg'.record.lastUpdate \in Windows,
         AggFine', DbFine', phase' \in {"open", "closing"},
         UNCHANGED <<features, lastPoint, cutShort>>, pushed' \in [Windows -> Nat]
  PROVE  Shapes'
<1>1. CallsFine'
  BY CallsMove
<1> QED
  BY <1>1 DEF Shapes

LEMMA FiledDb ==
  ASSUME Shapes, NEW w, NEW e, Filed(w, e), keyDb' = keyDb
  PROVE  DbFine'
<1>1. ASSUME NEW v \in Windows PROVE FirstSet(dataDb'[v])
  <2>1. CASE v = w
    BY <2>1 DEF Filed
  <2>2. CASE v # w
    BY <2>2 DEF Filed, Shapes, DbFine
  <2> QED
    BY <2>1, <2>2
<1> QED
  BY <1>1 DEF Filed, Shapes, DbFine

LEMMA IdleFine == FieldsFine("idle", 0, <<>>, EmptyRecord)
  BY EmptyTyped DEF FieldsFine, Merging

LEMMA ShapesInit ==
  ASSUME Init
  PROVE  Shapes
<1>1. AggFine
  BY NewTyped, EmptyTyped, WindowsAreTimes DEF Init, NoAggregator, AggFine
<1>2. CallsFine
  <2>1. \A t \in Threads : call[t] = Idle
    BY DEF Init
  <2>2. CallFine(Idle) /\ Idle.pc \notin Merging
    BY EmptyTyped, IdleFine DEF CallFine, Merging
  <2> QED
    BY <2>1, <2>2, EmptyTyped DEF Init, CallsFine
<1>3. DbFine
  <2>1. dataDb \in [Windows -> Logs] /\ \A w \in Windows : dataDb[w] = <<>>
    BY NothingRead DEF Init
  <2> QED
    BY <2>1, NothingRead, EmptyTyped DEF Init, DbFine, NoRecord
<1> QED
  BY <1>1, <1>2, <1>3 DEF Init, Shapes

LEMMA ShapesStart ==
  ASSUME Shapes, NEW t \in Threads, NEW w \in Windows, NEW pc \in {"push", "merge"},
         Start(t, w, pc)
  PROVE  Shapes'
<1>1. FieldsFine(pc, w, <<>>, EmptyRecord)
  BY EmptyTyped DEF FieldsFine, Merging
<1>2. AggFine' /\ (agg.record.lastUpdate \in Windows => agg'.record.lastUpdate \in Windows)
  <2>1. CASE agg' = agg
    BY <2>1, StartEffect DEF Shapes, AggFine
  <2>2. CASE agg = New(0, lastPoint) /\ agg' = New(w, lastPoint)
    <3>1. PICK b \in BOOLEAN, z \in Times, v \in Times : b = lastPoint /\ z = 0 /\ v = w
      BY AggTyped, WindowsAreTimes
    <3>2. /\ New(v, b) \in Aggs /\ New(v, b).count = 0 /\ New(v, b).lastPoint = b
          /\ New(v, b).record = EmptyRecord /\ New(z, b).record = EmptyRecord
      BY NewTyped
    <3>3. agg' = New(v, b) /\ agg = New(z, b) /\ lastPoint' = b
      BY <2>2, <3>1, StartEffect
    <3> QED
      BY <3>2, <3>3, EmptyTyped, WindowsAreTimes DEF AggFine
  <2> QED
    BY <2>1, <2>2, StartEffect
<1>3. DbFine'
  BY StartEffect DEF Shapes, DbFine
<1>4. /\ Moved(t, pc, w, <<>>, EmptyRecord) /\ phase' \in {"open", "closing"}
      /\ pushed' \in [Windows -> Nat] /\ UNCHANGED <<features, lastPoint, cutShort>>
  BY StartEffect
<1> QED
  BY <1>1, <1>2, <1>3, <1>4, ShapesMove DEF Merging

LEMMA ShapesPushOnTime ==
  ASSUME Shapes, NEW t \in Threads, PushOnTime(t)
  PROVE  Shapes'
<1>1. PICK w \in Windows : /\ w = call[t].window /\ agg.window <= w /\ agg' = Push(agg, w)
                           /\ Moved(t, "info", w, Yielded(agg, w), call[t].record)
  BY PushOnTimeEffect
<1>2. FieldsFine("info", w, Yielded(agg, w), call[t].record)
  BY <1>1, YieldedIs, CallTyped DEF FieldsFine, Merging
<1>3. AggFine'
  BY <1>1, PushIs, PushOnTimeEffect DEF AggFine
<1>4. agg.record.lastUpdate \in Windows => agg'.record.lastUpdate \in Windows
  <2>1. Completes(agg, w) => agg.window \in Windows
    BY AggTyped DEF Completes
  <2> QED
    BY <1>1, <2>1, PushIs
<1>5. DbFine' /\ phase' \in {"open", "closing"} /\ pushed' \in [Windows -> Nat]
  BY PushOnTimeEffect DEF Shapes, DbFine
<1>6. UNCHANGED <<features, lastPoint, cutShort>>
  BY PushOnTimeEffect
<1> QED
  BY <1>1, <1>2, <1>3, <1>4, <1>5, <1>6, ShapesMove DEF Merging

LEMMA ShapesPushLate ==
  ASSUME Shapes, NEW t \in Threads, PushLate(t)
  PROVE  Shapes'
<1>1. PICK w \in Windows, c \in Nat :
         /\ w = call[t].window /\ c = 1
         /\ Moved(t, "late", w, <<Point(w, c)>>, call[t].record)
  BY PushLateEffect
<1>2. FieldsFine("late", w, <<Point(w, c)>>, call[t].record)
  <2>1. PICK ps \in Lists : ps = <<Point(w, c)>> /\ Len(ps) = 1
    BY PointTyped
  <2>2. ps = <<Point(w, 1)>> /\ RecordFine(call[t].record)
    BY <1>1, <2>1, CallTyped
  <2>3. FieldsFine("late", w, ps, call[t].record)
    BY <2>1, <2>2 DEF FieldsFine, Merging
  <2> QED
    BY <2>1, <2>3
<1>3. /\ DbFine' /\ AggFine' /\ phase' \in {"open", "closing"}
      /\ pushed' \in [Windows -> Nat] /\ agg' = agg
      /\ UNCHANGED <<features, lastPoint, cutShort>>
  BY PushLateEffect DEF Shapes, DbFine, AggFine
<1> QED
  BY <1>1, <1>2, <1>3, ShapesMove DEF Merging

LEMMA ShapesMerge ==
  ASSUME Shapes, NEW t \in Threads, MergeUpdates(t) \/ MergeGoesOn(t)
  PROVE  Shapes'
<1>1. PICK w \in Windows, c \in Nat, pc \in {"compare", "max", "maxat", "info"} :
         /\ w = call[t].window /\ c = 1
         /\ Moved(t, pc, w, <<Point(w, c)>>, call[t].record)
  <2>1. CASE MergeUpdates(t)
    BY <2>1, MergeUpdatesEffect
  <2>2. CASE MergeGoesOn(t)
    BY <2>2, MergeGoesOnEffect
  <2> QED
    BY <2>1, <2>2
<1>2. FieldsFine(pc, w, <<Point(w, c)>>, call[t].record)
  <2>1. PICK ps \in Lists : ps = <<Point(w, c)>> /\ Len(ps) = 1 /\ ps # <<>>
    BY PointTyped
  <2>2. ps = <<Point(w, 1)>> /\ RecordFine(call[t].record)
    BY <1>1, <2>1, CallTyped
  <2>3. FieldsFine(pc, w, ps, call[t].record)
    BY <2>1, <2>2 DEF FieldsFine, Merging
  <2> QED
    BY <2>1, <2>3
<1>3. AggFine' /\ agg'.record.lastUpdate \in Windows
  <2>1. CASE MergeUpdates(t)
    BY <2>1, MergeUpdatesEffect DEF Shapes, AggFine
  <2>2. CASE MergeGoesOn(t)
    BY <2>2, MergeGoesOnEffect DEF Shapes, AggFine, CallsFine
  <2> QED
    BY <2>1, <2>2
<1>4. /\ DbFine' /\ phase' \in {"open", "closing"} /\ pushed' \in [Windows -> Nat]
      /\ UNCHANGED <<features, lastPoint, cutShort>>
  BY MergeUpdatesEffect, MergeGoesOnEffect DEF Shapes, DbFine
<1> QED
  BY <1>1, <1>2, <1>3, <1>4, ShapesMove DEF Merging

LEMMA ShapesTakeRecord ==
  ASSUME Shapes, NEW t \in Threads, TakeRecord(t)
  PROVE  Shapes'
<1>1. /\ Moved(t, "setkey", call[t].window, call[t].points, agg.record)
      /\ FieldsFine("setkey", call[t].window, call[t].points, agg.record)
  BY TakeRecordEffect, AggTyped, CallTyped DEF FieldsFine, Merging
<1>2. /\ DbFine' /\ AggFine' /\ phase' \in {"open", "closing"}
      /\ pushed' \in [Windows -> Nat] /\ agg' = agg
      /\ UNCHANGED <<features, lastPoint, cutShort>>
  BY TakeRecordEffect DEF Shapes, DbFine, AggFine
<1> QED
  BY <1>1, <1>2, ShapesMove DEF Merging

LEMMA ShapesSetKey ==
  ASSUME Shapes, NEW t \in Threads, SetKey(t)
  PROVE  Shapes'
<1>1. /\ DbFine' /\ AggFine' /\ phase' \in {"open", "closing"}
      /\ pushed' \in [Windows -> Nat] /\ agg' = agg
      /\ UNCHANGED <<features, lastPoint, cutShort>>
  BY SetKeyEffect, CallTyped DEF Shapes, DbFine, AggFine
<1>2. CASE Moved(t, "idle", 0, <<>>, EmptyRecord)
  BY <1>1, <1>2, IdleFine, ShapesMove DEF Merging
<1>3. CASE /\ call[t].points # <<>>
           /\ Moved(t, "setdata", call[t].window, call[t].points, call[t].record)
  <2>1. FieldsFine("setdata", call[t].window, call[t].points, call[t].record)
    BY <1>3, CallTyped DEF FieldsFine, Merging
  <2> QED
    BY <1>1, <1>3, <2>1, ShapesMove DEF Merging
<1> QED
  BY <1>2, <1>3, SetKeyEffect

LEMMA ShapesSetData ==
  ASSUME Shapes, NEW t \in Threads, SetData(t)
  PROVE  Shapes'
<1>1. /\ AggFine' /\ phase' \in {"open", "closing"}
      /\ pushed' \in [Windows -> Nat] /\ agg' = agg
      /\ UNCHANGED <<features, lastPoint, cutShort>>
  BY SetDataEffect DEF Shapes, AggFine
<1>2. DbFine'
  BY SetDataEffect, FiledDb
<1>3. CASE Moved(t, "idle", 0, <<>>, EmptyRecord)
  BY <1>1, <1>2, <1>3, IdleFine, ShapesMove DEF Merging
<1>4. CASE /\ Len(call[t].points) = 2
           /\ Moved(t, "setdata", call[t].window, <<call[t].points[2]>>, call[t].record)
  <2>1. PICK x : x = call[t].points[2]
    OBVIOUS
  <2>2. <<x>> # <<>> /\ Len(<<x>>) <= 2
    OBVIOUS
  <2>3. FieldsFine("setdata", call[t].window, <<x>>, call[t].record)
    BY <2>2, CallTyped DEF FieldsFine, Merging
  <2> QED
    BY <1>1, <1>2, <1>4, <2>1, <2>3, ShapesMove DEF Merging
<1> QED
  BY <1>3, <1>4, SetDataEffect

LEMMA ShapesReturns ==
  ASSUME Shapes, NEW t \in Threads, IncData(t) \/ DbFails(t)
  PROVE  Shapes'
<1>1. /\ AggFine' /\ phase' \in {"open", "closing"}
      /\ pushed' \in [Windows -> Nat] /\ agg' = agg
      /\ UNCHANGED <<features, lastPoint, cutShort>>
      /\ Moved(t, "idle", 0, <<>>, EmptyRecord)
  BY IncDataEffect, DbFailsEffect DEF Shapes, AggFine
<1>2. DbFine'
  <2>1. CASE IncData(t)
    BY <2>1, IncDataEffect, FiledDb
  <2>2. CASE DbFails(t)
    BY <2>2, DbFailsEffect DEF Shapes, DbFine
  <2> QED
    BY <2>1, <2>2
<1> QED
  BY <1>1, <1>2, IdleFine, ShapesMove DEF Merging

LEMMA ShapesStartClose ==
  ASSUME Shapes, NEW t \in Threads, StartClose(t)
  PROVE  Shapes'
<1>1. /\ DbFine' /\ AggFine' /\ phase' \in {"open", "closing"}
      /\ pushed' \in [Windows -> Nat] /\ agg' = agg
      /\ UNCHANGED <<features, lastPoint, cutShort>>
  BY StartCloseEffect DEF Shapes, DbFine, AggFine
<1>2. CASE Moved(t, "setkey", 0, <<>>, agg.record)
  <2>1. FieldsFine("setkey", 0, <<>>, agg.record)
    BY AggTyped, EmptyTyped DEF FieldsFine, Merging
  <2> QED
    BY <1>1, <1>2, <2>1, ShapesMove DEF Merging
<1>3. CASE /\ agg.window \in Windows
           /\ Moved(t, "setkey", 0, <<Point(agg.window, agg.count)>>, agg.record)
  <2>1. FieldsFine("setkey", 0, <<Point(agg.window, agg.count)>>, agg.record)
    <3>1. PICK w \in Windows, c \in Nat : w = agg.window /\ c = agg.count
      BY <1>3, AggTyped
    <3>2. PICK ps \in Lists : ps = <<Point(w, c)>> /\ Len(ps) = 1
      BY PointTyped
    <3>3. FieldsFine("setkey", 0, ps, agg.record)
      BY <3>2, AggTyped DEF FieldsFine, Merging
    <3> QED
      BY <3>1, <3>2, <3>3
  <2> QED
    BY <1>1, <1>3, <2>1, ShapesMove DEF Merging
<1> QED
  BY <1>2, <1>3, StartCloseEffect

LEMMA ShapesVanish ==
  ASSUME Shapes, Vanish
  PROVE  Shapes'
<1>1. AggFine'
  BY VanishEffect, NewTyped, AggTyped, EmptyTyped, WindowsAreTimes DEF AggFine
<1>2. CallsFine'
  <2>1. CallFine(Idle) /\ Idle.pc \notin Merging
    BY EmptyTyped, IdleFine DEF CallFine, Merging
  <2> QED
    BY <2>1, VanishEffect DEF CallsFine
<1>3. DbFine'
  BY VanishEffect DEF Shapes, DbFine
<1>4. agg' = NoAggregator' /\ \A t \in Threads : call'[t].pc = "idle"
  BY VanishEffect, EmptyTyped DEF NoAggregator
<1>5. /\ phase' = "down" /\ cutShort' \in SUBSET Windows /\ pushed' \in [Windows -> Nat]
      /\ UNCHANGED <<features, lastPoint>>
  BY VanishEffect DEF Shapes
<1> QED
  BY <1>1, <1>2, <1>3, <1>4, <1>5 DEF Shapes

LEMMA ShapesOpen ==
  ASSUME Shapes, Open
  PROVE  Shapes'
<1>1. AggFine'
  <2>1. agg'.count > 0 => agg'.window \in Windows
    BY OpenEffect, EmptyTyped DEF Shapes, DbFine, RecordFine
  <2> QED
    BY <2>1, OpenEffect DEF Shapes, DbFine, AggFine
<1>2. CallsFine'
  BY OpenEffect DEF Shapes, CallsFine, Merging
<1>3. DbFine' /\ phase' = "open"
  BY OpenEffect DEF Shapes, DbFine
<1> QED
  BY <1>1, <1>2, <1>3, OpenEffect DEF Shapes

LEMMA ShapesRocks ==
  ASSUME Shapes, NEW w \in Windows, Compact(w) \/ Spoil(w)
  PROVE  Shapes'
<1>1. DbFine'
  BY CompactEffect, SpoilEffect DEF Shapes, DbFine
<1>2. AggFine' /\ CallsFine'
  BY CompactEffect, SpoilEffect DEF Shapes, AggFine, CallsFine
<1>3. /\ cutShort' \in SUBSET Windows
      /\ UNCHANGED <<features, lastPoint, phase, agg, call, pushed>>
  BY CompactEffect, SpoilEffect DEF Shapes
<1> QED
  BY <1>1, <1>2, <1>3 DEF Shapes, NoAggregator

LEMMA ShapesStep ==
  ASSUME Shapes, [Next]_vars
  PROVE  Shapes'
<1>1. CASE \E t \in Threads, w \in Windows : StartAdd(t, w) \/ StartMerge(t, w)
  BY <1>1, ShapesStart DEF StartAdd, StartMerge
<1>2. CASE \E t \in Threads : PushLate(t) \/ PushOnTime(t)
  BY <1>2, ShapesPushLate, ShapesPushOnTime
<1>3. CASE \E t \in Threads : MergeUpdates(t) \/ MergeGoesOn(t)
  BY <1>3, ShapesMerge
<1>4. CASE \E t \in Threads : TakeRecord(t) \/ SetKey(t) \/ SetData(t)
  BY <1>4, ShapesTakeRecord, ShapesSetKey, ShapesSetData
<1>5. CASE \E t \in Threads : IncData(t) \/ DbFails(t) \/ StartClose(t)
  BY <1>5, ShapesReturns, ShapesStartClose
<1>6. CASE FinishClose \/ Crash \/ Open
  BY <1>6, ShapesVanish, ShapesOpen DEF FinishClose, Crash
<1>7. CASE \E w \in Windows : Compact(w) \/ Spoil(w)
  BY <1>7, ShapesRocks
<1>8. CASE UNCHANGED vars
  BY <1>8 DEF vars, Shapes, AggFine, CallsFine, DbFine, NoAggregator
<1> QED
  BY <1>1, <1>2, <1>3, <1>4, <1>5, <1>6, <1>7, <1>8 DEF Next, MergeGoesOn

(* Every state of every environment is well shaped.                        *)
THEOREM WellShaped == Spec => []Shapes
<1>1. Init => Shapes
  BY ShapesInit
<1>2. Shapes /\ [Next]_vars => Shapes'
  BY ShapesStep
<1> QED
  BY <1>1, <1>2, PTL DEF Spec

(* AddPath!CompactionKeepsReads: a compaction of whatever RocksDB holds    *)
(* for a window, spoiled values included, changes no answer.               *)
THEOREM CompactionsKeepReads == Spec => CompactionKeepsReads
<1>1. Shapes /\ [Next]_vars =>
        [(\E w \in Windows : Compact(w)) =>
           \A w \in Windows : ReadOf(dataDb'[w]) = ReadOf(dataDb[w])]_vars
  BY CompactEffect
<1> QED
  BY <1>1, WellShaped, PTL DEF Spec, CompactionKeepsReads

-----------------------------------------------------------------------------
(* A sample is handed in when a call starts and enters when the mutex has  *)
(* been taken for it, or when it has been saved by itself.                 *)
Waits(c, W) == c.pc \in {"push", "late", "merge"} /\ c.window \in W

Waiting(calls, W) == Cardinality({t \in Threads : Waits(calls[t], W)})

Entered(calls, samples) == SumFunction(samples) - Waiting(calls, Windows)

LEMMA PushedSum ==
  ASSUME Shapes
  PROVE  /\ SumFunction(pushed) \in Nat
         /\ \A w \in Windows : pushed[w] \in Nat /\ pushed[w] <= SumFunction(pushed)
<1>1. pushed \in [Windows -> Nat] /\ IsFiniteSet(Windows)
  BY WindowsAreTimes DEF Shapes
<1> QED
  BY <1>1, SumOfNaturals

LEMMA WaitingTyped ==
  ASSUME NEW c, NEW W
  PROVE  /\ IsFiniteSet({t \in Threads : Waits(c[t], W)}) /\ Waiting(c, W) \in Nat
         /\ (\A t \in Threads : c[t].pc = "idle") => Waiting(c, W) = 0
<1>1. IsFiniteSet({t \in Threads : Waits(c[t], W)})
  <2>1. {t \in Threads : Waits(c[t], W)} \in SUBSET Threads
    OBVIOUS
  <2> QED
    BY <2>1, FS_Subset
<1>2. Waiting(c, W) \in Nat
  BY <1>1, FS_CardinalityType DEF Waiting
<1>3. ASSUME \A t \in Threads : c[t].pc = "idle" PROVE Waiting(c, W) = 0
  <2>1. {t \in Threads : Waits(c[t], W)} = {}
    BY <1>3 DEF Waits
  <2> QED
    BY <2>1, FS_EmptySet DEF Waiting
<1> QED
  BY <1>1, <1>2, <1>3

(* One call moves: it may stop waiting, or start to.                       *)
LEMMA WaitingMoves ==
  ASSUME NEW t \in Threads, NEW pc, NEW window, NEW points, NEW record,
         Moved(t, pc, window, points, record), NEW W
  PROVE  /\ Waiting(call, W) \in Nat /\ Waiting(call', W) \in Nat
         /\ Waits(call[t], W) /\ Waits(call'[t], W) => Waiting(call', W) = Waiting(call, W)
         /\ Waits(call[t], W) /\ ~Waits(call'[t], W) => Waiting(call', W) = Waiting(call, W) - 1
         /\ ~Waits(call[t], W) /\ Waits(call'[t], W) => Waiting(call', W) = Waiting(call, W) + 1
         /\ ~Waits(call[t], W) /\ ~Waits(call'[t], W) => Waiting(call', W) = Waiting(call, W)
<1> DEFINE S == {u \in Threads : Waits(call[u], W)}
           R == {u \in Threads : Waits(call'[u], W)}
<1>1. \A u \in Threads \ {t} : call'[u] = call[u]
  BY DEF Moved
<1>2. \A u \in Threads \ {t} : u \in S <=> u \in R
  BY <1>1
<1>3. IsFiniteSet(S) /\ IsFiniteSet(R) /\ S \subseteq Threads /\ R \subseteq Threads
  BY WaitingTyped
<1>4. /\ Waiting(call, W) = Cardinality(S) /\ Waiting(call', W) = Cardinality(R)
      /\ t \in S <=> Waits(call[t], W)
      /\ t \in R <=> Waits(call'[t], W)
  BY DEF Waiting
<1>5. Cardinality(S) \in Nat /\ Cardinality(R) \in Nat
  BY <1>3, FS_CardinalityType
<1> HIDE DEF S, R
<1>6. CASE t \in S /\ t \in R
  <2>1. S = R
    BY <1>2, <1>3, <1>6
  <2> QED
    BY <1>4, <1>5, <1>6, <2>1
<1>7. CASE t \in S /\ t \notin R
  <2>1. R = S \ {t}
    BY <1>2, <1>3, <1>7
  <2> QED
    BY <1>3, <1>4, <1>5, <1>7, <2>1, FS_RemoveElement
<1>8. CASE t \notin S /\ t \in R
  <2>1. R = S \cup {t}
    BY <1>2, <1>3, <1>8
  <2> QED
    BY <1>3, <1>4, <1>5, <1>8, <2>1, FS_AddElement
<1>9. CASE t \notin S /\ t \notin R
  <2>1. S = R
    BY <1>2, <1>3, <1>9
  <2> QED
    BY <1>4, <1>5, <1>9, <2>1
<1> QED
  BY <1>6, <1>7, <1>8, <1>9

(* Nothing counts more than the n samples that entered.                    *)
CallWithin(pc, points, record, n) ==
    /\ record.max <= n
    /\ pc # "late" => \A i \in 1..Len(points) : points[i].count <= n

KeptWithin(n) ==
    /\ agg.count <= n /\ agg.record.max <= n /\ keyDb.max <= n
    /\ \A w \in Windows : SumOf(dataDb[w]) <= n

CallsWithin(n) ==
    \A t \in Threads : CallWithin(call[t].pc, call[t].points, call[t].record, n)

Bounded ==
    /\ SumFunction(pushed) <= MaxSamples
    /\ Entered(call, pushed) >= 0
    /\ KeptWithin(Entered(call, pushed)) /\ CallsWithin(Entered(call, pushed))

LEMMA EnteredTyped ==
  ASSUME Shapes
  PROVE  Entered(call, pushed) \in Int /\ Entered(call, pushed) <= SumFunction(pushed)
<1>1. PICK n \in Nat, m \in Nat : n = SumFunction(pushed) /\ m = Waiting(call, Windows)
  <2>1. SumFunction(pushed) \in Nat /\ Waiting(call, Windows) \in Nat
    BY PushedSum, WaitingTyped
  <2> QED
    BY <2>1
<1> QED
  BY <1>1 DEF Entered

(* The bounds are kept by a step that lets one call move on, if what it    *)
(* leaves stays within the samples that entered.                           *)
LEMMA CallsStayWithin ==
  ASSUME Shapes, NEW t \in Threads, NEW pc, NEW window, NEW points, NEW record,
         Moved(t, pc, window, points, record),
         NEW n \in Int, NEW m \in Int, n <= m, CallsWithin(n), CallWithin(pc, points, record, m)
  PROVE  \A u \in Threads : CallWithin(call'[u].pc, call'[u].points, call'[u].record, m)
<1>1. ASSUME NEW u \in Threads, u # t
      PROVE  CallWithin(call[u].pc, call[u].points, call[u].record, m)
  <2>1. CallWithin(call[u].pc, call[u].points, call[u].record, n)
    BY DEF CallsWithin
  <2>2. call[u].record.max \in Nat
    BY CallTyped DEF Records
  <2>3. \A i \in 1..Len(call[u].points) : call[u].points[i].count \in Nat
    BY PointsTyped
  <2> QED
    BY <2>1, <2>2, <2>3 DEF CallWithin
<1>2. /\ \A u \in Threads \ {t} : call'[u] = call[u]
      /\ call'[t].pc = pc /\ call'[t].points = points /\ call'[t].record = record
  BY DEF Moved
<1> QED
  BY <1>1, <1>2

LEMMA KeptTyped ==
  ASSUME Shapes
  PROVE  /\ agg.count \in Nat /\ agg.record.max \in Nat /\ keyDb.max \in Nat
         /\ \A w \in Windows : SumOf(dataDb[w]) \in Nat
<1>1. agg.count \in Nat /\ agg.record.max \in Nat
  BY AggTyped DEF Records
<1>2. keyDb.max \in Nat
  BY DEF Shapes, DbFine, Records
<1>3. \A w \in Windows : dataDb[w] \in Logs
  BY DEF Shapes, DbFine
<1> QED
  BY <1>1, <1>2, <1>3, ValuesTyped

LEMMA BoundedMove ==
  ASSUME Shapes, Bounded, NEW t \in Threads, NEW pc, NEW window, NEW points, NEW record,
         Moved(t, pc, window, points, record), NEW m \in Int,
         Entered(call', pushed') = m, Entered(call, pushed) <= m,
         SumFunction(pushed') <= MaxSamples,
         CallWithin(pc, points, record, m), KeptWithin(m)'
  PROVE  Bounded'
<1>1. PICK n \in Int : n = Entered(call, pushed) /\ n <= m /\ n >= 0 /\ CallsWithin(n)
  BY EnteredTyped DEF Bounded
<1>2. \A u \in Threads : CallWithin(call'[u].pc, call'[u].points, call'[u].record, m)
  BY <1>1, CallsStayWithin
<1>3. Entered(call', pushed') >= 0
  BY <1>1
<1>4. KeptWithin(m)' /\ m = Entered(call, pushed)'
  OBVIOUS
<1> QED
  BY <1>2, <1>3, <1>4 DEF Bounded, KeptWithin, CallsWithin

LEMMA EnteredMoves ==
  ASSUME Shapes, NEW t \in Threads, NEW pc, NEW window, NEW points, NEW record,
         Moved(t, pc, window, points, record), pushed' = pushed
  PROVE  /\ Entered(call', pushed') \in Int /\ SumFunction(pushed') = SumFunction(pushed)
         /\ pc \notin {"push", "late", "merge"} =>
              Entered(call', pushed') >= Entered(call, pushed)
         /\ pc = "late" /\ call[t].pc = "push" /\ call[t].window \in Windows
                /\ window = call[t].window =>
              Entered(call', pushed') = Entered(call, pushed)
         /\ pc \notin {"push", "late", "merge"}
                /\ call[t].pc \in {"push", "late", "merge"} /\ call[t].window \in Windows =>
              Entered(call', pushed') = Entered(call, pushed) + 1
<1>1. PICK s \in Nat, n \in Nat, m \in Nat :
        /\ s = SumFunction(pushed) /\ n = Waiting(call, Windows) /\ m = Waiting(call', Windows)
        /\ Waits(call[t], Windows) /\ Waits(call'[t], Windows) => m = n
        /\ Waits(call[t], Windows) /\ ~Waits(call'[t], Windows) => m = n - 1
        /\ ~Waits(call[t], Windows) /\ Waits(call'[t], Windows) => m = n + 1
        /\ ~Waits(call[t], Windows) /\ ~Waits(call'[t], Windows) => m = n
  <2>1. PICK W : W = Windows
    OBVIOUS
  <2>2. SumFunction(pushed) \in Nat
    BY PushedSum
  <2> QED
    BY <2>1, <2>2, WaitingMoves
<1>2. Entered(call, pushed) = s - n /\ Entered(call', pushed') = s - m
  BY <1>1 DEF Entered
<1>3. call'[t].pc = pc /\ call'[t].window = window
  BY DEF Moved
<1> QED
  BY <1>1, <1>2, <1>3 DEF Waits

LEMMA BoundedInit ==
  ASSUME Init
  PROVE  Bounded
<1>1. Shapes
  BY ShapesInit
<1>2. pushed \in [Windows -> Int] /\ \A w \in Windows : pushed[w] = 0
  BY DEF Init
<1>3. SumFunction(pushed) = 0
  BY <1>2, WindowsAreTimes, SumOfNothing
<1>4. Waiting(call, Windows) = 0
  BY WaitingTyped, EmptyTyped DEF Init
<1>5. Entered(call, pushed) = 0
  BY <1>3, <1>4 DEF Entered
<1>6. KeptWithin(0)
  BY <1>1, NewTyped, EmptyTyped, NothingRead, WindowsAreTimes
  DEF Init, NoAggregator, NoRecord, KeptWithin
<1>7. CallsWithin(0)
  BY EmptyTyped DEF Init, CallsWithin, CallWithin
<1> QED
  BY <1>3, <1>5, <1>6, <1>7, BoundsAssumption DEF Bounded

LEMMA BoundedStart ==
  ASSUME Shapes, Bounded, NEW t \in Threads, NEW w \in Windows, NEW pc \in {"push", "merge"},
         Start(t, w, pc)
  PROVE  Bounded'
<1>0. /\ Moved(t, pc, w, <<>>, EmptyRecord) /\ call[t].pc = "idle"
      /\ SumFunction(pushed) < MaxSamples
      /\ pushed' \in [Windows -> Nat]
      /\ \A v \in Windows : pushed'[v] = IF v = w THEN pushed[w] + 1 ELSE pushed[v]
      /\ agg' = agg \/ agg' = New(w, lastPoint)
      /\ UNCHANGED <<keyDb, dataDb>>
  BY StartEffect
<1>1. SumFunction(pushed) < MaxSamples /\ SumFunction(pushed') = SumFunction(pushed) + 1
  <2>1. pushed \in [Windows -> Int] /\ pushed' \in [Windows -> Int]
    BY <1>0 DEF Shapes
  <2>2. \A v \in Windows \ {w} : pushed'[v] = pushed[v]
    BY <1>0
  <2>3. pushed'[w] = pushed[w] + 1
    BY <1>0
  <2>4. SumFunction(pushed') = SumFunction(pushed) + pushed'[w] - pushed[w]
    BY <2>1, <2>2, WindowsAreTimes, SumChanges
  <2>5. PICK a \in Int, b \in Int, n \in Int :
          a = pushed[w] /\ b = pushed'[w] /\ n = SumFunction(pushed)
    BY <2>1, PushedSum
  <2> QED
    BY <2>3, <2>4, <2>5, <1>0
<1>2. Waiting(call', Windows) = Waiting(call, Windows) + 1
  <2>1. PICK W : W = Windows
    OBVIOUS
  <2>2. Moved(t, pc, w, <<>>, EmptyRecord) /\ call[t].pc = "idle"
    BY <1>0
  <2>3. Waits(call'[t], W) /\ ~Waits(call[t], W)
    BY <2>1, <2>2 DEF Waits, Moved
  <2> QED
    BY <2>1, <2>2, <2>3, WaitingMoves
<1>3. Entered(call', pushed') = Entered(call, pushed)
  <2>1. PICK a \in Nat, b \in Nat : a = SumFunction(pushed) /\ b = Waiting(call, Windows)
    BY PushedSum, WaitingTyped
  <2> QED
    BY <1>1, <1>2, <2>1 DEF Entered
<1>4. PICK n \in Int : n = Entered(call, pushed) /\ n >= 0 /\ KeptWithin(n)
  BY EnteredTyped DEF Bounded
<1>5. KeptWithin(n)'
  <2>1. agg'.count <= n /\ agg'.record.max <= n
    <3>1. CASE agg' = agg
      BY <1>4, <3>1 DEF KeptWithin
    <3>2. CASE agg' = New(w, lastPoint)
      BY <1>4, <3>2, NewTyped, EmptyTyped, AggTyped, WindowsAreTimes
    <3> QED
      BY <1>0, <3>1, <3>2
  <2> QED
    BY <1>0, <1>4, <2>1 DEF KeptWithin
<1>6. CallWithin(pc, <<>>, EmptyRecord, n)
  BY <1>4, EmptyTyped DEF CallWithin
<1>7. SumFunction(pushed') <= MaxSamples
  <2>1. SumFunction(pushed) \in Nat /\ MaxSamples \in Nat
    BY PushedSum, BoundsAssumption
  <2> QED
    BY <1>1, <2>1
<1>8. Moved(t, pc, w, <<>>, EmptyRecord) /\ n <= n
  BY <1>0
<1> QED
  BY <1>3, <1>4, <1>5, <1>6, <1>7, <1>8, BoundedMove

(* Everything but the mutex, a merge and a late write: no new counts.      *)
LEMMA BoundedQuietly ==
  ASSUME Shapes, Bounded, NEW t \in Threads, NEW pc, NEW window, NEW points, NEW record,
         Moved(t, pc, window, points, record), pushed' = pushed,
         NEW m \in Int, m = Entered(call', pushed'), m >= Entered(call, pushed),
         CallWithin(pc, points, record, m), KeptWithin(m)'
  PROVE  Bounded'
<1>1. SumFunction(pushed') <= MaxSamples
  BY DEF Bounded
<1> QED
  BY <1>1, BoundedMove

LEMMA KeptGrows ==
  ASSUME Shapes, NEW n \in Int, NEW m \in Int, n <= m, KeptWithin(n)
  PROVE  KeptWithin(m)
  BY KeptTyped DEF KeptWithin

LEMMA BoundedPushOnTime ==
  ASSUME Shapes, Bounded, NEW t \in Threads, PushOnTime(t)
  PROVE  Bounded'
<1>1. PICK w \in Windows : /\ call[t].pc = "push" /\ w = call[t].window /\ agg.window <= w
                           /\ agg' = Push(agg, w)
                           /\ Moved(t, "info", w, Yielded(agg, w), call[t].record)
                           /\ UNCHANGED <<keyDb, dataDb, pushed>>
  BY PushOnTimeEffect
<1>2. PICK n \in Nat, m \in Nat :
         /\ n = Entered(call, pushed) /\ m = Entered(call', pushed') /\ m = n + 1
  BY <1>1, EnteredTyped, EnteredMoves DEF Bounded
<1>3. KeptWithin(n) /\ CallsWithin(n)
  BY <1>2 DEF Bounded
<1>4. PICK k \in Nat : k = CountIn(agg, w) /\ k <= m
  <2>1. PICK c \in Nat : c = agg.count /\ c <= n
    BY <1>3, KeptTyped DEF KeptWithin
  <2>2. CountIn(agg, w) = c + 1 \/ CountIn(agg, w) = 1
    BY <2>1 DEF CountIn
  <2> QED
    BY <1>2, <2>1, <2>2
<1>5. KeptWithin(m)'
  <2>1. agg'.count <= m
    BY <1>1, <1>4, PushIs
  <2>2. agg'.record.max <= m
    <3>1. PICK a \in Nat, b \in Nat : a = agg.record.max /\ b = agg.count /\ a <= n /\ b <= n
      BY <1>3, KeptTyped DEF KeptWithin
    <3>2. agg'.record.max = a \/ agg'.record.max = b \/ agg'.record.max = k
      BY <1>1, <1>4, <3>1, PushIs
    <3> QED
      BY <1>2, <1>4, <3>1, <3>2
  <2>3. KeptWithin(m)
    BY <1>2, <1>3, KeptGrows
  <2> QED
    BY <1>1, <2>1, <2>2, <2>3 DEF KeptWithin
<1>6. CallWithin("info", Yielded(agg, w), call[t].record, m)
  <2>1. PICK r \in Nat : r = call[t].record.max /\ r <= n
    BY <1>3, CallTyped DEF CallsWithin, CallWithin, Records
  <2>2. PICK ps : ps = Yielded(agg, w)
    OBVIOUS
  <2>3. ASSUME NEW i \in 1..Len(ps) PROVE ps[i].count <= m
    <3>1. CASE Completes(agg, w) /\ ps[i] = Point(agg.window, agg.count)
      <4>1. PICK v \in Windows, c \in Nat : v = agg.window /\ c = agg.count /\ c <= n
        BY <1>3, <3>1, KeptTyped, AggTyped DEF KeptWithin, Completes
      <4>2. Point(v, c).count = c
        BY PointTyped
      <4> QED
        BY <1>2, <3>1, <4>1, <4>2
    <3>2. CASE ps[i] = Point(w, CountIn(agg, w))
      <4>1. Point(w, k).count = k
        BY PointTyped
      <4> QED
        BY <1>4, <3>2, <4>1
    <3> QED
      BY <1>1, <2>2, <3>1, <3>2, YieldedIs
  <2> QED
    BY <1>2, <2>1, <2>2, <2>3 DEF CallWithin
<1> QED
  BY <1>1, <1>2, <1>5, <1>6, BoundedQuietly

LEMMA BoundedPushLate ==
  ASSUME Shapes, Bounded, NEW t \in Threads, PushLate(t)
  PROVE  Bounded'
<1>1. PICK w \in Windows, ps \in Lists :
         /\ w = call[t].window /\ call[t].pc = "push"
         /\ Moved(t, "late", w, ps, call[t].record)
         /\ UNCHANGED <<agg, keyDb, dataDb, pushed>>
  <2>1. PICK w \in Windows, c \in Nat : w = call[t].window /\ c = 1
    BY PushLateEffect
  <2>2. <<Point(w, c)>> \in Lists
    BY PointTyped
  <2> QED
    BY <2>1, <2>2, PushLateEffect
<1>2. PICK n \in Int : n = Entered(call, pushed) /\ n = Entered(call', pushed')
  BY <1>1, EnteredTyped, EnteredMoves
<1>3. KeptWithin(n)' /\ CallWithin("late", ps, call[t].record, n)
  BY <1>1, <1>2 DEF Bounded, KeptWithin, CallsWithin, CallWithin
<1> QED
  BY <1>1, <1>2, <1>3, BoundedQuietly

LEMMA BoundedMergeUpdates ==
  ASSUME Shapes, Bounded, NEW t \in Threads, MergeUpdates(t)
  PROVE  Bounded'
<1>1. PICK w \in Windows, c \in Nat :
         /\ w = call[t].window /\ c = 1 /\ call[t].pc = "merge"
         /\ Moved(t, "compare", w, <<Point(w, c)>>, call[t].record)
  BY MergeUpdatesEffect
<1>2. PICK n \in Nat, m \in Nat :
         /\ n = Entered(call, pushed) /\ m = Entered(call', pushed') /\ m = n + 1
         /\ KeptWithin(n) /\ CallsWithin(n)
  BY <1>1, EnteredTyped, EnteredMoves, MergeUpdatesEffect DEF Bounded
<1>3. KeptWithin(m)'
  <2>1. KeptWithin(m)
    BY <1>2, KeptGrows
  <2> QED
    BY <2>1, MergeUpdatesEffect DEF KeptWithin
<1>4. CallWithin("compare", <<Point(w, c)>>, call[t].record, m)
  <2>1. PICK r \in Nat : r = call[t].record.max /\ r <= n
    BY <1>2, CallTyped DEF CallsWithin, CallWithin, Records
  <2>2. PICK ps \in Lists : ps = <<Point(w, c)>> /\ Len(ps) = 1 /\ ps[1].count = c
    BY PointTyped
  <2>3. \A i \in 1..Len(ps) : i = 1
    BY <2>2
  <2> QED
    BY <1>1, <1>2, <2>1, <2>2, <2>3 DEF CallWithin
<1>5. pushed' = pushed
  BY MergeUpdatesEffect
<1> QED
  BY <1>1, <1>2, <1>3, <1>4, <1>5, BoundedQuietly

LEMMA BoundedMergeGoesOn ==
  ASSUME Shapes, Bounded, NEW t \in Threads, MergeGoesOn(t)
  PROVE  Bounded'
<1>1. PICK w \in Windows, c \in Nat, ps \in Lists, pc \in {"max", "maxat", "info"} :
         /\ w = call[t].window /\ c = 1 /\ call[t].pc \in Merging
         /\ ps = <<Point(w, c)>> /\ Len(ps) = 1 /\ ps[1].count = c
         /\ call[t].points = ps
         /\ Moved(t, pc, w, ps, call[t].record)
  <2>1. PICK w \in Windows, c \in Nat, pc \in {"max", "maxat", "info"} :
         /\ w = call[t].window /\ c = 1 /\ call[t].pc \in Merging
         /\ call[t].points = <<Point(w, c)>>
         /\ Moved(t, pc, w, <<Point(w, c)>>, call[t].record)
    BY MergeGoesOnEffect
  <2>2. PICK ps \in Lists : ps = <<Point(w, c)>> /\ Len(ps) = 1 /\ ps[1].count = c
    BY PointTyped
  <2>3. call[t].points = ps /\ Moved(t, pc, w, ps, call[t].record)
    BY <2>1, <2>2
  <2> QED
    BY <2>1, <2>2, <2>3
<1>2. PICK n \in Nat, m \in Int :
         /\ n = Entered(call, pushed) /\ m = Entered(call', pushed') /\ n <= m
         /\ KeptWithin(n) /\ CallsWithin(n)
  BY <1>1, EnteredTyped, EnteredMoves, MergeGoesOnEffect DEF Bounded, Merging
<1>3. CallWithin(call[t].pc, call[t].points, call[t].record, n)
  BY <1>2 DEF CallsWithin
<1>4. PICK r \in Nat : r = call[t].record.max /\ r <= n
  BY <1>3, CallTyped DEF CallWithin, Records
<1>5. 1 <= m
  <2>1. 1 \in 1..Len(ps)
    BY <1>1
  <2>2. ps[1].count <= n
    BY <1>1, <1>3, <2>1 DEF CallWithin, Merging
  <2> QED
    BY <1>1, <1>2, <2>2
<1>6. KeptWithin(m)'
  <2>1. KeptWithin(m)
    BY <1>2, KeptGrows
  <2> QED
    BY <1>5, <2>1, MergeGoesOnEffect DEF KeptWithin
<1>7. CallWithin(pc, ps, call[t].record, m)
  <2>1. \A i \in 1..Len(ps) : i = 1
    BY <1>1
  <2> QED
    BY <1>1, <1>2, <1>4, <1>5, <2>1 DEF CallWithin, Merging
<1>8. pushed' = pushed
  BY MergeGoesOnEffect
<1> QED
  BY <1>1, <1>2, <1>6, <1>7, <1>8, BoundedQuietly

(* A call moves on with what it had, or with a copy of the record.         *)
LEMMA BoundedSame ==
  ASSUME Shapes, Bounded, NEW t \in Threads, NEW pc \in Places, NEW window, NEW points, NEW record,
         Moved(t, pc, window, points, record), UNCHANGED <<agg, pushed>>,
         pc \notin {"push", "late", "merge"},
         call[t].pc # "late" \/ points = <<>>,
         record = EmptyRecord \/ record = agg.record \/ record = call[t].record,
         points = <<>> \/ points = call[t].points
           \/ \E i \in 1..Len(call[t].points) : points = <<call[t].points[i]>>,
         \A w \in Windows :
           \/ dataDb'[w] = dataDb[w]
           \/ call[t].pc # "late" /\ \E i \in 1..Len(call[t].points) :
                SumOf(dataDb'[w]) = call[t].points[i].count,
         keyDb' = keyDb \/ keyDb' = call[t].record
  PROVE  Bounded'
<1>1. PICK n \in Nat, m \in Int :
         /\ n = Entered(call, pushed) /\ m = Entered(call', pushed') /\ n <= m
         /\ KeptWithin(n) /\ CallsWithin(n)
  BY EnteredTyped, EnteredMoves DEF Bounded
<1>2. /\ call[t].record.max \in Nat /\ call[t].record.max <= n
      /\ call[t].pc # "late" => \A i \in 1..Len(call[t].points) :
            call[t].points[i].count \in Nat /\ call[t].points[i].count <= n
  BY <1>1, CallTyped, PointsTyped DEF CallsWithin, CallWithin, Records
<1>3. KeptWithin(m)
  BY <1>1, KeptGrows
<1>4. KeptWithin(m)'
  <2>1. ASSUME NEW w \in Windows PROVE SumOf(dataDb'[w]) <= m
    BY <1>1, <1>2, <1>3 DEF KeptWithin
  <2>2. keyDb'.max <= m
    BY <1>1, <1>2, <1>3 DEF KeptWithin
  <2> QED
    BY <1>3, <2>1, <2>2 DEF KeptWithin
<1>5. record.max <= m
  BY <1>1, <1>2, <1>3, EmptyTyped DEF KeptWithin
<1>6. ASSUME NEW i \in 1..Len(points) PROVE points[i].count <= m
  <2>1. CASE points = <<>>
    BY <2>1
  <2>2. CASE points = call[t].points /\ call[t].pc # "late"
    BY <1>1, <1>2, <2>2
  <2>3. CASE call[t].pc # "late" /\ \E j \in 1..Len(call[t].points) :
               points = <<call[t].points[j]>>
    <3>1. PICK j \in 1..Len(call[t].points) : points = <<call[t].points[j]>>
      BY <2>3
    <3>2. PICK x : x = call[t].points[j]
      OBVIOUS
    <3>3. x.count <= m
      BY <1>1, <1>2, <2>3, <3>2
    <3>4. points = <<x>>
      BY <3>1, <3>2
    <3>5. points[i] = x
      BY <3>4
    <3> QED
      BY <3>3, <3>5
  <2> QED
    BY <2>1, <2>2, <2>3
<1>7. CallWithin(pc, points, record, m)
  BY <1>5, <1>6 DEF CallWithin
<1> QED
  BY <1>1, <1>4, <1>7, BoundedQuietly

LEMMA BoundedWrites ==
  ASSUME Shapes, Bounded, NEW t \in Threads,
         TakeRecord(t) \/ SetKey(t) \/ SetData(t) \/ DbFails(t)
  PROVE  Bounded'
<1>1. CASE TakeRecord(t)
  <2>1. /\ Moved(t, "setkey", call[t].window, call[t].points, agg.record)
        /\ call[t].pc # "late" /\ UNCHANGED <<agg, keyDb, dataDb, pushed>>
    BY <1>1, TakeRecordEffect
  <2> QED
    BY <2>1, BoundedSame DEF Places
<1>2. CASE SetKey(t)
  <2>1. /\ \/ Moved(t, "idle", 0, <<>>, EmptyRecord)
           \/ Moved(t, "setdata", call[t].window, call[t].points, call[t].record)
        /\ call[t].pc # "late" /\ keyDb' = call[t].record
        /\ UNCHANGED <<agg, dataDb, pushed>>
    BY <1>2, SetKeyEffect
  <2> QED
    BY <2>1, BoundedSame DEF Places
<1>3. CASE SetData(t)
  <2>1. /\ 1 \in 1..Len(call[t].points)
        /\ Len(call[t].points) = 2 => 2 \in 1..Len(call[t].points)
        /\ call[t].points[1].count \in Nat
        /\ Filed(call[t].points[1].window, <<SetTo(call[t].points[1].count)>>)
        /\ call[t].pc # "late" /\ UNCHANGED <<agg, keyDb, pushed>>
    <3>1. PICK n \in Nat : n = Len(call[t].points) /\ (n = 1 \/ n = 2)
      BY <1>3, SetDataEffect
    <3>2. 1 \in 1..n /\ (n = 2 => 2 \in 1..n)
      <4>1. 1 \in 1..1 /\ 1 \in 1..2 /\ 2 \in 1..2
        OBVIOUS
      <4> QED
        BY <3>1, <4>1
    <3> QED
      BY <1>3, <3>1, <3>2, SetDataEffect
  <2>2. \A w \in Windows :
           \/ dataDb'[w] = dataDb[w]
           \/ SumOf(dataDb'[w]) = call[t].points[1].count
    <3>1. PICK c \in Nat : c = call[t].points[1].count
      BY <2>1
    <3> QED
      BY <2>1, <3>1, SetReads DEF Filed
  <2>3. CASE Moved(t, "idle", 0, <<>>, EmptyRecord)
    BY <2>1, <2>2, <2>3, BoundedSame DEF Places
  <2>4. CASE /\ Len(call[t].points) = 2
             /\ Moved(t, "setdata", call[t].window, <<call[t].points[2]>>, call[t].record)
    <3>0. PICK ps : ps = <<call[t].points[2]>>
      OBVIOUS
    <3>1. /\ \E i \in 1..Len(call[t].points) : ps = <<call[t].points[i]>>
          /\ Moved(t, "setdata", call[t].window, ps, call[t].record)
      BY <2>1, <2>4, <3>0
    <3>2. "setdata" \in Places
      BY DEF Places
    <3> QED
      BY <2>1, <2>2, <3>1, <3>2, BoundedSame
  <2> QED
    BY <1>3, <2>3, <2>4, SetDataEffect
<1>4. CASE DbFails(t)
  <2>1. /\ Moved(t, "idle", 0, <<>>, EmptyRecord)
        /\ UNCHANGED <<agg, keyDb, dataDb, pushed>>
    BY <1>4, DbFailsEffect
  <2> QED
    BY <2>1, BoundedSame DEF Places
<1> QED
  BY <1>1, <1>2, <1>3, <1>4

LEMMA BoundedIncData ==
  ASSUME Shapes, Bounded, NEW t \in Threads, IncData(t)
  PROVE  Bounded'
<1>1. PICK w \in Windows :
         /\ w = call[t].window /\ call[t].pc = "late"
         /\ Filed(w, LateOn(dataDb[w]))
         /\ Moved(t, "idle", 0, <<>>, EmptyRecord)
         /\ UNCHANGED <<agg, keyDb, pushed>>
  BY IncDataEffect
<1>2. PICK n \in Nat, m \in Nat :
         /\ n = Entered(call, pushed) /\ m = Entered(call', pushed') /\ m = n + 1
         /\ KeptWithin(n)
  BY <1>1, EnteredTyped, EnteredMoves DEF Bounded
<1>3. KeptWithin(m)
  BY <1>2, KeptGrows
<1>4. ASSUME NEW v \in Windows PROVE SumOf(dataDb'[v]) <= m
  <2>1. CASE v # w
    BY <1>1, <1>3, <2>1 DEF Filed, KeptWithin
  <2>2. CASE v = w
    <3>1. PICK e \in Logs, s \in Nat :
            e = dataDb[w] /\ FirstSet(e) /\ s = SumOf(e) /\ s <= n
      BY <1>2, KeptTyped DEF KeptWithin, Shapes, DbFine
    <3>2. PICK k \in Nat : k = SumOf(LateOn(e)) /\ k <= s + 1
      BY <3>1, LateReads
    <3>3. dataDb'[v] = LateOn(e)
      BY <1>1, <2>2, <3>1 DEF Filed
    <3>4. k <= m
      BY <1>2, <3>1, <3>2
    <3> QED
      BY <3>2, <3>3, <3>4
  <2> QED
    BY <2>1, <2>2
<1>5. KeptWithin(m)'
  BY <1>1, <1>3, <1>4 DEF KeptWithin
<1>6. CallWithin("idle", <<>>, EmptyRecord, m)
  BY <1>2, EmptyTyped DEF CallWithin
<1> QED
  BY <1>1, <1>2, <1>5, <1>6, BoundedQuietly

LEMMA BoundedStartClose ==
  ASSUME Shapes, Bounded, NEW t \in Threads, StartClose(t)
  PROVE  Bounded'
<1>1. PICK ps \in Lists :
         /\ Moved(t, "setkey", 0, ps, agg.record)
         /\ \A i \in 1..Len(ps) : ps[i].count = agg.count
         /\ UNCHANGED <<agg, keyDb, dataDb, pushed>>
  <2>1. CASE Moved(t, "setkey", 0, <<>>, agg.record)
    <3>1. PICK ps \in Lists : ps = <<>> /\ Len(ps) = 0
      BY EmptyTyped
    <3>2. \A i \in 1..Len(ps) : ps[i].count = agg.count
      BY <3>1
    <3> QED
      BY <2>1, <3>1, <3>2, StartCloseEffect
  <2>2. CASE /\ agg.window \in Windows
             /\ Moved(t, "setkey", 0, <<Point(agg.window, agg.count)>>, agg.record)
    <3>1. PICK w \in Windows, c \in Nat : w = agg.window /\ c = agg.count
      BY <2>2, AggTyped
    <3>2. PICK ps \in Lists : ps = <<Point(w, c)>> /\ Len(ps) = 1 /\ ps[1].count = c
      BY PointTyped
    <3>3. \A i \in 1..Len(ps) : i = 1
      BY <3>2
    <3>4. \A i \in 1..Len(ps) : ps[i].count = agg.count
      BY <3>1, <3>2, <3>3
    <3> QED
      BY <2>2, <3>1, <3>2, <3>4, StartCloseEffect
  <2> QED
    BY <2>1, <2>2, StartCloseEffect
<1>2. PICK n \in Nat, m \in Int :
         /\ n = Entered(call, pushed) /\ m = Entered(call', pushed') /\ n <= m
         /\ KeptWithin(n)
  BY <1>1, EnteredTyped, EnteredMoves DEF Bounded
<1>3. KeptWithin(m)
  BY <1>2, KeptGrows
<1>4. KeptWithin(m)' /\ CallWithin("setkey", ps, agg.record, m)
  BY <1>1, <1>3 DEF KeptWithin, CallWithin
<1> QED
  BY <1>1, <1>2, <1>4, BoundedQuietly

LEMMA BoundedVanish ==
  ASSUME Shapes, Bounded, Vanish
  PROVE  Bounded'
<1>1. /\ agg' = New(0, lastPoint) /\ \A t \in Threads : call'[t] = Idle
      /\ UNCHANGED <<keyDb, dataDb, pushed>>
  BY VanishEffect
<1>2. Waiting(call', Windows) = 0
  BY <1>1, WaitingTyped, EmptyTyped
<1>3. PICK s \in Nat, n \in Nat :
         s = SumFunction(pushed) /\ n = Entered(call, pushed) /\ n <= s /\ KeptWithin(n)
  BY PushedSum, EnteredTyped DEF Bounded
<1>4. Entered(call', pushed') = s
  BY <1>1, <1>2, <1>3 DEF Entered
<1>5. KeptWithin(s)
  BY <1>3, KeptGrows
<1>6. KeptWithin(s)'
  BY <1>1, <1>3, <1>5, NewTyped, EmptyTyped, AggTyped, WindowsAreTimes DEF KeptWithin
<1>7. CallsWithin(s)'
  BY <1>1, <1>3, EmptyTyped DEF CallsWithin, CallWithin
<1>8. s <= MaxSamples /\ s = SumFunction(pushed)' /\ s = Entered(call, pushed)'
  BY <1>1, <1>3, <1>4 DEF Bounded
<1> QED
  BY <1>3, <1>6, <1>7, <1>8 DEF Bounded

LEMMA BoundedStays ==
  ASSUME Shapes, Bounded, UNCHANGED <<call, pushed>>, KeptWithin(Entered(call, pushed))'
  PROVE  Bounded'
<1>1. PICK n : n = Entered(call, pushed)
  OBVIOUS
<1>2. n = Entered(call, pushed)' /\ SumFunction(pushed) = SumFunction(pushed)'
  BY <1>1
<1>3. CallsWithin(n)'
  BY <1>1 DEF Bounded, CallsWithin
<1> QED
  BY <1>1, <1>2, <1>3 DEF Bounded

LEMMA BoundedRest ==
  ASSUME Shapes, Bounded, Open \/ (\E w \in Windows : Compact(w) \/ Spoil(w))
  PROVE  Bounded'
<1>1. PICK n \in Nat : n = Entered(call, pushed) /\ KeptWithin(n)
  BY EnteredTyped DEF Bounded
<1>2. CASE Open
  <2>1. KeptWithin(n)'
    BY <1>1, <1>2, OpenEffect DEF KeptWithin
  <2> QED
    BY <1>1, <1>2, <2>1, OpenEffect, BoundedStays
<1>3. CASE \E w \in Windows : Compact(w)
  <2>1. KeptWithin(n)'
    BY <1>1, <1>3, CompactEffect DEF KeptWithin
  <2> QED
    BY <1>1, <1>3, <2>1, CompactEffect, BoundedStays
<1>4. CASE \E w \in Windows : Spoil(w)
  <2>1. /\ \A v \in Windows : SumOf(dataDb'[v]) <= SumOf(dataDb[v])
        /\ dataDb' \in [Windows -> Logs]
        /\ UNCHANGED <<agg, call, keyDb, pushed>>
    BY <1>4, SpoilEffect
  <2>2. \A v \in Windows : SumOf(dataDb'[v]) \in Nat
    BY <2>1, ValuesTyped
  <2>3. \A v \in Windows : SumOf(dataDb'[v]) <= n
    BY <1>1, <2>1, <2>2, KeptTyped DEF KeptWithin
  <2>4. KeptWithin(n)'
    BY <1>1, <2>1, <2>3 DEF KeptWithin
  <2> QED
    BY <1>1, <2>1, <2>4, BoundedStays
<1> QED
  BY <1>2, <1>3, <1>4

LEMMA BoundedStep ==
  ASSUME Shapes, Bounded, [Next]_vars
  PROVE  Bounded'
<1>1. CASE \E t \in Threads, w \in Windows : StartAdd(t, w) \/ StartMerge(t, w)
  BY <1>1, BoundedStart DEF StartAdd, StartMerge
<1>2. CASE \E t \in Threads : PushLate(t) \/ PushOnTime(t)
  BY <1>2, BoundedPushLate, BoundedPushOnTime
<1>3. CASE \E t \in Threads : MergeUpdates(t) \/ MergeGoesOn(t)
  BY <1>3, BoundedMergeUpdates, BoundedMergeGoesOn
<1>4. CASE \E t \in Threads : TakeRecord(t) \/ SetKey(t) \/ SetData(t) \/ DbFails(t)
  BY <1>4, BoundedWrites
<1>5. CASE \E t \in Threads : IncData(t) \/ StartClose(t)
  BY <1>5, BoundedIncData, BoundedStartClose
<1>6. CASE FinishClose \/ Crash
  BY <1>6, BoundedVanish DEF FinishClose, Crash
<1>7. CASE Open \/ \E w \in Windows : Compact(w) \/ Spoil(w)
  BY <1>7, BoundedRest
<1>8. CASE UNCHANGED vars
  <2>1. UNCHANGED <<agg, call, keyDb, dataDb, pushed>>
    BY <1>8 DEF vars
  <2>2. KeptWithin(Entered(call, pushed))'
    <3>1. PICK n : n = Entered(call, pushed) /\ KeptWithin(n)
      BY DEF Bounded
    <3>2. n = Entered(call, pushed)' /\ KeptWithin(n)'
      BY <2>1, <3>1 DEF KeptWithin
    <3> QED
      BY <3>2
  <2> QED
    BY <2>1, <2>2, BoundedStays
<1> QED
  BY <1>1, <1>2, <1>3, <1>4, <1>5, <1>6, <1>7, <1>8 DEF Next, MergeGoesOn

LEMMA AllWithin ==
  ASSUME Shapes, Bounded
  PROVE  /\ KeptWithin(MaxSamples) /\ pushed \in [Windows -> Counts]
         /\ \A t \in Threads : /\ call[t].record.max <= MaxSamples
                               /\ \A i \in 1..Len(call[t].points) :
                                    call[t].points[i].count <= MaxSamples
<1>1. PICK s \in Nat, n \in Nat :
         /\ s = SumFunction(pushed) /\ n = Entered(call, pushed) /\ n <= s
         /\ KeptWithin(n) /\ CallsWithin(n) /\ s <= MaxSamples
  BY PushedSum, EnteredTyped DEF Bounded
<1>2. KeptWithin(MaxSamples)
  BY <1>1, KeptGrows, BoundsAssumption
<1>3. pushed \in [Windows -> Counts]
  <2>1. \A w \in Windows : pushed[w] \in Counts
    BY <1>1, PushedSum, BoundsAssumption DEF Counts
  <2> QED
    BY <2>1 DEF Shapes
<1>4. ASSUME NEW t \in Threads
      PROVE  /\ call[t].record.max <= MaxSamples
             /\ \A i \in 1..Len(call[t].points) : call[t].points[i].count <= MaxSamples
  <2>1. CallWithin(call[t].pc, call[t].points, call[t].record, n)
    BY <1>1 DEF CallsWithin
  <2>2. call[t].record.max <= MaxSamples
    BY <1>1, <2>1, CallTyped, BoundsAssumption DEF CallWithin, Records
  <2>3. ASSUME NEW i \in 1..Len(call[t].points) PROVE call[t].points[i].count <= MaxSamples
    <3>1. CASE call[t].pc # "late"
      BY <1>1, <2>1, <3>1, PointsTyped, BoundsAssumption DEF CallWithin
    <3>2. CASE call[t].pc = "late"
      <4>1. PICK w \in Windows, c \in Nat :
               w = call[t].window /\ c = 1 /\ call[t].points = <<Point(w, c)>>
        BY <3>2, CallTyped DEF CallFine, FieldsFine
      <4>2. PICK ps \in Lists : ps = <<Point(w, c)>> /\ Len(ps) = 1 /\ ps[1].count = c
        BY PointTyped
      <4>3. i = 1
        BY <4>1, <4>2
      <4> QED
        BY <4>1, <4>2, <4>3, BoundsAssumption
    <3> QED
      BY <3>1, <3>2
  <2> QED
    BY <2>2, <2>3
<1> QED
  BY <1>2, <1>3, <1>4

LEMMA WithinCounts ==
  ASSUME NEW n \in Nat, n <= MaxSamples
  PROVE  n \in Counts
  BY BoundsAssumption DEF Counts

LEMMA TypeCall ==
  ASSUME Shapes, Bounded, NEW t \in Threads
  PROVE  call[t] \in
         [pc : Places, window : 0..MaxWindow,
          points : SeqOf(Points(Windows, Counts), 2),
          record : [lastUpdate : 0..MaxWindow, max : Counts, maxAt : 0..MaxWindow]]
<1>1. call[t].points \in SeqOf(Points(Windows, Counts), 2)
  <2>1. PICK ps \in Lists : ps = call[t].points
    BY CallTyped
  <2>2. ASSUME NEW i \in 1..Len(ps) PROVE ps[i] \in Points(Windows, Counts)
    <3>1. /\ ps[i] \in Points(Windows, Nat) /\ ps[i].count \in Nat
          /\ ps[i].count <= MaxSamples
      BY <2>1, PointsTyped, AllWithin
    <3>2. ps[i].count \in Counts
      BY <3>1, WithinCounts
    <3> QED
      BY <3>1, <3>2 DEF Points
  <2>3. PICK n \in 0..2 : n = Len(ps)
    <3>1. PICK n \in Nat : n = Len(ps) /\ n <= 2
      BY <2>1, CallTyped
    <3> QED
      BY <3>1
  <2>4. ps \in [1..n -> Points(Windows, Counts)]
    <3>1. ps = [i \in 1..n |-> ps[i]]
      BY <2>3 DEF Lists
    <3> QED
      BY <2>2, <2>3, <3>1
  <2> QED
    BY <2>1, <2>4 DEF SeqOf
<1>2. call[t].record \in [lastUpdate : Times, max : Counts, maxAt : Times]
  <2>1. /\ call[t].record \in Records /\ call[t].record.max \in Nat
        /\ call[t].record.max <= MaxSamples
    BY CallTyped, AllWithin DEF Records
  <2>2. call[t].record.max \in Counts
    BY <2>1, WithinCounts
  <2> QED
    BY <2>1, <2>2 DEF Records
<1> QED
  BY <1>1, <1>2, CallTyped DEF CallShapes, Times

LEMMA ShapesAreTypes ==
  ASSUME Shapes, Bounded
  PROVE  TypeOK
<1>1. agg \in Aggregators(0..MaxWindow, Counts)
  <2>1. /\ agg.count \in Nat /\ agg.count <= MaxSamples
        /\ agg.record.max \in Nat /\ agg.record.max <= MaxSamples
    BY KeptTyped, AllWithin DEF KeptWithin
  <2>2. agg.count \in Counts /\ agg.record.max \in Counts
    BY <2>1, WithinCounts
  <2>3. agg.record \in [lastUpdate : Times, max : Counts, maxAt : Times]
    BY <2>2, AggTyped DEF Records
  <2> QED
    BY <2>2, <2>3, AggTyped DEF Aggregators, Aggs, Times
<1>2. keyDb \in [lastUpdate : 0..MaxWindow, max : Counts, maxAt : 0..MaxWindow]
  <2>1. keyDb.max \in Nat /\ keyDb.max <= MaxSamples
    BY KeptTyped, AllWithin DEF KeptWithin
  <2>2. keyDb.max \in Counts
    BY <2>1, WithinCounts
  <2> QED
    BY <2>2 DEF Shapes, DbFine, Records, Times
<1>3. ASSUME NEW w \in Windows, NEW i \in DOMAIN dataDb[w]
      PROVE  dataDb[w][i] \in Entries(Counts) /\ (dataDb[w][i].set => i = 1)
  <2>1. PICK e \in Logs : e = dataDb[w] /\ FirstSet(e)
    BY DEF Shapes, DbFine
  <2>2. i \in 1..Len(e) /\ e[i] \in Entries(Nat)
    BY <2>1 DEF Logs
  <2>3. e[i].set \in BOOLEAN /\ e[i].value \in Nat \cup {Unreadable}
    BY <2>2 DEF Entries
  <2>4. e[i].value \in Counts \cup {Unreadable}
    <3>1. CASE e[i].value = Unreadable
      BY <3>1
    <3>2. CASE e[i].value \in Nat
      <4>1. PICK v \in Nat, s \in Nat : /\ v = e[i].value /\ s = SumOf(e)
                                        /\ Values(e)[i] = Deserialize(e[i].value)
                                        /\ Values(e)[i] <= SumOf(e)
        BY <2>1, <2>2, <3>2, ValuesTyped
      <4>2. Deserialize(v) = v
        BY Deserialized
      <4>3. v <= s /\ s <= MaxSamples
        BY <2>1, <4>1, <4>2, AllWithin DEF KeptWithin
      <4>4. v <= MaxSamples
        BY <4>3, BoundsAssumption
      <4> QED
        BY <4>1, <4>4, WithinCounts
    <3> QED
      BY <2>3, <3>1, <3>2
  <2>5. e[i] \in Entries(Counts)
    BY <2>2, <2>4 DEF Entries
  <2> QED
    BY <2>1, <2>2, <2>5 DEF FirstSet
<1>4. /\ features \in Environments /\ lastPoint \in BOOLEAN
      /\ phase \in {"open", "closing", "down"}
      /\ DOMAIN dataDb = Windows /\ cutShort \subseteq Windows
      /\ call = [t \in Threads |-> call[t]]
  BY DEF Shapes, DbFine, CallsFine
<1>5. pushed \in [Windows -> Counts]
  BY AllWithin
<1>6. call \in [Threads ->
         [pc : Places, window : 0..MaxWindow,
          points : SeqOf(Points(Windows, Counts), 2),
          record : [lastUpdate : 0..MaxWindow, max : Counts, maxAt : 0..MaxWindow]]]
  BY <1>4, TypeCall
<1> QED
  BY <1>1, <1>2, <1>3, <1>4, <1>5, <1>6 DEF TypeOK

(* AddPath!TypeOK, in every environment: besides the shapes it says that   *)
(* nothing the aggregator, a call or a database holds ever counts more     *)
(* than the samples handed in.                                             *)
THEOREM Typed == Spec => []TypeOK
<1>1. Init => Shapes /\ Bounded
  BY ShapesInit, BoundedInit
<1>2. Shapes /\ Bounded /\ [Next]_vars => (Shapes /\ Bounded)'
  BY ShapesStep, BoundedStep
<1>3. Shapes /\ Bounded => TypeOK
  BY ShapesAreTypes
<1> QED
  BY <1>1, <1>2, <1>3, PTL DEF Spec

-----------------------------------------------------------------------------
(* The same window by window: nothing counts more samples of a window than *)
(* entered for it.                                                         *)
EnteredAt(calls, samples, w) == samples[w] - Waiting(calls, {w})

CallHonest(pc, points, w, n) ==
    pc # "late" => \A i \in 1..Len(points) : points[i].window = w => points[i].count <= n

KeptHonest(w, n) ==
    /\ agg.window = w => agg.count <= n
    /\ SumOf(dataDb[w]) <= n /\ Legible(dataDb[w])

CallsHonest(w, n) ==
    \A t \in Threads : CallHonest(call[t].pc, call[t].points, w, n)

HonestAt(w) ==
    /\ EnteredAt(call, pushed, w) >= 0
    /\ KeptHonest(w, EnteredAt(call, pushed, w))
    /\ CallsHonest(w, EnteredAt(call, pushed, w))

LEMMA EnteredAtTyped ==
  ASSUME Shapes, NEW w \in Windows
  PROVE  EnteredAt(call, pushed, w) \in Int /\ EnteredAt(call, pushed, w) <= pushed[w]
<1>1. PICK n \in Nat, m \in Nat : n = pushed[w] /\ m = Waiting(call, {w})
  <2>1. pushed[w] \in Nat /\ Waiting(call, {w}) \in Nat
    BY PushedSum, WaitingTyped
  <2> QED
    BY <2>1
<1> QED
  BY <1>1 DEF EnteredAt

LEMMA EnteredAtMoves ==
  ASSUME Shapes, NEW t \in Threads, NEW pc, NEW window, NEW points, NEW record,
         Moved(t, pc, window, points, record), pushed' = pushed, NEW w \in Windows
  PROVE  /\ EnteredAt(call', pushed', w) \in Int
         /\ pc \notin {"push", "late", "merge"} =>
              EnteredAt(call', pushed', w) >= EnteredAt(call, pushed, w)
         /\ pc = "late" /\ call[t].pc = "push" /\ window = call[t].window =>
              EnteredAt(call', pushed', w) = EnteredAt(call, pushed, w)
         /\ pc \notin {"push", "late", "merge"}
                /\ call[t].pc \in {"push", "late", "merge"} /\ call[t].window = w =>
              EnteredAt(call', pushed', w) = EnteredAt(call, pushed, w) + 1
         /\ pc \notin {"push", "late", "merge"}
                /\ ~(call[t].pc \in {"push", "late", "merge"} /\ call[t].window = w) =>
              EnteredAt(call', pushed', w) = EnteredAt(call, pushed, w)
<1>0. PICK W : W = {w}
  OBVIOUS
<1>1. PICK s \in Nat, n \in Nat, m \in Nat :
        /\ s = pushed[w] /\ n = Waiting(call, W) /\ m = Waiting(call', W)
        /\ Waits(call[t], W) /\ Waits(call'[t], W) => m = n
        /\ Waits(call[t], W) /\ ~Waits(call'[t], W) => m = n - 1
        /\ ~Waits(call[t], W) /\ Waits(call'[t], W) => m = n + 1
        /\ ~Waits(call[t], W) /\ ~Waits(call'[t], W) => m = n
  <2>1. pushed[w] \in Nat
    BY PushedSum
  <2> QED
    BY <2>1, WaitingMoves
<1>2. EnteredAt(call, pushed, w) = s - n /\ EnteredAt(call', pushed', w) = s - m
  BY <1>0, <1>1 DEF EnteredAt
<1>3. call'[t].pc = pc /\ call'[t].window = window
  BY DEF Moved
<1> QED
  BY <1>0, <1>1, <1>2, <1>3 DEF Waits

LEMMA CallsStayHonest ==
  ASSUME Shapes, NEW t \in Threads, NEW pc, NEW window, NEW points, NEW record,
         Moved(t, pc, window, points, record), NEW w,
         NEW n \in Int, NEW m \in Int, n <= m, CallsHonest(w, n),
         CallHonest(pc, points, w, m)
  PROVE  \A u \in Threads : CallHonest(call'[u].pc, call'[u].points, w, m)
<1>1. ASSUME NEW u \in Threads, u # t
      PROVE  CallHonest(call[u].pc, call[u].points, w, m)
  <2>1. CallHonest(call[u].pc, call[u].points, w, n)
    BY DEF CallsHonest
  <2>2. \A i \in 1..Len(call[u].points) : call[u].points[i].count \in Nat
    BY PointsTyped
  <2> QED
    BY <2>1, <2>2 DEF CallHonest
<1>2. /\ \A u \in Threads \ {t} : call'[u] = call[u]
      /\ call'[t].pc = pc /\ call'[t].points = points
  BY DEF Moved
<1> QED
  BY <1>1, <1>2

LEMMA HonestMove ==
  ASSUME Shapes, NEW w \in Windows, HonestAt(w),
         NEW t \in Threads, NEW pc, NEW window, NEW points, NEW record,
         Moved(t, pc, window, points, record), NEW m \in Int,
         EnteredAt(call', pushed', w) = m, EnteredAt(call, pushed, w) <= m,
         CallHonest(pc, points, w, m), KeptHonest(w, m)'
  PROVE  HonestAt(w)'
<1>1. PICK n \in Int :
         n = EnteredAt(call, pushed, w) /\ n <= m /\ n >= 0 /\ CallsHonest(w, n)
  BY EnteredAtTyped DEF HonestAt
<1>2. \A u \in Threads : CallHonest(call'[u].pc, call'[u].points, w, m)
  BY <1>1, CallsStayHonest
<1>3. EnteredAt(call', pushed', w) >= 0
  BY <1>1
<1>4. KeptHonest(w, m)' /\ m = EnteredAt(call, pushed, w)'
  OBVIOUS
<1> QED
  BY <1>2, <1>3, <1>4 DEF HonestAt, KeptHonest, CallsHonest

LEMMA HonestGrows ==
  ASSUME Shapes, NEW w \in Windows, NEW n \in Int, NEW m \in Int, n <= m, KeptHonest(w, n)
  PROVE  KeptHonest(w, m)
  BY KeptTyped DEF KeptHonest

LEMMA HonestInit ==
  ASSUME Init, NEW w \in Windows
  PROVE  HonestAt(w)
<1>1. Shapes
  BY ShapesInit
<1>2. Waiting(call, {w}) = 0
  BY WaitingTyped, EmptyTyped DEF Init
<1>3. EnteredAt(call, pushed, w) = 0
  BY <1>2 DEF Init, EnteredAt
<1>4. KeptHonest(w, 0)
  BY <1>1, NewTyped, EmptyTyped, NothingRead, WindowsAreTimes
  DEF Init, NoAggregator, KeptHonest
<1>5. CallsHonest(w, 0)
  BY EmptyTyped, WindowsAreTimes DEF Init, CallsHonest, CallHonest
<1> QED
  BY <1>3, <1>4, <1>5 DEF HonestAt

LEMMA EnteredAtStart ==
  ASSUME Shapes, NEW w \in Windows,
         NEW t \in Threads, NEW v \in Windows, NEW pc \in {"push", "merge"}, Start(t, v, pc)
  PROVE  EnteredAt(call', pushed', w) = EnteredAt(call, pushed, w)
<1>0. /\ Moved(t, pc, v, <<>>, EmptyRecord) /\ call[t].pc = "idle"
      /\ pushed'[w] = IF v = w THEN pushed[w] + 1 ELSE pushed[w]
  BY StartEffect
<1>1. PICK W : W = {w}
  OBVIOUS
<1>2. ~Waits(call[t], W) /\ (Waits(call'[t], W) <=> v = w)
  BY <1>0, <1>1 DEF Waits, Moved
<1>3. PICK s \in Nat, n \in Nat, m \in Nat :
      /\ s = pushed[w] /\ n = Waiting(call, W) /\ m = Waiting(call', W)
      /\ v = w => m = n + 1
      /\ v # w => m = n
  <2>1. pushed[w] \in Nat
    BY PushedSum
  <2> QED
    BY <1>0, <1>2, <2>1, WaitingMoves
<1> QED
  BY <1>0, <1>1, <1>3 DEF EnteredAt

LEMMA HonestStart ==
  ASSUME Shapes, NEW w \in Windows, HonestAt(w),
         NEW t \in Threads, NEW v \in Windows, NEW pc \in {"push", "merge"}, Start(t, v, pc)
  PROVE  HonestAt(w)'
<1>0. /\ Moved(t, pc, v, <<>>, EmptyRecord) /\ call[t].pc = "idle"
      /\ pushed'[w] = IF v = w THEN pushed[w] + 1 ELSE pushed[w]
      /\ agg' = agg \/ agg' = New(v, lastPoint)
      /\ dataDb' = dataDb
  BY StartEffect
<1>1. EnteredAt(call', pushed', w) = EnteredAt(call, pushed, w)
  BY EnteredAtStart
<1>2. PICK n \in Int : n = EnteredAt(call, pushed, w) /\ n >= 0 /\ KeptHonest(w, n)
  BY EnteredAtTyped DEF HonestAt
<1>3. KeptHonest(w, n)'
  <2>1. agg'.window = w => agg'.count <= n
    <3>1. CASE agg' = agg
      BY <1>2, <3>1 DEF KeptHonest
    <3>2. CASE agg' = New(v, lastPoint)
      BY <1>2, <3>2, NewTyped, AggTyped, WindowsAreTimes
    <3> QED
      BY <1>0, <3>1, <3>2
  <2> QED
    BY <1>0, <1>2, <2>1 DEF KeptHonest
<1>4. CallHonest(pc, <<>>, w, n)
  BY <1>2, EmptyTyped DEF CallHonest
<1>5. Moved(t, pc, v, <<>>, EmptyRecord) /\ n <= n
  BY <1>0, <1>2
<1> QED
  BY <1>1, <1>2, <1>3, <1>4, <1>5, HonestMove

LEMMA HonestPushOnTime ==
  ASSUME Shapes, NEW w \in Windows, HonestAt(w), NEW t \in Threads, PushOnTime(t)
  PROVE  HonestAt(w)'
<1>1. PICK v \in Windows : /\ call[t].pc = "push" /\ v = call[t].window /\ agg.window <= v
                           /\ agg' = Push(agg, v)
                           /\ Moved(t, "info", v, Yielded(agg, v), call[t].record)
                           /\ UNCHANGED <<keyDb, dataDb, pushed>>
  BY PushOnTimeEffect
<1>2. PICK n \in Nat, m \in Nat :
         /\ n = EnteredAt(call, pushed, w) /\ m = EnteredAt(call', pushed', w)
         /\ n <= m /\ (v = w => m = n + 1)
  <2>1. /\ EnteredAt(call, pushed, w) \in Int /\ EnteredAt(call', pushed', w) \in Int
        /\ EnteredAt(call, pushed, w) >= 0
        /\ EnteredAt(call, pushed, w) <= EnteredAt(call', pushed', w)
        /\ v = w => EnteredAt(call', pushed', w) = EnteredAt(call, pushed, w) + 1
    BY <1>1, EnteredAtTyped, EnteredAtMoves DEF HonestAt
  <2> QED
    BY <2>1
<1>3. KeptHonest(w, n) /\ CallsHonest(w, n)
  BY <1>2 DEF HonestAt
<1>4. PICK k \in Nat : k = CountIn(agg, v) /\ (v = w => k <= m)
  <2>1. PICK c \in Nat : c = agg.count /\ (agg.window = w => c <= n)
    BY <1>3, KeptTyped DEF KeptHonest
  <2>2. (v = agg.window /\ CountIn(agg, v) = c + 1) \/ CountIn(agg, v) = 1
    BY <2>1 DEF CountIn
  <2> QED
    BY <1>2, <2>1, <2>2
<1>5. KeptHonest(w, m)'
  <2>1. agg'.window = w => agg'.count <= m
    BY <1>1, <1>4, PushIs
  <2>2. KeptHonest(w, m)
    BY <1>2, <1>3, HonestGrows
  <2> QED
    BY <1>1, <2>1, <2>2 DEF KeptHonest
<1>6. CallHonest("info", Yielded(agg, v), w, m)
  <2>1. PICK ps : ps = Yielded(agg, v)
    OBVIOUS
  <2>2. ASSUME NEW i \in 1..Len(ps), ps[i].window = w PROVE ps[i].count <= m
    <3>1. CASE Completes(agg, v) /\ ps[i] = Point(agg.window, agg.count)
      <4>1. PICK u \in Windows, c \in Nat : /\ u = agg.window /\ c = agg.count
                                            /\ u = w => c <= n
        BY <1>3, <3>1, KeptTyped, AggTyped DEF KeptHonest, Completes
      <4>2. Point(u, c).count = c /\ Point(u, c).window = u
        BY PointTyped
      <4> QED
        BY <1>2, <2>2, <3>1, <4>1, <4>2
    <3>2. CASE ps[i] = Point(v, CountIn(agg, v))
      <4>1. Point(v, k).count = k /\ Point(v, k).window = v
        BY PointTyped
      <4> QED
        BY <1>4, <2>2, <3>2, <4>1
    <3> QED
      BY <1>1, <2>1, <3>1, <3>2, YieldedIs
  <2> QED
    BY <2>1, <2>2 DEF CallHonest
<1> QED
  BY <1>1, <1>2, <1>5, <1>6, HonestMove

LEMMA HonestPushLate ==
  ASSUME Shapes, NEW w \in Windows, HonestAt(w), NEW t \in Threads, PushLate(t)
  PROVE  HonestAt(w)'
<1>1. PICK v \in Windows, ps \in Lists :
         /\ v = call[t].window /\ call[t].pc = "push"
         /\ Moved(t, "late", v, ps, call[t].record)
         /\ UNCHANGED <<agg, keyDb, dataDb, pushed>>
  <2>1. PICK v \in Windows, c \in Nat : v = call[t].window /\ c = 1
    BY PushLateEffect
  <2>2. <<Point(v, c)>> \in Lists
    BY PointTyped
  <2> QED
    BY <2>1, <2>2, PushLateEffect
<1>2. PICK n \in Int : n = EnteredAt(call, pushed, w) /\ n = EnteredAt(call', pushed', w)
  BY <1>1, EnteredAtTyped, EnteredAtMoves
<1>3. KeptHonest(w, n)' /\ CallHonest("late", ps, w, n)
  BY <1>1, <1>2 DEF HonestAt, KeptHonest, CallHonest
<1>4. n <= n
  OBVIOUS
<1> QED
  BY <1>1, <1>2, <1>3, <1>4, HonestMove

LEMMA HonestMergeUpdates ==
  ASSUME Shapes, NEW w \in Windows, HonestAt(w), NEW t \in Threads, MergeUpdates(t)
  PROVE  HonestAt(w)'
<1>1. PICK v \in Windows, c \in Nat :
         /\ v = call[t].window /\ c = 1 /\ call[t].pc = "merge"
         /\ Moved(t, "compare", v, <<Point(v, c)>>, call[t].record)
         /\ UNCHANGED <<dataDb, pushed>>
  BY MergeUpdatesEffect
<1>2. PICK n \in Nat, m \in Nat :
         /\ n = EnteredAt(call, pushed, w) /\ m = EnteredAt(call', pushed', w)
         /\ n <= m /\ (v = w => m = n + 1) /\ KeptHonest(w, n)
  <2>1. /\ EnteredAt(call, pushed, w) \in Int /\ EnteredAt(call', pushed', w) \in Int
        /\ EnteredAt(call, pushed, w) >= 0
        /\ EnteredAt(call, pushed, w) <= EnteredAt(call', pushed', w)
        /\ v = w => EnteredAt(call', pushed', w) = EnteredAt(call, pushed, w) + 1
    BY <1>1, EnteredAtTyped, EnteredAtMoves DEF HonestAt
  <2> QED
    BY <2>1 DEF HonestAt
<1>3. KeptHonest(w, m)'
  <2>1. KeptHonest(w, m)
    BY <1>2, HonestGrows
  <2> QED
    BY <1>1, <2>1, MergeUpdatesEffect DEF KeptHonest
<1>4. CallHonest("compare", <<Point(v, c)>>, w, m)
  <2>1. PICK ps \in Lists : /\ ps = <<Point(v, c)>> /\ Len(ps) = 1
                            /\ ps[1].count = c /\ ps[1].window = v
    BY PointTyped
  <2>2. \A i \in 1..Len(ps) : i = 1
    BY <2>1
  <2> QED
    BY <1>1, <1>2, <2>1, <2>2 DEF CallHonest
<1> QED
  BY <1>1, <1>2, <1>3, <1>4, HonestMove

LEMMA HonestMergeGoesOn ==
  ASSUME Shapes, NEW w \in Windows, HonestAt(w), NEW t \in Threads, MergeGoesOn(t)
  PROVE  HonestAt(w)'
<1>1. PICK pc \in {"max", "maxat", "info"} :
         /\ Moved(t, pc, call[t].window, call[t].points, call[t].record)
         /\ call[t].pc \in Merging /\ UNCHANGED <<dataDb, pushed>>
  BY MergeGoesOnEffect
<1>2. PICK n \in Nat, m \in Int :
         /\ n = EnteredAt(call, pushed, w) /\ m = EnteredAt(call', pushed', w) /\ n <= m
         /\ KeptHonest(w, n) /\ CallsHonest(w, n)
  <2>1. /\ EnteredAt(call, pushed, w) \in Int /\ EnteredAt(call', pushed', w) \in Int
        /\ EnteredAt(call, pushed, w) >= 0
        /\ EnteredAt(call, pushed, w) <= EnteredAt(call', pushed', w)
    BY <1>1, EnteredAtTyped, EnteredAtMoves DEF HonestAt
  <2> QED
    BY <2>1 DEF HonestAt
<1>3. KeptHonest(w, m)'
  <2>1. KeptHonest(w, m)
    BY <1>2, HonestGrows
  <2> QED
    BY <1>1, <2>1, MergeGoesOnEffect DEF KeptHonest
<1>4. CallHonest(pc, call[t].points, w, m)
  <2>1. call[t].pc # "late" /\ CallHonest(call[t].pc, call[t].points, w, n)
    BY <1>1, <1>2 DEF Merging, CallsHonest
  <2>2. \A i \in 1..Len(call[t].points) : call[t].points[i].count \in Nat
    BY PointsTyped
  <2> QED
    BY <1>2, <2>1, <2>2 DEF CallHonest
<1> QED
  BY <1>1, <1>2, <1>3, <1>4, HonestMove

LEMMA HonestSame ==
  ASSUME Shapes, NEW w \in Windows, HonestAt(w),
         NEW t \in Threads, NEW pc \in Places, NEW window, NEW points, NEW record,
         Moved(t, pc, window, points, record), UNCHANGED <<agg, pushed>>,
         pc \notin {"push", "late", "merge"},
         call[t].pc # "late" \/ points = <<>>,
         points = <<>> \/ points = call[t].points
           \/ \E i \in 1..Len(call[t].points) : points = <<call[t].points[i]>>,
         \/ dataDb'[w] = dataDb[w]
         \/ /\ call[t].pc # "late" /\ Legible(dataDb'[w])
            /\ \E i \in 1..Len(call[t].points) :
                 call[t].points[i].window = w /\ SumOf(dataDb'[w]) = call[t].points[i].count
  PROVE  HonestAt(w)'
<1>1. PICK n \in Nat, m \in Int :
         /\ n = EnteredAt(call, pushed, w) /\ m = EnteredAt(call', pushed', w) /\ n <= m
         /\ KeptHonest(w, n) /\ CallsHonest(w, n)
  <2>1. /\ EnteredAt(call, pushed, w) \in Int /\ EnteredAt(call', pushed', w) \in Int
        /\ EnteredAt(call, pushed, w) >= 0
        /\ EnteredAt(call, pushed, w) <= EnteredAt(call', pushed', w)
    BY EnteredAtTyped, EnteredAtMoves DEF HonestAt
  <2> QED
    BY <2>1 DEF HonestAt
<1>2. call[t].pc # "late" => \A i \in 1..Len(call[t].points) :
         /\ call[t].points[i].count \in Nat
         /\ call[t].points[i].window = w => call[t].points[i].count <= n
  BY <1>1, PointsTyped DEF CallsHonest, CallHonest
<1>3. KeptHonest(w, m)
  BY <1>1, HonestGrows
<1>4. KeptHonest(w, m)'
  <2>1. SumOf(dataDb'[w]) <= m /\ Legible(dataDb'[w])
    BY <1>1, <1>2, <1>3 DEF KeptHonest
  <2> QED
    BY <1>3, <2>1 DEF KeptHonest
<1>5. ASSUME NEW i \in 1..Len(points), points[i].window = w PROVE points[i].count <= m
  <2>1. CASE points = <<>>
    BY <2>1
  <2>2. CASE points = call[t].points /\ call[t].pc # "late"
    BY <1>1, <1>2, <1>5, <2>2
  <2>3. CASE call[t].pc # "late" /\ \E j \in 1..Len(call[t].points) :
               points = <<call[t].points[j]>>
    <3>1. PICK j \in 1..Len(call[t].points) : points = <<call[t].points[j]>>
      BY <2>3
    <3>2. PICK x : x = call[t].points[j]
      OBVIOUS
    <3>3. x.window = w => x.count <= m
      BY <1>1, <1>2, <2>3, <3>2
    <3>4. points = <<x>>
      BY <3>1, <3>2
    <3>5. points[i] = x
      BY <3>4
    <3> QED
      BY <1>5, <3>3, <3>5
  <2> QED
    BY <2>1, <2>2, <2>3
<1>6. CallHonest(pc, points, w, m)
  BY <1>5 DEF CallHonest
<1> QED
  BY <1>1, <1>4, <1>6, HonestMove

LEMMA HonestWrites ==
  ASSUME Shapes, NEW w \in Windows, HonestAt(w), NEW t \in Threads,
         TakeRecord(t) \/ SetKey(t) \/ SetData(t) \/ DbFails(t)
  PROVE  HonestAt(w)'
<1>1. CASE TakeRecord(t)
  <2>1. /\ Moved(t, "setkey", call[t].window, call[t].points, agg.record)
        /\ call[t].pc # "late" /\ UNCHANGED <<agg, keyDb, dataDb, pushed>>
    BY <1>1, TakeRecordEffect
  <2> QED
    BY <2>1, HonestSame DEF Places
<1>2. CASE SetKey(t)
  <2>1. /\ \/ Moved(t, "idle", 0, <<>>, EmptyRecord)
           \/ Moved(t, "setdata", call[t].window, call[t].points, call[t].record)
        /\ call[t].pc # "late" /\ keyDb' = call[t].record
        /\ UNCHANGED <<agg, dataDb, pushed>>
    BY <1>2, SetKeyEffect
  <2> QED
    BY <2>1, HonestSame DEF Places
<1>3. CASE SetData(t)
  <2>1. /\ 1 \in 1..Len(call[t].points)
        /\ Len(call[t].points) = 2 => 2 \in 1..Len(call[t].points)
        /\ call[t].points[1].count \in Nat
        /\ Filed(call[t].points[1].window, <<SetTo(call[t].points[1].count)>>)
        /\ call[t].pc # "late" /\ UNCHANGED <<agg, keyDb, pushed>>
    <3>1. PICK n \in Nat : n = Len(call[t].points) /\ (n = 1 \/ n = 2)
      BY <1>3, SetDataEffect
    <3>2. 1 \in 1..n /\ (n = 2 => 2 \in 1..n)
      <4>1. 1 \in 1..1 /\ 1 \in 1..2 /\ 2 \in 1..2
        OBVIOUS
      <4> QED
        BY <3>1, <4>1
    <3> QED
      BY <1>3, <3>1, <3>2, SetDataEffect
  <2>2. \/ dataDb'[w] = dataDb[w]
        \/ /\ call[t].points[1].window = w /\ Legible(dataDb'[w])
           /\ SumOf(dataDb'[w]) = call[t].points[1].count
    <3>1. PICK c \in Nat : c = call[t].points[1].count
      BY <2>1
    <3> QED
      BY <2>1, <3>1, SetReads DEF Filed
  <2>3. CASE Moved(t, "idle", 0, <<>>, EmptyRecord)
    BY <2>1, <2>2, <2>3, HonestSame DEF Places
  <2>4. CASE /\ Len(call[t].points) = 2
             /\ Moved(t, "setdata", call[t].window, <<call[t].points[2]>>, call[t].record)
    <3>0. PICK ps : ps = <<call[t].points[2]>>
      OBVIOUS
    <3>1. /\ \E i \in 1..Len(call[t].points) : ps = <<call[t].points[i]>>
          /\ Moved(t, "setdata", call[t].window, ps, call[t].record)
      BY <2>1, <2>4, <3>0
    <3>2. "setdata" \in Places
      BY DEF Places
    <3> QED
      BY <2>1, <2>2, <3>1, <3>2, HonestSame
  <2> QED
    BY <1>3, <2>3, <2>4, SetDataEffect
<1>4. CASE DbFails(t)
  <2>1. /\ Moved(t, "idle", 0, <<>>, EmptyRecord)
        /\ UNCHANGED <<agg, keyDb, dataDb, pushed>>
    BY <1>4, DbFailsEffect
  <2> QED
    BY <2>1, HonestSame DEF Places
<1> QED
  BY <1>1, <1>2, <1>3, <1>4

LEMMA HonestIncData ==
  ASSUME Shapes, NEW w \in Windows, HonestAt(w), NEW t \in Threads, IncData(t)
  PROVE  HonestAt(w)'
<1>1. PICK v \in Windows :
         /\ v = call[t].window /\ call[t].pc = "late"
         /\ Filed(v, LateOn(dataDb[v]))
         /\ Moved(t, "idle", 0, <<>>, EmptyRecord)
         /\ UNCHANGED <<agg, keyDb, pushed>>
  BY IncDataEffect
<1>2. PICK n \in Nat, m \in Nat :
         /\ n = EnteredAt(call, pushed, w) /\ m = EnteredAt(call', pushed', w)
         /\ n <= m /\ (v = w => m = n + 1)
         /\ KeptHonest(w, n)
  <2>1. /\ EnteredAt(call, pushed, w) \in Int /\ EnteredAt(call', pushed', w) \in Int
        /\ EnteredAt(call, pushed, w) >= 0
        /\ EnteredAt(call, pushed, w) <= EnteredAt(call', pushed', w)
        /\ v = w => EnteredAt(call', pushed', w) = EnteredAt(call, pushed, w) + 1
    BY <1>1, EnteredAtTyped, EnteredAtMoves DEF HonestAt
  <2> QED
    BY <2>1 DEF HonestAt
<1>3. KeptHonest(w, m)
  BY <1>2, HonestGrows
<1>4. SumOf(dataDb'[w]) <= m /\ Legible(dataDb'[w])
  <2>1. CASE v # w
    BY <1>1, <1>3, <2>1 DEF Filed, KeptHonest
  <2>2. CASE v = w
    <3>1. PICK e \in Logs, s \in Nat : /\ e = dataDb[w] /\ FirstSet(e)
                                         /\ s = SumOf(e) /\ s <= n /\ Legible(e)
      BY <1>2, KeptTyped DEF KeptHonest, Shapes, DbFine
    <3>2. PICK z \in Nat : z = SumOf(LateOn(e)) /\ z <= s + 1 /\ Legible(LateOn(e))
      BY <3>1, LateReads
    <3>3. dataDb'[w] = LateOn(e)
      BY <1>1, <2>2, <3>1 DEF Filed
    <3> QED
      BY <1>2, <2>2, <3>1, <3>2, <3>3
  <2> QED
    BY <2>1, <2>2
<1>5. KeptHonest(w, m)'
  BY <1>1, <1>3, <1>4 DEF KeptHonest
<1>6. CallHonest("idle", <<>>, w, m)
  BY <1>2, EmptyTyped DEF CallHonest
<1> QED
  BY <1>1, <1>2, <1>5, <1>6, HonestMove

LEMMA HonestStartClose ==
  ASSUME Shapes, NEW w \in Windows, HonestAt(w), NEW t \in Threads, StartClose(t)
  PROVE  HonestAt(w)'
<1>1. PICK ps \in Lists :
         /\ Moved(t, "setkey", 0, ps, agg.record)
         /\ \A i \in 1..Len(ps) : ps[i].count = agg.count /\ ps[i].window = agg.window
         /\ UNCHANGED <<agg, keyDb, dataDb, pushed>>
  <2>1. CASE Moved(t, "setkey", 0, <<>>, agg.record)
    <3>1. PICK ps \in Lists : ps = <<>> /\ Len(ps) = 0
      BY EmptyTyped
    <3>2. \A i \in 1..Len(ps) : ps[i].count = agg.count /\ ps[i].window = agg.window
      BY <3>1
    <3> QED
      BY <2>1, <3>1, <3>2, StartCloseEffect
  <2>2. CASE /\ agg.window \in Windows
             /\ Moved(t, "setkey", 0, <<Point(agg.window, agg.count)>>, agg.record)
    <3>1. PICK v \in Windows, c \in Nat : v = agg.window /\ c = agg.count
      BY <2>2, AggTyped
    <3>2. PICK ps \in Lists : /\ ps = <<Point(v, c)>> /\ Len(ps) = 1
                              /\ ps[1].count = c /\ ps[1].window = v
      BY PointTyped
    <3>3. \A i \in 1..Len(ps) : i = 1
      BY <3>2
    <3>4. \A i \in 1..Len(ps) : ps[i].count = agg.count /\ ps[i].window = agg.window
      BY <3>1, <3>2, <3>3
    <3> QED
      BY <2>2, <3>1, <3>2, <3>4, StartCloseEffect
  <2> QED
    BY <2>1, <2>2, StartCloseEffect
<1>2. PICK n \in Nat, m \in Int :
         /\ n = EnteredAt(call, pushed, w) /\ m = EnteredAt(call', pushed', w) /\ n <= m
         /\ KeptHonest(w, n)
  <2>1. /\ EnteredAt(call, pushed, w) \in Int /\ EnteredAt(call', pushed', w) \in Int
        /\ EnteredAt(call, pushed, w) >= 0
        /\ EnteredAt(call, pushed, w) <= EnteredAt(call', pushed', w)
    BY <1>1, EnteredAtTyped, EnteredAtMoves DEF HonestAt
  <2> QED
    BY <2>1 DEF HonestAt
<1>3. KeptHonest(w, m)
  BY <1>2, HonestGrows
<1>4. KeptHonest(w, m)' /\ CallHonest("setkey", ps, w, m)
  BY <1>1, <1>3 DEF KeptHonest, CallHonest
<1> QED
  BY <1>1, <1>2, <1>4, HonestMove

LEMMA HonestVanish ==
  ASSUME Shapes, NEW w \in Windows, HonestAt(w), Vanish
  PROVE  HonestAt(w)'
<1>1. /\ agg' = New(0, lastPoint) /\ \A t \in Threads : call'[t] = Idle
      /\ UNCHANGED <<keyDb, dataDb, pushed>>
  BY VanishEffect
<1>2. Waiting(call', {w}) = 0
  BY <1>1, WaitingTyped, EmptyTyped
<1>3. PICK s \in Nat, n \in Nat :
         s = pushed[w] /\ n = EnteredAt(call, pushed, w) /\ n <= s /\ KeptHonest(w, n)
  <2>1. /\ pushed[w] \in Nat /\ EnteredAt(call, pushed, w) \in Int
        /\ EnteredAt(call, pushed, w) >= 0 /\ EnteredAt(call, pushed, w) <= pushed[w]
    BY PushedSum, EnteredAtTyped DEF HonestAt
  <2> QED
    BY <2>1 DEF HonestAt
<1>4. EnteredAt(call', pushed', w) = s
  BY <1>1, <1>2, <1>3 DEF EnteredAt
<1>5. KeptHonest(w, s)
  BY <1>3, HonestGrows
<1>6. KeptHonest(w, s)'
  BY <1>1, <1>3, <1>5, NewTyped, EmptyTyped, AggTyped, WindowsAreTimes DEF KeptHonest
<1>7. CallsHonest(w, s)'
  BY <1>1, <1>3, EmptyTyped DEF CallsHonest, CallHonest
<1>8. s = EnteredAt(call, pushed, w)'
  BY <1>4
<1> QED
  BY <1>3, <1>6, <1>7, <1>8 DEF HonestAt

LEMMA HonestStays ==
  ASSUME NEW w \in Windows, HonestAt(w), UNCHANGED <<call, pushed>>,
         KeptHonest(w, EnteredAt(call, pushed, w))'
  PROVE  HonestAt(w)'
<1>1. PICK n : n = EnteredAt(call, pushed, w)
  OBVIOUS
<1>2. n = EnteredAt(call, pushed, w)'
  BY <1>1
<1>3. CallsHonest(w, n)' /\ n >= 0
  BY <1>1 DEF HonestAt, CallsHonest
<1> QED
  BY <1>1, <1>2, <1>3 DEF HonestAt

(* A restart starts from a window that was cut short.                      *)
LEMMA HonestOpen ==
  ASSUME Shapes, NEW w \in Windows, HonestAt(w), Open, keyDb.lastUpdate # w
  PROVE  HonestAt(w)'
<1>1. PICK n : n = EnteredAt(call, pushed, w) /\ KeptHonest(w, n)
  BY DEF HonestAt
<1>2. agg'.window # w
  BY OpenEffect
<1>3. KeptHonest(w, n)'
  BY <1>1, <1>2, OpenEffect DEF KeptHonest
<1> QED
  BY <1>1, <1>3, OpenEffect, HonestStays

LEMMA HonestRocks ==
  ASSUME Shapes, NEW w \in Windows, HonestAt(w), NEW v \in Windows,
         Compact(v) \/ (Spoil(v) /\ v # w)
  PROVE  HonestAt(w)'
<1>1. PICK n : n = EnteredAt(call, pushed, w) /\ KeptHonest(w, n)
  BY DEF HonestAt
<1>2. KeptHonest(w, n)' /\ UNCHANGED <<call, pushed>>
  BY <1>1, CompactEffect, SpoilEffect DEF KeptHonest
<1> QED
  BY <1>1, <1>2, HonestStays

-----------------------------------------------------------------------------
(* Without merges neither a record nor a point on its way is ahead of the  *)
(* open window.                                                            *)
CallInOrder(pc, points, record, w) ==
    /\ pc \notin {"merge"} \cup Merging
    /\ record.lastUpdate <= w
    /\ \A i \in 1..Len(points) : points[i].window <= w

InOrder ==
    /\ \A t \in Threads : CallInOrder(call[t].pc, call[t].points, call[t].record, agg.window)
    /\ agg.record.lastUpdate <= agg.window
    /\ phase # "down" => keyDb.lastUpdate <= agg.window

LEMMA CallOrderGrows ==
  ASSUME Shapes, NEW t \in Threads, NEW w \in Int, agg.window <= w,
         CallInOrder(call[t].pc, call[t].points, call[t].record, agg.window)
  PROVE  CallInOrder(call[t].pc, call[t].points, call[t].record, w)
<1>1. agg.window \in Int /\ call[t].record.lastUpdate \in Int
  BY AggTyped, CallTyped, WindowsAreTimes DEF Records
<1>2. \A i \in 1..Len(call[t].points) : call[t].points[i].window \in Int
  BY PointsTyped, WindowsAreTimes
<1> QED
  BY <1>1, <1>2 DEF CallInOrder

LEMMA InOrderMove ==
  ASSUME Shapes, InOrder, NEW t \in Threads, NEW pc, NEW window, NEW points, NEW record,
         Moved(t, pc, window, points, record), phase # "down",
         CallInOrder(pc, points, record, agg'.window),
         agg.window <= agg'.window, agg'.window \in Int, agg'.record.lastUpdate <= agg'.window,
         keyDb' = keyDb \/ keyDb'.lastUpdate <= agg'.window
  PROVE  InOrder'
<1>1. agg.window \in Int /\ keyDb.lastUpdate \in Int
  BY AggTyped, WindowsAreTimes DEF Shapes, DbFine, Records
<1>2. keyDb'.lastUpdate <= agg'.window
  BY <1>1 DEF InOrder
<1>3. ASSUME NEW u \in Threads
      PROVE  CallInOrder(call'[u].pc, call'[u].points, call'[u].record, agg'.window)
  <2>1. CASE u = t
    BY <2>1 DEF Moved
  <2>2. CASE u # t
    <3>1. call'[u] = call[u]
      BY <2>2 DEF Moved
    <3> QED
      BY <3>1, CallOrderGrows DEF InOrder
  <2> QED
    BY <2>1, <2>2
<1> QED
  BY <1>2, <1>3 DEF InOrder

LEMMA NothingInOrder ==
  ASSUME NEW w \in Nat, NEW pc, pc \notin {"merge"} \cup Merging
  PROVE  CallInOrder(pc, <<>>, EmptyRecord, w)
<1>1. \A i \in 1..Len(<<>>) : FALSE
  OBVIOUS
<1> QED
  BY <1>1, EmptyTyped DEF CallInOrder

LEMMA InOrderStart ==
  ASSUME Shapes, InOrder, NEW t \in Threads, NEW w \in Windows, Start(t, w, "push")
  PROVE  InOrder'
<1>1. PICK pc \in {"push", "merge"} : pc = "push"
  OBVIOUS
<1>2. /\ Moved(t, pc, w, <<>>, EmptyRecord) /\ phase # "down" /\ keyDb' = keyDb
      /\ agg' = agg \/ (agg = New(0, lastPoint) /\ agg' = New(w, lastPoint))
  BY <1>1, StartEffect
<1>3. /\ agg.window <= agg'.window /\ agg'.window \in Nat
      /\ agg'.record.lastUpdate <= agg'.window
  BY <1>2, NewTyped, EmptyTyped, AggTyped, WindowsAreTimes DEF InOrder
<1>4. CallInOrder(pc, <<>>, EmptyRecord, agg'.window)
  BY <1>1, <1>3, NothingInOrder DEF Merging
<1> QED
  BY <1>2, <1>3, <1>4, InOrderMove

LEMMA InOrderPush ==
  ASSUME Shapes, InOrder, NEW t \in Threads, PushLate(t) \/ PushOnTime(t)
  PROVE  InOrder'
<1>1. agg.window \in Nat /\ agg.record.lastUpdate <= agg.window
  BY AggTyped, WindowsAreTimes DEF InOrder
<1>2. CallInOrder(call[t].pc, call[t].points, call[t].record, agg.window)
  BY DEF InOrder
<1>3. CASE PushLate(t)
  <2>1. PICK w \in Windows, c \in Nat : /\ w = call[t].window /\ w < agg.window /\ c = 1
                                        /\ Moved(t, "late", w, <<Point(w, c)>>, call[t].record)
    BY <1>3, PushLateEffect
  <2>2. PICK ps \in Lists : ps = <<Point(w, c)>> /\ Len(ps) = 1 /\ ps[1].window = w
    BY PointTyped
  <2>3. \A i \in 1..Len(ps) : ps[i].window <= agg.window
    <3>1. \A i \in 1..Len(ps) : i = 1
      BY <2>2
    <3>2. w \in Nat
      BY WindowsAreTimes
    <3> QED
      BY <1>1, <2>1, <2>2, <3>1, <3>2
  <2>4. CallInOrder("late", ps, call[t].record, agg.window)
    BY <1>2, <2>3 DEF CallInOrder, Merging
  <2>5. phase # "down" /\ UNCHANGED <<agg, keyDb>>
    BY <1>3, PushLateEffect
  <2> QED
    BY <1>1, <2>1, <2>2, <2>4, <2>5, InOrderMove
<1>4. CASE PushOnTime(t)
  <2>1. PICK w \in Windows :
         /\ w = call[t].window /\ agg.window <= w /\ agg' = Push(agg, w) /\ w \in Nat
         /\ Moved(t, "info", w, Yielded(agg, w), call[t].record)
         /\ phase # "down" /\ keyDb' = keyDb /\ call[t].pc = "push"
    BY <1>4, PushOnTimeEffect, WindowsAreTimes
  <2>2. agg.record.lastUpdate \in Nat
    BY AggTyped, WindowsAreTimes DEF Records
  <2>3. agg'.window = w /\ agg'.record.lastUpdate <= w
    BY <1>1, <2>1, <2>2, PushIs
  <2>4. PICK ps : ps = Yielded(agg, w)
    OBVIOUS
  <2>5. ASSUME NEW i \in 1..Len(ps) PROVE ps[i].window <= w
    <3>1. PICK k \in Nat : k = CountIn(agg, w)
      BY <2>1, YieldedIs
    <3>2. CASE Completes(agg, w) /\ ps[i] = Point(agg.window, agg.count)
      <4>1. PICK v \in Windows, c \in Nat : v = agg.window /\ c = agg.count /\ v <= w
        BY <2>1, <3>2, AggTyped DEF Completes
      <4>2. Point(v, c).window = v
        BY PointTyped
      <4> QED
        BY <3>2, <4>1, <4>2
    <3>3. CASE ps[i] = Point(w, k)
      <4>1. Point(w, k).window = w
        BY PointTyped
      <4> QED
        BY <2>1, <3>3, <4>1
    <3> QED
      BY <2>1, <2>4, <3>1, <3>2, <3>3, YieldedIs
  <2>6. CallInOrder(call[t].pc, call[t].points, call[t].record, w)
    BY <1>2, <2>1, CallOrderGrows
  <2>7. CallInOrder("info", ps, call[t].record, w)
    BY <2>5, <2>6 DEF CallInOrder, Merging
  <2> QED
    BY <2>1, <2>3, <2>4, <2>7, InOrderMove
<1> QED
  BY <1>3, <1>4

LEMMA InOrderSetData ==
  ASSUME Shapes, InOrder, NEW t \in Threads, SetData(t)
  PROVE  InOrder'
<1>1. /\ phase # "down" /\ UNCHANGED <<agg, keyDb>> /\ agg.window \in Nat
      /\ agg.record.lastUpdate <= agg.window
  BY SetDataEffect, AggTyped, WindowsAreTimes DEF InOrder
<1>2. CASE Moved(t, "idle", 0, <<>>, EmptyRecord)
  BY <1>1, <1>2, NothingInOrder, InOrderMove DEF Merging
<1>3. CASE /\ Len(call[t].points) = 2
           /\ Moved(t, "setdata", call[t].window, <<call[t].points[2]>>, call[t].record)
  <2>1. CallInOrder(call[t].pc, call[t].points, call[t].record, agg.window)
    BY DEF InOrder
  <2>2. PICK x : x = call[t].points[2]
    OBVIOUS
  <2>3. PICK ps : ps = <<x>> /\ \A i \in 1..Len(ps) : ps[i] = x
    <3>1. Len(<<x>>) = 1 /\ <<x>>[1] = x
      OBVIOUS
    <3>2. \A i \in 1..Len(<<x>>) : <<x>>[i] = x
      BY <3>1
    <3> QED
      BY <3>2
  <2>4. x.window <= agg.window
    <3>1. 2 \in 1..2
      OBVIOUS
    <3> QED
      BY <1>3, <2>1, <2>2, <3>1 DEF CallInOrder, Merging
  <2>5. CallInOrder("setdata", ps, call[t].record, agg.window)
    BY <2>1, <2>3, <2>4 DEF CallInOrder, Merging
  <2> QED
    BY <1>1, <1>3, <2>2, <2>3, <2>5, InOrderMove
<1> QED
  BY <1>2, <1>3, SetDataEffect

LEMMA InOrderStartClose ==
  ASSUME Shapes, InOrder, NEW t \in Threads, StartClose(t)
  PROVE  InOrder'
<1>1. /\ phase # "down" /\ UNCHANGED <<agg, keyDb>> /\ agg.window \in Nat
      /\ agg.record.lastUpdate <= agg.window
  BY StartCloseEffect, AggTyped, WindowsAreTimes DEF InOrder
<1>2. CASE Moved(t, "setkey", 0, <<>>, agg.record)
  <2>1. \A i \in 1..Len(<<>>) : FALSE
    OBVIOUS
  <2>2. CallInOrder("setkey", <<>>, agg.record, agg.window)
    BY <1>1, <2>1 DEF CallInOrder, Merging
  <2> QED
    BY <1>1, <1>2, <2>2, InOrderMove
<1>3. CASE /\ agg.window \in Windows
           /\ Moved(t, "setkey", 0, <<Point(agg.window, agg.count)>>, agg.record)
  <2>1. PICK w \in Windows, c \in Nat : w = agg.window /\ c = agg.count
    BY <1>3, AggTyped
  <2>2. PICK ps \in Lists : ps = <<Point(w, c)>> /\ Len(ps) = 1 /\ ps[1].window = w
    BY PointTyped
  <2>3. \A i \in 1..Len(ps) : i = 1
    BY <2>2
  <2>4. CallInOrder("setkey", ps, agg.record, agg.window)
    BY <1>1, <2>1, <2>2, <2>3 DEF CallInOrder, Merging
  <2> QED
    BY <1>1, <1>3, <2>1, <2>2, <2>4, InOrderMove
<1> QED
  BY <1>2, <1>3, StartCloseEffect

LEMMA InOrderStep ==
  ASSUME Shapes, InOrder, [Next]_vars, "merge" \notin features
  PROVE  InOrder'
<1>0. /\ agg.window \in Nat /\ agg.record.lastUpdate \in Nat /\ keyDb.lastUpdate \in Nat
      /\ agg.record.lastUpdate <= agg.window
      /\ \A t \in Threads :
           CallInOrder(call[t].pc, call[t].points, call[t].record, agg.window)
  BY AggTyped, WindowsAreTimes DEF Shapes, DbFine, Records, InOrder
<1>1. CASE \E t \in Threads, w \in Windows : StartAdd(t, w)
  BY <1>1, InOrderStart DEF StartAdd
<1>2. CASE \E t \in Threads, w \in Windows : StartMerge(t, w)
  BY <1>2 DEF StartMerge
<1>3. CASE \E t \in Threads : PushLate(t) \/ PushOnTime(t)
  BY <1>3, InOrderPush
<1>5. CASE \E t \in Threads : MergeUpdates(t) \/ MergeGoesOn(t)
  BY <1>0, <1>5, MergeUpdatesEffect, MergeGoesOnEffect DEF CallInOrder, Merging
<1>6. CASE \E t \in Threads : TakeRecord(t)
  <2>1. PICK t \in Threads :
           /\ Moved(t, "setkey", call[t].window, call[t].points, agg.record)
           /\ phase # "down" /\ UNCHANGED <<agg, keyDb>>
    BY <1>6, TakeRecordEffect
  <2>2. CallInOrder("setkey", call[t].points, agg.record, agg.window)
    BY <1>0 DEF CallInOrder, Merging
  <2> QED
    BY <1>0, <2>1, <2>2, InOrderMove
<1>7. CASE \E t \in Threads : SetKey(t)
  <2>1. PICK t \in Threads : SetKey(t)
    BY <1>7
  <2>2. /\ phase # "down" /\ agg' = agg /\ keyDb' = call[t].record
        /\ call[t].record.lastUpdate <= agg.window
    BY <1>0, <2>1, SetKeyEffect DEF CallInOrder, Merging
  <2>3. CASE Moved(t, "idle", 0, <<>>, EmptyRecord)
    BY <1>0, <2>2, <2>3, NothingInOrder, InOrderMove DEF Merging
  <2>4. CASE Moved(t, "setdata", call[t].window, call[t].points, call[t].record)
    <3>1. CallInOrder("setdata", call[t].points, call[t].record, agg.window)
      BY <1>0 DEF CallInOrder, Merging
    <3> QED
      BY <1>0, <2>2, <2>4, <3>1, InOrderMove
  <2> QED
    BY <2>1, <2>3, <2>4, SetKeyEffect
<1>8. CASE \E t \in Threads : SetData(t) \/ StartClose(t)
  BY <1>8, InOrderSetData, InOrderStartClose
<1>9. CASE \E t \in Threads : IncData(t) \/ DbFails(t)
  <2>1. PICK t \in Threads : /\ Moved(t, "idle", 0, <<>>, EmptyRecord)
                             /\ phase # "down" /\ UNCHANGED <<agg, keyDb>>
    BY <1>9, IncDataEffect, DbFailsEffect
  <2> QED
    BY <1>0, <2>1, NothingInOrder, InOrderMove DEF Merging
<1>10. CASE FinishClose \/ Crash
  <2>1. Vanish
    BY <1>10 DEF FinishClose, Crash
  <2>2. /\ phase' = "down" /\ agg'.window = 0 /\ agg'.record = EmptyRecord
        /\ \A t \in Threads : call'[t] = Idle
    BY <2>1, VanishEffect, NewTyped, AggTyped, WindowsAreTimes
  <2>3. CallInOrder("idle", <<>>, EmptyRecord, 0)
    BY NothingInOrder DEF Merging
  <2> QED
    BY <2>2, <2>3, EmptyTyped DEF InOrder
<1>11. CASE Open
  <2>1. /\ agg'.window = keyDb.lastUpdate /\ agg'.record = keyDb
        /\ UNCHANGED <<call, keyDb>>
    BY <1>11, OpenEffect
  <2>2. agg.window = 0
    BY <1>11, OpenEffect, NewTyped, AggTyped, WindowsAreTimes DEF Shapes, NoAggregator
  <2>3. \A t \in Threads :
           CallInOrder(call[t].pc, call[t].points, call[t].record, keyDb.lastUpdate)
    BY <1>0, <2>2, CallOrderGrows
  <2> QED
    BY <1>0, <2>1, <2>3 DEF InOrder
<1>12. CASE \E w \in Windows : Compact(w) \/ Spoil(w)
  <2>1. UNCHANGED <<phase, agg, call, keyDb>>
    BY <1>12, CompactEffect, SpoilEffect
  <2> QED
    BY <2>1 DEF InOrder
<1>13. CASE UNCHANGED vars
  BY <1>13 DEF vars, InOrder
<1> QED
  BY <1>1, <1>2, <1>3, <1>5, <1>6, <1>7, <1>8, <1>9, <1>10, <1>11, <1>12, <1>13
  DEF Next, MergeGoesOn

LEMMA InOrderInit ==
  ASSUME Init
  PROVE  InOrder
<1>1. /\ agg.window = 0 /\ agg.record = EmptyRecord /\ keyDb = EmptyRecord
      /\ \A t \in Threads : call[t] = Idle
  BY NewTyped, AggTyped, ShapesInit, WindowsAreTimes DEF Init, NoAggregator, NoRecord
<1>2. CallInOrder("idle", <<>>, EmptyRecord, 0)
  BY NothingInOrder DEF Merging
<1> QED
  BY <1>1, <1>2, EmptyTyped DEF InOrder

LEMMA HonestStep ==
  ASSUME Shapes, NEW w \in Windows, w \notin cutShort', HonestAt(w), [Next]_vars,
         Open => keyDb.lastUpdate # w
  PROVE  HonestAt(w)'
<1>1. CASE \E t \in Threads, v \in Windows : StartAdd(t, v) \/ StartMerge(t, v)
  BY <1>1, HonestStart DEF StartAdd, StartMerge
<1>2. CASE \E t \in Threads : PushLate(t) \/ PushOnTime(t)
  BY <1>2, HonestPushLate, HonestPushOnTime
<1>3. CASE \E t \in Threads : MergeUpdates(t) \/ MergeGoesOn(t)
  BY <1>3, HonestMergeUpdates, HonestMergeGoesOn
<1>4. CASE \E t \in Threads : TakeRecord(t) \/ SetKey(t) \/ SetData(t) \/ DbFails(t)
  BY <1>4, HonestWrites
<1>5. CASE \E t \in Threads : IncData(t) \/ StartClose(t)
  BY <1>5, HonestIncData, HonestStartClose
<1>6. CASE FinishClose \/ Crash \/ Open
  BY <1>6, HonestVanish, HonestOpen DEF FinishClose, Crash
<1>7. CASE \E v \in Windows : Compact(v)
  BY <1>7, HonestRocks
<1>8. CASE \E v \in Windows : Spoil(v)
  <2>1. PICK v \in Windows : Spoil(v)
    BY <1>8
  <2>2. v # w
    BY <2>1, SpoilEffect
  <2> QED
    BY <2>1, <2>2, HonestRocks
<1>9. CASE UNCHANGED vars
  <2>1. UNCHANGED <<agg, call, keyDb, dataDb, pushed>>
    BY <1>9 DEF vars
  <2>2. KeptHonest(w, EnteredAt(call, pushed, w))'
    <3>1. PICK n : n = EnteredAt(call, pushed, w) /\ KeptHonest(w, n)
      BY DEF HonestAt
    <3>2. n = EnteredAt(call, pushed, w)' /\ KeptHonest(w, n)'
      BY <2>1, <3>1 DEF KeptHonest
    <3> QED
      BY <3>2
  <2> QED
    BY <2>1, <2>2, HonestStays
<1> QED
  BY <1>1, <1>2, <1>3, <1>4, <1>5, <1>6, <1>7, <1>8, <1>9 DEF Next, MergeGoesOn

LEMMA CutShortGrows ==
  ASSUME Shapes, [Next]_vars
  PROVE  cutShort \subseteq cutShort'
<1>1. CASE Next /\ ~(FinishClose \/ Crash)
  BY <1>1 DEF Next, StartAdd, StartMerge, Start, PushLate, PushOnTime, MergeUpdates,
     MergeCompares, MergeAssigns, MergeDates, TakeRecord, SetKey, SetData, IncData, DbFails,
     StartClose, Open, Compact, Spoil, options
<1>2. CASE FinishClose \/ Crash
  BY <1>2, VanishEffect DEF FinishClose, Crash
<1>3. CASE UNCHANGED vars
  BY <1>3 DEF vars
<1> QED
  BY <1>1, <1>2, <1>3

LEMMA OptionsStay ==
  ASSUME [Next]_vars
  PROVE  features' = features /\ lastPoint' = lastPoint
  BY DEF Next, StartAdd, StartMerge, Start, PushLate, PushOnTime, MergeUpdates, MergeCompares,
     MergeAssigns, MergeDates, TakeRecord, SetKey, SetData, IncData, DbFails, StartClose,
     FinishClose, Crash, Vanish, Open, Compact, Spoil, options, vars

-----------------------------------------------------------------------------
(* What a record says of its maximum, wherever it is: without merges, that *)
(* so many samples were handed in for the window it names; with them, for  *)
(* some window.                                                            *)
TruthfulFor(r, f, cut, samples) ==
    /\ "merge" \notin f =>
         r.max = 0 \/ r.maxAt \in cut \/ (r.maxAt \in Windows /\ r.max <= samples[r.maxAt])
    /\ cut = {} => \E w \in Windows : r.max <= samples[w]

Truthful ==
    /\ TruthfulFor(agg.record, features, cutShort, pushed)
    /\ TruthfulFor(keyDb, features, cutShort, pushed)
    /\ \A t \in Threads : TruthfulFor(call[t].record, features, cutShort, pushed)

LEMMA TruthLasts ==
  ASSUME NEW r \in Records, NEW f, NEW c, NEW cut, c \subseteq cut,
         NEW s \in [Windows -> Nat], NEW samples \in [Windows -> Nat],
         \A w \in Windows : s[w] <= samples[w], TruthfulFor(r, f, c, s)
  PROVE  TruthfulFor(r, f, cut, samples)
<1>1. PICK m \in Nat : m = r.max
  BY DEF Records
<1>2. \A w \in Windows : m <= s[w] => m <= samples[w]
  <2>1. \A w \in Windows : s[w] \in Nat /\ samples[w] \in Nat
    OBVIOUS
  <2> QED
    BY <2>1
<1>3. cut = {} => c = {}
  OBVIOUS
<1> QED
  BY <1>1, <1>2, <1>3 DEF TruthfulFor

(* A record of nothing, and one of samples counted in their window.        *)
LEMMA TruthOfCount ==
  ASSUME NEW r, NEW f, NEW cut, NEW samples \in [Windows -> Nat],
         r = EmptyRecord
           \/ (r.maxAt \in Windows /\ (r.maxAt \notin cut => r.max <= samples[r.maxAt]))
  PROVE  TruthfulFor(r, f, cut, samples)
<1>1. 1 \in Windows /\ samples[1] \in Nat
  BY WindowsAreTimes
<1>2. 0 <= samples[1]
  BY <1>1
<1> QED
  BY <1>1, <1>2, EmptyTyped DEF TruthfulFor

LEMMA TruthAlike ==
  ASSUME NEW r, NEW q, r.max = q.max, r.maxAt = q.maxAt,
         NEW f, NEW cut, NEW samples, TruthfulFor(r, f, cut, samples)
  PROVE  TruthfulFor(q, f, cut, samples)
  BY DEF TruthfulFor

LEMMA HonestCount ==
  ASSUME Shapes, NEW w \in Windows, HonestAt(w), agg.window = w
  PROVE  agg.count <= pushed[w]
<1>1. PICK n \in Int, s \in Nat, c \in Nat :
        /\ n = EnteredAt(call, pushed, w) /\ s = pushed[w] /\ c = agg.count /\ n <= s /\ c <= n
  <2>1. /\ EnteredAt(call, pushed, w) \in Int /\ pushed[w] \in Nat /\ agg.count \in Nat
        /\ EnteredAt(call, pushed, w) <= pushed[w] /\ agg.count <= EnteredAt(call, pushed, w)
    BY EnteredAtTyped, PushedSum, AggTyped DEF HonestAt, KeptHonest
  <2> QED
    BY <2>1
<1> QED
  BY <1>1

LEMMA HonestCountNext ==
  ASSUME NEW w \in Windows
  PROVE  (Shapes /\ HonestAt(w) /\ agg.window = w => agg.count <= pushed[w])'
<1>1. Shapes /\ HonestAt(w) /\ agg.window = w => agg.count <= pushed[w]
  BY HonestCount
<1> QED
  BY <1>1, PTL

LEMMA TruthMove ==
  ASSUME Shapes, Truthful, NEW t \in Threads, NEW pc, NEW window, NEW points, NEW record,
         Moved(t, pc, window, points, record), UNCHANGED <<features, cutShort>>,
         pushed' \in [Windows -> Nat], \A w \in Windows : pushed[w] <= pushed'[w],
         TruthfulFor(record, features, cutShort, pushed'),
         TruthfulFor(agg'.record, features, cutShort, pushed'),
         TruthfulFor(keyDb', features, cutShort, pushed')
  PROVE  Truthful'
<1>1. ASSUME NEW u \in Threads PROVE TruthfulFor(call'[u].record, features, cutShort, pushed')
  <2>1. CASE u = t
    BY <2>1 DEF Moved
  <2>2. CASE u # t
    <3>1. PICK r \in Records : /\ r = call[u].record
                               /\ TruthfulFor(r, features, cutShort, pushed)
      BY CallTyped DEF Truthful
    <3>2. pushed \in [Windows -> Nat] /\ cutShort \subseteq cutShort
      BY DEF Shapes
    <3>3. TruthfulFor(r, features, cutShort, pushed')
      BY <3>1, <3>2, TruthLasts
    <3>4. call'[u] = call[u]
      BY <2>2 DEF Moved
    <3> QED
      BY <3>1, <3>3, <3>4
  <2> QED
    BY <2>1, <2>2
<1> QED
  BY <1>1 DEF Truthful

(* Records handed from one place to the next.                              *)
LEMMA TruthSame ==
  ASSUME Shapes, Truthful, NEW t \in Threads, NEW pc, NEW window, NEW points, NEW record,
         Moved(t, pc, window, points, record), UNCHANGED <<features, cutShort, agg, pushed>>,
         record = EmptyRecord \/ record = agg.record \/ record = call[t].record,
         keyDb' = keyDb \/ keyDb' = call[t].record
  PROVE  Truthful'
<1>1. pushed' \in [Windows -> Nat] /\ \A w \in Windows : pushed[w] <= pushed'[w]
  <2>1. pushed \in [Windows -> Nat]
    BY DEF Shapes
  <2> QED
    BY <2>1
<1>2. TruthfulFor(EmptyRecord, features, cutShort, pushed')
  BY <1>1, TruthOfCount
<1>3. /\ TruthfulFor(agg.record, features, cutShort, pushed')
      /\ TruthfulFor(keyDb, features, cutShort, pushed')
      /\ TruthfulFor(call[t].record, features, cutShort, pushed')
  BY DEF Truthful
<1>4. /\ TruthfulFor(record, features, cutShort, pushed')
      /\ TruthfulFor(agg'.record, features, cutShort, pushed')
      /\ TruthfulFor(keyDb', features, cutShort, pushed')
  BY <1>2, <1>3
<1> QED
  BY <1>1, <1>4, TruthMove

LEMMA TruthStart ==
  ASSUME Shapes, Truthful, NEW t \in Threads, NEW w \in Windows,
         NEW pc \in {"push", "merge"}, Start(t, w, pc)
  PROVE  Truthful'
<1>1. /\ Moved(t, pc, w, <<>>, EmptyRecord) /\ pushed' \in [Windows -> Nat]
      /\ \A v \in Windows : pushed'[v] = IF v = w THEN pushed[w] + 1 ELSE pushed[v]
      /\ agg' = agg \/ agg' = New(w, lastPoint)
      /\ UNCHANGED <<features, cutShort, keyDb>>
  BY StartEffect
<1>2. pushed \in [Windows -> Nat] /\ cutShort \subseteq cutShort
  BY DEF Shapes
<1>3. \A v \in Windows : pushed[v] <= pushed'[v]
  <2>1. \A v \in Windows : pushed[v] \in Nat
    BY <1>2
  <2> QED
    BY <1>1, <2>1
<1>4. TruthfulFor(EmptyRecord, features, cutShort, pushed')
  BY <1>1, TruthOfCount
<1>5. TruthfulFor(keyDb', features, cutShort, pushed')
  <2>1. keyDb \in Records /\ TruthfulFor(keyDb, features, cutShort, pushed)
    BY DEF Shapes, DbFine, Truthful
  <2> QED
    BY <1>1, <1>2, <1>3, <2>1, TruthLasts
<1>6. TruthfulFor(agg'.record, features, cutShort, pushed')
  <2>1. CASE agg' = agg
    <3>1. agg.record \in Records /\ TruthfulFor(agg.record, features, cutShort, pushed)
      BY AggTyped DEF Truthful
    <3> QED
      BY <1>1, <1>2, <1>3, <2>1, <3>1, TruthLasts
  <2>2. CASE agg' = New(w, lastPoint)
    BY <1>4, <2>2, NewTyped, AggTyped, WindowsAreTimes
  <2> QED
    BY <1>1, <2>1, <2>2
<1> QED
  BY <1>1, <1>3, <1>4, <1>5, <1>6, TruthMove

(* A push takes its maximum from counts that are honest.                   *)
LEMMA TruthPush ==
  ASSUME Shapes, Shapes', Truthful, NEW t \in Threads, PushOnTime(t),
         \A w \in Windows \ cutShort : HonestAt(w),
         \A w \in Windows \ cutShort : HonestAt(w)'
  PROVE  Truthful'
<1>1. PICK v \in Windows : /\ agg' = Push(agg, v)
                           /\ Moved(t, "info", v, Yielded(agg, v), call[t].record)
                           /\ UNCHANGED <<features, cutShort, keyDb, pushed>>
  BY PushOnTimeEffect
<1>2. pushed' \in [Windows -> Nat] /\ \A w \in Windows : pushed[w] <= pushed'[w]
  <2>1. pushed \in [Windows -> Nat]
    BY DEF Shapes
  <2> QED
    BY <1>1, <2>1
<1>3. TruthfulFor(agg'.record, features, cutShort, pushed')
  <2>1. CASE agg'.record.max = agg.record.max /\ agg'.record.maxAt = agg.record.maxAt
    <3>1. TruthfulFor(agg.record, features, cutShort, pushed')
      BY <1>1 DEF Truthful
    <3> QED
      BY <2>1, <3>1, TruthAlike
  <2>2. CASE /\ Completes(agg, v)
             /\ agg'.record.max = agg.count /\ agg'.record.maxAt = agg.window
    <3>1. agg.window \in Windows
      BY <2>2, AggTyped DEF Completes
    <3>2. agg.window \notin cutShort => agg.count <= pushed'[agg.window]
      BY <1>1, <3>1, HonestCount
    <3> QED
      BY <1>2, <2>2, <3>1, <3>2, TruthOfCount
  <2>3. CASE agg'.record.max = CountIn(agg, v) /\ agg'.record.maxAt = v
    <3>1. agg'.window = v /\ agg'.count = CountIn(agg, v)
      BY <1>1, PushIs
    <3>2. v \notin cutShort => CountIn(agg, v) <= pushed'[v]
      BY <3>1, HonestCountNext
    <3> QED
      BY <1>2, <2>3, <3>2, TruthOfCount
  <2> QED
    BY <1>1, <2>1, <2>2, <2>3, PushIs
<1>4. /\ TruthfulFor(call[t].record, features, cutShort, pushed')
      /\ TruthfulFor(keyDb', features, cutShort, pushed')
  BY <1>1 DEF Truthful
<1> QED
  BY <1>1, <1>2, <1>3, <1>4, TruthMove

(* A merge takes it from its own sample.                                   *)
LEMMA TruthMergeGoesOn ==
  ASSUME Shapes, Truthful, NEW t \in Threads, MergeGoesOn(t), "merge" \in features,
         \A w \in Windows \ cutShort : HonestAt(w)
  PROVE  Truthful'
<1>1. PICK v \in Windows : \E pc \in {"max", "maxat", "info"} :
         /\ v = call[t].window /\ call[t].points = <<Point(v, 1)>> /\ call[t].pc \in Merging
         /\ Moved(t, pc, v, call[t].points, call[t].record)
         /\ agg'.record.max \in {agg.record.max, 1}
         /\ UNCHANGED <<features, cutShort, keyDb, pushed>>
  BY MergeGoesOnEffect
<1>2. pushed' \in [Windows -> Nat] /\ \A w \in Windows : pushed[w] <= pushed'[w]
  <2>1. pushed \in [Windows -> Nat]
    BY DEF Shapes
  <2> QED
    BY <1>1, <2>1
<1>3. cutShort = {} => 1 <= pushed[v]
  <2>1. SUFFICES ASSUME cutShort = {} PROVE 1 <= pushed[v]
    OBVIOUS
  <2>2. HonestAt(v)
    BY <2>1
  <2>0. PICK c \in Nat : c = 1
    OBVIOUS
  <2>3. PICK ps \in Lists : /\ ps = <<Point(v, c)>> /\ Len(ps) = 1
                            /\ ps[1].window = v /\ ps[1].count = c
    BY PointTyped
  <2>4. PICK n \in Int, s \in Nat : n = EnteredAt(call, pushed, v) /\ s = pushed[v] /\ n <= s
    <3>1. /\ EnteredAt(call, pushed, v) \in Int /\ pushed[v] \in Nat
          /\ EnteredAt(call, pushed, v) <= pushed[v]
      BY EnteredAtTyped, PushedSum
    <3> QED
      BY <3>1
  <2>5. CallHonest(call[t].pc, ps, v, n)
    BY <1>1, <2>0, <2>2, <2>3, <2>4 DEF HonestAt, CallsHonest
  <2>6. 1 \in 1..Len(ps)
    BY <2>3
  <2>7. c <= n
    BY <1>1, <2>3, <2>5, <2>6 DEF CallHonest, Merging
  <2> QED
    BY <2>0, <2>4, <2>7
<1>4. TruthfulFor(agg'.record, features, cutShort, pushed')
  BY <1>1, <1>3 DEF Truthful, TruthfulFor
<1>5. /\ TruthfulFor(call[t].record, features, cutShort, pushed')
      /\ TruthfulFor(keyDb', features, cutShort, pushed')
  BY <1>1 DEF Truthful
<1> QED
  BY <1>1, <1>2, <1>4, <1>5, TruthMove

LEMMA TruthMergeUpdates ==
  ASSUME Shapes, Truthful, NEW t \in Threads, MergeUpdates(t)
  PROVE  Truthful'
<1>1. PICK v, ps :
         /\ Moved(t, "compare", v, ps, call[t].record)
         /\ agg'.record.max = agg.record.max /\ agg'.record.maxAt = agg.record.maxAt
         /\ UNCHANGED <<features, cutShort, keyDb, pushed>>
  BY MergeUpdatesEffect
<1>2. pushed' \in [Windows -> Nat] /\ \A w \in Windows : pushed[w] <= pushed'[w]
  <2>1. pushed \in [Windows -> Nat]
    BY DEF Shapes
  <2> QED
    BY <1>1, <2>1
<1>3. TruthfulFor(agg'.record, features, cutShort, pushed')
  <2>1. TruthfulFor(agg.record, features, cutShort, pushed')
    BY <1>1 DEF Truthful
  <2> QED
    BY <1>1, <2>1, TruthAlike
<1>4. /\ TruthfulFor(call[t].record, features, cutShort, pushed')
      /\ TruthfulFor(keyDb', features, cutShort, pushed')
  BY <1>1 DEF Truthful
<1> QED
  BY <1>1, <1>2, <1>3, <1>4, TruthMove

LEMMA TruthInit ==
  ASSUME Init
  PROVE  Truthful
<1>1. /\ agg.record = EmptyRecord /\ keyDb = EmptyRecord /\ \A t \in Threads : call[t] = Idle
      /\ pushed \in [Windows -> Nat]
  BY NewTyped, AggTyped, ShapesInit, WindowsAreTimes DEF Init, NoAggregator, NoRecord
<1>2. TruthfulFor(EmptyRecord, features, cutShort, pushed)
  BY <1>1, TruthOfCount
<1> QED
  BY <1>1, <1>2, EmptyTyped DEF Truthful

(* The window of the maximum may be cut short at the end of a process.     *)
LEMMA TruthVanish ==
  ASSUME Shapes, Truthful, Vanish
  PROVE  Truthful'
<1>1. /\ agg'.record = EmptyRecord /\ \A t \in Threads : call'[t] = Idle
      /\ cutShort \subseteq cutShort'
      /\ UNCHANGED <<features, keyDb, pushed>>
  BY VanishEffect, NewTyped, AggTyped, WindowsAreTimes
<1>2. pushed \in [Windows -> Nat] /\ pushed' \in [Windows -> Nat]
  BY <1>1 DEF Shapes
<1>3. \A w \in Windows : pushed[w] <= pushed'[w]
  BY <1>1, <1>2
<1>4. TruthfulFor(EmptyRecord, features, cutShort', pushed')
  BY <1>2, TruthOfCount
<1>5. TruthfulFor(keyDb, features, cutShort', pushed')
  <2>1. keyDb \in Records /\ TruthfulFor(keyDb, features, cutShort, pushed)
    BY DEF Shapes, DbFine, Truthful
  <2> QED
    BY <1>1, <1>2, <1>3, <2>1, TruthLasts
<1> QED
  BY <1>1, <1>4, <1>5, EmptyTyped DEF Truthful

LEMMA TruthStep ==
  ASSUME Shapes, Shapes', Truthful, [Next]_vars, "merge" \notin features => InOrder,
         \A w \in Windows \ cutShort : HonestAt(w),
         \A w \in Windows \ cutShort' : HonestAt(w)'
  PROVE  Truthful'
<1>1. CASE \E t \in Threads, w \in Windows : StartAdd(t, w) \/ StartMerge(t, w)
  BY <1>1, TruthStart DEF StartAdd, StartMerge
<1>2. CASE \E t \in Threads : PushLate(t)
  <2>1. PICK t \in Threads : PushLate(t)
    BY <1>2
  <2>2. PICK w, ps :
           /\ Moved(t, "late", w, ps, call[t].record)
           /\ UNCHANGED <<features, cutShort, agg, keyDb, pushed>>
    BY <2>1, PushLateEffect
  <2> QED
    BY <2>2, TruthSame
<1>3. CASE \E t \in Threads : PushOnTime(t)
  BY <1>3, PushOnTimeEffect, TruthPush
<1>4. CASE \E t \in Threads : MergeUpdates(t)
  BY <1>4, TruthMergeUpdates
<1>5. CASE \E t \in Threads : MergeGoesOn(t)
  <2>1. PICK t \in Threads : MergeGoesOn(t) /\ call[t].pc \in Merging
    BY <1>5, MergeGoesOnEffect
  <2>2. "merge" \in features
    BY <2>1 DEF InOrder, CallInOrder
  <2> QED
    BY <2>1, <2>2, TruthMergeGoesOn
<1>6. CASE \E t \in Threads : TakeRecord(t)
  BY <1>6, TakeRecordEffect, TruthSame
<1>7. CASE \E t \in Threads : SetKey(t)
  <2>1. PICK t \in Threads : SetKey(t)
    BY <1>7
  <2>2. PICK pc, w, ps, r :
           /\ Moved(t, pc, w, ps, r) /\ (r = EmptyRecord \/ r = call[t].record)
           /\ keyDb' = call[t].record
           /\ UNCHANGED <<features, cutShort, agg, pushed>>
    BY <2>1, SetKeyEffect
  <2> QED
    BY <2>2, TruthSame
<1>8. CASE \E t \in Threads : SetData(t)
  <2>1. PICK t \in Threads : SetData(t)
    BY <1>8
  <2>2. PICK pc, w, ps, r :
           /\ Moved(t, pc, w, ps, r) /\ (r = EmptyRecord \/ r = call[t].record)
           /\ UNCHANGED <<features, cutShort, agg, keyDb, pushed>>
    BY <2>1, SetDataEffect
  <2> QED
    BY <2>2, TruthSame
<1>9. CASE \E t \in Threads : IncData(t) \/ DbFails(t)
  BY <1>9, IncDataEffect, DbFailsEffect, TruthSame
<1>10. CASE \E t \in Threads : StartClose(t)
  <2>1. PICK t \in Threads : StartClose(t)
    BY <1>10
  <2>2. PICK ps :
           /\ Moved(t, "setkey", 0, ps, agg.record)
           /\ UNCHANGED <<features, cutShort, agg, keyDb, pushed>>
    BY <2>1, StartCloseEffect
  <2> QED
    BY <2>2, TruthSame
<1>11. CASE FinishClose \/ Crash
  BY <1>11, TruthVanish DEF FinishClose, Crash
<1>12. CASE Open
  BY <1>12, OpenEffect DEF Truthful
<1>13. CASE \E w \in Windows : Compact(w) \/ Spoil(w)
  <2>1. cutShort \subseteq cutShort' /\ UNCHANGED <<features, agg, call, keyDb, pushed>>
    BY <1>13, CompactEffect, SpoilEffect
  <2>2. pushed \in [Windows -> Nat] /\ \A w \in Windows : pushed[w] <= pushed[w]
    BY DEF Shapes
  <2>3. \A r \in Records : TruthfulFor(r, features, cutShort, pushed)
                             => TruthfulFor(r, features, cutShort', pushed)
    BY <2>1, <2>2, TruthLasts
  <2>4. /\ agg.record \in Records /\ keyDb \in Records
        /\ \A t \in Threads : call[t].record \in Records
    BY AggTyped, CallTyped DEF Shapes, DbFine
  <2> QED
    BY <2>1, <2>3, <2>4 DEF Truthful
<1>14. CASE UNCHANGED vars
  BY <1>14 DEF vars, Truthful
<1> QED
  BY <1>1, <1>2, <1>3, <1>4, <1>5, <1>6, <1>7, <1>8, <1>9, <1>10, <1>11, <1>12, <1>13, <1>14
  DEF Next, MergeGoesOn

-----------------------------------------------------------------------------
(* All of it, for the windows no end of a process has cut short; a restart *)
(* starts from one of the others.                                          *)
Honest ==
    /\ Shapes /\ Truthful
    /\ "merge" \notin features => InOrder
    /\ \A w \in Windows \ cutShort : HonestAt(w)
    /\ phase = "down" => keyDb.lastUpdate \notin Windows \ cutShort

LEMMA HonestInvStep ==
  ASSUME Honest, [Next]_vars
  PROVE  Honest'
<1>1. Shapes'
  BY ShapesStep DEF Honest
<1>2. features' = features /\ cutShort \subseteq cutShort'
  BY OptionsStay, CutShortGrows DEF Honest
<1>3. "merge" \notin features' => InOrder'
  BY <1>2, InOrderStep DEF Honest
<1>4. ASSUME NEW w \in Windows \ cutShort' PROVE HonestAt(w)'
  <2>1. w \in Windows \ cutShort
    BY <1>2
  <2>2. Open => keyDb.lastUpdate # w
    BY <2>1 DEF Honest, Open
  <2> QED
    BY <2>1, <2>2, HonestStep DEF Honest
<1>5. ASSUME phase' = "down" PROVE keyDb'.lastUpdate \notin Windows \ cutShort'
  <2>1. CASE phase = "down"
    <3>1. keyDb' = keyDb
      BY <1>5, <2>1 DEF Next, StartAdd, StartMerge, Start, PushLate, PushOnTime, MergeUpdates,
         MergeCompares, MergeAssigns, MergeDates, TakeRecord, SetKey, SetData, IncData, DbFails,
         StartClose, FinishClose, Crash, Vanish, Open, Compact, Spoil, Running, options, vars
    <3> QED
      BY <1>2, <2>1, <3>1 DEF Honest
  <2>2. CASE phase # "down"
    <3>1. Vanish
      BY <1>5, <2>2 DEF Next, StartAdd, StartMerge, Start, PushLate, PushOnTime, MergeUpdates,
         MergeCompares, MergeAssigns, MergeDates, TakeRecord, SetKey, SetData, IncData, DbFails,
         StartClose, FinishClose, Crash, Open, Compact, Spoil, Running, options, vars
    <3> QED
      BY <3>1, VanishEffect DEF Honest
  <2> QED
    BY <2>1, <2>2
<1>6. Truthful'
  BY <1>1, <1>4, TruthStep DEF Honest
<1> QED
  BY <1>1, <1>3, <1>4, <1>5, <1>6 DEF Honest

LEMMA HonestReads ==
  ASSUME Honest
  PROVE  NeverInvents /\ RecordTruthful
<1>1. ASSUME NEW w \in Windows \ cutShort PROVE Count(w) <= pushed[w]
  <2>1. PICK n \in Int : n = EnteredAt(call, pushed, w) /\ n <= pushed[w] /\ KeptHonest(w, n)
    BY EnteredAtTyped DEF Honest, HonestAt
  <2>2. PICK e \in Logs : e = dataDb[w]
    BY DEF Honest, Shapes, DbFine
  <2>3. ReadOf(e) = SumOf(e) /\ SumOf(e) <= n /\ SumOf(e) \in Nat
    BY <2>1, <2>2, LegibleReads, ValuesTyped DEF KeptHonest
  <2>4. pushed[w] \in Nat
    BY PushedSum DEF Honest
  <2> QED
    BY <2>1, <2>2, <2>3, <2>4 DEF Count
<1>2. RecordTruthful
  <2>1. keyDb.max \in Nat
    BY DEF Honest, Shapes, DbFine, Records
  <2> QED
    BY <2>1 DEF RecordTruthful, Honest, Truthful, TruthfulFor
<1> QED
  BY <1>1, <1>2 DEF NeverInvents

THEOREM HonestInvariant == Spec => []Honest
<1>1. Init => Honest
  <2>1. Init => phase # "down"
    BY DEF Init
  <2> QED
    BY <2>1, ShapesInit, HonestInit, InOrderInit, TruthInit DEF Honest
<1>2. Honest /\ [Next]_vars => Honest'
  BY HonestInvStep
<1> QED
  BY <1>1, <1>2, PTL DEF Spec

(* AddPath!NeverInvents: outside the windows an end of the process cut     *)
(* short, or whose value was lost, no saved point ever counts a sample     *)
(* twice or one nobody handed in, whatever calls overlap, come late, merge *)
(* or fail, and through every stop, crash and restart.                     *)
THEOREM NothingInvented == Spec => []NeverInvents
<1>1. Honest => NeverInvents
  BY HonestReads
<1> QED
  BY <1>1, HonestInvariant, PTL

(* AddPath!RecordTruthful: the window the saved record names for the       *)
(* maximum did have as many samples, or was cut short, unless callers      *)
(* merge; then some window had, so long as none was cut short.             *)
THEOREM RecordStaysTruthful == Spec => []RecordTruthful
<1>1. Honest => RecordTruthful
  BY HonestReads
<1> QED
  BY <1>1, HonestInvariant, PTL

-----------------------------------------------------------------------------
(* With one call at a time: what entered for a window has been saved, is   *)
(* on its way, or is the open window's and not due yet.                    *)
Single ==
    \A t \in Threads : call[t].pc # "idle" => \A u \in Threads \ {t} : call[u].pc = "idle"

Carries(pc, points, w) == pc # "late" /\ \E i \in 1..Len(points) : points[i].window = w

CarriesRight(pc, points, w, n) ==
    pc # "late" => \A i \in 1..Len(points) : points[i].window = w => points[i].count = n

NotDue(w) == phase # "down" /\ ~lastPoint /\ w = agg.window /\ agg.count > 0

(* The last window of which samples may have been seen.                    *)
LastWindow == IF phase = "down" THEN keyDb.lastUpdate ELSE agg.window

SavedOrComing(w, n) ==
    /\ Legible(dataDb[w])
    /\ \A t \in Threads : CarriesRight(call[t].pc, call[t].points, w, n)
    /\ \/ SumOf(dataDb[w]) = n
       \/ \E t \in Threads : Carries(call[t].pc, call[t].points, w)
       \/ NotDue(w)

OpenRight(w, n) ==
    /\ w > LastWindow => n = 0 /\ dataDb[w] = <<>>
    /\ w = LastWindow => phase # "down" /\ agg.count = n

CompleteAt(w) ==
    /\ SavedOrComing(w, EnteredAt(call, pushed, w))
    /\ OpenRight(w, EnteredAt(call, pushed, w))

LEMMA IdleCarriesNothing ==
  ASSUME Shapes, NEW t \in Threads, call[t].pc \in {"idle", "push"}, NEW w, NEW n
  PROVE  /\ ~Carries(call[t].pc, call[t].points, w)
         /\ CarriesRight(call[t].pc, call[t].points, w, n)
<1>1. call[t].points = <<>>
  BY CallTyped DEF CallFine, FieldsFine
<1>2. \A i \in 1..Len(call[t].points) : FALSE
  BY <1>1
<1> QED
  BY <1>2 DEF Carries, CarriesRight

(* What is known of a window while t is the only call.                     *)
LEMMA CompleteOf ==
  ASSUME Shapes, NEW t \in Threads, \A u \in Threads \ {t} : call[u].pc = "idle",
         phase # "down", NEW w \in Windows, CompleteAt(w)
  PROVE  \E n \in Int :
         /\ n = EnteredAt(call, pushed, w)
         /\ CarriesRight(call[t].pc, call[t].points, w, n)
         /\ Legible(dataDb[w])
         /\ \/ SumOf(dataDb[w]) = n
            \/ Carries(call[t].pc, call[t].points, w)
            \/ ~lastPoint /\ w = agg.window /\ agg.count > 0
         /\ w > agg.window => n = 0 /\ dataDb[w] = <<>>
         /\ w = agg.window => agg.count = n
<1>1. PICK n \in Int : n = EnteredAt(call, pushed, w)
  BY EnteredAtTyped
<1>2. SavedOrComing(w, n) /\ OpenRight(w, n)
  BY <1>1 DEF CompleteAt
<1>3. CarriesRight(call[t].pc, call[t].points, w, n) /\ Legible(dataDb[w])
  BY <1>2 DEF SavedOrComing
<1>4. /\ w > agg.window => n = 0 /\ dataDb[w] = <<>>
      /\ w = agg.window => agg.count = n
  BY <1>2 DEF OpenRight, LastWindow
<1>5. \/ SumOf(dataDb[w]) = n
      \/ Carries(call[t].pc, call[t].points, w)
      \/ ~lastPoint /\ w = agg.window /\ agg.count > 0
  <2>1. ASSUME NEW u \in Threads, Carries(call[u].pc, call[u].points, w) PROVE u = t
    BY <2>1, IdleCarriesNothing
  <2> QED
    BY <1>2, <2>1 DEF SavedOrComing, NotDue
<1> QED
  BY <1>1, <1>3, <1>4, <1>5

LEMMA CompleteMove ==
  ASSUME Shapes, NEW t \in Threads, \A u \in Threads \ {t} : call[u].pc = "idle",
         NEW pc, NEW window, NEW points, NEW record, Moved(t, pc, window, points, record),
         phase' # "down", NEW w \in Windows,
         NEW m, m = EnteredAt(call', pushed', w),
         CarriesRight(pc, points, w, m), Legible(dataDb'[w]),
         \/ SumOf(dataDb'[w]) = m
         \/ Carries(pc, points, w)
         \/ ~lastPoint' /\ w = agg'.window /\ agg'.count > 0,
         w > agg'.window => m = 0 /\ dataDb'[w] = <<>>,
         w = agg'.window => agg'.count = m
  PROVE  CompleteAt(w)'
<1>1. /\ call'[t].pc = pc /\ call'[t].points = points
      /\ \A u \in Threads \ {t} : call'[u] = call[u]
  BY DEF Moved
<1>2. \A u \in Threads : CarriesRight(call'[u].pc, call'[u].points, w, m)
  BY <1>1, IdleCarriesNothing
<1>3. \/ SumOf(dataDb'[w]) = m
      \/ \E u \in Threads : Carries(call'[u].pc, call'[u].points, w)
      \/ NotDue(w)'
  BY <1>1 DEF NotDue
<1>4. SavedOrComing(w, m)'
  BY <1>2, <1>3 DEF SavedOrComing
<1>5. OpenRight(w, m)'
  BY DEF OpenRight, LastWindow
<1>6. m = EnteredAt(call, pushed, w)'
  OBVIOUS
<1> QED
  BY <1>4, <1>5, <1>6 DEF CompleteAt

LEMMA CompleteInit ==
  ASSUME Init, NEW w \in Windows
  PROVE  CompleteAt(w)
<1>1. Shapes /\ phase # "down"
  BY ShapesInit DEF Init
<1>2. EnteredAt(call, pushed, w) = 0
  <2>1. Waiting(call, {w}) = 0
    BY WaitingTyped, EmptyTyped DEF Init
  <2> QED
    BY <2>1 DEF Init, EnteredAt
<1>3. dataDb[w] = <<>> /\ agg.count = 0
  BY NewTyped, WindowsAreTimes DEF Init, NoAggregator
<1>4. SavedOrComing(w, 0)
  BY <1>1, <1>3, IdleCarriesNothing, EmptyTyped, NothingRead DEF Init, SavedOrComing
<1>5. OpenRight(w, 0)
  BY <1>1, <1>3 DEF OpenRight
<1> QED
  BY <1>2, <1>4, <1>5 DEF CompleteAt

LEMMA CompleteStart ==
  ASSUME Shapes, NEW w \in Windows, CompleteAt(w), Alone,
         NEW t \in Threads, NEW v \in Windows, NEW pc \in {"push", "merge"}, Start(t, v, pc)
  PROVE  CompleteAt(w)'
<1>1. /\ Moved(t, pc, v, <<>>, EmptyRecord) /\ phase # "down"
      /\ \A u \in Threads : call[u].pc = "idle"
      /\ agg' = agg \/ (agg = New(0, lastPoint) /\ agg' = New(v, lastPoint))
      /\ UNCHANGED <<lastPoint, phase, keyDb, dataDb>>
  BY StartEffect DEF Alone
<1>2. PICK n \in Int :
         /\ n = EnteredAt(call, pushed, w)
         /\ Legible(dataDb[w])
         /\ SumOf(dataDb[w]) = n \/ (~lastPoint /\ w = agg.window /\ agg.count > 0)
         /\ w > agg.window => n = 0 /\ dataDb[w] = <<>>
         /\ w = agg.window => agg.count = n
  BY <1>1, CompleteOf, IdleCarriesNothing
<1>3. n = EnteredAt(call', pushed', w)
  BY <1>2, EnteredAtStart
<1>4. \A i \in 1..Len(<<>>) : FALSE
  OBVIOUS
<1>5. /\ SumOf(dataDb'[w]) = n \/ (~lastPoint' /\ w = agg'.window /\ agg'.count > 0)
      /\ w > agg'.window => n = 0 /\ dataDb'[w] = <<>>
      /\ w = agg'.window => agg'.count = n
  <2>1. CASE agg' = agg
    BY <1>1, <1>2, <2>1
  <2>2. CASE agg = New(0, lastPoint) /\ agg' = New(v, lastPoint)
    <3>1. agg.window = 0 /\ agg.count = 0 /\ agg'.count = 0
      BY <2>2, NewTyped, AggTyped, WindowsAreTimes
    <3>2. w > agg.window
      BY <3>1, WindowsAreTimes
    <3> QED
      BY <1>1, <1>2, <3>1, <3>2, NothingRead
  <2> QED
    BY <1>1, <2>1, <2>2
<1>6. CarriesRight(pc, <<>>, w, n) /\ Legible(dataDb'[w]) /\ phase' # "down"
  BY <1>1, <1>2, <1>4 DEF CarriesRight
<1> QED
  BY <1>1, <1>3, <1>5, <1>6, CompleteMove

LEMMA CompletePushOnTime ==
  ASSUME Shapes, Single, NEW w \in Windows, CompleteAt(w), NEW t \in Threads, PushOnTime(t)
  PROVE  CompleteAt(w)'
<1>1. PICK v \in Windows : /\ call[t].pc = "push" /\ v = call[t].window /\ agg.window <= v
                           /\ agg' = Push(agg, v)
                           /\ Moved(t, "info", v, Yielded(agg, v), call[t].record)
                           /\ phase # "down"
                           /\ UNCHANGED <<lastPoint, phase, keyDb, dataDb, pushed>>
  BY PushOnTimeEffect
<1>2. \A u \in Threads \ {t} : call[u].pc = "idle"
  BY <1>1 DEF Single
<1>3. PICK n \in Int :
         /\ n = EnteredAt(call, pushed, w)
         /\ Legible(dataDb[w])
         /\ SumOf(dataDb[w]) = n \/ (~lastPoint /\ w = agg.window /\ agg.count > 0)
         /\ w > agg.window => n = 0 /\ dataDb[w] = <<>>
         /\ w = agg.window => agg.count = n
  BY <1>1, <1>2, CompleteOf, IdleCarriesNothing
<1>4. PICK m \in Int : /\ m = EnteredAt(call', pushed', w)
                       /\ v = w => m = n + 1
                       /\ v # w => m = n
  BY <1>1, <1>3, EnteredAtMoves
<1>5. PICK a \in Nat, c \in Nat, k \in Nat, z \in Nat, y \in Nat :
         /\ a = agg.window /\ c = agg.count /\ k = CountIn(agg, v) /\ k > 0
         /\ z = w /\ y = v /\ a <= y
         /\ k = IF y = a THEN c + 1 ELSE 1
         /\ Completes(agg, v) <=> y > a /\ c > 0
  <2>1. PICK a \in Nat, c \in Nat, k \in Nat, z \in Nat, y \in Nat :
           /\ a = agg.window /\ c = agg.count /\ k = CountIn(agg, v) /\ k > 0
           /\ z = w /\ y = v /\ a <= y
    <3>1. /\ agg.window \in Nat /\ agg.count \in Nat /\ w \in Nat /\ v \in Nat
          /\ CountIn(agg, v) \in Nat /\ CountIn(agg, v) > 0
      BY <1>1, AggTyped, WindowsAreTimes, YieldedIs
    <3> QED
      BY <1>1, <3>1
  <2>2. CountIn(agg, v) = IF v = agg.window THEN agg.count + 1 ELSE 1
    BY DEF CountIn
  <2>3. Completes(agg, v) <=> v > agg.window /\ agg.count > 0
    BY DEF Completes
  <2> QED
    BY <2>1, <2>2, <2>3
<1>6. agg'.window = v /\ agg'.count = k
  BY <1>1, <1>5, PushIs
<1>7. v = w => k = m
  BY <1>3, <1>4, <1>5
<1>8. PICK ps \in Lists :
         /\ ps = Yielded(agg, v)
         /\ \A i \in 1..Len(ps) :
              \/ Completes(agg, v) /\ i = 1 /\ ps[i] = Point(agg.window, agg.count)
              \/ lastPoint /\ i = Len(ps) /\ ps[i] = Point(v, k)
         /\ Completes(agg, v) => ps # <<>> /\ ps[1] = Point(agg.window, agg.count)
         /\ lastPoint => ps # <<>> /\ ps[Len(ps)] = Point(v, k)
  BY <1>1, <1>5, YieldedIs
<1>9. /\ Point(v, k).window = v /\ Point(v, k).count = k
      /\ Completes(agg, v) => /\ Point(agg.window, agg.count).window = a
                              /\ Point(agg.window, agg.count).count = c
  BY <1>5, AggTyped, PointTyped DEF Completes
<1>10. CarriesRight("info", ps, w, m)
  <2>1. ASSUME NEW i \in 1..Len(ps), ps[i].window = w PROVE ps[i].count = m
    <3>1. CASE Completes(agg, v) /\ ps[i] = Point(agg.window, agg.count)
      <4>1. w = agg.window /\ v # w /\ ps[i].count = c
        BY <1>5, <1>9, <2>1, <3>1
      <4> QED
        BY <1>3, <1>4, <1>5, <4>1
    <3>2. CASE ps[i] = Point(v, k)
      BY <1>7, <1>9, <2>1, <3>2
    <3> QED
      BY <1>8, <3>1, <3>2
  <2> QED
    BY <2>1 DEF CarriesRight
<1>11. \/ SumOf(dataDb'[w]) = m
       \/ Carries("info", ps, w)
       \/ ~lastPoint' /\ w = agg'.window /\ agg'.count > 0
  <2>0. ps # <<>> => 1 \in 1..Len(ps) /\ Len(ps) \in 1..Len(ps)
    BY DEF Lists
  <2>1. CASE v = w /\ lastPoint
    BY <1>8, <1>9, <2>0, <2>1 DEF Carries
  <2>2. CASE v = w /\ ~lastPoint
    BY <1>1, <1>5, <1>6, <2>2
  <2>3. CASE v # w /\ w = agg.window /\ Completes(agg, v)
    BY <1>5, <1>8, <1>9, <2>0, <2>3 DEF Carries
  <2>4. CASE v # w /\ ~(w = agg.window /\ Completes(agg, v))
    <3>1. SumOf(dataDb[w]) = n
      BY <1>3, <1>5, <2>4
    <3> QED
      BY <1>1, <1>4, <2>4, <3>1
  <2> QED
    BY <2>1, <2>2, <2>3, <2>4
<1>12. /\ w > agg'.window => m = 0 /\ dataDb'[w] = <<>>
       /\ w = agg'.window => agg'.count = m
  BY <1>1, <1>3, <1>4, <1>5, <1>6, <1>7
<1> QED
  BY <1>1, <1>2, <1>3, <1>4, <1>8, <1>10, <1>11, <1>12, CompleteMove

(* A late sample is older than the open window.                            *)
LatesBehind == \A t \in Threads : call[t].pc = "late" => call[t].window < agg.window

LEMMA CompletePushLate ==
  ASSUME Shapes, Single, NEW w \in Windows, CompleteAt(w), NEW t \in Threads, PushLate(t)
  PROVE  CompleteAt(w)'
<1>1. PICK v, ps : /\ v \in Windows /\ call[t].pc = "push" /\ v = call[t].window /\ v < agg.window
                               /\ Moved(t, "late", v, ps, call[t].record) /\ phase # "down"
                               /\ UNCHANGED <<lastPoint, phase, agg, keyDb, dataDb, pushed>>
  <2>1. PICK ps : ps = <<Point(call[t].window, 1)>>
    OBVIOUS
  <2> QED
    BY <2>1, PushLateEffect
<1>2. \A u \in Threads \ {t} : call[u].pc = "idle"
  BY <1>1 DEF Single
<1>3. PICK n \in Int :
         /\ n = EnteredAt(call, pushed, w)
         /\ Legible(dataDb[w])
         /\ SumOf(dataDb[w]) = n \/ (~lastPoint /\ w = agg.window /\ agg.count > 0)
         /\ w > agg.window => n = 0 /\ dataDb[w] = <<>>
         /\ w = agg.window => agg.count = n
  BY <1>1, <1>2, CompleteOf, IdleCarriesNothing
<1>4. n = EnteredAt(call', pushed', w)
  BY <1>1, <1>3, EnteredAtMoves
<1>5. CarriesRight("late", ps, w, n)
  BY DEF CarriesRight
<1> QED
  BY <1>1, <1>2, <1>3, <1>4, <1>5, CompleteMove

LEMMA CompleteIncData ==
  ASSUME Shapes, Single, LatesBehind, NEW w \in Windows, CompleteAt(w),
         NEW t \in Threads, IncData(t), "setlate" \notin features
  PROVE  CompleteAt(w)'
<1>1. PICK v \in Windows :
         /\ v = call[t].window /\ call[t].pc = "late" /\ phase # "down"
         /\ Filed(v, LateOn(dataDb[v]))
         /\ Moved(t, "idle", 0, <<>>, EmptyRecord)
         /\ UNCHANGED <<lastPoint, phase, agg, keyDb, pushed>>
  BY IncDataEffect
<1>2. \A u \in Threads \ {t} : call[u].pc = "idle"
  BY <1>1 DEF Single
<1>3. PICK n \in Int :
         /\ n = EnteredAt(call, pushed, w)
         /\ Legible(dataDb[w])
         /\ SumOf(dataDb[w]) = n \/ (~lastPoint /\ w = agg.window /\ agg.count > 0)
         /\ w > agg.window => n = 0 /\ dataDb[w] = <<>>
         /\ w = agg.window => agg.count = n
  BY <1>1, <1>2, CompleteOf DEF Carries
<1>4. PICK m \in Int : /\ m = EnteredAt(call', pushed', w)
                       /\ v = w => m = n + 1
                       /\ v # w => m = n
  BY <1>1, <1>3, EnteredAtMoves
<1>5. CarriesRight("idle", <<>>, w, m)
  <2>1. \A i \in 1..Len(<<>>) : FALSE
    OBVIOUS
  <2> QED
    BY <2>1 DEF CarriesRight
<1>6. CASE v # w
  <2>1. dataDb'[w] = dataDb[w]
    BY <1>1, <1>6 DEF Filed
  <2> QED
    BY <1>1, <1>2, <1>3, <1>4, <1>5, <1>6, <2>1, CompleteMove
<1>7. CASE v = w
  <2>1. w < agg.window
    BY <1>1, <1>7 DEF LatesBehind
  <2>2. PICK e \in Logs : e = dataDb[w] /\ FirstSet(e)
    BY DEF Shapes, DbFine
  <2>3. PICK s \in Nat : s = SumOf(e) /\ s = n
    BY <1>3, <2>1, <2>2, AggTyped, ValuesTyped, WindowsAreTimes
  <2>4. SumOf(LateOn(e)) = s + 1 /\ Legible(LateOn(e))
    BY <1>3, <2>2, <2>3, LateReads
  <2>5. dataDb'[w] = LateOn(e)
    BY <1>1, <1>7, <2>2 DEF Filed
  <2>6. SumOf(dataDb'[w]) = m /\ Legible(dataDb'[w])
    BY <1>4, <1>7, <2>3, <2>4, <2>5
  <2>7. ~(w > agg'.window) /\ w # agg'.window
    BY <1>1, <2>1, AggTyped, WindowsAreTimes
  <2> QED
    BY <1>1, <1>2, <1>4, <1>5, <2>6, <2>7, CompleteMove
<1> QED
  BY <1>6, <1>7

LEMMA CompleteTakeRecord ==
  ASSUME Shapes, Single, NEW w \in Windows, CompleteAt(w),
         NEW t \in Threads, TakeRecord(t) \/ SetKey(t)
  PROVE  CompleteAt(w)'
<1>1. PICK pc, ps, r :
         /\ pc \in Places
         /\ Moved(t, pc, call[t].window, ps, r) \/ Moved(t, pc, 0, ps, r)
         /\ ps = call[t].points /\ pc \notin {"push", "late", "merge"}
         /\ call[t].pc \in {"info", "setkey"} /\ phase # "down"
         /\ UNCHANGED <<lastPoint, phase, agg, dataDb, pushed>>
  <2>1. CASE TakeRecord(t)
    BY <2>1, TakeRecordEffect DEF Places
  <2>2. CASE SetKey(t) /\ call[t].points # <<>>
    BY <2>2, SetKeyEffect DEF Places
  <2>3. CASE SetKey(t) /\ call[t].points = <<>>
    BY <2>3, SetKeyEffect DEF Places
  <2> QED
    BY <2>1, <2>2, <2>3
<1>2. \A u \in Threads \ {t} : call[u].pc = "idle"
  BY <1>1 DEF Single
<1>3. PICK n \in Int :
         /\ n = EnteredAt(call, pushed, w)
         /\ CarriesRight(call[t].pc, call[t].points, w, n)
         /\ Legible(dataDb[w])
         /\ \/ SumOf(dataDb[w]) = n
            \/ Carries(call[t].pc, call[t].points, w)
            \/ ~lastPoint /\ w = agg.window /\ agg.count > 0
         /\ w > agg.window => n = 0 /\ dataDb[w] = <<>>
         /\ w = agg.window => agg.count = n
  BY <1>1, <1>2, CompleteOf
<1>4. n = EnteredAt(call', pushed', w)
  BY <1>1, <1>3, EnteredAtMoves
<1>5. CarriesRight(pc, ps, w, n) /\ (Carries(call[t].pc, call[t].points, w) => Carries(pc, ps, w))
  BY <1>1, <1>3 DEF CarriesRight, Carries
<1> QED
  BY <1>1, <1>2, <1>3, <1>4, <1>5, CompleteMove

LEMMA CompleteSetData ==
  ASSUME Shapes, Single, InOrder, NEW w \in Windows, CompleteAt(w),
         NEW t \in Threads, SetData(t)
  PROVE  CompleteAt(w)'
<1>1. PICK ps \in Lists, x \in Windows, c \in Nat :
         /\ ps = call[t].points /\ x = ps[1].window /\ c = ps[1].count
         /\ call[t].pc = "setdata" /\ Len(ps) \in {1, 2} /\ phase # "down"
         /\ Filed(x, <<SetTo(c)>>)
         /\ \/ Len(ps) = 1 /\ Moved(t, "idle", 0, <<>>, EmptyRecord)
            \/ Len(ps) = 2 /\ Moved(t, "setdata", call[t].window, <<ps[2]>>, call[t].record)
         /\ UNCHANGED <<lastPoint, phase, agg, keyDb, pushed>>
  BY CallTyped, SetDataEffect
<1>2. \A u \in Threads \ {t} : call[u].pc = "idle"
  BY <1>1 DEF Single
<1>3. PICK n \in Int :
         /\ n = EnteredAt(call, pushed, w)
         /\ CarriesRight(call[t].pc, ps, w, n)
         /\ Legible(dataDb[w])
         /\ \/ SumOf(dataDb[w]) = n
            \/ Carries(call[t].pc, ps, w)
            \/ ~lastPoint /\ w = agg.window /\ agg.count > 0
         /\ w > agg.window => n = 0 /\ dataDb[w] = <<>>
         /\ w = agg.window => agg.count = n
  BY <1>1, <1>2, CompleteOf
<1>4. n = EnteredAt(call', pushed', w)
  BY <1>1, <1>3, EnteredAtMoves
<1>5. PICK next, y : /\ next = IF Len(ps) = 1 THEN <<>> ELSE <<y>>
                     /\ y = ps[2]
                     /\ \/ Len(ps) = 1 /\ Moved(t, "idle", 0, next, EmptyRecord)
                        \/ Len(ps) = 2 /\ Moved(t, "setdata", call[t].window, next, call[t].record)
  <2>1. PICK y : y = ps[2]
    OBVIOUS
  <2> QED
    BY <1>1, <2>1
<1>6. ASSUME NEW i \in 1..Len(next) PROVE Len(ps) = 2 /\ next[i] = y
  <2>1. CASE next = <<>>
    BY <1>6, <2>1
  <2>2. CASE Len(ps) = 2 /\ next = <<y>>
    BY <1>6, <2>2
  <2> QED
    BY <1>1, <1>5, <2>1, <2>2
<1>7. ASSUME NEW pc PROVE CarriesRight(pc, next, w, n)
  <2>1. ASSUME NEW i \in 1..Len(next), next[i].window = w PROVE next[i].count = n
    <3>1. 2 \in 1..Len(ps) /\ next[i] = ps[2]
      <4>1. Len(ps) = 2 /\ next[i] = ps[2]
        BY <1>5, <1>6
      <4>2. 2 \in 1..2
        OBVIOUS
      <4> QED
        BY <4>1, <4>2
    <3> QED
      BY <1>1, <1>3, <2>1, <3>1 DEF CarriesRight
  <2> QED
    BY <2>1 DEF CarriesRight
<1>8. 1 \in 1..Len(ps)
  <2>1. 1 \in 1..1 /\ 1 \in 1..2
    OBVIOUS
  <2> QED
    BY <1>1, <2>1
<1>9. CASE x = w
  <2>1. n = c
    BY <1>1, <1>3, <1>8, <1>9 DEF CarriesRight
  <2>2. dataDb'[w] = <<SetTo(c)>> /\ SumOf(dataDb'[w]) = n /\ Legible(dataDb'[w])
    BY <1>1, <1>9, <2>1, SetReads DEF Filed
  <2>3. ~(w > agg.window)
    <3>1. x <= agg.window
      BY <1>1, <1>8 DEF InOrder, CallInOrder
    <3>2. x \in Nat /\ agg.window \in Nat
      BY AggTyped, WindowsAreTimes
    <3> QED
      BY <1>9, <3>1, <3>2
  <2> QED
    BY <1>1, <1>2, <1>3, <1>4, <1>5, <1>7, <2>2, <2>3, CompleteMove
<1>10. CASE x # w
  <2>1. dataDb'[w] = dataDb[w]
    BY <1>1, <1>10 DEF Filed
  <2>2. ASSUME Carries("setdata", ps, w) PROVE Len(ps) = 2 /\ Carries("setdata", next, w)
    <3>1. PICK i \in 1..Len(ps) : ps[i].window = w
      BY <2>2 DEF Carries
    <3>2. i = 2 /\ Len(ps) = 2
      BY <1>1, <1>10, <3>1
    <3>3. next = <<y>> /\ y.window = w
      BY <1>5, <3>1, <3>2
    <3>4. 1 \in 1..Len(<<y>>) /\ <<y>>[1] = y
      OBVIOUS
    <3> QED
      BY <3>2, <3>3, <3>4 DEF Carries
  <2>3. CASE Len(ps) = 1
    BY <1>1, <1>2, <1>3, <1>4, <1>5, <1>7, <2>1, <2>2, <2>3, CompleteMove
  <2>4. CASE Len(ps) = 2
    BY <1>1, <1>2, <1>3, <1>4, <1>5, <1>7, <2>1, <2>2, <2>4, CompleteMove
  <2> QED
    BY <1>1, <2>3, <2>4
<1> QED
  BY <1>9, <1>10

LEMMA CompleteStartClose ==
  ASSUME Shapes, NEW w \in Windows, CompleteAt(w), NEW t \in Threads, StartClose(t)
  PROVE  CompleteAt(w)'
<1>1. /\ phase # "down" /\ phase' # "down" /\ \A u \in Threads : call[u].pc = "idle"
      /\ UNCHANGED <<lastPoint, agg, keyDb, dataDb, pushed>>
  BY StartCloseEffect
<1>2. PICK ps \in Lists :
         /\ Moved(t, "setkey", 0, ps, agg.record)
         /\ \A i \in 1..Len(ps) : ps[i].window = agg.window /\ ps[i].count = agg.count
  <2>1. CASE Moved(t, "setkey", 0, <<>>, agg.record)
    <3>1. \A i \in 1..Len(<<>>) : FALSE
      OBVIOUS
    <3> QED
      BY <2>1, <3>1, EmptyTyped
  <2>2. CASE /\ agg.window \in Windows
             /\ Moved(t, "setkey", 0, <<Point(agg.window, agg.count)>>, agg.record)
    <3>1. PICK v \in Windows, c \in Nat : v = agg.window /\ c = agg.count
      BY <2>2, AggTyped
    <3>2. PICK ps \in Lists : /\ ps = <<Point(v, c)>> /\ Len(ps) = 1
                              /\ ps[1].window = v /\ ps[1].count = c
      BY PointTyped
    <3>3. \A i \in 1..Len(ps) : i = 1
      BY <3>2
    <3> QED
      BY <2>2, <3>1, <3>2, <3>3
  <2> QED
    BY <2>1, <2>2, StartCloseEffect
<1>3. PICK n \in Int :
         /\ n = EnteredAt(call, pushed, w)
         /\ Legible(dataDb[w])
         /\ SumOf(dataDb[w]) = n \/ (~lastPoint /\ w = agg.window /\ agg.count > 0)
         /\ w > agg.window => n = 0 /\ dataDb[w] = <<>>
         /\ w = agg.window => agg.count = n
  <2>1. call[t].pc = "idle" /\ \A u \in Threads \ {t} : call[u].pc = "idle"
    BY <1>1
  <2>2. ~Carries(call[t].pc, call[t].points, w)
    BY <2>1, IdleCarriesNothing
  <2> QED
    BY <1>1, <2>1, <2>2, CompleteOf
<1>4. n = EnteredAt(call', pushed', w)
  BY <1>1, <1>2, <1>3, EnteredAtMoves
<1>5. CarriesRight("setkey", ps, w, n)
  BY <1>2, <1>3 DEF CarriesRight
<1> QED
  BY <1>1, <1>2, <1>3, <1>4, <1>5, CompleteMove

(* A process that ends leaves the windows it had finished with.            *)
LEMMA CompleteVanish ==
  ASSUME Shapes, InOrder, NEW w \in Windows, CompleteAt(w), Vanish, phase # "down",
         w \notin cutShort'
  PROVE  CompleteAt(w)'
<1>1. /\ phase' = "down" /\ \A t \in Threads : call'[t] = Idle
      /\ ~(keyDb.lastUpdate <= w /\ w <= agg.window)
      /\ \A t \in Threads : call[t].window # w
      /\ \A t \in Threads : \A i \in 1..Len(call[t].points) : call[t].points[i].window # w
      /\ UNCHANGED <<lastPoint, keyDb, dataDb, pushed>>
  BY VanishEffect
<1>2. Waiting(call', {w}) = 0
  BY <1>1, WaitingTyped, EmptyTyped
<1>3. Waiting(call, {w}) = 0
  <2>1. {t \in Threads : Waits(call[t], {w})} = {}
    BY <1>1 DEF Waits
  <2> QED
    BY <2>1, FS_EmptySet DEF Waiting
<1>4. PICK n \in Int : n = EnteredAt(call, pushed, w) /\ n = EnteredAt(call', pushed', w)
  <2>1. EnteredAt(call', pushed', w) = EnteredAt(call, pushed, w)
    BY <1>1, <1>2, <1>3 DEF EnteredAt
  <2> QED
    BY <2>1, EnteredAtTyped
<1>5. PICK l \in Nat, a \in Nat, z \in Nat :
         l = keyDb.lastUpdate /\ a = agg.window /\ z = w /\ l <= a /\ (z < l \/ z > a)
  <2>1. /\ keyDb.lastUpdate \in Nat /\ agg.window \in Nat /\ w \in Nat
        /\ keyDb.lastUpdate <= agg.window
    BY AggTyped, WindowsAreTimes DEF Shapes, DbFine, Records, InOrder
  <2> QED
    BY <1>1, <2>1
<1>6. SavedOrComing(w, n) /\ OpenRight(w, n)
  BY <1>4 DEF CompleteAt
<1>7. z > a => n = 0 /\ dataDb[w] = <<>>
  BY <1>5, <1>6 DEF OpenRight, LastWindow
<1>8. SumOf(dataDb[w]) = n /\ Legible(dataDb[w])
  <2>1. \A t \in Threads : ~Carries(call[t].pc, call[t].points, w)
    BY <1>1 DEF Carries
  <2>2. ~NotDue(w)
    BY <1>5 DEF NotDue
  <2> QED
    BY <1>6, <2>1, <2>2 DEF SavedOrComing
<1>9. \A i \in 1..Len(<<>>) : FALSE
  OBVIOUS
<1>10. SavedOrComing(w, n)'
  BY <1>1, <1>8, <1>9, EmptyTyped DEF SavedOrComing, CarriesRight
<1>11. OpenRight(w, n)'
  BY <1>1, <1>5, <1>7 DEF OpenRight, LastWindow
<1>12. n = EnteredAt(call, pushed, w)'
  BY <1>4
<1> QED
  BY <1>10, <1>11, <1>12 DEF CompleteAt

LEMMA CompleteOpen ==
  ASSUME Shapes, NEW w \in Windows, CompleteAt(w), Open
  PROVE  CompleteAt(w)'
<1>1. /\ phase = "down" /\ phase' = "open" /\ agg'.window = keyDb.lastUpdate
      /\ UNCHANGED <<lastPoint, call, keyDb, dataDb, pushed>>
  BY OpenEffect
<1>2. PICK n : n = EnteredAt(call, pushed, w) /\ SavedOrComing(w, n) /\ OpenRight(w, n)
  BY DEF CompleteAt
<1>3. w # agg'.window /\ (w > agg'.window => n = 0 /\ dataDb[w] = <<>>)
  BY <1>1, <1>2 DEF OpenRight, LastWindow
<1>4. OpenRight(w, n)'
  BY <1>1, <1>3 DEF OpenRight, LastWindow
<1>5. SavedOrComing(w, n)'
  BY <1>1, <1>2 DEF SavedOrComing, NotDue
<1>6. n = EnteredAt(call, pushed, w)'
  BY <1>1, <1>2
<1> QED
  BY <1>4, <1>5, <1>6 DEF CompleteAt

LEMMA CompleteRocks ==
  ASSUME Shapes, NEW w \in Windows, CompleteAt(w),
         UNCHANGED <<lastPoint, phase, agg, call, keyDb, pushed>>,
         SumOf(dataDb'[w]) = SumOf(dataDb[w]),
         dataDb[w] = <<>> => dataDb'[w] = <<>>, Legible(dataDb[w]) => Legible(dataDb'[w])
  PROVE  CompleteAt(w)'
<1>1. PICK n : n = EnteredAt(call, pushed, w) /\ SavedOrComing(w, n) /\ OpenRight(w, n)
  BY DEF CompleteAt
<1>2. OpenRight(w, n)'
  BY <1>1 DEF OpenRight, LastWindow
<1>3. SavedOrComing(w, n)'
  BY <1>1 DEF SavedOrComing, NotDue
<1>4. n = EnteredAt(call, pushed, w)'
  BY <1>1
<1> QED
  BY <1>2, <1>3, <1>4 DEF CompleteAt

LEMMA SingleMove ==
  ASSUME NEW t \in Threads, NEW pc, NEW window, NEW points, NEW record,
         Moved(t, pc, window, points, record),
         \A u \in Threads \ {t} : call[u].pc = "idle",
         pc = "late" => window < agg'.window
  PROVE  Single' /\ LatesBehind'
<1>1. \A u \in Threads \ {t} : call'[u].pc = "idle"
  BY DEF Moved
<1>2. call'[t].pc = pc /\ call'[t].window = window
  BY DEF Moved
<1>3. Single'
  BY <1>1 DEF Single
<1>4. LatesBehind'
  BY <1>1, <1>2 DEF LatesBehind
<1> QED
  BY <1>3, <1>4

LEMMA SingleStep ==
  ASSUME Shapes, Alone, Single, LatesBehind, [Next]_vars
  PROVE  Single' /\ LatesBehind'
<1>1. CASE \E t \in Threads, w \in Windows : StartAdd(t, w) \/ StartMerge(t, w)
  <2>1. PICK t \in Threads, w \in Windows, pc \in {"push", "merge"} : Start(t, w, pc)
    BY <1>1 DEF StartAdd, StartMerge
  <2>2. /\ Moved(t, pc, w, <<>>, EmptyRecord) /\ pc # "late"
        /\ \A u \in Threads \ {t} : call[u].pc = "idle"
    BY <2>1, StartEffect DEF Alone
  <2> QED
    BY <2>2, SingleMove
<1>2. CASE \E t \in Threads : PushLate(t)
  <2>1. PICK t \in Threads : PushLate(t)
    BY <1>2
  <2>2. /\ Moved(t, "late", call[t].window, <<Point(call[t].window, 1)>>, call[t].record)
        /\ call[t].pc = "push" /\ call[t].window < agg'.window
    BY <2>1, PushLateEffect
  <2>3. \A u \in Threads \ {t} : call[u].pc = "idle"
    BY <2>2 DEF Single
  <2> QED
    BY <2>2, <2>3, SingleMove
<1>3. CASE \E t \in Threads : PushOnTime(t) \/ MergeUpdates(t) \/ MergeGoesOn(t) \/ TakeRecord(t)
  <2>1. PICK t, pc, points, record :
          /\ t \in Threads /\ pc \in {"info", "compare", "max", "maxat", "setkey"}
          /\ Moved(t, pc, call[t].window, points, record) /\ call[t].pc # "idle"
    BY <1>3, PushOnTimeEffect, MergeUpdatesEffect, MergeGoesOnEffect, TakeRecordEffect DEF Merging
  <2>2. \A u \in Threads \ {t} : call[u].pc = "idle"
    BY <2>1 DEF Single
  <2> QED
    BY <2>1, <2>2, SingleMove
<1>4. CASE \E t \in Threads : SetKey(t) \/ SetData(t) \/ IncData(t) \/ DbFails(t)
  <2>1. PICK t, pc, window, points, record :
          /\ t \in Threads /\ pc \in {"idle", "setdata"}
          /\ Moved(t, pc, window, points, record) /\ call[t].pc # "idle"
    BY <1>4, SetKeyEffect, SetDataEffect, IncDataEffect, DbFailsEffect
  <2>2. \A u \in Threads \ {t} : call[u].pc = "idle"
    BY <2>1 DEF Single
  <2> QED
    BY <2>1, <2>2, SingleMove
<1>5. CASE \E t \in Threads : StartClose(t)
  <2>1. PICK t \in Threads : StartClose(t)
    BY <1>5
  <2>2. PICK points : /\ Moved(t, "setkey", 0, points, agg.record)
                      /\ \A u \in Threads \ {t} : call[u].pc = "idle"
    BY <2>1, StartCloseEffect
  <2> QED
    BY <2>2, SingleMove
<1>6. CASE FinishClose \/ Crash
  <2>1. \A t \in Threads : call'[t].pc = "idle"
    BY <1>6, VanishEffect, EmptyTyped DEF FinishClose, Crash
  <2> QED
    BY <2>1 DEF Single, LatesBehind
<1>7. CASE Open
  <2>1. call' = call /\ \A t \in Threads : call[t].pc = "idle"
    BY <1>7, OpenEffect DEF Shapes
  <2> QED
    BY <2>1 DEF Single, LatesBehind
<1>8. CASE UNCHANGED <<agg, call>>
  BY <1>8 DEF Single, LatesBehind
<1> QED
  BY <1>1, <1>2, <1>3, <1>4, <1>5, <1>6, <1>7, <1>8, CompactEffect, SpoilEffect
  DEF Next, MergeGoesOn, vars

LEMMA CompleteStep ==
  ASSUME Shapes, Alone, Single, LatesBehind, InOrder,
         "io" \notin features, "merge" \notin features, "setlate" \notin features,
         NEW w \in Windows, w \notin cutShort', CompleteAt(w), [Next]_vars
  PROVE  CompleteAt(w)'
<1>1. CASE \E t \in Threads, v \in Windows : StartAdd(t, v)
  BY <1>1, CompleteStart DEF StartAdd
<1>2. CASE \E t \in Threads, v \in Windows : StartMerge(t, v)
  BY <1>2 DEF StartMerge
<1>3. CASE \E t \in Threads : PushLate(t) \/ PushOnTime(t)
  BY <1>3, CompletePushLate, CompletePushOnTime
<1>4. CASE \E t \in Threads : MergeUpdates(t) \/ MergeGoesOn(t)
  BY <1>4, MergeUpdatesEffect, MergeGoesOnEffect DEF InOrder, CallInOrder
<1>5. CASE \E t \in Threads : TakeRecord(t) \/ SetKey(t) \/ SetData(t) \/ IncData(t)
  BY <1>5, CompleteTakeRecord, CompleteSetData, CompleteIncData
<1>6. CASE \E t \in Threads : DbFails(t)
  BY <1>6 DEF DbFails
<1>7. CASE \E t \in Threads : StartClose(t)
  BY <1>7, CompleteStartClose
<1>8. CASE FinishClose \/ Crash
  <2>1. Vanish /\ phase # "down"
    BY <1>8 DEF FinishClose, Crash, Running
  <2> QED
    BY <2>1, CompleteVanish
<1>9. CASE Open
  BY <1>9, CompleteOpen
<1>10. CASE \E v \in Windows : Compact(v)
  BY <1>10, CompactEffect, CompleteRocks
<1>11. CASE \E v \in Windows : Spoil(v)
  <2>1. PICK v \in Windows : Spoil(v)
    BY <1>11
  <2>2. /\ dataDb'[w] = dataDb[w]
        /\ UNCHANGED <<lastPoint, phase, agg, call, keyDb, pushed>>
    BY <2>1, SpoilEffect
  <2> QED
    BY <2>2, CompleteRocks
<1>12. CASE UNCHANGED vars
  <2>1. UNCHANGED <<lastPoint, phase, agg, call, keyDb, pushed>> /\ dataDb'[w] = dataDb[w]
    BY <1>12 DEF vars
  <2> QED
    BY <2>1, CompleteRocks
<1> QED
  BY <1>1, <1>2, <1>3, <1>4, <1>5, <1>6, <1>7, <1>8, <1>9, <1>10, <1>11, <1>12
  DEF Next, MergeGoesOn

(* A lone caller neither merges nor meets an error of a database: a merge  *)
(* overwrites what the window holds, and a failed call drops its points.   *)
LoneCallsSucceed == Alone => "io" \notin features /\ "merge" \notin features

Whole ==
    /\ Shapes /\ LoneCallsSucceed
    /\ Alone => /\ Single /\ LatesBehind /\ InOrder
                /\ "setlate" \notin features =>
                     \A w \in Windows \ cutShort : CompleteAt(w)

LEMMA WholeInit ==
  ASSUME Init, LoneCallsSucceed
  PROVE  Whole
<1>1. Single /\ LatesBehind
  BY EmptyTyped DEF Init, Single, LatesBehind
<1> QED
  BY <1>1, ShapesInit, InOrderInit, CompleteInit DEF Whole

LEMMA WholeStep ==
  ASSUME Whole, [Next]_vars
  PROVE  Whole'
<1>1. Shapes' /\ features' = features
  BY ShapesStep, OptionsStay DEF Whole
<1>2. LoneCallsSucceed' /\ (Alone' => Alone)
  BY <1>1 DEF Whole, LoneCallsSucceed, Alone
<1>3. ASSUME Alone PROVE Single' /\ LatesBehind' /\ InOrder'
  BY <1>3, SingleStep, InOrderStep DEF Whole, LoneCallsSucceed
<1>4. ASSUME Alone, "setlate" \notin features, NEW w \in Windows, w \notin cutShort'
      PROVE  CompleteAt(w)'
  <2>1. w \notin cutShort
    BY <1>4, CutShortGrows DEF Whole
  <2> QED
    BY <1>4, <2>1, CompleteStep DEF Whole, LoneCallsSucceed
<1>5. Alone' /\ "setlate" \notin features' =>
        \A w \in Windows \ cutShort' : CompleteAt(w)'
  BY <1>1, <1>2, <1>4
<1> QED
  BY <1>1, <1>2, <1>3, <1>5 DEF Whole

LEMMA WholeReads ==
  ASSUME Whole
  PROVE  WindowsComplete
<1>1. SUFFICES ASSUME Alone, Quiet, "setlate" \notin features,
                      NEW w \in Windows, w \notin cutShort
               PROVE  Count(w) = pushed[w] \/ (~lastPoint /\ w = agg.window)
  BY DEF WindowsComplete
<1>2. /\ phase # "down" /\ \A t \in Threads : call[t].pc = "idle"
      /\ Shapes
  BY <1>1 DEF Quiet, Whole
<1>3. PICK n : /\ n = EnteredAt(call, pushed, w)
               /\ SavedOrComing(w, n)
  BY <1>1 DEF Whole, CompleteAt
<1>4. n = pushed[w]
  <2>1. Waiting(call, {w}) = 0
    BY <1>2, WaitingTyped
  <2>2. pushed[w] \in Nat
    BY <1>2, PushedSum
  <2> QED
    BY <1>3, <2>1, <2>2 DEF EnteredAt
<1>5. Legible(dataDb[w]) /\ (SumOf(dataDb[w]) = n \/ (~lastPoint /\ w = agg.window))
  <2>1. \A t \in Threads : ~Carries(call[t].pc, call[t].points, w)
    BY <1>2, IdleCarriesNothing
  <2> QED
    BY <1>3, <2>1 DEF SavedOrComing, NotDue
<1>6. PICK e \in Logs : e = dataDb[w]
  BY <1>2 DEF Shapes, DbFine
<1>7. Count(w) = SumOf(dataDb[w])
  BY <1>5, <1>6, LegibleReads DEF Count
<1> QED
  BY <1>4, <1>5, <1>7

(* AddPath!WindowsComplete: with one call at a time that does not fail,    *)
(* and unless late samples are set, every saved point counts exactly the   *)
(* samples pushed for its window, in whatever order of time they come; a   *)
(* stop or a crash of the process spoils no window but those it cut short. *)
THEOREM LoneWindowsComplete == Spec /\ LoneCallsSucceed => []WindowsComplete
<1>1. Init /\ LoneCallsSucceed => Whole
  BY WholeInit
<1>2. Whole /\ [Next]_vars => Whole'
  BY WholeStep
<1>3. Whole => WindowsComplete
  BY WholeReads
<1> QED
  BY <1>1, <1>2, <1>3, PTL DEF Spec

-----------------------------------------------------------------------------
(* With last points too, the record is saved before the points it tells    *)
(* of: the open window is not ahead of it, unless a call is on its way to  *)
(* say so.                                                                 *)
Opens(pc, window) == pc = "push" /\ window = agg.window

Latest ==
    /\ (\A t \in Threads : ~Opens(call[t].pc, call[t].window)) =>
         agg.window <= agg.record.lastUpdate
    /\ (\A t \in Threads : /\ ~Opens(call[t].pc, call[t].window)
                           /\ call[t].pc \notin {"info", "setkey"}) =>
         agg.window <= keyDb.lastUpdate
    /\ \A t \in Threads : call[t].pc = "setkey" => agg.window <= call[t].record.lastUpdate

KeyKnows == \A w \in Windows : dataDb[w] # <<>> => w <= keyDb.lastUpdate

(* The same for the only call there is.                                    *)
LatestFor(pc, window, record, a, saved) ==
    /\ ~(pc = "push" /\ window = a.window) =>
         /\ a.window <= a.record.lastUpdate
         /\ pc \notin {"info", "setkey"} => a.window <= saved.lastUpdate
    /\ pc = "setkey" => a.window <= record.lastUpdate

LEMMA LatestOf ==
  ASSUME Latest, NEW t \in Threads, \A u \in Threads \ {t} : call[u].pc = "idle"
  PROVE  LatestFor(call[t].pc, call[t].window, call[t].record, agg, keyDb)
  BY DEF Latest, LatestFor, Opens

LEMMA LatestMove ==
  ASSUME NEW t \in Threads, \A u \in Threads \ {t} : call[u].pc = "idle",
         NEW pc, NEW window, NEW points, NEW record, Moved(t, pc, window, points, record),
         LatestFor(pc, window, record, agg', keyDb')
  PROVE  Latest'
<1>1. /\ call'[t].pc = pc /\ call'[t].window = window /\ call'[t].record = record
      /\ \A u \in Threads \ {t} : call'[u].pc = "idle"
  BY DEF Moved
<1> QED
  BY <1>1 DEF Latest, LatestFor, Opens

LEMMA LatestPush ==
  ASSUME Shapes, Single, Latest, lastPoint, NEW t \in Threads, PushLate(t) \/ PushOnTime(t)
  PROVE  Latest'
<1>1. call[t].pc = "push"
  BY PushLateEffect, PushOnTimeEffect
<1>2. \A u \in Threads \ {t} : call[u].pc = "idle"
  BY <1>1 DEF Single
<1>3. LatestFor(call[t].pc, call[t].window, call[t].record, agg, keyDb)
  BY <1>2, LatestOf
<1>4. agg.window \in Nat /\ call[t].window \in Nat
  BY AggTyped, CallTyped, WindowsAreTimes
<1>5. CASE PushLate(t)
  <2>1. /\ Moved(t, "late", call[t].window, <<Point(call[t].window, 1)>>, call[t].record)
        /\ call[t].window < agg.window /\ agg' = agg /\ keyDb' = keyDb
    BY <1>5, PushLateEffect
  <2>2. LatestFor("late", call[t].window, call[t].record, agg', keyDb')
    BY <1>1, <1>3, <1>4, <2>1 DEF LatestFor
  <2> QED
    BY <1>2, <2>1, <2>2, LatestMove
<1>6. CASE PushOnTime(t)
  <2>1. PICK v \in Windows : /\ v = call[t].window /\ agg' = Push(agg, v)
                             /\ Moved(t, "info", v, Yielded(agg, v), call[t].record)
    BY <1>6, PushOnTimeEffect
  <2>2. agg'.window = v /\ agg'.record.lastUpdate = v /\ v \in Nat
    BY <2>1, PushIs, WindowsAreTimes
  <2>3. agg'.window <= agg'.record.lastUpdate
    BY <2>2
  <2>4. LatestFor("info", v, call[t].record, agg', keyDb')
    BY <2>3 DEF LatestFor
  <2> QED
    BY <1>2, <2>1, <2>4, LatestMove
<1> QED
  BY <1>5, <1>6

LEMMA LatestRecord ==
  ASSUME Shapes, Single, Latest, NEW t \in Threads, TakeRecord(t) \/ SetKey(t)
  PROVE  Latest'
<1>1. call[t].pc \in {"info", "setkey"} /\ agg' = agg
  BY TakeRecordEffect, SetKeyEffect
<1>2. \A u \in Threads \ {t} : call[u].pc = "idle"
  BY <1>1 DEF Single
<1>3. /\ LatestFor(call[t].pc, call[t].window, call[t].record, agg, keyDb)
      /\ agg.window <= agg.record.lastUpdate
      /\ call[t].pc = "setkey" => agg.window <= call[t].record.lastUpdate
  BY <1>1, <1>2, LatestOf DEF LatestFor
<1>4. CASE TakeRecord(t)
  <2>1. Moved(t, "setkey", call[t].window, call[t].points, agg.record)
    BY <1>4, TakeRecordEffect
  <2>2. LatestFor("setkey", call[t].window, agg.record, agg', keyDb')
    BY <1>1, <1>3 DEF LatestFor
  <2> QED
    BY <1>2, <2>1, <2>2, LatestMove
<1>5. CASE SetKey(t)
  <2>1. PICK pc, window, points, record :
           /\ pc \in {"idle", "setdata"}
           /\ Moved(t, pc, window, points, record) /\ keyDb' = call[t].record
           /\ call[t].pc = "setkey"
    BY <1>5, SetKeyEffect
  <2>2. LatestFor(pc, window, record, agg', keyDb')
    BY <1>1, <1>3, <2>1 DEF LatestFor
  <2> QED
    BY <1>2, <2>1, <2>2, LatestMove
<1> QED
  BY <1>4, <1>5

(* Calls that write points, and the stop of the process.                   *)
LEMMA LatestPoints ==
  ASSUME Shapes, Single, Latest, NEW t \in Threads, SetData(t) \/ IncData(t) \/ StartClose(t)
  PROVE  Latest'
<1>1. /\ call[t].pc \in {"setdata", "late", "idle"} /\ UNCHANGED <<agg, keyDb>>
      /\ \A u \in Threads \ {t} : call[u].pc = "idle"
  BY SetDataEffect, IncDataEffect, StartCloseEffect DEF Single
<1>2. LatestFor(call[t].pc, call[t].window, call[t].record, agg, keyDb)
  BY <1>1, LatestOf
<1>3. agg.window <= agg.record.lastUpdate /\ agg.window <= keyDb.lastUpdate
  BY <1>1, <1>2 DEF LatestFor
<1>4. CASE SetData(t) \/ IncData(t)
  <2>1. PICK pc, window, points, record :
           pc \in {"idle", "setdata"} /\ Moved(t, pc, window, points, record)
    <3>1. CASE SetData(t)
      <4>1. \/ Moved(t, "idle", 0, <<>>, EmptyRecord)
            \/ Moved(t, "setdata", call[t].window, <<call[t].points[2]>>, call[t].record)
        BY <3>1, SetDataEffect
      <4> QED
        BY <4>1
    <3>2. CASE IncData(t)
      BY <3>2, IncDataEffect
    <3> QED
      BY <1>4, <3>1, <3>2
  <2>2. LatestFor(pc, window, record, agg', keyDb')
    BY <1>1, <1>3, <2>1 DEF LatestFor
  <2> QED
    BY <1>1, <2>1, <2>2, LatestMove
<1>5. CASE StartClose(t)
  <2>1. PICK points : Moved(t, "setkey", 0, points, agg.record)
    BY <1>5, StartCloseEffect
  <2>2. LatestFor("setkey", 0, agg.record, agg', keyDb')
    BY <1>1, <1>3 DEF LatestFor
  <2> QED
    BY <1>1, <2>1, <2>2, LatestMove
<1> QED
  BY <1>4, <1>5

LEMMA LatestStart ==
  ASSUME Shapes, Latest, Alone, NEW t \in Threads, NEW w \in Windows, NEW pc \in {"push", "merge"},
         Start(t, w, pc), pc = "push"
  PROVE  Latest'
<1>1. /\ Moved(t, pc, w, <<>>, EmptyRecord) /\ keyDb' = keyDb
      /\ call[t].pc = "idle" /\ \A u \in Threads \ {t} : call[u].pc = "idle"
      /\ agg' = agg \/ agg' = New(w, lastPoint)
  BY StartEffect DEF Alone
<1>2. LatestFor(call[t].pc, call[t].window, call[t].record, agg, keyDb)
  BY <1>1, LatestOf
<1>3. CASE agg' = agg
  <2>1. LatestFor(pc, w, EmptyRecord, agg', keyDb')
    BY <1>1, <1>2, <1>3 DEF LatestFor
  <2> QED
    BY <1>1, <2>1, LatestMove
<1>4. CASE agg' = New(w, lastPoint)
  <2>1. agg'.window = w
    BY <1>4, NewTyped, AggTyped, WindowsAreTimes
  <2>2. LatestFor(pc, w, EmptyRecord, agg', keyDb')
    BY <2>1 DEF LatestFor
  <2> QED
    BY <1>1, <2>2, LatestMove
<1> QED
  BY <1>1, <1>3, <1>4

LEMMA LatestStep ==
  ASSUME Shapes, Alone, lastPoint, Single, Latest,
         "io" \notin features, "merge" \notin features, InOrder, [Next]_vars
  PROVE  Latest'
<1>1. CASE \E t \in Threads, w \in Windows : StartAdd(t, w)
  BY <1>1, LatestStart DEF StartAdd
<1>2. CASE \E t \in Threads, w \in Windows : StartMerge(t, w)
  BY <1>2 DEF StartMerge
<1>3. CASE \E t \in Threads : PushLate(t) \/ PushOnTime(t)
  BY <1>3, LatestPush
<1>4. CASE \E t \in Threads : MergeUpdates(t) \/ MergeGoesOn(t)
  BY <1>4, MergeUpdatesEffect, MergeGoesOnEffect DEF InOrder, CallInOrder
<1>5. CASE \E t \in Threads : TakeRecord(t) \/ SetKey(t)
  BY <1>5, LatestRecord
<1>6. CASE \E t \in Threads : SetData(t) \/ IncData(t) \/ StartClose(t)
  BY <1>6, LatestPoints
<1>7. CASE \E t \in Threads : DbFails(t)
  BY <1>7 DEF DbFails
<1>8. CASE FinishClose \/ Crash
  <2>1. /\ agg'.window = 0 /\ agg'.record.lastUpdate = 0 /\ keyDb'.lastUpdate \in Nat
        /\ \A t \in Threads : call'[t].pc = "idle"
    <3>1. /\ agg' = New(0, lastPoint) /\ keyDb' = keyDb /\ \A t \in Threads : call'[t] = Idle
      BY <1>8, VanishEffect DEF FinishClose, Crash
    <3>2. keyDb.lastUpdate \in Nat
      BY WindowsAreTimes DEF Shapes, DbFine, Records
    <3> QED
      BY <3>1, <3>2, NewTyped, EmptyTyped, AggTyped, WindowsAreTimes
  <2> QED
    BY <2>1 DEF Latest
<1>9. CASE Open
  <2>1. /\ agg'.window = keyDb'.lastUpdate /\ agg'.record.lastUpdate = keyDb'.lastUpdate
        /\ keyDb'.lastUpdate \in Nat /\ call' = call
        /\ \A t \in Threads : call[t].pc = "idle"
    BY <1>9, OpenEffect, WindowsAreTimes DEF Shapes, DbFine, Records
  <2> QED
    BY <2>1 DEF Latest
<1>10. CASE UNCHANGED <<agg, call, keyDb>>
  BY <1>10 DEF Latest, Opens
<1> QED
  BY <1>1, <1>2, <1>3, <1>4, <1>5, <1>6, <1>7, <1>8, <1>9, <1>10, CompactEffect, SpoilEffect
  DEF Next, MergeGoesOn, vars

LEMMA KeyKnowsStep ==
  ASSUME Shapes, Single, LatesBehind, Latest, KeyKnows, InOrder, "merge" \notin features,
         [Next]_vars
  PROVE  KeyKnows'
<1>1. CASE \E t \in Threads : SetData(t) \/ IncData(t)
  <2>1. PICK t, x, e :
           /\ t \in Threads /\ x \in Windows
           /\ call[t].pc \in {"setdata", "late"} /\ Filed(x, e) /\ keyDb' = keyDb
           /\ x <= agg.window
    <3>1. CASE \E t \in Threads : SetData(t)
      <4>1. PICK t \in Threads : SetData(t)
        BY <3>1
      <4>2. 1 \in 1..Len(call[t].points)
        <5>1. 1 \in 1..1 /\ 1 \in 1..2
          OBVIOUS
        <5> QED
          BY <4>1, <5>1, SetDataEffect
      <4>3. call[t].points[1].window <= agg.window
        BY <4>2 DEF InOrder, CallInOrder
      <4> QED
        BY <4>1, <4>3, SetDataEffect
    <3>2. CASE \E t \in Threads : IncData(t)
      <4>1. PICK t \in Threads : IncData(t)
        BY <3>2
      <4>2. call[t].pc = "late" /\ call[t].window \in Windows /\ call[t].window <= agg.window
        BY <4>1, IncDataEffect, AggTyped, WindowsAreTimes DEF LatesBehind
      <4> QED
        BY <4>1, <4>2, IncDataEffect
    <3> QED
      BY <1>1, <3>1, <3>2
  <2>2. agg.window <= keyDb.lastUpdate
    <3>1. \A u \in Threads \ {t} : call[u].pc = "idle"
      BY <2>1 DEF Single
    <3>2. LatestFor(call[t].pc, call[t].window, call[t].record, agg, keyDb)
      BY <2>1, <3>1, LatestOf
    <3> QED
      BY <2>1, <3>2 DEF LatestFor
  <2>3. x <= keyDb.lastUpdate
    <3>1. x \in Nat /\ agg.window \in Nat /\ keyDb.lastUpdate \in Nat
      BY <2>1, AggTyped, WindowsAreTimes DEF Shapes, DbFine, Records
    <3> QED
      BY <2>1, <2>2, <3>1
  <2> QED
    BY <2>1, <2>3 DEF KeyKnows, Filed
<1>2. CASE \E t \in Threads : SetKey(t)
  <2>1. PICK t \in Threads : /\ call[t].pc = "setkey" /\ keyDb' = call[t].record
                             /\ phase # "down" /\ dataDb' = dataDb
    BY <1>2, SetKeyEffect
  <2>2. agg.window <= call[t].record.lastUpdate /\ keyDb.lastUpdate <= agg.window
    BY <2>1 DEF Latest, InOrder
  <2>3. /\ agg.window \in Nat /\ keyDb.lastUpdate \in Nat /\ call[t].record.lastUpdate \in Nat
    BY AggTyped, CallTyped, WindowsAreTimes DEF Shapes, DbFine, Records
  <2>4. \A w \in Windows : w \in Nat
    BY WindowsAreTimes
  <2> QED
    BY <2>1, <2>2, <2>3, <2>4 DEF KeyKnows
<1>3. CASE \E w \in Windows : Compact(w) \/ Spoil(w)
  BY <1>3, CompactEffect, SpoilEffect DEF KeyKnows
<1>4. CASE UNCHANGED <<keyDb, dataDb>>
  BY <1>4 DEF KeyKnows
<1>5. CASE \E t \in Threads, w \in Windows : StartAdd(t, w) \/ StartMerge(t, w)
  BY <1>4, <1>5 DEF StartAdd, StartMerge, Start
<1>6. CASE \E t \in Threads : \/ PushLate(t) \/ PushOnTime(t) \/ MergeUpdates(t)
                              \/ MergeGoesOn(t) \/ TakeRecord(t) \/ DbFails(t) \/ StartClose(t)
  BY <1>4, <1>6 DEF PushLate, PushOnTime, MergeUpdates, MergeGoesOn, MergeCompares,
     MergeAssigns, MergeDates, TakeRecord, DbFails, StartClose
<1>7. CASE FinishClose \/ Crash \/ Open
  BY <1>4, <1>7 DEF FinishClose, Crash, Vanish, Open
<1> QED
  BY <1>1, <1>2, <1>3, <1>4, <1>5, <1>6, <1>7
  DEF Next, MergeGoesOn, vars

Known == Alone /\ lastPoint => Latest /\ KeyKnows

(* AddPath!RecordKnowsPoints: with last points and one call at a time that *)
(* does not fail, the saved record is never behind a saved point, in       *)
(* particular not after a crash between the two databases' writes.         *)
THEOREM LoneRecordKnowsPoints == Spec /\ LoneCallsSucceed => []RecordKnowsPoints
<1>1. Init /\ LoneCallsSucceed => Whole /\ Known
  <2>1. ASSUME Init PROVE Latest /\ KeyKnows
    <3>1. /\ agg.window = 0 /\ agg.record.lastUpdate = 0 /\ keyDb.lastUpdate = 0
          /\ \A t \in Threads : call[t].pc = "idle"
          /\ \A w \in Windows : dataDb[w] = <<>>
      BY <2>1, NewTyped, EmptyTyped, WindowsAreTimes DEF Init, NoAggregator, NoRecord
    <3> QED
      BY <3>1 DEF Latest, KeyKnows
  <2> QED
    BY <2>1, WholeInit DEF Known
<1>2. Whole /\ Known /\ [Next]_vars => Whole' /\ Known'
  <2>1. SUFFICES ASSUME Whole, Known, [Next]_vars PROVE Known'
    BY WholeStep
  <2>2. (Alone' => Alone) /\ (lastPoint' => lastPoint)
    BY <2>1, OptionsStay DEF Alone
  <2>3. ASSUME Alone, lastPoint PROVE Latest' /\ KeyKnows'
    <3>1. /\ Shapes /\ Single /\ LatesBehind /\ InOrder /\ Latest /\ KeyKnows
          /\ "io" \notin features /\ "merge" \notin features
      BY <2>1, <2>3 DEF Whole, Known, LoneCallsSucceed
    <3> QED
      BY <2>1, <2>3, <3>1, LatestStep, KeyKnowsStep
  <2> QED
    BY <2>2, <2>3 DEF Known
<1>3. Known => RecordKnowsPoints
  BY DEF Known, KeyKnows, RecordKnowsPoints
<1> QED
  BY <1>1, <1>2, <1>3, PTL DEF Spec
=============================================================================
