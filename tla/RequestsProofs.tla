---------------------------- MODULE RequestsProofs ----------------------------
(***************************************************************************)
(* Theorems about the requests that change a counter: whatever threads     *)
(* come in between, each shard gets what it is owed once, and the status   *)
(* answered is true.                                                       *)
(***************************************************************************)
EXTENDS Requests, Sums, SequenceTheorems

USE ThreadsAssumption, LimitAssumption, BoundsAssumption

-----------------------------------------------------------------------------
(* Sequences and what they hold.                                           *)

LEMMA BoundedSequences ==
  ASSUME NEW S, NEW n \in Nat
  PROVE  \A s : s \in SeqOf(S, n) <=> s \in Seq(S) /\ Len(s) <= n
<1>1. ASSUME NEW s \in SeqOf(S, n) PROVE s \in Seq(S) /\ Len(s) <= n
  <2>1. PICK m \in 0..n : s \in [1..m -> S]
    BY DEF SeqOf
  <2> QED
    BY <2>1
<1>2. ASSUME NEW s \in Seq(S), Len(s) <= n PROVE s \in SeqOf(S, n)
  <2>1. s \in [1..Len(s) -> S] /\ Len(s) \in 0..n
    BY <1>2
  <2> QED
    BY <2>1 DEF SeqOf
<1> QED
  BY <1>1, <1>2

LEMMA NothingBounded ==
  ASSUME NEW S, NEW n \in Nat
  PROVE  <<>> \in SeqOf(S, n)
<1>1. <<>> \in [1..0 -> S] /\ 0 \in 0..n
  OBVIOUS
<1> QED
  BY <1>1 DEF SeqOf

LEMMA OneBounded ==
  ASSUME NEW S, NEW x \in S, NEW n \in Nat \ {0}
  PROVE  <<x>> \in Seq(S) /\ <<x>> \in SeqOf(S, n)
<1>1. <<x>> \in [1..1 -> S] /\ 1 \in 0..n
  OBVIOUS
<1> QED
  BY <1>1 DEF SeqOf

LEMMA TailOfBounded ==
  ASSUME NEW S, NEW n \in Nat, NEW s \in SeqOf(S, n), s # <<>>
  PROVE  /\ Tail(s) \in SeqOf(S, n) /\ Head(s) \in S
         /\ Len(s) = 1 <=> Tail(s) = <<>>
         /\ Len(s) > 1 <=> Tail(s) # <<>>
<1>1. s \in Seq(S) /\ Len(s) <= n
  BY BoundedSequences
<1>2. Head(s) \in S /\ Len(s) \in Nat \ {0}
  BY <1>1
<1>3. PICK u \in Seq(S) : u = Tail(s) /\ Len(u) = Len(s) - 1
  BY <1>1, HeadTailProperties
<1>4. Len(u) <= n
  BY <1>1, <1>2, <1>3
<1>5. u \in SeqOf(S, n)
  BY <1>3, <1>4, BoundedSequences
<1>6. u = <<>> <=> Len(u) = 0
  OBVIOUS
<1> QED
  BY <1>2, <1>3, <1>5, <1>6

Positions(s, x) == {j \in DOMAIN s : s[j] = x}

LEMMA CountType ==
  ASSUME NEW S, NEW s \in Seq(S), NEW x
  PROVE  Count(s, x) \in Nat /\ IsFiniteSet(Positions(s, x)) /\ Count(<<>>, x) = 0
<1>1. DOMAIN s = 1..Len(s) /\ Len(s) \in Nat
  OBVIOUS
<1>2. IsFiniteSet(1..Len(s))
  BY <1>1, FS_Interval
<1>3. Positions(s, x) \in SUBSET (1..Len(s))
  BY <1>1 DEF Positions
<1>4. IsFiniteSet(Positions(s, x)) /\ Cardinality(Positions(s, x)) \in Nat
  BY <1>2, <1>3, FS_Subset, FS_CardinalityType
<1>5. {j \in DOMAIN <<>> : <<>>[j] = x} = {}
  OBVIOUS
<1> QED
  BY <1>4, <1>5, FS_EmptySet DEF Count, Positions

LEMMA CountOfNothing == \A x : Count(<<>>, x) = 0
<1>1. \A S : <<>> \in Seq(S)
  OBVIOUS
<1> QED
  BY <1>1, CountType

LEMMA CountOfOne ==
  ASSUME NEW x, NEW y
  PROVE  Count(<<x>>, y) = IF x = y THEN 1 ELSE 0
<1>1. CASE x = y
  <2>1. {j \in DOMAIN <<x>> : <<x>>[j] = y} = {1}
    BY <1>1
  <2> QED
    BY <1>1, <2>1, FS_Singleton DEF Count
<1>2. CASE x # y
  <2>1. {j \in DOMAIN <<x>> : <<x>>[j] = y} = {}
    BY <1>2
  <2> QED
    BY <1>2, <2>1, FS_EmptySet DEF Count
<1> QED
  BY <1>1, <1>2

(* What a sequence holds, its head and its tail hold together.             *)
LEMMA CountOfTail ==
  ASSUME NEW S, NEW s \in Seq(S), s # <<>>, NEW x
  PROVE  Count(s, x) = Count(<<Head(s)>>, x) + Count(Tail(s), x)
<1>1. /\ Tail(s) \in Seq(S) /\ Len(Tail(s)) = Len(s) - 1 /\ Len(s) \in Nat \ {0}
      /\ \A j \in 1..Len(Tail(s)) : Tail(s)[j] = s[j + 1]
      /\ Head(s) = s[1] /\ DOMAIN s = 1..Len(s) /\ DOMAIN Tail(s) = 1..Len(Tail(s))
  OBVIOUS
<1> DEFINE P == Positions(s, x)
           Q == Positions(Tail(s), x)
           f == [j \in Q |-> j + 1]
<1>2. f \in [Q -> P \ {1}]
  BY <1>1 DEF Positions
<1>3. \A i, j \in Q : f[i] = f[j] => i = j
  BY <1>1 DEF Positions
<1>4. ASSUME NEW k \in P \ {1} PROVE \E j \in Q : f[j] = k
  <2>1. k \in 2..Len(s) /\ s[k] = x
    BY <1>1 DEF Positions
  <2>2. k - 1 \in Q
    BY <1>1, <2>1 DEF Positions
  <2>3. f[k - 1] = k
    BY <2>1, <2>2
  <2> QED
    BY <2>2, <2>3
<1>5. ExistsBijection(Q, P \ {1})
  <2>1. f \in Bijection(Q, P \ {1})
    BY <1>2, <1>3, <1>4 DEF Bijection, Injection, Surjection, IsInjective
  <2> QED
    BY <2>1 DEF ExistsBijection
<1>6. IsFiniteSet(P) /\ IsFiniteSet(Q) /\ Cardinality(P) = Count(s, x)
      /\ Cardinality(Q) = Count(Tail(s), x) /\ Count(s, x) \in Nat
  BY <1>1, CountType DEF Count, Positions
<1>7. Cardinality(P \ {1}) = Count(Tail(s), x)
  BY <1>5, <1>6, FS_Bijection
<1>8. 1 \in P <=> Head(s) = x
  BY <1>1 DEF Positions
<1>9. Cardinality(P \ {1}) = IF 1 \in P THEN Count(s, x) - 1 ELSE Count(s, x)
  BY <1>6, FS_RemoveElement
<1> HIDE DEF P, Q
<1> QED
  BY <1>6, <1>7, <1>8, <1>9, CountOfOne

-----------------------------------------------------------------------------
(* What the shards are called for.                                         *)

Ledgers == [Targets -> [Ops \X Names -> Int]]

(* g is f with k times each of the items added to what the shards in S     *)
(* have of op.                                                             *)
Adds(g, f, S, op, items, k) ==
    /\ g \in Ledgers
    /\ \A i \in Targets, o \in Ops, n \in Names :
         /\ i \in S /\ o = op => g[i][<<o, n>>] = f[i][<<o, n>>] + k * Count(items, n)
         /\ ~(i \in S /\ o = op) => g[i][<<o, n>>] = f[i][<<o, n>>]

LEMMA PlusEffect ==
  ASSUME NEW f \in Ledgers, NEW S \in SUBSET Targets, NEW op \in Ops, NEW items \in Seq(Names),
         NEW k \in Int
  PROVE  Adds(Plus(f, S, op, items, k), f, S, op, items, k)
<1>1. \A n \in Names : Count(items, n) \in Nat /\ k * Count(items, n) \in Int
  BY CountType
<1>2. ASSUME NEW i \in Targets, NEW x \in Ops \X Names
      PROVE  f[i][x] + (IF i \in S /\ x[1] = op THEN k * Count(items, x[2]) ELSE 0) \in Int
  BY <1>1, <1>2 DEF Ledgers
<1>3. Plus(f, S, op, items, k) \in Ledgers
  <2>1. ASSUME NEW i \in Targets
        PROVE  [x \in Ops \X Names |->
                  f[i][x] + (IF i \in S /\ x[1] = op THEN k * Count(items, x[2]) ELSE 0)]
               \in [Ops \X Names -> Int]
    BY <1>2
  <2> QED
    BY <2>1, Zenon DEF Plus, Ledgers
<1>4. ASSUME NEW i \in Targets, NEW o \in Ops, NEW n \in Names
      PROVE  /\ i \in S /\ o = op =>
                   Plus(f, S, op, items, k)[i][<<o, n>>] = f[i][<<o, n>>] + k * Count(items, n)
             /\ ~(i \in S /\ o = op) => Plus(f, S, op, items, k)[i][<<o, n>>] = f[i][<<o, n>>]
  <2>1. Plus(f, S, op, items, k)[i][<<o, n>>] =
          f[i][<<o, n>>] + IF i \in S /\ o = op THEN k * Count(items, n) ELSE 0
    BY DEF Plus
  <2>2. f[i][<<o, n>>] \in Int
    BY DEF Ledgers
  <2> QED
    BY <2>1, <2>2
<1> QED
  BY <1>3, <1>4, Zenon DEF Adds

(* What a call has yet to bring to a shard.                                *)
Carries(c, i, op, n) ==
    (IF i \in ToSet(c.to) /\ OpOf(c.kind) = op THEN c.agg.count * Count(c.agg.names, n)
     ELSE 0)
    + (IF c.at = i /\ OpOf(c.kind) = op THEN Count(c.items, n) ELSE 0)

OnTheWay(calls, i, op, n) == SumFunction([t \in Threads |-> Carries(calls[t], i, op, n)])

LEMMA CallFields ==
  ASSUME NEW c \in Calls
  PROVE  /\ c.at \in 0..N /\ c.items \in Seq(Names) /\ c.agg.names \in Seq(Names)
         /\ c.agg.count \in Nat /\ c.to \in Seq(Targets)
<1>1. MaxSamples \in Nat
  BY DEF MaxSamples
<1>2. CASE c = Idle
  <2>1. /\ Idle.at = 0 /\ Idle.items = <<>> /\ Idle.to = <<>>
        /\ Idle.agg.names = <<>> /\ Idle.agg.count = 0
    BY DEF Idle
  <2>2. \A S : <<>> \in Seq(S)
    OBVIOUS
  <2>3. 0 \in 0..N
    BY TargetsAssumption
  <2> QED
    BY <1>2, <2>1, <2>2, <2>3
<1>3. CASE c # Idle
  <2>1. /\ c.at \in 0..N /\ c.items \in SeqOf(Names, MaxItems) /\ c.to \in SeqOf(Targets, N)
        /\ c.agg.names \in SeqOf(Names, MaxItems) /\ c.agg.count \in 0..MaxSamples
    BY <1>3 DEF Calls
  <2> QED
    BY <1>1, <2>1, BoundedSequences, TargetsAssumption
<1> QED
  BY <1>2, <1>3

LEMMA CarriesType ==
  ASSUME NEW c \in Calls, NEW i, NEW op, NEW n
  PROVE  Carries(c, i, op, n) \in Nat
<1>1. Count(c.items, n) \in Nat /\ Count(c.agg.names, n) \in Nat /\ c.agg.count \in Nat
  BY CallFields, CountType
<1>2. c.agg.count * Count(c.agg.names, n) \in Nat
  BY <1>1
<1> QED
  BY <1>1, <1>2 DEF Carries

LEMMA OnTheWayType ==
  ASSUME call \in [Threads -> Calls], NEW i, NEW op, NEW n
  PROVE  /\ OnTheWay(call, i, op, n) \in Nat
         /\ \A t \in Threads : Carries(call[t], i, op, n) <= OnTheWay(call, i, op, n)
<1> DEFINE f == [t \in Threads |-> Carries(call[t], i, op, n)]
<1>1. f \in [Threads -> Nat]
  BY CarriesType
<1>2. SumFunction(f) \in Nat /\ \A t \in Threads : f[t] <= SumFunction(f)
  BY <1>1, SumOfNaturals
<1> QED
  BY <1>2 DEF OnTheWay

(* A step of one call.                                                     *)
LEMMA OneCallMoves ==
  ASSUME call \in [Threads -> Calls], NEW t \in Threads, NEW d \in Calls,
         call' = [call EXCEPT ![t] = d]
  PROVE  \A i \in Targets, op \in Ops, n \in Names :
            OnTheWay(call', i, op, n) = OnTheWay(call, i, op, n) + Carries(d, i, op, n)
                                                                 - Carries(call[t], i, op, n)
<1> TAKE i \in Targets, op \in Ops, n \in Names
<1> DEFINE f == [u \in Threads |-> Carries(call[u], i, op, n)]
           g == [u \in Threads |-> Carries(call'[u], i, op, n)]
<1>1. call' \in [Threads -> Calls] /\ call'[t] = d /\ \A u \in Threads \ {t} : call'[u] = call[u]
  OBVIOUS
<1>2. f \in [Threads -> Int] /\ g \in [Threads -> Int]
  BY <1>1, CarriesType
<1>3. \A u \in Threads \ {t} : g[u] = f[u]
  BY <1>1
<1>4. SumFunction(g) = SumFunction(f) + g[t] - f[t]
  BY <1>2, <1>3, SumChanges
<1>5. g[t] = Carries(d, i, op, n) /\ f[t] = Carries(call[t], i, op, n)
  BY <1>1
<1>6. OnTheWay(call, i, op, n) = SumFunction(f) /\ OnTheWay(call', i, op, n) = SumFunction(g)
  BY DEF OnTheWay
<1> HIDE DEF f, g
<1> QED
  BY <1>4, <1>5, <1>6

LEMMA EachInShort ==
  EachComesOnce <=> \A i \in alive, op \in Ops, n \in Names :
    owed[i][<<op, n>>] = got[i][<<op, n>>] + (IF op = "add" THEN open[n] ELSE 0) + OnTheWay(call, i, op, n)
  BY DEF EachComesOnce, OnTheWay, Carries, UnderWay
-----------------------------------------------------------------------------
(* The invariant.                                                          *)

OneEach(s) == \A j, k \in DOMAIN s : s[j] = s[k] => j = k

(* What is left of a request, by where its call is: the targets that are   *)
(* still to be called, each once, and the parts not yet looked at.         *)
CallFine(c) ==
    /\ OneEach(c.to)
    /\ c.pc = "deliver" <=> c.to # <<>>
    /\ c.pc \in {"idle", "rt", "deliver"} => c.at = 0
    /\ c.pc \in {"unpack", "ag"} => c.at # 0
    /\ c.pc \in {"unpack", "ag", "rt"} => c.items # <<>>
    /\ c.pc \in {"idle", "answer"} => c.items = <<>>
    /\ c.pc = "unpack" => c.kind = "multi_push"
    /\ c.pc \in {"rt", "deliver"} => c.kind \in RtKinds
    /\ c.pc = "rt" => c.kind # "rt_del"
    /\ c.kind # "rt_multi_add" => c.ok = c.good

(* An instance that is called is there as long as the call.                *)
CalledLive == \A t \in Threads :
    CallFine(call[t]) /\ call[t].at \in alive \cup {0}

RequestsInv == TypeOK /\ IsFiniteSet(known) /\ CalledLive /\ EachComesOnce

Books == [Targets -> [Ops \X Names -> Nat]]

LEMMA BooksAreLedgers ==
  ASSUME NEW f
  PROVE  f \in Books <=>
           f \in Ledgers /\ \A i \in Targets, op \in Ops, n \in Names : f[i][<<op, n>>] >= 0
<1>1. ASSUME f \in Books PROVE f \in Ledgers
  <2>1. \A X, g : g \in [X -> Nat] => g \in [X -> Int]
    OBVIOUS
  <2>2. \A i \in Targets : f[i] \in [Ops \X Names -> Int]
    BY <1>1, <2>1 DEF Books
  <2> QED
    BY <1>1, <2>2 DEF Books, Ledgers
<1>2. ASSUME f \in Ledgers, \A i \in Targets, op \in Ops, n \in Names : f[i][<<op, n>>] >= 0
      PROVE  f \in Books
  <2>1. \A i \in Targets, x \in Ops \X Names : f[i][x] \in Nat
    BY <1>2 DEF Ledgers
  <2>2. \A i \in Targets : f[i] \in [Ops \X Names -> Nat]
    BY <1>2, <2>1 DEF Ledgers
  <2> QED
    BY <1>2, <2>2 DEF Books, Ledgers
<1>3. ASSUME f \in Books, NEW i \in Targets, NEW op \in Ops, NEW n \in Names
      PROVE  f[i][<<op, n>>] >= 0
  BY <1>3 DEF Books
<1> QED
  BY <1>1, <1>2, <1>3

(* A step of one call keeps the invariant if what becomes owed is what     *)
(* shards got, windows hold and the call carries more than before.         *)
LEMMA CallStep ==
  ASSUME RequestsInv, NEW t \in Threads, NEW d \in Calls, call' = [call EXCEPT ![t] = d],
         CallFine(d), d.at \in alive \cup {0}, alive' = alive,
         known' \subseteq Names, IsFiniteSet(known'), Cardinality(known') <= Limit,
         open' \in [Names -> Nat], requests' \in 0..MaxRequests,
         got' \in Books, owed' \in Ledgers,
         \A i \in Targets, op \in Ops, n \in Names :
            /\ i \in alive =>
                 owed'[i][<<op, n>>] = owed[i][<<op, n>>]
                   + (got'[i][<<op, n>>] - got[i][<<op, n>>])
                   + (IF op = "add" THEN open'[n] - open[n] ELSE 0)
                   + (Carries(d, i, op, n) - Carries(call[t], i, op, n))
            /\ owed'[i][<<op, n>>] >= 0
  PROVE  RequestsInv'
<1>0. \A i \in Targets, op \in Ops, n \in Names :
        OnTheWay(call', i, op, n) = OnTheWay(call, i, op, n)
          + Carries(d, i, op, n) - Carries(call[t], i, op, n)
  <2>1. call \in [Threads -> Calls]
    BY DEF RequestsInv, TypeOK
  <2> QED
    BY <2>1, OneCallMoves
<1>1. call' \in [Threads -> Calls] /\ call'[t] = d /\ \A u \in Threads \ {t} : call'[u] = call[u]
  BY DEF RequestsInv, TypeOK
<1>2. owed' \in Books
  BY BooksAreLedgers
<1>3. TypeOK'
  BY <1>1, <1>2 DEF RequestsInv, TypeOK, Books
<1>4. CalledLive'
  BY <1>1 DEF RequestsInv, CalledLive
<1>5. EachComesOnce'
  <2>1. ASSUME NEW i \in alive, NEW op \in Ops, NEW n \in Names
        PROVE  owed'[i][<<op, n>>] = got'[i][<<op, n>>] + (IF op = "add" THEN open'[n] ELSE 0)
                                   + OnTheWay(call', i, op, n)
    <3>1. OnTheWay(call', i, op, n) = OnTheWay(call, i, op, n) + Carries(d, i, op, n)
                                 - Carries(call[t], i, op, n)
      <4>1. i \in Targets
        BY <2>1 DEF RequestsInv, TypeOK
      <4> QED
        BY <1>0, <4>1
    <3>2. owed[i][<<op, n>>] = got[i][<<op, n>>] + (IF op = "add" THEN open[n] ELSE 0)
                             + OnTheWay(call, i, op, n)
      BY <2>1, EachInShort DEF RequestsInv
    <3>3. /\ OnTheWay(call, i, op, n) \in Nat /\ Carries(d, i, op, n) \in Nat
          /\ Carries(call[t], i, op, n) \in Nat
      BY OnTheWayType, CarriesType DEF RequestsInv, TypeOK
    <3>4. /\ i \in Targets /\ i \in alive /\ open[n] \in Nat /\ open'[n] \in Nat
          /\ got[i][<<op, n>>] \in Nat /\ got'[i][<<op, n>>] \in Nat
          /\ owed[i][<<op, n>>] \in Nat /\ owed'[i][<<op, n>>] \in Int
      <4>1. <<op, n>> \in Ops \X Names /\ i \in Targets /\ i \in alive
        BY <2>1 DEF RequestsInv, TypeOK
      <4>2. got \in Books /\ owed \in Books /\ open \in [Names -> Nat]
        BY DEF RequestsInv, TypeOK, Books
      <4> QED
        BY <1>2, <4>1, <4>2 DEF Books
    <3>5. owed'[i][<<op, n>>] = owed[i][<<op, n>>] + (got'[i][<<op, n>>] - got[i][<<op, n>>])
                 + (IF op = "add" THEN open'[n] - open[n] ELSE 0)
                 + (Carries(d, i, op, n) - Carries(call[t], i, op, n))
      BY <3>4
    <3> QED
      BY <3>1, <3>2, <3>3, <3>4, <3>5
  <2>2. EachComesOnce' <=> \A i \in alive, op \in Ops, n \in Names :
          owed'[i][<<op, n>>] = got'[i][<<op, n>>] + (IF op = "add" THEN open'[n] ELSE 0)
                              + OnTheWay(call', i, op, n)
    BY DEF EachComesOnce, OnTheWay, Carries, UnderWay
  <2> QED
    BY <2>1, <2>2
<1> QED
  BY <1>3, <1>4, <1>5 DEF RequestsInv

-----------------------------------------------------------------------------
(* Where a call may stand, with names for the sets it is made of.          *)
Pcs     == {"rt", "deliver", "unpack", "ag", "answer"}
Lists   == SeqOf(Names, MaxItems)
Parts   == [names : Lists, count : 0..MaxSamples]
Routes  == SeqOf(Targets, N)
Places  == 0..N

Moving == [pc : Pcs, kind : Kinds, at : Places, items : Lists, agg : Parts, to : Routes,
           ok : BOOLEAN, good : BOOLEAN]

(* Moving, with room for the call that stands still.                       *)
Standing == [pc : Pcs \cup {"idle"}, kind : Kinds \cup {"none"}, at : Places, items : Lists,
             agg : Parts, to : Routes, ok : BOOLEAN, good : BOOLEAN]

LEMMA CallsMove ==
  /\ Calls = {Idle} \cup Moving
  /\ Idle \in Standing
  /\ \A c \in Standing : c.pc \in Pcs /\ c.kind \in Kinds => c \in Moving
  /\ \A c \in Moving : c \in Standing
<1>1. Calls = {Idle} \cup Moving
  BY DEF Calls, Moving, Pcs, Lists, Parts, Routes, Places
<1>2. <<>> \in Lists /\ <<>> \in Routes
  <2>1. MaxItems \in Nat /\ N \in Nat
    BY TargetsAssumption
  <2> QED
    BY <2>1, NothingBounded DEF Lists, Routes
<1>3. 0 \in 0..MaxSamples /\ 0 \in Places
  BY TargetsAssumption DEF MaxSamples, Places
<1>4. Idle \in Standing
  BY <1>2, <1>3 DEF Idle, Standing, Parts
<1>5. \A c \in Standing : c.pc \in Pcs /\ c.kind \in Kinds => c \in Moving
  BY DEF Standing, Moving
<1>6. \A c \in Moving : c \in Standing
  BY DEF Standing, Moving
<1> QED
  BY <1>1, <1>4, <1>5, <1>6

LEMMA IdleCarriesNothing ==
  /\ Idle.at = 0 /\ Idle.items = <<>> /\ Idle.to = <<>> /\ Idle.pc = "idle"
  /\ Idle.agg = [names |-> <<>>, count |-> 0] /\ Idle.ok = TRUE /\ Idle.good = TRUE
  /\ Idle.kind = "none"
  /\ \A i \in Targets, op \in Ops, n \in Names : Carries(Idle, i, op, n) = 0
<1>1. /\ Idle.at = 0 /\ Idle.items = <<>> /\ Idle.to = <<>> /\ Idle.pc = "idle"
      /\ Idle.agg = [names |-> <<>>, count |-> 0] /\ Idle.ok = TRUE /\ Idle.good = TRUE
      /\ Idle.kind = "none"
  BY DEF Idle
<1>2. \A i \in Targets : i # 0 /\ i \notin ToSet(<<>>)
  BY TargetsAssumption DEF ToSet, Targets
<1> QED
  BY <1>1, <1>2 DEF Carries

(* What a call carries whose samples are in its items only, or only on a   *)
(* route.                                                                  *)
LEMMA CarriesOneWay ==
  ASSUME NEW c \in Calls
  PROVE  /\ c.to = <<>> => \A i \in Targets, op \in Ops, n \in Names : Carries(c, i, op, n) =
              IF c.at = i /\ OpOf(c.kind) = op THEN Count(c.items, n) ELSE 0
         /\ c.at = 0 => \A i \in Targets, op \in Ops, n \in Names : Carries(c, i, op, n) =
              IF i \in ToSet(c.to) /\ OpOf(c.kind) = op THEN c.agg.count * Count(c.agg.names, n)
              ELSE 0
<1>1. ASSUME NEW i \in Targets, NEW op \in Ops, NEW n \in Names
      PROVE  /\ Count(c.items, n) \in Nat /\ c.agg.count * Count(c.agg.names, n) \in Nat
             /\ i # 0 /\ i \notin ToSet(<<>>)
  <2>1. Count(c.items, n) \in Nat /\ Count(c.agg.names, n) \in Nat /\ c.agg.count \in Nat
    BY CallFields, CountType
  <2> QED
    BY <2>1, TargetsAssumption DEF ToSet, Targets
<1> QED
  BY <1>1 DEF Carries

(* What the invariant says of the state and of one call.                   *)
LEMMA Standpoint ==
  ASSUME RequestsInv, NEW t \in Threads
  PROVE  /\ call[t] \in Calls /\ CallFine(call[t]) /\ call[t].at \in alive \cup {0}
         /\ call[t].pc # "idle" => call[t] \in Moving
         /\ got \in Books /\ got \in Ledgers /\ owed \in Books /\ owed \in Ledgers
         /\ open \in [Names -> Nat] /\ alive \subseteq Targets /\ requests \in 0..MaxRequests
         /\ known \subseteq Names /\ IsFiniteSet(known) /\ Cardinality(known) <= Limit
         /\ \A i \in Targets, op \in Ops, n \in Names :
              owed[i][<<op, n>>] \in Nat /\ got[i][<<op, n>>] \in Nat /\ open[n] \in Nat
<1>1. call[t] \in Calls /\ CallFine(call[t]) /\ call[t].at \in alive \cup {0}
  BY DEF RequestsInv, TypeOK, CalledLive
<1>2. got \in Books /\ owed \in Books /\ open \in [Names -> Nat]
  BY DEF RequestsInv, TypeOK, Books
<1>3. got \in Ledgers /\ owed \in Ledgers
  BY <1>2, BooksAreLedgers
<1>4. call[t].pc # "idle" => call[t] \in Moving
  BY <1>1, CallsMove, IdleCarriesNothing
<1>5. \A i \in Targets, op \in Ops, n \in Names :
        owed[i][<<op, n>>] \in Nat /\ got[i][<<op, n>>] \in Nat /\ open[n] \in Nat
  BY <1>2 DEF Books
<1> QED
  BY <1>1, <1>2, <1>3, <1>4, <1>5 DEF RequestsInv, TypeOK

(* What a call carries is owed.                                            *)
LEMMA OwedCoversCalls ==
  ASSUME RequestsInv, NEW t \in Threads, NEW i \in alive, NEW op \in Ops, NEW n \in Names
  PROVE  Carries(call[t], i, op, n) <= owed[i][<<op, n>>]
<1>1. /\ i \in Targets /\ got[i][<<op, n>>] \in Nat /\ open[n] \in Nat
      /\ owed[i][<<op, n>>] \in Nat
  BY Standpoint
<1>2. owed[i][<<op, n>>] = got[i][<<op, n>>] + (IF op = "add" THEN open[n] ELSE 0)
                         + OnTheWay(call, i, op, n)
  BY EachInShort DEF RequestsInv
<1>3. Carries(call[t], i, op, n) \in Nat
  BY CarriesType, Standpoint
<1>4. /\ OnTheWay(call, i, op, n) \in Nat
      /\ Carries(call[t], i, op, n) <= OnTheWay(call, i, op, n)
  BY OnTheWayType DEF RequestsInv, TypeOK
<1> QED
  BY <1>1, <1>2, <1>3, <1>4

(* Each target is once in the order in which they are called.              *)
LEMMA OrderFacts ==
  Order \in Routes /\ Order # <<>> /\ OneEach(Order) /\ ToSet(Order) = Targets
<1> DEFINE s == [j \in 1..(N - 1) |-> j + 1]
<1>1. s \in Seq(Targets) /\ Len(s) = N - 1
  <2>1. s \in [1..(N - 1) -> Targets] /\ N - 1 \in Nat
    BY TargetsAssumption DEF Targets
  <2> QED
    BY <2>1, LenProperties, SeqDef
<1>2. /\ Order \in Seq(Targets) /\ Len(Order) = N /\ DOMAIN Order = 1..N
      /\ \A j \in 1..N : Order[j] = IF j = N THEN 1 ELSE j + 1
  BY <1>1, AppendProperties, TargetsAssumption DEF Order, Targets
<1>3. Order \in Routes /\ Order # <<>>
  BY <1>2, BoundedSequences, TargetsAssumption DEF Routes
<1>4. OneEach(Order)
  BY <1>2 DEF OneEach
<1>5. ASSUME NEW i \in Targets PROVE i \in ToSet(Order)
  <2>1. CASE i = 1
    BY <1>2, <2>1, TargetsAssumption DEF ToSet, Targets
  <2>2. CASE i # 1
    <3>1. i - 1 \in DOMAIN Order /\ Order[i - 1] = i
      BY <1>2, <2>2, TargetsAssumption DEF Targets
    <3> QED
      BY <3>1 DEF ToSet
  <2> QED
    BY <2>1, <2>2
<1>6. ToSet(Order) \subseteq Targets
  BY <1>2 DEF ToSet
<1> QED
  BY <1>3, <1>4, <1>5, <1>6

-----------------------------------------------------------------------------
(* One step at a time: every action keeps the invariant.                   *)

LEMMA PackagesAre ==
  ASSUME NEW items \in Packages
  PROVE  items \in Lists /\ items \in Seq(Names) /\ items # <<>>
BY BoundedSequences DEF Packages, Lists

(* A request to an instance: what it asks for is owed to that instance,    *)
(* and the call carries it.                                                *)
LEMMA ArriveAgKeeps ==
  ASSUME RequestsInv, NEW t \in Threads, NEW kind \in AgKinds, NEW i \in Targets,
         NEW items \in Packages, ArriveAg(t, kind, i, items)
  PROVE  RequestsInv'
<1> DEFINE d == [Idle EXCEPT !.pc = IF kind = "multi_push" THEN "unpack" ELSE "ag",
                             !.kind = kind, !.at = i, !.items = items]
<1>1. items \in Lists /\ items \in Seq(Names) /\ items # <<>>
  BY PackagesAre
<1>2. /\ i \in alive /\ call[t] = Idle /\ call' = [call EXCEPT ![t] = d]
      /\ owed' = Plus(owed, {i}, OpOf(kind), items, 1)
      /\ requests < MaxRequests /\ requests' = requests + 1
      /\ known' = known /\ open' = open /\ alive' = alive /\ got' = got
  BY Zenon DEF ArriveAg, Arrive
<1>3. kind \in Kinds /\ i \in Places /\ i # 0 /\ OpOf(kind) \in Ops /\ kind # "rt_multi_add"
  BY TargetsAssumption DEF Kinds, RtKinds, AgKinds, Places, OpOf, Ops, Targets
<1>4. /\ d.pc \in {"unpack", "ag"}
      /\ d.pc = "unpack" => d.kind = "multi_push"
      /\ d.kind = kind /\ d.at = i /\ d.items = items
      /\ d.to = <<>> /\ d.ok = TRUE /\ d.good = TRUE
  BY DEF Idle
<1>5. d \in Standing
  BY <1>1, <1>3, CallsMove DEF Standing, Pcs
<1> HIDE DEF d
<1>6. /\ d \in Calls
      /\ CallFine(d) /\ d.at \in alive \cup {0}
  <2>1. d \in Moving
    BY <1>3, <1>4, <1>5, CallsMove DEF Pcs
  <2>2. OneEach(d.to)
    BY <1>4 DEF OneEach
  <2> QED
    BY <1>1, <1>2, <1>3, <1>4, <2>1, <2>2, CallsMove DEF CallFine
<1>7. requests' \in 0..MaxRequests
  BY <1>2, Standpoint
<1>8. Adds(owed', owed, {i}, OpOf(kind), items, 1)
  <2>1. PICK S \in SUBSET Targets : S = {i}
    OBVIOUS
  <2>2. owed \in Ledgers /\ 1 \in Int
    BY Standpoint
  <2>3. Adds(Plus(owed, S, OpOf(kind), items, 1), owed, S, OpOf(kind), items, 1)
    BY <1>1, <1>3, <2>2, PlusEffect, Zenon
  <2> QED
    BY <1>2, <2>1, <2>3
<1>9. \A j \in Targets, op \in Ops, n \in Names :
        /\ Carries(call[t], j, op, n) = 0 /\ Count(items, n) \in Nat
        /\ Carries(d, j, op, n) = IF i = j /\ OpOf(kind) = op THEN Count(items, n) ELSE 0
  BY <1>1, <1>2, <1>4, <1>6, IdleCarriesNothing, CarriesOneWay, CountType
<1>10. \A j \in Targets, op \in Ops, n \in Names :
         /\ j \in alive =>
              owed'[j][<<op, n>>] = owed[j][<<op, n>>]
                + (got'[j][<<op, n>>] - got[j][<<op, n>>])
                + (IF op = "add" THEN open'[n] - open[n] ELSE 0)
                + (Carries(d, j, op, n) - Carries(call[t], j, op, n))
         /\ owed'[j][<<op, n>>] >= 0
  <2> TAKE j \in Targets, op \in Ops, n \in Names
  <2>1. /\ owed[j][<<op, n>>] \in Nat /\ got[j][<<op, n>>] \in Nat /\ open[n] \in Nat
        /\ got' = got /\ open' = open
    BY <1>2, Standpoint
  <2>2. /\ Carries(call[t], j, op, n) = 0 /\ Count(items, n) \in Nat
        /\ Carries(d, j, op, n) = IF i = j /\ OpOf(kind) = op THEN Count(items, n) ELSE 0
    BY <1>9
  <2>3. /\ j = i /\ op = OpOf(kind) => owed'[j][<<op, n>>] = owed[j][<<op, n>>] + Count(items, n)
        /\ ~(j = i /\ op = OpOf(kind)) => owed'[j][<<op, n>>] = owed[j][<<op, n>>]
    BY <1>8, <2>2 DEF Adds
  <2> QED
    BY <2>1, <2>2, <2>3
<1>11. known' \subseteq Names /\ IsFiniteSet(known') /\ Cardinality(known') <= Limit
       /\ open' \in [Names -> Nat] /\ got' \in Books
  BY <1>2, Standpoint
<1> QED
  BY <1>2, <1>6, <1>7, <1>8, <1>10, <1>11, CallStep DEF Adds

LEMMA AddsKeepsBooks ==
  ASSUME NEW f \in Books, NEW S \in SUBSET Targets, NEW op \in Ops, NEW items \in Seq(Names),
         NEW k \in Nat, NEW g, Adds(g, f, S, op, items, k)
  PROVE  g \in Books
<1>1. ASSUME NEW i \in Targets, NEW o \in Ops, NEW n \in Names PROVE g[i][<<o, n>>] >= 0
  <2>1. Count(items, n) \in Nat /\ k * Count(items, n) \in Nat
    BY CountType
  <2>2. f[i][<<o, n>>] \in Nat
    BY DEF Books
  <2> QED
    BY <2>1, <2>2 DEF Adds
<1> QED
  BY <1>1, BooksAreLedgers DEF Adds

(* A request to rt_domain: a deletion is owed to all and on its way, a     *)
(* sample is owed only once it is accepted.                                *)
LEMMA ArriveRtKeeps ==
  ASSUME RequestsInv, NEW t \in Threads, NEW kind \in RtKinds, NEW items \in Packages,
         ArriveRt(t, kind, items)
  PROVE  RequestsInv'
<1>1. items \in Lists /\ items \in Seq(Names) /\ items # <<>>
  BY PackagesAre
<1>2. /\ call[t] = Idle /\ requests < MaxRequests /\ requests' = requests + 1
      /\ known' = known /\ open' = open /\ alive' = alive /\ got' = got
  BY Zenon DEF ArriveRt, Arrive
<1>3. requests' \in 0..MaxRequests
  BY <1>2, Standpoint
<1>4. known' \subseteq Names /\ IsFiniteSet(known') /\ Cardinality(known') <= Limit
      /\ open' \in [Names -> Nat] /\ got' \in Books
  BY <1>2, Standpoint
<1>5. \A j \in Targets, op \in Ops, n \in Names :
        /\ Carries(call[t], j, op, n) = 0 /\ Count(items, n) \in Nat
        /\ owed[j][<<op, n>>] \in Nat /\ got[j][<<op, n>>] \in Nat /\ open[n] \in Nat
  BY <1>1, <1>2, IdleCarriesNothing, CountType, Standpoint
<1>6. CASE kind = "rt_del"
  <2> DEFINE d == [Idle EXCEPT !.pc = "deliver", !.kind = kind, !.to = Order,
                               !.agg = [names |-> items, count |-> 1]]
  <2>1. call' = [call EXCEPT ![t] = d] /\ owed' = Plus(owed, Targets, "del", items, 1)
    BY <1>6, Zenon DEF ArriveRt
  <2>2. /\ d.pc = "deliver" /\ d.kind = "rt_del" /\ d.at = 0 /\ d.items = <<>> /\ d.to = Order
        /\ d.agg.names = items /\ d.agg.count = 1 /\ d.ok = TRUE /\ d.good = TRUE
    BY <1>6 DEF Idle
  <2>3. [names |-> items, count |-> 1] \in Parts
    <3>1. items \in Seq(Names) /\ Len(items) <= MaxItems /\ Len(items) \in Nat \ {0}
      BY <1>1, BoundedSequences DEF Lists
    <3>2. MaxItems \in Nat \ {0} /\ MaxRequests \in Nat \ {0}
      BY <1>2, <3>1, Standpoint
    <3>3. 1 \in 0..MaxSamples
      BY <3>2 DEF MaxSamples
    <3> QED
      BY <1>1, <3>3 DEF Parts
  <2>4. d \in Standing
    BY <1>6, <2>3, CallsMove, OrderFacts DEF Standing, Pcs, Kinds, RtKinds
  <2> HIDE DEF d
  <2>5. d \in Calls /\ CallFine(d) /\ d.at \in alive \cup {0}
    <3>1. d \in Moving
      BY <2>2, <2>4, CallsMove DEF Pcs, Kinds, RtKinds
    <3> QED
      BY <2>2, <3>1, CallsMove, OrderFacts DEF CallFine, RtKinds
  <2>6. Adds(owed', owed, Targets, "del", items, 1)
    <3>1. owed \in Ledgers /\ 1 \in Int /\ Targets \in SUBSET Targets /\ "del" \in Ops
      BY Standpoint DEF Ops
    <3>2. Adds(Plus(owed, Targets, "del", items, 1), owed, Targets, "del", items, 1)
      BY <1>1, <3>1, PlusEffect, Zenon
    <3> QED
      BY <2>1, <3>2
  <2>7. ASSUME NEW j \in Targets, NEW op \in Ops, NEW n \in Names
        PROVE  /\ owed'[j][<<op, n>>] = owed[j][<<op, n>>]
                    + (got'[j][<<op, n>>] - got[j][<<op, n>>])
                    + (IF op = "add" THEN open'[n] - open[n] ELSE 0)
                    + (Carries(d, j, op, n) - Carries(call[t], j, op, n))
               /\ owed'[j][<<op, n>>] >= 0
    <3>1. Carries(d, j, op, n) = IF op = "del" THEN Count(items, n) ELSE 0
      <4>1. Carries(d, j, op, n) =
              IF j \in ToSet(d.to) /\ OpOf(d.kind) = op THEN d.agg.count * Count(d.agg.names, n) ELSE 0
        BY <2>2, <2>5, CarriesOneWay
      <4>2. j \in ToSet(d.to) /\ OpOf(d.kind) = "del"
        BY <2>2, OrderFacts DEF OpOf
      <4>3. d.agg.count * Count(d.agg.names, n) = Count(items, n)
        <5>1. 1 * Count(items, n) = Count(items, n)
          BY <1>1, CountType
        <5> QED
          BY <2>2, <5>1, Zenon
      <4> QED
        BY <4>1, <4>2, <4>3, Zenon
    <3>2. owed'[j][<<op, n>>] = owed[j][<<op, n>>] + IF op = "del" THEN Count(items, n) ELSE 0
      BY <1>5, <2>6 DEF Adds
    <3> QED
      BY <1>2, <1>5, <3>1, <3>2
  <2> QED
    BY <1>2, <1>3, <1>4, <2>1, <2>5, <2>6, <2>7, CallStep DEF Adds
<1>7. CASE kind # "rt_del"
  <2> DEFINE d == [Idle EXCEPT !.pc = "rt", !.kind = kind, !.items = items]
  <2>1. call' = [call EXCEPT ![t] = d] /\ owed' = owed
    BY <1>7, Zenon DEF ArriveRt
  <2>2. /\ d.pc = "rt" /\ d.kind = kind /\ d.at = 0 /\ d.items = items /\ d.to = <<>>
        /\ d.ok = TRUE /\ d.good = TRUE
    BY DEF Idle
  <2>3. kind \in Kinds
    BY DEF Kinds
  <2>4. d \in Standing
    BY <1>1, <2>3, CallsMove DEF Standing, Pcs
  <2> HIDE DEF d
  <2>5. d \in Calls /\ CallFine(d) /\ d.at \in alive \cup {0}
    <3>1. d \in Moving
      BY <2>2, <2>3, <2>4, CallsMove DEF Pcs
    <3>2. OneEach(d.to)
      BY <2>2 DEF OneEach
    <3> QED
      BY <1>1, <1>7, <2>2, <3>1, <3>2, CallsMove DEF CallFine
  <2>6. \A j \in Targets, op \in Ops, n \in Names : Carries(d, j, op, n) = 0
    BY <2>2, <2>5, CarriesOneWay, TargetsAssumption DEF Targets
  <2>7. ASSUME NEW j \in Targets, NEW op \in Ops, NEW n \in Names
        PROVE  /\ owed'[j][<<op, n>>] = owed[j][<<op, n>>]
                    + (got'[j][<<op, n>>] - got[j][<<op, n>>])
                    + (IF op = "add" THEN open'[n] - open[n] ELSE 0)
                    + (Carries(d, j, op, n) - Carries(call[t], j, op, n))
               /\ owed'[j][<<op, n>>] >= 0
    <3>1. Carries(d, j, op, n) = 0 /\ Carries(call[t], j, op, n) = 0
      BY <1>5, <2>6
    <3> QED
      BY <1>2, <1>5, <2>1, <3>1
  <2>8. owed' \in Ledgers
    BY <2>1, Standpoint
  <2> QED
    BY <1>2, <1>3, <1>4, <2>1, <2>5, <2>7, <2>8, CallStep
<1> QED
  BY <1>6, <1>7

(* A package that cannot be unpacked is not owed any more.                 *)
LEMMA UnpackKeeps ==
  ASSUME RequestsInv, NEW t \in Threads, NEW success \in BOOLEAN, Unpack(t, success)
  PROVE  RequestsInv'
<1> DEFINE c == call[t]
<1>1. /\ c.pc = "unpack"
      /\ known' = known /\ open' = open /\ alive' = alive /\ got' = got /\ requests' = requests
  BY DEF Unpack
<1>2. /\ c \in Calls /\ c \in Moving /\ CallFine(c) /\ c.at \in alive
  BY <1>1, Standpoint DEF CallFine
<1>3. c.kind = "multi_push" /\ c.to = <<>> /\ c.items # <<>> /\ c.items \in Seq(Names)
  BY <1>1, <1>2, CallFields DEF CallFine
<1>4. known' \subseteq Names /\ IsFiniteSet(known') /\ Cardinality(known') <= Limit
      /\ open' \in [Names -> Nat] /\ got' \in Books /\ requests' \in 0..MaxRequests
      /\ owed \in Ledgers /\ c.at \in Targets
  BY <1>1, <1>2, Standpoint
<1>5. ASSUME NEW j \in Targets, NEW op \in Ops, NEW n \in Names
      PROVE  /\ owed[j][<<op, n>>] \in Nat /\ got[j][<<op, n>>] \in Nat /\ open[n] \in Nat
             /\ Count(c.items, n) \in Nat
             /\ Carries(c, j, op, n) = IF c.at = j /\ OpOf(c.kind) = op THEN Count(c.items, n) ELSE 0
  BY <1>2, <1>3, CarriesOneWay, CountType, Standpoint
<1>6. CASE success
  <2> DEFINE d == [c EXCEPT !.pc = "ag"]
  <2>1. call' = [call EXCEPT ![t] = d] /\ owed' = owed
    BY <1>6 DEF Unpack
  <2>2. /\ d.pc = "ag" /\ d.kind = c.kind /\ d.at = c.at /\ d.items = c.items /\ d.to = c.to
        /\ d.ok = c.ok /\ d.good = c.good /\ d \in Moving
    BY <1>2 DEF Moving, Pcs
  <2> HIDE DEF d, c
  <2>3. d \in Calls /\ CallFine(d) /\ d.at \in alive \cup {0}
    BY <1>1, <1>2, <1>3, <2>2, CallsMove DEF CallFine
  <2>4. ASSUME NEW j \in Targets, NEW op \in Ops, NEW n \in Names
        PROVE  /\ owed'[j][<<op, n>>] = owed[j][<<op, n>>]
                    + (got'[j][<<op, n>>] - got[j][<<op, n>>])
                    + (IF op = "add" THEN open'[n] - open[n] ELSE 0)
                    + (Carries(d, j, op, n) - Carries(c, j, op, n))
               /\ owed'[j][<<op, n>>] >= 0
    <3>1. Carries(d, j, op, n) = Carries(c, j, op, n) /\ Carries(c, j, op, n) \in Nat
      <4>1. Carries(d, j, op, n) = IF d.at = j /\ OpOf(d.kind) = op THEN Count(d.items, n) ELSE 0
        BY <1>3, <2>2, <2>3, CarriesOneWay
      <4> QED
        BY <1>2, <1>5, <2>2, <4>1, CarriesType
    <3> QED
      BY <1>1, <1>5, <2>1, <3>1
  <2> QED
    BY <1>1, <1>4, <2>1, <2>3, <2>4, CallStep DEF c
<1>7. CASE ~success
  <2> DEFINE d == [c EXCEPT !.pc = "answer", !.items = <<>>, !.ok = FALSE, !.good = FALSE]
  <2>1. call' = [call EXCEPT ![t] = d] /\ owed' = Plus(owed, {c.at}, "add", c.items, -1)
    BY <1>7 DEF Unpack
  <2>2. /\ d.pc = "answer" /\ d.kind = c.kind /\ d.at = c.at /\ d.items = <<>> /\ d.to = c.to
        /\ d.ok = FALSE /\ d.good = FALSE
    BY <1>2 DEF Moving
  <2>3. d \in Moving
    <3>1. <<>> \in Lists
      BY CallsMove, IdleCarriesNothing DEF Standing
    <3> QED
      BY <1>2, <3>1 DEF Moving, Pcs
  <2> HIDE DEF d, c
  <2>4. d \in Calls /\ CallFine(d) /\ d.at \in alive \cup {0}
    BY <1>1, <1>2, <1>3, <2>2, <2>3, CallsMove DEF CallFine
  <2>5. Adds(owed', owed, {c.at}, "add", c.items, -1)
    <3>1. PICK S \in SUBSET Targets : S = {c.at}
      BY <1>4
    <3>k. PICK k \in Int : k = -1
      OBVIOUS
    <3>2. "add" \in Ops
      BY DEF Ops
    <3>3. Adds(Plus(owed, S, "add", c.items, k), owed, S, "add", c.items, k)
      BY <1>3, <1>4, <3>2, PlusEffect, Zenon
    <3> QED
      BY <2>1, <3>1, <3>k, <3>3
  <2>6. ASSUME NEW j \in Targets, NEW op \in Ops, NEW n \in Names
        PROVE  /\ j \in alive => owed'[j][<<op, n>>] = owed[j][<<op, n>>]
                    + (got'[j][<<op, n>>] - got[j][<<op, n>>])
                    + (IF op = "add" THEN open'[n] - open[n] ELSE 0)
                    + (Carries(d, j, op, n) - Carries(c, j, op, n))
               /\ owed'[j][<<op, n>>] >= 0
    <3>1. Carries(d, j, op, n) = 0
      <4>1. Carries(d, j, op, n) = IF d.at = j /\ OpOf(d.kind) = op THEN Count(d.items, n) ELSE 0
        BY <1>3, <2>2, <2>4, CarriesOneWay
      <4> QED
        BY <2>2, <4>1, CountOfNothing
    <3>2. Carries(c, j, op, n) = IF c.at = j /\ op = "add" THEN Count(c.items, n) ELSE 0
      BY <1>3, <1>5 DEF OpOf
    <3>3. owed'[j][<<op, n>>] =
            owed[j][<<op, n>>] - IF c.at = j /\ op = "add" THEN Count(c.items, n) ELSE 0
      BY <1>5, <2>5 DEF Adds
    <3>4. Carries(c, j, op, n) <= owed[j][<<op, n>>]
      <4>1. CASE c.at = j
        BY <1>2, <4>1, OwedCoversCalls DEF c
      <4>2. CASE c.at # j
        BY <1>5, <3>2, <4>2
      <4> QED
        BY <4>1, <4>2
    <3> QED
      BY <1>1, <1>5, <3>1, <3>2, <3>3, <3>4
  <2> QED
    BY <1>1, <1>4, <2>1, <2>4, <2>5, <2>6, CallStep DEF Adds, c
<1> QED
  BY <1>6, <1>7

LEMMA StatusType ==
  ASSUME NEW c \in Moving, NEW success \in BOOLEAN
  PROVE  /\ Status(c, success) \in BOOLEAN
         /\ c.kind # "rt_multi_add" => Status(c, success) = (c.ok /\ success)
<1>1. c.ok \in BOOLEAN
  BY DEF Moving
<1> QED
  BY <1>1 DEF Status

LEMMA TailOfItems ==
  ASSUME NEW c \in Moving, c.items # <<>>
  PROVE  /\ c.items \in Seq(Names) /\ Tail(c.items) \in Lists /\ Head(c.items) \in Names
         /\ Len(c.items) = 1 <=> Tail(c.items) = <<>>
         /\ <<Head(c.items)>> \in Lists /\ <<Head(c.items)>> \in Seq(Names)
         /\ \A n : Count(c.items, n) = Count(<<Head(c.items)>>, n) + Count(Tail(c.items), n)
<1>1. c.items \in SeqOf(Names, MaxItems)
  BY DEF Moving, Lists
<1>2. /\ c.items \in Seq(Names) /\ Len(c.items) <= MaxItems /\ Tail(c.items) \in Lists
      /\ Head(c.items) \in Names
      /\ Len(c.items) = 1 <=> Tail(c.items) = <<>>
  BY <1>1, BoundedSequences, TailOfBounded DEF Lists
<1>3. MaxItems \in Nat \ {0}
  BY <1>2
<1>4. <<Head(c.items)>> \in Lists /\ <<Head(c.items)>> \in Seq(Names)
  BY <1>2, <1>3, OneBounded DEF Lists
<1>5. \A n : Count(c.items, n) = Count(<<Head(c.items)>>, n) + Count(Tail(c.items), n)
  BY <1>2, CountOfTail
<1> QED
  BY <1>2, <1>3, <1>4, <1>5

(* A shard is called with the first part, which the call carries no more.  *)
LEMMA AgItemKeeps ==
  ASSUME RequestsInv, NEW t \in Threads, NEW success \in BOOLEAN, AgItem(t, success)
  PROVE  RequestsInv'
<1> DEFINE c == call[t]
           d == [c EXCEPT !.items = Tail(@),
                          !.pc = IF Len(c.items) = 1 THEN "answer" ELSE "ag",
                          !.ok = Status(c, success), !.good = @ /\ success]
<1>1. /\ c.pc = "ag" /\ call' = [call EXCEPT ![t] = d]
      /\ got' = Plus(got, {c.at}, OpOf(c.kind), <<Head(c.items)>>, 1)
      /\ known' = known /\ open' = open /\ alive' = alive /\ owed' = owed /\ requests' = requests
  BY Zenon DEF AgItem
<1>2. /\ c \in Calls /\ c \in Moving /\ CallFine(c) /\ c.at \in alive /\ c.at \in Targets
  BY <1>1, Standpoint DEF CallFine
<1>3. /\ c.to = <<>> /\ c.items # <<>> /\ c.at # 0
      /\ c.kind # "rt_multi_add" => c.ok = c.good
  BY <1>1, <1>2 DEF CallFine
<1>4. /\ Tail(c.items) \in Lists /\ <<Head(c.items)>> \in Seq(Names)
      /\ Len(c.items) = 1 <=> Tail(c.items) = <<>>
      /\ \A n : Count(c.items, n) = Count(<<Head(c.items)>>, n) + Count(Tail(c.items), n)
  BY <1>2, <1>3, TailOfItems
<1>5. /\ d.pc \in {"answer", "ag"}
      /\ d.pc = "answer" <=> Tail(c.items) = <<>>
      /\ d.kind = c.kind /\ d.at = c.at /\ d.items = Tail(c.items) /\ d.to = c.to
      /\ d.ok = Status(c, success) /\ d.good = (c.good /\ success)
  BY <1>2, <1>4 DEF Moving
<1>6. d \in Moving
  <2>1. Status(c, success) \in BOOLEAN /\ (c.good /\ success) \in BOOLEAN
    BY <1>2, StatusType
  <2> QED
    BY <1>2, <1>4, <2>1 DEF Moving, Pcs
<1> HIDE DEF c, d
<1>7. d \in Calls /\ CallFine(d) /\ d.at \in alive \cup {0}
  <2>1. c.kind # "rt_multi_add" => Status(c, success) = (c.ok /\ success)
    BY <1>2, StatusType
  <2> QED
    BY <1>2, <1>3, <1>5, <1>6, <2>1, CallsMove DEF CallFine
<1>8. Adds(got', got, {c.at}, OpOf(c.kind), <<Head(c.items)>>, 1)
  <2>1. PICK S \in SUBSET Targets : S = {c.at}
    BY <1>2
  <2>2. got \in Ledgers /\ 1 \in Int /\ OpOf(c.kind) \in Ops
    BY Standpoint DEF OpOf, Ops
  <2>3. Adds(Plus(got, S, OpOf(c.kind), <<Head(c.items)>>, 1), got, S, OpOf(c.kind), <<Head(c.items)>>, 1)
    BY <1>4, <2>2, PlusEffect, Zenon
  <2> QED
    BY <1>1, <2>1, <2>3
<1>9. got' \in Books
  <2>1. PICK S \in SUBSET Targets : S = {c.at}
    BY <1>2
  <2>2. got \in Books /\ 1 \in Nat /\ OpOf(c.kind) \in Ops
    BY Standpoint DEF OpOf, Ops
  <2>3. Adds(got', got, S, OpOf(c.kind), <<Head(c.items)>>, 1)
    BY <1>8, <2>1
  <2> QED
    BY <1>4, <2>2, <2>3, AddsKeepsBooks, Zenon
<1>10. ASSUME NEW j \in Targets, NEW op \in Ops, NEW n \in Names
       PROVE  /\ owed'[j][<<op, n>>] = owed[j][<<op, n>>]
                    + (got'[j][<<op, n>>] - got[j][<<op, n>>])
                    + (IF op = "add" THEN open'[n] - open[n] ELSE 0)
                    + (Carries(d, j, op, n) - Carries(c, j, op, n))
              /\ owed'[j][<<op, n>>] >= 0
  <2>1. /\ Carries(c, j, op, n) = IF c.at = j /\ OpOf(c.kind) = op THEN Count(c.items, n) ELSE 0
        /\ Carries(d, j, op, n) = IF d.at = j /\ OpOf(d.kind) = op THEN Count(d.items, n) ELSE 0
    BY <1>2, <1>3, <1>5, <1>7, CarriesOneWay
  <2>2. /\ Count(c.items, n) = Count(<<Head(c.items)>>, n) + Count(Tail(c.items), n)
        /\ Count(<<Head(c.items)>>, n) \in Nat /\ Count(Tail(c.items), n) \in Nat
    BY <1>4, CountType, BoundedSequences DEF Lists
  <2>3. owed[j][<<op, n>>] \in Nat /\ got[j][<<op, n>>] \in Nat /\ open[n] \in Nat
    BY Standpoint
  <2>4. got'[j][<<op, n>>] = got[j][<<op, n>>]
          + IF c.at = j /\ OpOf(c.kind) = op THEN Count(<<Head(c.items)>>, n) ELSE 0
    BY <1>8, <2>2, <2>3 DEF Adds
  <2> QED
    BY <1>1, <1>5, <2>1, <2>2, <2>3, <2>4
<1>11. known' \subseteq Names /\ IsFiniteSet(known') /\ Cardinality(known') <= Limit
       /\ open' \in [Names -> Nat] /\ requests' \in 0..MaxRequests /\ owed' \in Ledgers
  BY <1>1, Standpoint
<1> QED
  BY <1>1, <1>7, <1>9, <1>10, <1>11, CallStep DEF c

(* A sample refused is carried no more, and never was owed.                *)
LEMMA RefuseKeeps ==
  ASSUME RequestsInv, NEW t \in Threads, Refuse(t)
  PROVE  RequestsInv'
<1> DEFINE c == call[t]
           d == [c EXCEPT !.items = Tail(@), !.pc = After(Tail(c.items)),
                          !.ok = Status(c, FALSE), !.good = FALSE]
<1>1. /\ c.pc = "rt" /\ call' = [call EXCEPT ![t] = d] /\ got' = got
      /\ known' = known /\ open' = open /\ alive' = alive /\ owed' = owed /\ requests' = requests
  BY Zenon DEF Refuse, shards
<1>2. /\ c \in Calls /\ c \in Moving /\ CallFine(c) /\ c.at = 0 /\ c.to = <<>> /\ c.items # <<>>
      /\ c.kind \in RtKinds /\ c.kind # "rt_del"
  BY <1>1, Standpoint DEF CallFine
<1>3. Tail(c.items) \in Lists
  BY <1>2, TailOfItems
<1>4. /\ d.pc = After(Tail(c.items))
      /\ d.kind = c.kind /\ d.at = c.at /\ d.items = Tail(c.items) /\ d.to = c.to
      /\ d.ok = Status(c, FALSE) /\ d.good = FALSE
  BY <1>2 DEF Moving
<1>5. d \in Moving
  <2>1. Status(c, FALSE) \in BOOLEAN /\ FALSE \in BOOLEAN /\ After(Tail(c.items)) \in Pcs
    BY <1>2, StatusType DEF After, Pcs
  <2> QED
    BY <1>2, <1>3, <2>1 DEF Moving
<1> HIDE DEF c, d
<1>6. d \in Calls /\ CallFine(d) /\ d.at \in alive \cup {0}
  <2>1. c.kind # "rt_multi_add" => Status(c, FALSE) = FALSE
    BY <1>2, StatusType
  <2> QED
    BY <1>2, <1>4, <1>5, <2>1, CallsMove DEF CallFine, After
<1>7. ASSUME NEW j \in Targets, NEW op \in Ops, NEW n \in Names
      PROVE  /\ owed'[j][<<op, n>>] = owed[j][<<op, n>>]
                    + (got'[j][<<op, n>>] - got[j][<<op, n>>])
                    + (IF op = "add" THEN open'[n] - open[n] ELSE 0)
                    + (Carries(d, j, op, n) - Carries(c, j, op, n))
             /\ owed'[j][<<op, n>>] >= 0
  <2>1. Carries(c, j, op, n) = 0 /\ Carries(d, j, op, n) = 0
    BY <1>2, <1>4, <1>6, CarriesOneWay, TargetsAssumption DEF Targets
  <2>2. owed[j][<<op, n>>] \in Nat /\ got[j][<<op, n>>] \in Nat /\ open[n] \in Nat
    BY Standpoint
  <2> QED
    BY <1>1, <2>1, <2>2
<1>8. known' \subseteq Names /\ IsFiniteSet(known') /\ Cardinality(known') <= Limit
      /\ open' \in [Names -> Nat] /\ requests' \in 0..MaxRequests
      /\ owed' \in Ledgers /\ got' \in Books
  BY <1>1, Standpoint
<1> QED
  BY <1>1, <1>6, <1>7, <1>8, CallStep DEF c

LEMMA AnswerKeeps ==
  ASSUME RequestsInv, NEW t \in Threads, Answer(t)
  PROVE  RequestsInv'
<1> DEFINE c == call[t]
<1>1. /\ c.pc = "answer" /\ call' = [call EXCEPT ![t] = Idle] /\ got' = got
      /\ known' = known /\ open' = open /\ alive' = alive /\ owed' = owed /\ requests' = requests
  BY Zenon DEF Answer, shards
<1>2. /\ c \in Calls /\ CallFine(c) /\ c.to = <<>> /\ c.items = <<>>
  BY <1>1, Standpoint DEF CallFine
<1>3. Idle \in Calls /\ CallFine(Idle) /\ Idle.at \in alive \cup {0}
  <2>1. OneEach(<<>>)
    BY DEF OneEach
  <2> QED
    BY <2>1, CallsMove, IdleCarriesNothing DEF CallFine
<1> HIDE DEF c
<1>4. ASSUME NEW j \in Targets, NEW op \in Ops, NEW n \in Names
      PROVE  /\ owed'[j][<<op, n>>] = owed[j][<<op, n>>]
                    + (got'[j][<<op, n>>] - got[j][<<op, n>>])
                    + (IF op = "add" THEN open'[n] - open[n] ELSE 0)
                    + (Carries(Idle, j, op, n) - Carries(c, j, op, n))
             /\ owed'[j][<<op, n>>] >= 0
  <2>1. Carries(c, j, op, n) = IF c.at = j /\ OpOf(c.kind) = op THEN Count(c.items, n) ELSE 0
    BY <1>2, CarriesOneWay
  <2>2. Carries(c, j, op, n) = 0 /\ Carries(Idle, j, op, n) = 0
    BY <1>2, <2>1, CountOfNothing, IdleCarriesNothing
  <2>3. owed[j][<<op, n>>] \in Nat /\ got[j][<<op, n>>] \in Nat /\ open[n] \in Nat
    BY Standpoint
  <2> QED
    BY <1>1, <2>2, <2>3
<1>5. known' \subseteq Names /\ IsFiniteSet(known') /\ Cardinality(known') <= Limit
      /\ open' \in [Names -> Nat] /\ requests' \in 0..MaxRequests
      /\ owed' \in Ledgers /\ got' \in Books
  BY <1>1, Standpoint
<1> QED
  BY <1>1, <1>3, <1>4, <1>5, CallStep DEF c

(* No call is at an instance that goes.                                    *)
LEMMA VanishKeeps ==
  ASSUME RequestsInv, NEW i \in Targets, Vanish(i)
  PROVE  RequestsInv'
<1>1. /\ \A t \in Threads : call[t].at # i
      /\ alive' = alive \ {i} /\ call' = call /\ got' = got
      /\ known' = known /\ open' = open /\ owed' = owed /\ requests' = requests
  BY DEF Vanish, shards
<1>2. TypeOK' /\ IsFiniteSet(known')
  BY <1>1 DEF RequestsInv, TypeOK
<1>3. CalledLive'
  BY <1>1 DEF RequestsInv, CalledLive
<1>4. EachComesOnce'
  <2>1. EachComesOnce' <=> \A j \in alive', op \in Ops, n \in Names :
          owed'[j][<<op, n>>] = got'[j][<<op, n>>] + (IF op = "add" THEN open'[n] ELSE 0)
                              + OnTheWay(call', j, op, n)
    BY DEF EachComesOnce, OnTheWay, Carries, UnderWay
  <2>2. ASSUME NEW j \in alive', NEW op \in Ops, NEW n \in Names
        PROVE  owed[j][<<op, n>>] = got[j][<<op, n>>] + (IF op = "add" THEN open[n] ELSE 0)
                                  + OnTheWay(call, j, op, n)
    BY <1>1, EachInShort DEF RequestsInv
  <2> QED
    BY <1>1, <2>1, <2>2
<1> QED
  BY <1>2, <1>3, <1>4 DEF RequestsInv

(* A sample accepted is owed to every target; the window holds it, or the  *)
(* call carries it.                                                        *)
LEMMA AcceptKeeps ==
  ASSUME RequestsInv, NEW t \in Threads, NEW out \in 0..MaxSamples, NEW left \in 0..MaxSamples,
         Accept(t, out, left)
  PROVE  RequestsInv'
<1> DEFINE c == call[t]
           n == Head(c.items)
           d == [c EXCEPT !.items = Tail(@),
                          !.pc = IF out > 0 THEN "deliver" ELSE After(Tail(c.items)),
                          !.agg = [names |-> <<n>>, count |-> out],
                          !.to = IF out > 0 THEN Order ELSE <<>>,
                          !.ok = Status(c, TRUE)]
<1>1. /\ c.pc = "rt" /\ call' = [call EXCEPT ![t] = d] /\ got' = got
      /\ n \in known \/ Room
      /\ known' = known \cup {n} /\ open' = [open EXCEPT ![n] = left]
      /\ owed' = Plus(owed, Targets, "add", <<n>>, 1)
      /\ alive' = alive /\ requests' = requests
  BY Zenon DEF Accept
<1>2. <<out, left>> \in
        {<<0, open[n] + 1>>} \cup (IF open[n] > 0 THEN {<<open[n], 1>>, <<1, open[n]>>} ELSE {})
  BY Zenon DEF Accept
<1>3. /\ c \in Calls /\ c \in Moving /\ CallFine(c) /\ c.at = 0 /\ c.to = <<>> /\ c.items # <<>>
      /\ c.kind \in {"rt_push", "rt_multi_add"} /\ OpOf(c.kind) = "add"
  <2>1. c \in Calls /\ c \in Moving /\ CallFine(c)
    BY <1>1, Standpoint
  <2>2. /\ c.at = 0 /\ c.to = <<>> /\ c.items # <<>>
        /\ c.kind \in RtKinds /\ c.kind # "rt_del"
    BY <1>1, <2>1 DEF CallFine
  <2> QED
    BY <2>1, <2>2 DEF RtKinds, OpOf
<1>4. /\ Tail(c.items) \in Lists /\ n \in Names /\ <<n>> \in Lists /\ <<n>> \in Seq(Names)
  BY <1>3, TailOfItems
<1>5. /\ d.pc = IF out > 0 THEN "deliver" ELSE After(Tail(c.items))
      /\ d.kind = c.kind /\ d.at = c.at /\ d.items = Tail(c.items)
      /\ d.to = IF out > 0 THEN Order ELSE <<>>
      /\ d.agg = [names |-> <<n>>, count |-> out]
      /\ d.ok = Status(c, TRUE) /\ d.good = c.good
  BY <1>3 DEF Moving
<1>6. d \in Moving
  <2>1. Status(c, TRUE) \in BOOLEAN
    BY <1>3, StatusType
  <2>2. (IF out > 0 THEN "deliver" ELSE After(Tail(c.items))) \in Pcs
    BY DEF After, Pcs
  <2>3. (IF out > 0 THEN Order ELSE <<>>) \in Routes
    BY OrderFacts, CallsMove, IdleCarriesNothing DEF Standing
  <2>4. [names |-> <<n>>, count |-> out] \in Parts
    BY <1>4 DEF Parts
  <2> QED
    BY <1>3, <1>4, <2>1, <2>2, <2>3, <2>4 DEF Moving
<1>7. open[n] \in Nat /\ out \in Nat /\ left \in Nat /\ out + left = open[n] + 1
  <2>1. open[n] \in Nat
    BY <1>4, Standpoint
  <2>2. out \in Nat /\ left \in Nat
    BY DEF MaxSamples
  <2> QED
    BY <1>2, <2>1, <2>2
<1>8. known' \subseteq Names /\ IsFiniteSet(known') /\ Cardinality(known') <= Limit
  <2>1. known \subseteq Names /\ IsFiniteSet(known) /\ Cardinality(known) <= Limit
    BY Standpoint
  <2>2. Cardinality(known) \in Nat
    BY <2>1, FS_CardinalityType
  <2>3. /\ IsFiniteSet(known \cup {n})
        /\ Cardinality(known \cup {n}) = IF n \in known THEN Cardinality(known) ELSE Cardinality(known) + 1
    BY <2>1, FS_AddElement
  <2> QED
    BY <1>1, <1>4, <2>1, <2>2, <2>3 DEF Room
<1> HIDE DEF c, n, d
<1>9. d \in Calls /\ CallFine(d) /\ d.at \in alive \cup {0}
  <2>1. c.kind # "rt_multi_add" => Status(c, TRUE) = c.good
    BY <1>3, StatusType DEF CallFine, Moving
  <2>2. OneEach(d.to) /\ (d.to # <<>> <=> out > 0)
    BY <1>5, OrderFacts DEF OneEach
  <2>3. c.kind \in RtKinds /\ c.kind # "rt_del"
    BY <1>3 DEF RtKinds
  <2> QED
    BY <1>3, <1>5, <1>6, <2>1, <2>2, <2>3, CallsMove DEF CallFine, After
<1>10. Adds(owed', owed, Targets, "add", <<n>>, 1)
  <2>1. owed \in Ledgers /\ 1 \in Int /\ Targets \in SUBSET Targets /\ "add" \in Ops
    BY Standpoint DEF Ops
  <2>2. Adds(Plus(owed, Targets, "add", <<n>>, 1), owed, Targets, "add", <<n>>, 1)
    BY <1>4, <2>1, PlusEffect, Zenon
  <2> QED
    BY <1>1, <2>2
<1>11. open' \in [Names -> Nat]
  BY <1>1, <1>4, <1>7, Standpoint
<1>12. ASSUME NEW j \in Targets, NEW op \in Ops, NEW m \in Names
       PROVE  /\ owed'[j][<<op, m>>] = owed[j][<<op, m>>]
                    + (got'[j][<<op, m>>] - got[j][<<op, m>>])
                    + (IF op = "add" THEN open'[m] - open[m] ELSE 0)
                    + (Carries(d, j, op, m) - Carries(c, j, op, m))
              /\ owed'[j][<<op, m>>] >= 0
  <2>1. Carries(c, j, op, m) = 0
    BY <1>3, CarriesOneWay, TargetsAssumption DEF Targets
  <2>2. Count(<<n>>, m) = IF n = m THEN 1 ELSE 0
    BY CountOfOne
  <2>3. Carries(d, j, op, m) = IF op = "add" /\ n = m THEN out ELSE 0
    <3>1. Carries(d, j, op, m) =
            IF j \in ToSet(d.to) /\ OpOf(d.kind) = op THEN d.agg.count * Count(d.agg.names, m) ELSE 0
      BY <1>3, <1>5, <1>9, CarriesOneWay
    <3>2. d.agg.count = out /\ d.agg.names = <<n>> /\ OpOf(d.kind) = "add"
      BY <1>3, <1>5
    <3>3. out * Count(<<n>>, m) = IF n = m THEN out ELSE 0
      BY <1>7, <2>2
    <3>4. j \in ToSet(d.to) <=> out > 0
      BY <1>5, OrderFacts DEF ToSet
    <3> QED
      BY <1>7, <3>1, <3>2, <3>3, <3>4
  <2>4. owed[j][<<op, m>>] \in Nat /\ got[j][<<op, m>>] \in Nat /\ open[m] \in Nat
    BY Standpoint
  <2>5. owed'[j][<<op, m>>] = owed[j][<<op, m>>] + IF op = "add" /\ n = m THEN 1 ELSE 0
    BY <1>10, <2>2, <2>4 DEF Adds
  <2>6. open'[m] = IF n = m THEN left ELSE open[m]
    BY <1>1, <1>4, Standpoint
  <2> QED
    BY <1>1, <1>7, <2>1, <2>3, <2>4, <2>5, <2>6
<1>13. requests' \in 0..MaxRequests /\ owed' \in Ledgers /\ got' \in Books
  BY <1>1, <1>10, Standpoint DEF Adds
<1>14. call' = [call EXCEPT ![t] = d] /\ alive' = alive
  BY <1>1
<1> QED
  BY <1>8, <1>9, <1>11, <1>12, <1>13, <1>14, CallStep DEF c

LEMMA RouteTail ==
  ASSUME NEW s \in Routes, s # <<>>, OneEach(s)
  PROVE  /\ Head(s) \in Targets /\ Tail(s) \in Routes /\ OneEach(Tail(s))
         /\ Len(s) > 1 <=> Tail(s) # <<>>
         /\ \A i \in Targets : i \in ToSet(s) <=> i = Head(s) \/ i \in ToSet(Tail(s))
         /\ Head(s) \notin ToSet(Tail(s))
<1>1. /\ Head(s) \in Targets /\ Tail(s) \in Routes /\ (Len(s) > 1 <=> Tail(s) # <<>>)
      /\ s \in Seq(Targets)
  BY TailOfBounded, BoundedSequences, TargetsAssumption DEF Routes
<1>2. /\ DOMAIN s = 1..Len(s) /\ Len(s) \in Nat \ {0} /\ Head(s) = s[1]
      /\ DOMAIN Tail(s) = 1..(Len(s) - 1) /\ \A j \in DOMAIN Tail(s) : Tail(s)[j] = s[j + 1]
  BY <1>1
<1>3. OneEach(Tail(s))
  BY <1>2 DEF OneEach
<1>4. Head(s) \notin ToSet(Tail(s))
  BY <1>2 DEF OneEach, ToSet
<1>5. ASSUME NEW i \in ToSet(s), i # Head(s) PROVE i \in ToSet(Tail(s))
  <2>1. PICK j \in DOMAIN s : s[j] = i
    BY DEF ToSet
  <2>2. j - 1 \in DOMAIN Tail(s) /\ Tail(s)[j - 1] = i
    BY <1>2, <1>5, <2>1
  <2> QED
    BY <2>2 DEF ToSet
<1>6. Head(s) \in ToSet(s)
  BY <1>2 DEF ToSet
<1>7. ASSUME NEW i \in ToSet(Tail(s)) PROVE i \in ToSet(s)
  <2>1. PICK j \in DOMAIN Tail(s) : Tail(s)[j] = i
    BY DEF ToSet
  <2>2. j + 1 \in DOMAIN s /\ s[j + 1] = i
    BY <1>2, <2>1
  <2> QED
    BY <2>2 DEF ToSet
<1> QED
  BY <1>1, <1>3, <1>4, <1>5, <1>6, <1>7

(* The next target gets what the call carries for it, and the call carries *)
(* it for the others as before.                                            *)
LEMMA DeliverKeeps ==
  ASSUME RequestsInv, NEW t \in Threads, Deliver(t)
  PROVE  RequestsInv'
<1> DEFINE c == call[t]
           i == Head(c.to)
           d == IF Len(c.to) > 1 THEN [c EXCEPT !.to = Tail(@)]
                ELSE IF c.kind = "rt_del" THEN Idle
                ELSE [c EXCEPT !.to = <<>>, !.agg = Idle.agg, !.pc = After(c.items)]
<1>1. /\ c.pc = "deliver" /\ call' = [call EXCEPT ![t] = d]
      /\ got' = Plus(got, {i} \cap alive, OpOf(c.kind), c.agg.names, c.agg.count)
      /\ known' = known /\ open' = open /\ alive' = alive /\ owed' = owed /\ requests' = requests
  BY Zenon DEF Deliver
<1>2. /\ c \in Calls /\ c \in Moving /\ CallFine(c) /\ c.at = 0 /\ c.to # <<>> /\ OneEach(c.to)
      /\ c.kind \in RtKinds /\ c.to \in Routes
      /\ c.agg.names \in Seq(Names) /\ c.agg.count \in Nat
  <2>1. c \in Calls /\ c \in Moving /\ CallFine(c)
    BY <1>1, Standpoint
  <2> QED
    BY <1>1, <2>1, CallFields DEF CallFine, Moving
<1>3. /\ i \in Targets /\ Tail(c.to) \in Routes /\ OneEach(Tail(c.to))
      /\ Len(c.to) > 1 <=> Tail(c.to) # <<>>
      /\ \A j \in Targets : j \in ToSet(c.to) <=> j = i \/ j \in ToSet(Tail(c.to))
      /\ i \notin ToSet(Tail(c.to))
  BY <1>2, RouteTail
<1>4. /\ d \in Calls /\ CallFine(d) /\ d.at = 0
      /\ \A j \in Targets, op \in Ops, n \in Names : Carries(d, j, op, n) =
           IF j \in ToSet(Tail(c.to)) /\ OpOf(c.kind) = op THEN c.agg.count * Count(c.agg.names, n) ELSE 0
  <2>1. CASE Len(c.to) > 1
    <3>1. d = [c EXCEPT !.to = Tail(@)]
      BY <2>1
    <3>2. /\ d.pc = "deliver" /\ d.kind = c.kind /\ d.at = 0 /\ d.items = c.items
          /\ d.to = Tail(c.to) /\ d.agg = c.agg /\ d.ok = c.ok /\ d.good = c.good /\ d \in Moving
      BY <1>1, <1>2, <1>3, <3>1 DEF Moving
    <3> HIDE DEF c, d
    <3>3. d \in Calls /\ CallFine(d)
      BY <1>1, <1>2, <1>3, <2>1, <3>2, CallsMove DEF CallFine
    <3> QED
      BY <3>2, <3>3, CarriesOneWay
  <2>2. CASE Len(c.to) <= 1
    <3>1. Tail(c.to) = <<>> /\ ToSet(Tail(c.to)) = {} /\ ~(Len(c.to) > 1)
      <4>1. Len(c.to) \in Nat
        BY <1>2, BoundedSequences, TargetsAssumption DEF Routes
      <4>2. Tail(c.to) = <<>>
        BY <1>3, <2>2, <4>1
      <4> QED
        BY <2>2, <4>1, <4>2 DEF ToSet
    <3>2. CASE c.kind = "rt_del"
      <4>1. d = Idle
        BY <3>1, <3>2
      <4>2. OneEach(<<>>)
        BY DEF OneEach
      <4> HIDE DEF c, d
      <4> QED
        BY <3>1, <4>1, <4>2, CallsMove, IdleCarriesNothing DEF CallFine
    <3>3. CASE c.kind # "rt_del"
      <4>1. d = [c EXCEPT !.to = <<>>, !.agg = Idle.agg, !.pc = After(c.items)]
        BY <3>1, <3>3
      <4>2. Idle.agg \in Parts /\ <<>> \in Routes /\ After(c.items) \in Pcs
        BY CallsMove, IdleCarriesNothing DEF Standing, After, Pcs
      <4>3. /\ d.pc = After(c.items) /\ d.kind = c.kind /\ d.at = 0 /\ d.items = c.items
            /\ d.to = <<>> /\ d.ok = c.ok /\ d.good = c.good /\ d \in Moving
        BY <1>2, <4>1, <4>2 DEF Moving
      <4>4. OneEach(<<>>)
        BY DEF OneEach
      <4> HIDE DEF c, d
      <4>5. d \in Calls /\ CallFine(d)
        BY <1>1, <1>2, <3>3, <4>3, <4>4, CallsMove DEF CallFine, After
      <4>6. \A j \in Targets, op \in Ops, n \in Names : Carries(d, j, op, n) = 0
        BY <4>3, <4>5, CarriesOneWay, TargetsAssumption DEF Targets
      <4> QED
        BY <3>1, <4>3, <4>5, <4>6
    <3> QED
      BY <3>2, <3>3
  <2>3. Len(c.to) > 1 \/ Len(c.to) <= 1
    BY <1>2, BoundedSequences, TargetsAssumption DEF Routes
  <2> QED
    BY <2>1, <2>2, <2>3
<1> HIDE DEF c, i, d
<1>5. Adds(got', got, {i} \cap alive, OpOf(c.kind), c.agg.names, c.agg.count)
      /\ got' \in Books
  <2>1. PICK S \in SUBSET Targets : S = {i} \cap alive
    BY <1>3
  <2>2. got \in Ledgers /\ got \in Books /\ c.agg.count \in Int /\ OpOf(c.kind) \in Ops
    BY <1>2, Standpoint DEF OpOf, Ops
  <2>3. Adds(Plus(got, S, OpOf(c.kind), c.agg.names, c.agg.count),
             got, S, OpOf(c.kind), c.agg.names, c.agg.count)
    BY <1>2, <2>2, PlusEffect, Zenon
  <2>4. Adds(got', got, S, OpOf(c.kind), c.agg.names, c.agg.count)
    BY <1>1, <2>1, <2>3
  <2>5. got' \in Books
    BY <1>2, <2>2, <2>4, AddsKeepsBooks, Zenon
  <2> QED
    BY <2>1, <2>4, <2>5
<1>6. ASSUME NEW j \in Targets, NEW op \in Ops, NEW n \in Names
      PROVE  /\ j \in alive => owed'[j][<<op, n>>] = owed[j][<<op, n>>]
                    + (got'[j][<<op, n>>] - got[j][<<op, n>>])
                    + (IF op = "add" THEN open'[n] - open[n] ELSE 0)
                    + (Carries(d, j, op, n) - Carries(c, j, op, n))
             /\ owed'[j][<<op, n>>] >= 0
  <2> DEFINE k == c.agg.count * Count(c.agg.names, n)
  <2>1. k \in Nat
    <3>1. Count(c.agg.names, n) \in Nat
      BY <1>2, CountType
    <3> QED
      BY <1>2, <3>1
  <2>2. Carries(c, j, op, n) = IF j \in ToSet(c.to) /\ OpOf(c.kind) = op THEN k ELSE 0
    BY <1>2, CarriesOneWay
  <2>3. Carries(d, j, op, n) = IF j \in ToSet(Tail(c.to)) /\ OpOf(c.kind) = op THEN k ELSE 0
    BY <1>4
  <2>4. owed[j][<<op, n>>] \in Nat /\ got[j][<<op, n>>] \in Nat /\ open[n] \in Nat
    BY Standpoint
  <2>5. got'[j][<<op, n>>] =
          got[j][<<op, n>>] + IF j \in {i} \cap alive /\ OpOf(c.kind) = op THEN k ELSE 0
    BY <1>5, <2>1, <2>4 DEF Adds
  <2>6. /\ j \in ToSet(c.to) <=> j = i \/ j \in ToSet(Tail(c.to))
        /\ j = i => j \notin ToSet(Tail(c.to))
    BY <1>3
  <2> HIDE DEF k
  <2> QED
    BY <1>1, <2>1, <2>2, <2>3, <2>4, <2>5, <2>6
<1>7. known' \subseteq Names /\ IsFiniteSet(known') /\ Cardinality(known') <= Limit
      /\ open' \in [Names -> Nat] /\ requests' \in 0..MaxRequests /\ owed' \in Ledgers
  BY <1>1, Standpoint
<1>8. call' = [call EXCEPT ![t] = d] /\ alive' = alive
  BY <1>1
<1> QED
  BY <1>4, <1>5, <1>6, <1>7, <1>8, CallStep DEF c

-----------------------------------------------------------------------------
LEMMA InitRequestsInv == Init => RequestsInv
<1> SUFFICES ASSUME Init PROVE RequestsInv
  OBVIOUS
<1>1. /\ Idle \in Calls /\ CallFine(Idle) /\ Idle.at = 0
  <2>1. OneEach(<<>>)
    BY DEF OneEach
  <2> QED
    BY <2>1, CallsMove, IdleCarriesNothing DEF CallFine
<1>2. Nothing \in Books
  BY DEF Nothing, Books
<1>3. TypeOK /\ IsFiniteSet(known)
  <2>1. known \subseteq Names /\ IsFiniteSet(known) /\ Cardinality(known) <= Limit
    <3>1. known = {} /\ Cardinality({}) = 0 /\ IsFiniteSet({})
      BY FS_EmptySet DEF Init
    <3> QED
      BY <3>1
  <2>2. open \in [Names -> Nat] /\ alive \subseteq Targets /\ requests \in 0..MaxRequests
    BY DEF Init
  <2>3. call \in [Threads -> Calls]
    BY <1>1 DEF Init
  <2>4. got \in Books /\ owed \in Books
    BY <1>2 DEF Init
  <2>5. \A f \in {got, owed} : f \in [Targets -> [Ops \X Names -> Nat]]
    BY <2>4 DEF Books
  <2> QED
    BY <2>1, <2>2, <2>3, <2>5 DEF TypeOK
<1>4. CalledLive
  BY <1>1 DEF Init, CalledLive
<1>5. EachComesOnce
  <2>1. ASSUME NEW i \in alive, NEW op \in Ops, NEW n \in Names
        PROVE  owed[i][<<op, n>>] = got[i][<<op, n>>] + (IF op = "add" THEN open[n] ELSE 0)
                                  + OnTheWay(call, i, op, n)
    <3> DEFINE f == [t \in Threads |-> Carries(call[t], i, op, n)]
    <3>1. i \in Targets
      BY DEF Init
    <3>2. f \in [Threads -> Int] /\ \A t \in Threads : f[t] = 0
      BY <3>1, IdleCarriesNothing DEF Init
    <3>3. SumFunction(f) = 0
      <4> HIDE DEF f
      <4> QED
        BY <3>2, SumOfNothing, Zenon
    <3>4. OnTheWay(call, i, op, n) = 0
      BY <3>3 DEF OnTheWay
    <3>5. owed[i][<<op, n>>] = 0 /\ got[i][<<op, n>>] = 0 /\ open[n] = 0
      BY <3>1 DEF Init, Nothing
    <3> QED
      BY <3>4, <3>5
  <2> QED
    BY <2>1, EachInShort
<1> QED
  BY <1>3, <1>4, <1>5 DEF RequestsInv

LEMMA NextKeepsRequestsInv == RequestsInv /\ [Next]_vars => RequestsInv'
<1> SUFFICES ASSUME RequestsInv, [Next]_vars PROVE RequestsInv'
  OBVIOUS
<1>1. ASSUME NEW t \in Threads, NEW kind \in AgKinds, NEW i \in Targets, NEW items \in Packages,
             ArriveAg(t, kind, i, items)
      PROVE  RequestsInv'
  BY <1>1, ArriveAgKeeps
<1>2. ASSUME NEW t \in Threads, NEW kind \in RtKinds, NEW items \in Packages,
             ArriveRt(t, kind, items)
      PROVE  RequestsInv'
  BY <1>2, ArriveRtKeeps
<1>3. ASSUME NEW t \in Threads, NEW success \in BOOLEAN, Unpack(t, success)
      PROVE  RequestsInv'
  BY <1>3, UnpackKeeps
<1>4. ASSUME NEW t \in Threads, NEW success \in BOOLEAN, AgItem(t, success)
      PROVE  RequestsInv'
  BY <1>4, AgItemKeeps
<1>5. ASSUME NEW t \in Threads, Refuse(t) PROVE RequestsInv'
  BY <1>5, RefuseKeeps
<1>6. ASSUME NEW t \in Threads, NEW out \in 0..MaxSamples, NEW left \in 0..MaxSamples,
             Accept(t, out, left)
      PROVE  RequestsInv'
  BY <1>6, AcceptKeeps
<1>7. ASSUME NEW t \in Threads, Deliver(t) PROVE RequestsInv'
  BY <1>7, DeliverKeeps
<1>8. ASSUME NEW t \in Threads, Answer(t) PROVE RequestsInv'
  BY <1>8, AnswerKeeps
<1>9. ASSUME NEW i \in Targets, Vanish(i) PROVE RequestsInv'
  BY <1>9, VanishKeeps
<1>10. CASE UNCHANGED vars
  <2>1. /\ known' = known /\ open' = open /\ alive' = alive /\ call' = call
        /\ got' = got /\ owed' = owed /\ requests' = requests
    BY <1>10 DEF vars, shards
  <2>2. TypeOK' /\ IsFiniteSet(known') /\ CalledLive'
    BY <2>1 DEF RequestsInv, TypeOK, CalledLive
  <2>3. EachComesOnce'
    <3>1. EachComesOnce' <=> \A j \in alive', op \in Ops, n \in Names :
            owed'[j][<<op, n>>] = got'[j][<<op, n>>] + (IF op = "add" THEN open'[n] ELSE 0)
                                + OnTheWay(call', j, op, n)
      BY DEF EachComesOnce, OnTheWay, Carries, UnderWay
    <3> QED
      BY <2>1, <3>1, EachInShort DEF RequestsInv
  <2> QED
    BY <2>2, <2>3 DEF RequestsInv
<1> QED
  BY <1>1, <1>2, <1>3, <1>4, <1>5, <1>6, <1>7, <1>8, <1>9, <1>10 DEF Next

LEMMA RequestsInvariant == Spec => []RequestsInv
<1> QED
  BY InitRequestsInv, NextKeepsRequestsInv, PTL DEF Spec

(* The map of open windows never holds more names than the limit allows,   *)
(* whatever threads add to it, and every call is one the services make.    *)
THEOREM Typed == Spec => []TypeOK
<1>1. RequestsInv => TypeOK
  BY DEF RequestsInv
<1> QED
  BY <1>1, RequestsInvariant, PTL

(* What a shard is owed, it was called with once, or it is in an open      *)
(* window or on its way: no thread that comes between two targets, no part *)
(* that fails and no instance that vanishes makes another shard lose a     *)
(* sample or a deletion, or get it twice.                                  *)
THEOREM ComesOnce == Spec => []EachComesOnce
<1>1. RequestsInv => EachComesOnce
  BY DEF RequestsInv
<1> QED
  BY <1>1, RequestsInvariant, PTL

(* The status answered says if every sample was taken, but for multi_add   *)
(* of rt_domain, and for del, which answers how many it deleted.           *)
THEOREM TruthAnswered == Spec => []StatusTruthful
<1>1. RequestsInv => StatusTruthful
  BY DEF RequestsInv, CalledLive, CallFine, StatusTruthful
<1> QED
  BY <1>1, RequestsInvariant, PTL
=============================================================================
