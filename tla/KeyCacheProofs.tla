--------------------------- MODULE KeyCacheProofs ---------------------------
(***************************************************************************)
(* Theorems about KeyCache, for every set of names, TTL, interval, clock   *)
(* bound and stored history.                                               *)
(***************************************************************************)
EXTENDS KeyCache, Sums

USE DEF NoKey, BadKey, NoTime

Constants ==
    /\ TTL \in Nat /\ Resolution \in Nat \ {0}
    /\ MaxTime \in Nat \ {0} /\ MaxId \in Nat

(* What the cache's options are assumed to be.                             *)
LEMMA ConstantsOK == Constants
  BY TtlAssumption, ResolutionAssumption, BoundsAssumption
     DEF Constants

(* The option is one of the values it may have.                            *)
LEMMA IntervalOK == TypeOK => gcInterval \in Nat
  BY GcIntervalsAssumption DEF TypeOK

(* No step changes it.                                                     *)
LEMMA IntervalStays == [Next]_vars => UNCHANGED gcInterval
  BY DEF Next, Load, OpenDone, GetOrCreate, Del, Gc, Tick, vars

(* The later of two times is one of them.                                  *)
LEMMA LaterType ==
  ASSUME NEW S \in SUBSET Int, NEW a \in S, NEW b \in S
  PROVE  Later(a, b) \in S /\ Later(a, b) >= a /\ Later(a, b) >= b
  BY DEF Later

(* init computes a time of use inside the clock's bound.                   *)
LEMMA LoadTimeType ==
  ASSUME NEW ts \in StoredTs
  PROVE  LoadTime(ts) \in Times
  BY ConstantsOK, StoredTsAssumption DEF LoadTime, Later, Constants, Times

(* Counting the doomed gives a number.                                     *)
LEMMA DoomedCount == Cardinality(Doomed) \in Nat
<1>1. Doomed \subseteq Names
  BY DEF Doomed
<1>2. IsFiniteSet(Doomed)
  BY <1>1, NamesAssumption, FS_Subset
<1> QED
  BY <1>2, FS_CardinalityType

(* update_time_ keeps the types of the two indexes.                        *)
LEMMA UpdateTimeType ==
  ASSUME TypeOK, NEW n \in Names, NEW t \in Times, UpdateTime(n, t)
  PROVE  /\ keyTime' \in [Names -> Times \cup {NoTime}]
         /\ timeKeySet' \in [Times \X Names -> Nat]
<1>1. CASE gcInterval = 0 \/ RecentlyTimed(n, t)
  BY <1>1 DEF TypeOK, UpdateTime
<1>2. CASE ~(gcInterval = 0 \/ RecentlyTimed(n, t))
  <2>1. Erased(n) \in [Times \X Names -> Nat]
    BY DEF TypeOK, Erased
  <2>2. keyTime' \in [Names -> Times \cup {NoTime}]
    BY <1>2 DEF TypeOK, UpdateTime
  <2>3. Erased(n)[<<t, n>>] + 1 \in Nat
    BY <2>1
  <2>4. timeKeySet' = [Erased(n) EXCEPT ![<<t, n>>] = @ + 1]
    BY <1>2 DEF UpdateTime
  <2>5. timeKeySet' \in [Times \X Names -> Nat]
    BY <2>1, <2>3, <2>4
  <2> QED
    BY <2>2, <2>5
<1> QED
  BY <1>1, <1>2

(* A collection keeps the types.                                           *)
LEMMA GcMethodType ==
  ASSUME TypeOK, GcMethod
  PROVE  /\ keyMap' \in [Names -> 0..MaxId]
         /\ keyTime' \in [Names -> Times \cup {NoTime}]
         /\ timeKeySet' \in [Times \X Names -> Nat]
         /\ reply' \in Int
         /\ lastUse' \in [Names -> Times \cup {NoTime}]
<1>1. CASE gcInterval = 0
  BY <1>1 DEF TypeOK, GcMethod
<1>2. CASE gcInterval # 0
  <2> USE <1>2 DEF GcMethod, CollectStale
  <2>1. keyMap' \in [Names -> 0..MaxId]
    BY ConstantsOK DEF TypeOK, Constants
  <2>2. reply' \in Int
    BY DoomedCount
  <2>3. keyTime' \in [Names -> Times \cup {NoTime}]
    BY DEF TypeOK
  <2>4. timeKeySet' \in [Times \X Names -> Nat]
    BY DEF TypeOK
  <2>5. lastUse' \in [Names -> Times \cup {NoTime}]
    BY DEF TypeOK
  <2> QED
    BY <2>1, <2>2, <2>3, <2>4, <2>5
<1> QED
  BY <1>1, <1>2

(* Every state of the cache is well typed, and its counters stay in bounds.*)
THEOREM TypeCorrect == Spec => []TypeOK
<1>1. Init => TypeOK
  BY ConstantsOK DEF Init, TypeOK, Constants, Times
<1>2. TypeOK /\ [Next]_vars => TypeOK'
  <2> SUFFICES ASSUME TypeOK, [Next]_vars PROVE TypeOK'
    OBVIOUS
  <2> USE ConstantsOK, IntervalOK DEF Constants
  <2> UNCHANGED gcInterval
    BY IntervalStays
  <2>1. ASSUME NEW n \in Names, NEW id \in 1..MaxId, NEW ts \in StoredTs,
               Load(n, id, ts)
        PROVE  TypeOK'
    <3>1. LoadTime(ts) \in Times
      BY LoadTimeType
    <3>2. /\ keyTime' \in [Names -> Times \cup {NoTime}]
          /\ timeKeySet' \in [Times \X Names -> Nat]
      BY <2>1, <3>1, UpdateTimeType DEF Load
    <3>3. keyCounter' \in 0..MaxId
      BY <2>1 DEF Load, TypeOK, Later
    <3>4. keyMap' \in [Names -> 0..MaxId]
      BY <2>1 DEF Load, TypeOK
    <3>5. lastUse' \in [Names -> Times \cup {NoTime}]
      BY <2>1, <3>1 DEF Load, TypeOK
    <3>6. UNCHANGED <<gcInterval, now, phase, reply>>
      BY <2>1 DEF Load
    <3> QED
      BY <3>2, <3>3, <3>4, <3>5, <3>6 DEF TypeOK
  <2>2. CASE OpenDone
    BY <2>2, GcMethodType DEF OpenDone, TypeOK
  <2>3. ASSUME NEW n \in Names, GetOrCreate(n) PROVE TypeOK'
    <3>1. /\ keyTime' \in [Names -> Times \cup {NoTime}]
          /\ timeKeySet' \in [Times \X Names -> Nat]
      BY <2>3, UpdateTimeType DEF GetOrCreate, TypeOK
    <3>2. keyCounter' \in 0..MaxId /\ keyMap' \in [Names -> 0..MaxId]
      BY <2>3 DEF GetOrCreate, NextId, TypeOK
    <3>3. lastUse' \in [Names -> Times \cup {NoTime}]
      BY <2>3 DEF GetOrCreate, Later, TypeOK
    <3>4. reply' \in Int /\ now' \in Times /\ phase' \in {"loading", "serving"}
      BY <2>3, <3>2 DEF GetOrCreate, TypeOK
    <3> QED
      BY <3>1, <3>2, <3>3, <3>4 DEF TypeOK
  <2>4. ASSUME NEW n \in Names, Del(n) PROVE TypeOK'
    <3>1. CASE keyMap[n] = NoKey
      <4>1. UNCHANGED <<gcInterval, now, phase, keyCounter, keyMap, keyTime, timeKeySet, lastUse>>
        BY <2>4, <3>1 DEF Del
      <4>2. reply' \in Int
        BY <2>4, <3>1 DEF Del
      <4> QED
        BY <4>1, <4>2 DEF TypeOK
    <3>2. CASE keyMap[n] # NoKey
      <4>1. Erased(n) \in [Times \X Names -> Nat]
        BY DEF Erased, TypeOK
      <4>2. /\ timeKeySet' \in [Times \X Names -> Nat]
            /\ keyTime' \in [Names -> Times \cup {NoTime}]
            /\ reply' \in Int
        BY <2>4, <3>2, <4>1 DEF Del, DelIndexes, TypeOK
      <4>3. keyMap' \in [Names -> 0..MaxId]
        BY <2>4, <3>2 DEF Del, TypeOK
      <4>4. lastUse' \in [Names -> Times \cup {NoTime}]
        BY <2>4, <3>2 DEF Del, TypeOK
      <4>5. UNCHANGED <<gcInterval, now, phase, keyCounter>>
        BY <2>4 DEF Del
      <4> QED
        BY <4>2, <4>3, <4>4, <4>5 DEF TypeOK
    <3> QED
      BY <3>1, <3>2
  <2>5. CASE Gc
    BY <2>5, GcMethodType DEF Gc, TypeOK
  <2>6. CASE Tick
    BY <2>6 DEF Tick, TypeOK, Times
  <2>7. CASE UNCHANGED vars
    BY <2>7 DEF vars, TypeOK
  <2> QED
    BY <2>1, <2>2, <2>3, <2>4, <2>5, <2>6, <2>7 DEF Next
<1> QED
  BY <1>1, <1>2, PTL DEF Spec

-----------------------------------------------------------------------------
(* The indexes agree.                                                      *)

(* With one entry for each timed name, the names gc reaches by walking the *)
(* set are those whose recorded time is before the death time.             *)
LEMMA DoomedByTime ==
  ASSUME TypeOK, OneEntryEach, NEW n \in Names
  PROVE  n \in Doomed <=> keyTime[n] # NoTime /\ keyTime[n] < DeathTime
<1>1. ASSUME n \in Doomed
      PROVE  keyTime[n] # NoTime /\ keyTime[n] < DeathTime
  <2>1. PICK t \in Times : timeKeySet[<<t, n>>] > 0 /\ t < DeathTime
    BY <1>1 DEF Doomed
  <2>2. keyTime[n] = t
    BY <2>1 DEF OneEntryEach
  <2> QED
    BY <2>1, <2>2 DEF Times
<1>2. ASSUME keyTime[n] # NoTime, keyTime[n] < DeathTime
      PROVE  n \in Doomed
  <2>1. keyTime[n] \in Times
    BY <1>2 DEF TypeOK
  <2>2. timeKeySet[<<keyTime[n], n>>] = 1
    BY <2>1 DEF OneEntryEach
  <2> QED
    BY <1>2, <2>1, <2>2 DEF Doomed
<1> QED
  BY <1>1, <1>2

(* update_time_ replaces n's entry or leaves it, and touches no other.     *)
LEMMA UpdateTimeEffect ==
  ASSUME TypeOK, OneEntryEach, NEW n \in Names, NEW t \in Times, UpdateTime(n, t)
  PROVE  /\ OneEntryEach'
         /\ \A m \in Names \ {n} : keyTime'[m] = keyTime[m]
         /\ gcInterval # 0 =>
              IF RecentlyTimed(n, t) THEN keyTime'[n] = keyTime[n] ELSE keyTime'[n] = t
         /\ gcInterval = 0 => keyTime'[n] = keyTime[n]
<1>1. CASE gcInterval = 0 \/ RecentlyTimed(n, t)
  BY <1>1 DEF TypeOK, UpdateTime, OneEntryEach
<1>2. CASE ~(gcInterval = 0 \/ RecentlyTimed(n, t))
  <2>1. keyTime' = [keyTime EXCEPT ![n] = t]
    BY <1>2 DEF UpdateTime
  <2>2. timeKeySet' = [Erased(n) EXCEPT ![<<t, n>>] = @ + 1]
    BY <1>2 DEF UpdateTime
  <2>3. ASSUME NEW s \in Times, NEW m \in Names
        PROVE  timeKeySet'[<<s, m>>] = IF keyTime'[m] = s THEN 1 ELSE 0
    <3>1. Erased(n)[<<s, m>>] =
            IF m = n THEN 0 ELSE IF keyTime[m] = s THEN 1 ELSE 0
      BY DEF Erased, OneEntryEach
    <3>2. CASE m = n /\ s = t
      BY <2>1, <2>2, <3>1, <3>2 DEF TypeOK, Erased
    <3>3. CASE ~(m = n /\ s = t)
      <4>1. timeKeySet'[<<s, m>>] = Erased(n)[<<s, m>>]
        BY <2>2, <3>3 DEF Erased
      <4> QED
        BY <2>1, <3>1, <3>3, <4>1 DEF TypeOK
    <3> QED
      BY <3>2, <3>3
  <2>4. OneEntryEach'
    BY <2>3 DEF OneEntryEach, Times
  <2> QED
    BY <1>2, <2>1, <2>4 DEF TypeOK
<1> QED
  BY <1>1, <1>2

(* A collection takes the stale names out of every index at once.          *)
LEMMA CollectEffect ==
  ASSUME TypeOK, OneEntryEach, CollectStale
  PROVE  /\ OneEntryEach'
         /\ \A n \in Names :
              IF n \in Doomed
              THEN keyMap'[n] = NoKey /\ keyTime'[n] = NoTime /\ lastUse'[n] = NoTime
              ELSE /\ keyMap'[n] = keyMap[n]
                   /\ keyTime'[n] = keyTime[n]
                   /\ lastUse'[n] = lastUse[n]
<1>1. \A n \in Names :
        IF n \in Doomed
        THEN keyMap'[n] = NoKey /\ keyTime'[n] = NoTime /\ lastUse'[n] = NoTime
        ELSE keyMap'[n] = keyMap[n] /\ keyTime'[n] = keyTime[n] /\ lastUse'[n] = lastUse[n]
  BY DEF CollectStale
<1>2. ASSUME NEW t \in Times, NEW n \in Names
      PROVE  timeKeySet'[<<t, n>>] = IF keyTime'[n] = t THEN 1 ELSE 0
  <2>1. timeKeySet'[<<t, n>>] = IF t < DeathTime THEN 0 ELSE timeKeySet[<<t, n>>]
    BY DEF CollectStale
  <2>2. n \in Doomed <=> keyTime[n] # NoTime /\ keyTime[n] < DeathTime
    BY DoomedByTime
  <2>3. t # NoTime
    BY DEF Times
  <2> QED
    BY <1>1, <2>1, <2>2, <2>3 DEF OneEntryEach
<1>3. OneEntryEach'
  BY <1>2 DEF OneEntryEach, Times
<1> QED
  BY <1>1, <1>3

(* The three containers describe the same keys in every reachable state,   *)
(* so the "consistency of the indexes is broken" branches of gc and del    *)
(* are never taken for a difference of content.                            *)
THEOREM IndexesAlwaysAgree == Spec => []IndexesAgree
<1>1. Init => IndexesAgree
  BY DEF Init, IndexesAgree, OneEntryEach, TimedIffHeld, Times
<1>2. TypeOK /\ IndexesAgree /\ [Next]_vars => IndexesAgree'
  <2> SUFFICES ASSUME TypeOK, OneEntryEach, TimedIffHeld, [Next]_vars
               PROVE  OneEntryEach' /\ TimedIffHeld'
    BY DEF IndexesAgree
  <2> USE ConstantsOK, IntervalOK DEF Constants
  <2> UNCHANGED gcInterval
    BY IntervalStays
  <2>0. ASSUME GcMethod PROVE OneEntryEach' /\ TimedIffHeld'
    <3>1. CASE gcInterval = 0
      BY <2>0, <3>1 DEF GcMethod, OneEntryEach, TimedIffHeld
    <3>2. CASE gcInterval # 0
      BY <2>0, <3>2, CollectEffect DEF GcMethod, TimedIffHeld
    <3> QED
      BY <3>1, <3>2
  <2>1. ASSUME NEW n \in Names, NEW id \in 1..MaxId, NEW ts \in StoredTs,
               Load(n, id, ts)
        PROVE  OneEntryEach' /\ TimedIffHeld'
    <3>1. LoadTime(ts) \in Times /\ LoadTime(ts) # NoTime
      BY LoadTimeType DEF Times
    <3>2. UpdateTime(n, LoadTime(ts)) /\ keyMap' = [keyMap EXCEPT ![n] = id]
      BY <2>1 DEF Load
    <3>3. TimedIffHeld'
      BY <3>1, <3>2, UpdateTimeEffect DEF TimedIffHeld, RecentlyTimed, TypeOK
    <3> QED
      BY <3>1, <3>2, <3>3, UpdateTimeEffect
  <2>2. CASE OpenDone
    BY <2>0, <2>2 DEF OpenDone
  <2>3. ASSUME NEW n \in Names, GetOrCreate(n) PROVE OneEntryEach' /\ TimedIffHeld'
    <3>1. now \in Times /\ now # NoTime
      BY DEF TypeOK, Times
    <3>2. UpdateTime(n, now)
      BY <2>3 DEF GetOrCreate
    <3>3. keyMap'[n] # NoKey /\ \A m \in Names \ {n} : keyMap'[m] = keyMap[m]
      BY <2>3 DEF GetOrCreate, NextId, TypeOK
    <3>4. TimedIffHeld'
      BY <3>1, <3>2, <3>3, UpdateTimeEffect DEF TimedIffHeld, RecentlyTimed
    <3> QED
      BY <3>1, <3>2, <3>4, UpdateTimeEffect
  <2>4. ASSUME NEW n \in Names, Del(n) PROVE OneEntryEach' /\ TimedIffHeld'
    <3>1. CASE keyMap[n] = NoKey
      BY <2>4, <3>1 DEF Del, OneEntryEach, TimedIffHeld
    <3>2. CASE keyMap[n] # NoKey /\ gcInterval = 0
      BY <2>4, <3>2 DEF Del, DelIndexes, OneEntryEach, TimedIffHeld, TypeOK
    <3>3. CASE keyMap[n] # NoKey /\ gcInterval # 0
      <4>1. /\ keyTime' = [keyTime EXCEPT ![n] = NoTime]
            /\ timeKeySet' = Erased(n)
            /\ keyMap' = [keyMap EXCEPT ![n] = NoKey]
        BY <2>4, <3>3 DEF Del, DelIndexes, TimedIffHeld
      <4>2. TimedIffHeld'
        BY <4>1 DEF TimedIffHeld, TypeOK
      <4>3. ASSUME NEW s \in Times, NEW m \in Names
            PROVE  timeKeySet'[<<s, m>>] = IF keyTime'[m] = s THEN 1 ELSE 0
        <5>1. s # NoTime
          BY DEF Times
        <5> QED
          BY <4>1, <5>1 DEF Erased, OneEntryEach, TypeOK
      <4>4. OneEntryEach'
        BY <4>3 DEF OneEntryEach, Times
      <4> QED
        BY <4>2, <4>4
    <3> QED
      BY <3>1, <3>2, <3>3
  <2>5. CASE Gc
    BY <2>0, <2>5 DEF Gc
  <2>6. CASE Tick
    BY <2>6 DEF Tick, OneEntryEach, TimedIffHeld
  <2>7. CASE UNCHANGED vars
    BY <2>7 DEF vars, OneEntryEach, TimedIffHeld
  <2> QED
    BY <2>1, <2>2, <2>3, <2>4, <2>5, <2>6, <2>7 DEF Next
<1> QED
  BY <1>1, <1>2, TypeCorrect, PTL DEF Spec

(* The entries of the set, one for each timed name, are as many as these.  *)
LEMMA EntriesAreTimed ==
  ASSUME NEW set \in [Times \X Names -> Nat], NEW time \in [Names -> Times \cup {NoTime}],
         \A t \in Times, n \in Names : set[<<t, n>>] = IF time[n] = t THEN 1 ELSE 0
  PROVE  SumFunction(set) = Cardinality({n \in Names : time[n] # NoTime})
<1> DEFINE Timed == {n \in Names : time[n] # NoTime}
           Entries == {p \in Times \X Names : set[p] = 1}
           entry == [n \in Timed |-> <<time[n], n>>]
<1>1. IsFiniteSet(Times \X Names)
  <2>1. IsFiniteSet(Times)
    BY ConstantsOK, FS_Interval DEF Times, Constants
  <2> QED
    BY <2>1, NamesAssumption, FS_Product
<1>2. IsFiniteSet(Timed)
  BY NamesAssumption, FS_Subset
<1>3. SumFunction(set) = Cardinality(Entries)
  <2>1. set \in [Times \X Names -> Int]
    OBVIOUS
  <2>2. \A p \in Times \X Names : set[p] = 0 \/ set[p] = 1
    OBVIOUS
  <2> QED
    BY <1>1, <2>1, <2>2, SumCounts
<1>4. ExistsBijection(Timed, Entries)
  <2>1. ASSUME NEW n \in Timed PROVE entry[n] \in Entries
    <3>1. time[n] \in Times
      OBVIOUS
    <3> QED
      BY <3>1
  <2>2. \A m, n \in Timed : entry[m] = entry[n] => m = n
    OBVIOUS
  <2>3. ASSUME NEW p \in Entries PROVE \E n \in Timed : entry[n] = p
    <3>1. PICK t \in Times, n \in Names : p = <<t, n>>
      OBVIOUS
    <3>2. time[n] = t /\ t # NoTime
      BY <3>1 DEF Times
    <3> QED
      BY <3>1, <3>2
  <2>4. entry \in [Timed -> Entries]
    BY <2>1
  <2> HIDE DEF entry, Timed, Entries
  <2>5. entry \in Bijection(Timed, Entries)
    BY <2>2, <2>3, <2>4 DEF Bijection, Injection, Surjection, IsInjective
  <2> QED
    BY <2>5 DEF ExistsBijection
<1> QED
  BY <1>2, <1>3, <1>4, FS_Bijection

(* A delete of a held key answers its id, never the BadKey of the branch   *)
(* for inconsistent indexes, so storage::del can find its points.          *)
THEOREM DelAlwaysAnswersId == Spec => DelAnswersItsId
<1>1. TypeOK /\ TypeOK' /\ IndexesAgree /\ IndexesAgree' /\ [Next]_vars =>
        [\A n \in Names : Del(n) =>
           reply' = IF keyMap[n] = NoKey THEN BadKey ELSE keyMap[n]]_vars
  <2> SUFFICES ASSUME TypeOK, TypeOK', IndexesAgree, IndexesAgree', NEW n \in Names, Del(n)
               PROVE  reply' = IF keyMap[n] = NoKey THEN BadKey ELSE keyMap[n]
    OBVIOUS
  <2>1. CASE keyMap[n] = NoKey
    BY <2>1 DEF Del
  <2>2. CASE keyMap[n] # NoKey /\ (gcInterval = 0 \/ keyTime[n] = NoTime)
    BY <2>2 DEF Del, DelIndexes
  <2>3. CASE keyMap[n] # NoKey /\ ~(gcInterval = 0 \/ keyTime[n] = NoTime)
    <3>1. {m \in Names : keyTime'[m] # NoTime} = Held'
      BY <2>3 DEF Del, IndexesAgree, TimedIffHeld, Held
    <3>2. SumFunction(timeKeySet') = Cardinality({m \in Names : keyTime'[m] # NoTime})
      <4>1. /\ timeKeySet' \in [Times \X Names -> Nat]
            /\ keyTime' \in [Names -> Times \cup {NoTime}]
            /\ \A t \in Times, m \in Names : timeKeySet'[<<t, m>>] = IF keyTime'[m] = t THEN 1 ELSE 0
        BY DEF TypeOK, IndexesAgree, OneEntryEach, Times
      <4> QED
        BY <4>1, EntriesAreTimed
    <3>3. SizesAgree'
      BY <3>1, <3>2 DEF SizesAgree
    <3> QED
      BY <2>3, <3>3 DEF Del, DelIndexes
  <2> QED
    BY <2>1, <2>2, <2>3
<1> QED
  BY <1>1, TypeCorrect, IndexesAlwaysAgree, PTL DEF Spec, DelAnswersItsId

-----------------------------------------------------------------------------
(* Ids.                                                                    *)

(* Two names never share an id and the counter is past every id held, so   *)
(* the id the next new name gets is held by nobody.                        *)
THEOREM IdsAlwaysUnique == Spec => []IdsUnique
<1>1. Init => IdsUnique
  BY DEF Init, IdsUnique, Held
<1>2. TypeOK /\ IdsUnique /\ [Next]_vars => IdsUnique'
  <2> SUFFICES ASSUME TypeOK, IdsUnique, [Next]_vars PROVE IdsUnique'
    OBVIOUS
  <2> USE DEF Held
  <2>0. ASSUME GcMethod, keyCounter' = keyCounter PROVE IdsUnique'
    BY <2>0 DEF GcMethod, CollectStale, IdsUnique
  <2>1. ASSUME NEW n \in Names, NEW id \in 1..MaxId, NEW ts \in StoredTs,
               Load(n, id, ts)
        PROVE  IdsUnique'
    <3>1. \A m \in Names : keyMap[m] # id
      BY <2>1 DEF Load, Range, TypeOK
    <3>2. keyCounter' >= keyCounter /\ keyCounter' >= id
      BY <2>1 DEF Load, Later, TypeOK
    <3>3. \A m \in Names : keyMap'[m] = IF m = n THEN id ELSE keyMap[m]
      BY <2>1 DEF Load, TypeOK
    <3>4. keyCounter \in Int /\ keyCounter' \in Int /\ \A m \in Names : keyMap[m] \in Int
      BY <2>1 DEF Load, Later, TypeOK
    <3> QED
      BY <3>1, <3>2, <3>3, <3>4 DEF IdsUnique
  <2>2. CASE OpenDone
    BY <2>0, <2>2 DEF OpenDone
  <2>3. ASSUME NEW n \in Names, GetOrCreate(n) PROVE IdsUnique'
    BY <2>3 DEF GetOrCreate, NextId, IdsUnique, TypeOK
  <2>4. ASSUME NEW n \in Names, Del(n) PROVE IdsUnique'
    BY <2>4 DEF Del, IdsUnique, TypeOK
  <2>5. CASE Gc
    BY <2>0, <2>5 DEF Gc
  <2>6. CASE Tick
    BY <2>6 DEF Tick, IdsUnique
  <2>7. CASE UNCHANGED vars
    BY <2>7 DEF vars, IdsUnique
  <2> QED
    BY <2>1, <2>2, <2>3, <2>4, <2>5, <2>6, <2>7 DEF Next
<1> QED
  BY <1>1, <1>2, TypeCorrect, PTL DEF Spec

-----------------------------------------------------------------------------
(* The collection's window.                                                *)

(* A name that is not held has no last use: with LagBounded this is        *)
(* inductive, because a name that comes back starts from a clean slate.    *)
Forgotten == \A n \in Names : keyMap[n] = NoKey => lastUse[n] = NoTime

LagInv == LagBounded /\ Forgotten

(* The strengthening is inductive.                                         *)
LEMMA LagInvariant == Spec => []LagInv
<1>1. Init => LagInv
  BY DEF Init, LagInv, LagBounded, Forgotten
<1>2. TypeOK /\ IndexesAgree /\ LagInv /\ [Next]_vars => LagInv'
  <2> SUFFICES ASSUME TypeOK, OneEntryEach, TimedIffHeld, LagBounded, Forgotten,
                      [Next]_vars
               PROVE  LagBounded' /\ Forgotten'
    BY DEF IndexesAgree, LagInv
  <2> USE ConstantsOK, IntervalOK DEF Constants
  <2> UNCHANGED gcInterval
    BY IntervalStays
  <2>0. ASSUME GcMethod PROVE LagBounded' /\ Forgotten'
    <3>1. CASE gcInterval = 0
      BY <2>0, <3>1 DEF GcMethod, LagBounded, Forgotten
    <3>2. CASE gcInterval # 0
      BY <2>0, <3>2, CollectEffect DEF GcMethod, LagBounded, Forgotten
    <3> QED
      BY <3>1, <3>2
  <2>1. ASSUME NEW n \in Names, NEW id \in 1..MaxId, NEW ts \in StoredTs,
               Load(n, id, ts)
        PROVE  LagBounded' /\ Forgotten'
    <3>1. LoadTime(ts) \in Times /\ LoadTime(ts) \in Int
      BY LoadTimeType DEF Times
    <3>2. keyTime[n] = NoTime /\ ~RecentlyTimed(n, LoadTime(ts))
      BY <2>1 DEF Load, TimedIffHeld, RecentlyTimed
    <3>3. UpdateTime(n, LoadTime(ts)) /\ lastUse' = [lastUse EXCEPT ![n] = LoadTime(ts)]
      BY <2>1 DEF Load
    <3>4. LagBounded'
      BY <3>1, <3>2, <3>3, UpdateTimeEffect DEF LagBounded, TypeOK
    <3>5. Forgotten'
      BY <2>1 DEF Load, Forgotten, TypeOK
    <3> QED
      BY <3>4, <3>5
  <2>2. CASE OpenDone
    BY <2>0, <2>2 DEF OpenDone
  <2>3. ASSUME NEW n \in Names, GetOrCreate(n) PROVE LagBounded' /\ Forgotten'
    <3>1. now \in Times /\ now \in Int
      BY DEF TypeOK, Times
    <3>2. UpdateTime(n, now)
      BY <2>3 DEF GetOrCreate
    <3>3. /\ lastUse'[n] = Later(lastUse[n], now)
          /\ \A m \in Names \ {n} : lastUse'[m] = lastUse[m]
      BY <2>3 DEF GetOrCreate, TypeOK
    <3>4. lastUse[n] \in Int /\ keyTime[n] \in Int
      BY DEF TypeOK, Times
    <3>5. keyTime'[n] # NoTime =>
            keyTime'[n] <= lastUse'[n] /\ lastUse'[n] < keyTime'[n] + gcInterval
      <4>1. CASE RecentlyTimed(n, now)
        BY <3>1, <3>2, <3>3, <3>4, <4>1, UpdateTimeEffect
           DEF LagBounded, RecentlyTimed, Later
      <4>2. CASE ~RecentlyTimed(n, now) /\ gcInterval # 0
        <5>1. keyTime'[n] = now
          BY <3>1, <3>2, <4>2, UpdateTimeEffect
        <5>2. lastUse[n] <= now \/ keyTime[n] = NoTime
          BY <3>1, <3>4, <4>2 DEF LagBounded, RecentlyTimed
        <5>3. keyTime[n] = NoTime => lastUse'[n] < now + gcInterval
          <6>1. keyTime[n] = NoTime => lastUse[n] = NoTime
            BY <4>2 DEF TimedIffHeld, Forgotten
          <6>2. now >= 0
            BY <3>1 DEF Times
          <6> QED
            BY <3>1, <3>3, <4>2, <6>1, <6>2 DEF Later
        <5> QED
          BY <3>1, <3>3, <3>4, <4>2, <5>1, <5>2, <5>3 DEF Later
      <4>3. CASE gcInterval = 0
        BY <3>1, <3>2, <4>3, UpdateTimeEffect DEF TimedIffHeld
      <4> QED
        BY <4>1, <4>2, <4>3
    <3>6. LagBounded'
      BY <3>1, <3>2, <3>3, <3>5, UpdateTimeEffect DEF LagBounded
    <3>7. Forgotten'
      BY <2>3, <3>3 DEF GetOrCreate, NextId, Forgotten, TypeOK
    <3> QED
      BY <3>6, <3>7
  <2>4. ASSUME NEW n \in Names, Del(n) PROVE LagBounded' /\ Forgotten'
    <3>1. CASE keyMap[n] = NoKey
      BY <2>4, <3>1 DEF Del, LagBounded, Forgotten
    <3>2. CASE keyMap[n] # NoKey
      <4>1. /\ keyTime'[n] = NoTime
            /\ \A m \in Names \ {n} : keyTime'[m] = keyTime[m]
        BY <2>4, <3>2 DEF Del, DelIndexes, TimedIffHeld, TypeOK
      <4>2. /\ lastUse' = [lastUse EXCEPT ![n] = NoTime]
            /\ keyMap' = [keyMap EXCEPT ![n] = NoKey]
        BY <2>4, <3>2 DEF Del
      <4>3. LagBounded'
        BY <4>1, <4>2 DEF LagBounded, TypeOK
      <4>4. Forgotten'
        BY <4>2 DEF Forgotten, TypeOK
      <4> QED
        BY <4>3, <4>4
    <3> QED
      BY <3>1, <3>2
  <2>5. CASE Gc
    BY <2>0, <2>5 DEF Gc
  <2>6. CASE Tick
    BY <2>6 DEF Tick, LagBounded, Forgotten
  <2>7. CASE UNCHANGED vars
    BY <2>7 DEF vars, LagBounded, Forgotten
  <2> QED
    BY <2>1, <2>2, <2>3, <2>4, <2>5, <2>6, <2>7 DEF Next
<1> QED
  BY <1>1, <1>2, TypeCorrect, IndexesAlwaysAgree, PTL DEF Spec

(* The time recorded for a key is never later than its last use and lags   *)
(* behind it by less than one collection interval.                         *)
THEOREM LagAlwaysBounded == Spec => []LagBounded
<1>1. LagInv => LagBounded
  BY DEF LagInv
<1> QED
  BY <1>1, LagInvariant, PTL

(* What gc takes lies between what must go and what may go.                *)
LEMMA DoomedWindow ==
  ASSUME TypeOK, IndexesAgree, LagInv, gcInterval # 0
  PROVE  /\ Doomed \subseteq Held
         /\ \A n \in Doomed : lastUse[n] < now - TTL + gcInterval
         /\ \A n \in Held : lastUse[n] < now - TTL => n \in Doomed
<1> USE ConstantsOK, IntervalOK DEF Constants
<1> SUFFICES ASSUME NEW n \in Names
             PROVE  /\ n \in Doomed => /\ n \in Held
                                      /\ lastUse[n] < now - TTL + gcInterval
                    /\ n \in Held /\ lastUse[n] < now - TTL => n \in Doomed
  BY DEF Doomed, Held
<1>1. n \in Doomed <=> keyTime[n] # NoTime /\ keyTime[n] < now - TTL
  BY DoomedByTime DEF IndexesAgree, DeathTime
<1>2. keyTime[n] # NoTime <=> n \in Held
  BY DEF IndexesAgree, TimedIffHeld, Held
<1>3. n \in Held => keyTime[n] <= lastUse[n] /\ lastUse[n] < keyTime[n] + gcInterval
  BY <1>2 DEF LagInv, LagBounded
<1>4. keyTime[n] \in Int /\ lastUse[n] \in Int /\ now \in Int
  BY DEF TypeOK, Times
<1> QED
  BY <1>1, <1>2, <1>3, <1>4

(* A collection keeps every key used in the last TTL - gcInterval seconds  *)
(* and leaves none that has not been used for more than TTL.               *)
THEOREM GcStaysInWindow == Spec => GcWindow
<1>1. TypeOK /\ IndexesAgree /\ LagInv /\ [Next]_vars =>
        [Gc \/ OpenDone => \A n \in Held : gcInterval # 0 =>
           /\ keyMap'[n] = NoKey => lastUse[n] < now - TTL + gcInterval
           /\ lastUse[n] < now - TTL => keyMap'[n] = NoKey]_vars
  <2> SUFFICES ASSUME TypeOK, IndexesAgree, LagInv, Gc \/ OpenDone,
                      NEW n \in Held, gcInterval # 0
               PROVE  /\ keyMap'[n] = NoKey => lastUse[n] < now - TTL + gcInterval
                      /\ lastUse[n] < now - TTL => keyMap'[n] = NoKey
    OBVIOUS
  <2>1. CollectStale
    BY DEF Gc, OpenDone, GcMethod
  <2>2. keyMap'[n] = IF n \in Doomed THEN NoKey ELSE keyMap[n]
    BY <2>1 DEF CollectStale, Held
  <2>3. keyMap[n] # NoKey
    BY DEF Held
  <2> QED
    BY <2>2, <2>3, DoomedWindow
<1> QED
  BY <1>1, TypeCorrect, IndexesAlwaysAgree, LagInvariant, PTL DEF Spec, GcWindow

-----------------------------------------------------------------------------
(* The cache implements the registry.                                      *)

(* Every step of the cache is a step of the registry or leaves it alone:   *)
(* ids are handed out once, lost by request or by age only, and restored   *)
(* without a clash.                                                        *)
THEOREM CacheImplementsRegistry == Spec => RegistrySpec
<1> USE ConstantsOK, IntervalOK DEF Constants, Held, Registry!Held
<1>1. Init => Registry!Init
  BY GcIntervalsAssumption DEF Init, Registry!Init, Registry!NoKey, Registry!NoTime
<1>2. TypeOK /\ IndexesAgree /\ LagInv /\ IdsUnique /\ [Next]_vars
        => [Registry!Next]_(Registry!vars)
  <2> SUFFICES ASSUME TypeOK, IndexesAgree, LagInv, IdsUnique, [Next]_vars
               PROVE  Registry!Next \/ UNCHANGED Registry!vars
    OBVIOUS
  <2> USE DEF Registry!NoKey, Registry!NoTime
  <2> UNCHANGED gcInterval
    BY IntervalStays
  <2>0. ASSUME CollectStale, gcInterval # 0, UNCHANGED <<gcInterval, now, keyCounter>>
        PROVE  Registry!ExpireStale
    <3>1. Doomed \in SUBSET Registry!Held
      BY <2>0, DoomedWindow
    <3>2. Registry!MustExpire \subseteq Doomed /\ Doomed \subseteq Registry!MayExpire
      BY <2>0, DoomedWindow DEF Registry!MustExpire, Registry!MayExpire
    <3>3. Registry!Forget(Doomed)
      BY <2>0 DEF CollectStale, Registry!Forget
    <3> QED
      BY <2>0, <3>1, <3>2, <3>3 DEF Registry!ExpireStale
  <2>1. ASSUME NEW n \in Names, NEW id \in 1..MaxId, NEW ts \in StoredTs,
               Load(n, id, ts)
        PROVE  Registry!Next
    <3>1. /\ keyMap[n] = NoKey
          /\ keyMap' = [keyMap EXCEPT ![n] = id]
          /\ keyMap'[n] = id
          /\ \A m \in Names : keyMap[m] # id
      BY <2>1 DEF Load, Range, TypeOK
    <3>2. (1..keyCounter) \cup {id} \subseteq 1..keyCounter'
      BY <2>1 DEF Load, Later, TypeOK
    <3>3. Registry!Register(n)
      BY <3>1, <3>2 DEF Registry!Register
    <3>4. /\ lastUse' = [lastUse EXCEPT ![n] = LoadTime(ts)]
          /\ lastUse'[n] = LoadTime(ts) /\ LoadTime(ts) \in Nat
      BY <2>1, LoadTimeType DEF Load, TypeOK, Times
    <3>5. Registry!Restore(n)
      BY <2>1, <3>3, <3>4 DEF Load, Registry!Restore
    <3> QED
      BY <3>5 DEF Registry!Next
  <2>2. CASE OpenDone
    <3>1. CASE gcInterval = 0
      BY <2>2, <3>1 DEF OpenDone, GcMethod, Registry!OpenDone, Registry!Next
    <3>2. CASE gcInterval # 0
      BY <2>0, <2>2, <3>2 DEF OpenDone, GcMethod, Registry!OpenDone, Registry!Next
    <3> QED
      BY <3>1, <3>2
  <2>3. ASSUME NEW n \in Names, GetOrCreate(n) PROVE Registry!Next
    <3>1. lastUse' = [lastUse EXCEPT ![n] = Registry!Later(lastUse[n], now)]
      BY <2>3 DEF GetOrCreate, Later, Registry!Later
    <3>2. CASE keyMap[n] = NoKey
      <4>1. /\ keyMap' = [keyMap EXCEPT ![n] = NextId] /\ keyMap'[n] = NextId
            /\ keyCounter' = NextId
        BY <2>3, <3>2 DEF GetOrCreate, TypeOK
      <4>2. /\ NextId # NoKey /\ NextId \notin 1..keyCounter
            /\ (1..keyCounter) \cup {NextId} \subseteq 1..NextId
            /\ \A m \in Names : keyMap[m] # NoKey => keyMap[m] # NextId
        BY DEF NextId, IdsUnique, TypeOK
      <4>3. Registry!Register(n) /\ keyMap'[n] \notin 1..keyCounter
        BY <3>2, <4>1, <4>2 DEF Registry!Register
      <4> QED
        BY <2>3, <3>1, <4>3 DEF GetOrCreate, Registry!Use, Registry!Next
    <3>3. CASE keyMap[n] # NoKey
      BY <2>3, <3>1, <3>3 DEF GetOrCreate, Registry!Use, Registry!Next
    <3> QED
      BY <3>2, <3>3
  <2>4. ASSUME NEW n \in Names, Del(n)
        PROVE  Registry!Next \/ UNCHANGED Registry!vars
    <3>1. CASE keyMap[n] = NoKey
      BY <2>4, <3>1 DEF Del, Registry!vars
    <3>2. CASE keyMap[n] # NoKey
      <4>1. Registry!Forget({n})
        BY <2>4, <3>2 DEF Del, Registry!Forget, TypeOK
      <4> QED
        BY <2>4, <4>1 DEF Del, Registry!Remove, Registry!Next
    <3> QED
      BY <3>1, <3>2
  <2>5. ASSUME Gc PROVE Registry!Next \/ UNCHANGED Registry!vars
    <3>1. CASE gcInterval = 0
      BY <2>5, <3>1 DEF Gc, GcMethod, Registry!vars
    <3>2. CASE gcInterval # 0
      BY <2>0, <2>5, <3>2 DEF Gc, GcMethod, Registry!Expire, Registry!Next
    <3> QED
      BY <3>1, <3>2
  <2>6. CASE Tick
    BY <2>6 DEF Tick, Registry!Tick, Registry!Next
  <2>7. CASE UNCHANGED vars
    BY <2>7 DEF vars, Registry!vars
  <2> QED
    BY <2>1, <2>2, <2>3, <2>4, <2>5, <2>6, <2>7 DEF Next
<1> QED
  BY <1>1, <1>2, TypeCorrect, IndexesAlwaysAgree, LagInvariant, IdsAlwaysUnique, PTL
     DEF Spec, RegistrySpec, Registry!Spec
=============================================================================
