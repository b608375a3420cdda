------------------------------ MODULE KeyCache ------------------------------
(***************************************************************************)
(* btp::key_cache: the names of the counters a shard holds, their ids, and *)
(* the two indexes by time of use that the collection of stale keys walks. *)
(* Every public method runs under _mutex, so each is one action.  The life *)
(* of a cache starts with storage::open, which restores the keys of the    *)
(* previous run one by one and then collects the stale ones.               *)
(***************************************************************************)
EXTENDS Integers, FiniteSets, Functions

CONSTANTS
    Names,        \* names of counters
    TTL,          \* key_cache_options::TTL
    GcIntervals,  \* the values key_cache_options::gc_interval may have: 0
                  \* switches the collection off
    Resolution,   \* key_aggregator_options::resolution: time units a second
    StoredTs,     \* last_update values found in the key database at start
    MaxTime,      \* bound on the clock and on the times of restored keys
    MaxId         \* bound on the id counter

ASSUME TtlAssumption         == TTL \in Nat
ASSUME GcIntervalsAssumption == GcIntervals \subseteq Nat
ASSUME ResolutionAssumption  == Resolution \in Nat \ {0}
ASSUME BoundsAssumption      == MaxTime \in Nat \ {0} /\ MaxId \in Nat
ASSUME StoredTsAssumption    ==
    \A ts \in StoredTs : ts \in Nat /\ ts \div Resolution \in 0..MaxTime
ASSUME NamesAssumption       == IsFiniteSet(Names)

VARIABLES
    gcInterval,   \* the shard's option gc_interval
    now,          \* time(0)
    phase,        \* "loading" inside storage::open, then "serving"
    keyCounter,   \* _key_counter
    keyMap,       \* _key_map, as the id of each name
    keyTime,      \* _key_time_map
    timeKeySet,   \* _time_key_set: how many times it holds <<time, name>>
    reply,        \* what the last method returned
    lastUse       \* ghost: the last time a name was used or restored as used

vars ==
    <<gcInterval, now, phase, keyCounter, keyMap, keyTime, timeKeySet, reply, lastUse>>

NoKey  == 0
BadKey == -1
NoTime == -1
Times  == 0..MaxTime

Held == {n \in Names : keyMap[n] # NoKey}

Later(a, b) == IF a >= b THEN a ELSE b

TypeOK ==
    /\ gcInterval \in GcIntervals
    /\ now \in Times
    /\ phase \in {"loading", "serving"}
    /\ keyCounter \in 0..MaxId
    /\ keyMap \in [Names -> 0..MaxId]
    /\ keyTime \in [Names -> Times \cup {NoTime}]
    /\ timeKeySet \in [Times \X Names -> Nat]
    /\ reply \in Int
    /\ lastUse \in [Names -> Times \cup {NoTime}]

Init ==
    /\ gcInterval \in GcIntervals
    /\ now = 1
    /\ phase = "loading"
    /\ keyCounter = 0
    /\ keyMap = [n \in Names |-> NoKey]
    /\ keyTime = [n \in Names |-> NoTime]
    /\ timeKeySet = [p \in Times \X Names |-> 0]
    /\ reply = 0
    /\ lastUse = [n \in Names |-> NoTime]

-----------------------------------------------------------------------------
(* The indexes.                                                            *)

(* The consistency test of gc and del, on the containers' sizes.           *)
SizesAgree ==
    LET timed == Cardinality({n \in Names : keyTime[n] # NoTime})
    IN  timed = SumFunction(timeKeySet) /\ timed = Cardinality(Held)

(* Operators named Slip... are the code with one plausible mistake; the     *)
(* project lists the property that each of them breaks.                    *)

(* The old entry stays in the set when a name gets a new time.             *)
SlipEntryLeft(n) == timeKeySet

(* multiset::erase(value) takes every copy of n's recorded time away.      *)
Erased(n) == [p \in Times \X Names |->
                IF p = <<keyTime[n], n>> THEN 0 ELSE timeKeySet[p]]

(* The comparison with the interval is off by one.                         *)
SlipLongerLag(n, t) == keyTime[n] # NoTime /\ keyTime[n] >= t - gcInterval

(* update_time_ leaves a time recorded less than gcInterval ago alone.     *)
RecentlyTimed(n, t) == keyTime[n] # NoTime /\ keyTime[n] > t - gcInterval

UpdateTime(n, t) ==
    IF gcInterval = 0 \/ RecentlyTimed(n, t)
    THEN UNCHANGED <<keyTime, timeKeySet>>
    ELSE /\ keyTime' = [keyTime EXCEPT ![n] = t]
         /\ timeKeySet' = [Erased(n) EXCEPT ![<<t, n>>] = @ + 1]

(* The TTL is forgotten, or the interval is allowed for twice.             *)
SlipNoTtl     == now
SlipLateDeath == now - TTL - gcInterval

(* Names recorded before the death time: gc walks [begin, lower_bound).    *)
DeathTime == now - TTL
Doomed == {n \in Names : \E t \in Times : timeKeySet[<<t, n>>] > 0 /\ t < DeathTime}

(* gc: the doomed leave all three containers.                              *)
CollectStale ==
    /\ keyMap' = [n \in Names |-> IF n \in Doomed THEN NoKey ELSE keyMap[n]]
    /\ keyTime' = [n \in Names |-> IF n \in Doomed THEN NoTime ELSE keyTime[n]]
    /\ timeKeySet' = [p \in Times \X Names |->
                        IF p[1] < DeathTime THEN 0 ELSE timeKeySet[p]]
    /\ reply' = IF SizesAgree' THEN Cardinality(Doomed) ELSE 0
    /\ lastUse' = [n \in Names |-> IF n \in Doomed THEN NoTime ELSE lastUse[n]]

GcMethod ==
    IF gcInterval = 0
    THEN reply' = 0 /\ UNCHANGED <<keyMap, keyTime, timeKeySet, lastUse>>
    ELSE CollectStale

-----------------------------------------------------------------------------
(* The methods.                                                            *)

(* The resolution of last_update is forgotten.                             *)
SlipUnscaled(ts) == Later(ts, 1)

(* init: a restored key counts as used when its last point was, in whole   *)
(* seconds, and 1 stands for a time that would read as "now".              *)
LoadTime(ts) == Later(ts \div Resolution, 1)

(* The counter follows the last key restored, not the largest id.          *)
SlipLastIdWins(n, id, ts) ==
    /\ phase = "loading"
    /\ keyMap[n] = NoKey
    /\ id \notin Range(keyMap)
    /\ keyCounter' = id
    /\ UpdateTime(n, LoadTime(ts))
    /\ keyMap' = [keyMap EXCEPT ![n] = id]
    /\ lastUse' = [lastUse EXCEPT ![n] = LoadTime(ts)]
    /\ UNCHANGED <<gcInterval, now, phase, reply>>

(* The key database maps names to records, and no two records share an id  *)
(* (IdsInjective of module Storage), so neither do the keys restored.      *)
Load(n, id, ts) ==
    /\ phase = "loading"
    /\ keyMap[n] = NoKey
    /\ id \notin Range(keyMap)
    /\ keyCounter' = Later(keyCounter, id)
    /\ UpdateTime(n, LoadTime(ts))
    /\ keyMap' = [keyMap EXCEPT ![n] = id]
    /\ lastUse' = [lastUse EXCEPT ![n] = LoadTime(ts)]
    /\ UNCHANGED <<gcInterval, now, phase, reply>>

(* storage::open ends with a collection.                                   *)
OpenDone ==
    /\ phase = "loading"
    /\ phase' = "serving"
    /\ GcMethod
    /\ UNCHANGED <<gcInterval, now, keyCounter>>

(* Ids are counted from the size of the map.                               *)
SlipIdFromSize == Cardinality(Held) + 1

(* get_or_create, the common prefix of add, merge and create.              *)
NextId == keyCounter + 1

GetOrCreate(n) ==
    /\ phase = "serving"
    /\ IF keyMap[n] = NoKey
       THEN /\ NextId <= MaxId
            /\ keyCounter' = NextId
            /\ keyMap' = [keyMap EXCEPT ![n] = NextId]
       ELSE UNCHANGED <<keyCounter, keyMap>>
    /\ UpdateTime(n, now)
    /\ reply' = keyMap'[n]
    /\ lastUse' = [lastUse EXCEPT ![n] = Later(@, now)]
    /\ UNCHANGED <<gcInterval, now, phase>>

(* The set keeps the entry of the deleted name.                            *)
SlipDelLeavesEntry(n) ==
    IF gcInterval = 0 \/ keyTime[n] = NoTime
    THEN reply' = keyMap[n] /\ UNCHANGED <<keyTime, timeKeySet>>
    ELSE /\ UNCHANGED timeKeySet
         /\ keyTime' = [keyTime EXCEPT ![n] = NoTime]
         /\ reply' = IF SizesAgree' THEN keyMap[n] ELSE BadKey

(* del: the name leaves _key_map; the time indexes, when they are kept,    *)
(* lose it too and are compared before the id is handed to the caller.     *)
DelIndexes(n) ==
    IF gcInterval = 0 \/ keyTime[n] = NoTime
    THEN /\ reply' = keyMap[n]
         /\ UNCHANGED <<keyTime, timeKeySet>>
    ELSE /\ timeKeySet' = Erased(n)
         /\ keyTime' = [keyTime EXCEPT ![n] = NoTime]
         /\ reply' = IF SizesAgree' THEN keyMap[n] ELSE BadKey

Del(n) ==
    /\ phase = "serving"
    /\ IF keyMap[n] = NoKey
       THEN reply' = BadKey /\ UNCHANGED <<keyMap, keyTime, timeKeySet, lastUse>>
       ELSE /\ keyMap' = [keyMap EXCEPT ![n] = NoKey]
            /\ DelIndexes(n)
            /\ lastUse' = [lastUse EXCEPT ![n] = NoTime]
    /\ UNCHANGED <<gcInterval, now, phase, keyCounter>>

Gc ==
    /\ phase = "serving"
    /\ GcMethod
    /\ UNCHANGED <<gcInterval, now, phase, keyCounter>>

Tick ==
    /\ now < MaxTime
    /\ now' = now + 1
    /\ UNCHANGED <<gcInterval, phase, keyCounter, keyMap, keyTime, timeKeySet, reply,
                   lastUse>>

Next ==
    \/ \E n \in Names, id \in 1..MaxId, ts \in StoredTs : Load(n, id, ts)
    \/ OpenDone
    \/ \E n \in Names : GetOrCreate(n)
    \/ \E n \in Names : Del(n)
    \/ Gc
    \/ Tick

Spec == Init /\ [][Next]_vars

(* storage::open comes to an end, and then ag_domain::start_ runs           *)
(* storage::gc on a timer of gc_interval seconds.                          *)
FairSpec == Spec /\ WF_vars(OpenDone) /\ WF_vars(Gc)

-----------------------------------------------------------------------------
(* Safety.                                                                 *)

OneEntryEach == \A t \in Times, n \in Names :
    timeKeySet[<<t, n>>] = IF keyTime[n] = t THEN 1 ELSE 0

TimedIffHeld == \A n \in Names :
    keyTime[n] # NoTime <=> keyMap[n] # NoKey /\ gcInterval # 0

(* _key_map, _key_time_map and _time_key_set describe the same keys: what  *)
(* the two "consistency of the indexes is broken" branches test for.  The  *)
(* set holds exactly one entry for each timed name, at its recorded time,  *)
(* and with collection on exactly the names of the map are timed.          *)
IndexesAgree == OneEntryEach /\ TimedIffHeld

(* No two names are filed under one id, and the counter is past them all,  *)
(* so the next id is new whatever order keys were restored in.             *)
IdsUnique ==
    \A m, n \in Held :
        /\ keyMap[n] <= keyCounter
        /\ keyMap[m] = keyMap[n] => m = n

(* The recorded time may lag behind the real last use, because update_time_*)
(* skips the indexes for a key timed recently, but by less than gcInterval.*)
LagBounded ==
    \A n \in Names : keyTime[n] # NoTime =>
        /\ keyTime[n] <= lastUse[n]
        /\ lastUse[n] < keyTime[n] + gcInterval

(* A delete of a held key answers the id it was filed under, never the     *)
(* BadKey of the inconsistency branch: storage::del needs that id to find  *)
(* the points it has to remove.                                            *)
DelAnswersItsId ==
    [][\A n \in Names : Del(n) =>
         reply' = IF keyMap[n] = NoKey THEN BadKey ELSE keyMap[n]]_vars

(* What a collection may take and what it must take, by the time a key was *)
(* really used and not by the time recorded: gc keeps every key used in    *)
(* the last TTL - gcInterval seconds and leaves none unused for over TTL.  *)
GcWindow ==
    [][Gc \/ OpenDone => \A n \in Held :
         gcInterval # 0 =>
           /\ keyMap'[n] = NoKey => lastUse[n] < now - TTL + gcInterval
           /\ lastUse[n] < now - TTL => keyMap'[n] = NoKey]_vars

(* The cache does what module KeyRegistry promises.                        *)
Registry == INSTANCE KeyRegistry WITH
    serving <- phase = "serving",
    ids     <- keyMap,
    issued  <- 1..keyCounter

RegistrySpec == Registry!Spec

(* Liveness: with collection on, also with an interval longer than the     *)
(* TTL, a key nobody uses any more does not stay forever.                  *)
Stale(n) == n \in Held /\ lastUse[n] < now - TTL

StaleKeysCollected == \A n \in Names : gcInterval # 0 /\ Stale(n) ~> ~Stale(n)
=============================================================================
