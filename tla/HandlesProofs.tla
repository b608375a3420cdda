---------------------------- MODULE HandlesProofs ----------------------------
(***************************************************************************)
(* Theorems about Handles, for any number of databases, records and        *)
(* storage objects and any size of a batch.                                *)
(***************************************************************************)
EXTENDS Handles, FiniteSetTheorems, TLAPS

OpenDbs == {i \in DOMAIN dbs : dbs[i] = "open"}

Typed ==
    /\ stage \in {"none", "keys", "data", "shards", "load", "serving", "closing",
                  "closed", "failed"}
    /\ keyDb \in {"none", "garbage", "null", "open", "gone"}
    /\ locks \subseteq {0} \cup Slots
    /\ fault \in BOOLEAN

(* Before the shards there are no databases, then one for each slot.       *)
Rooms ==
    \/ dbs = <<>>
    \/ dbs \in [Slots -> {"missing", "open"}]

(* Exactly what is open is locked.                                         *)
LockedIsOpen == locks = OpenDbs \cup (IF keyDb = "open" THEN {0} ELSE {})

(* How far the object has come says what is open.                          *)
Progress ==
    /\ stage \in {"none", "keys"} => keyDb = "none" /\ dbs = <<>>
    /\ stage \in {"data", "shards", "load", "serving"} => keyDb = "open"
    /\ stage = "data" => dbs = <<>>
    /\ stage = "shards" => dbs \in [Slots -> {"missing", "open"}]
    /\ stage \in {"load", "serving"} => dbs = [i \in Slots |-> "open"]

(* A compaction runs while there is a storage; a queued one waits for one. *)
Compacting ==
    /\ toCompact \in Seq({0} \cup Slots)
    /\ queued \in BOOLEAN
    /\ holds \in BOOLEAN
    /\ queued \/ toCompact # <<>> => stage # "none"

HandlesInv == Typed /\ Rooms /\ LockedIsOpen /\ Progress /\ Compacting

(* The slots are counted from 1: the key database's number is not theirs.  *)
LEMMA SlotsAreNumbers ==
    \E n \in Nat \ {0} : Slots = 1..n /\ 0 \notin Slots
<1>1. CASE HashSize = 0
  BY <1>1 DEF Slots
<1>2. CASE HashSize # 0
  BY <1>2, HashSizeAssumption DEF Slots
<1> QED
  BY <1>1, <1>2

(* A compaction with nothing left to do is well typed.                     *)
LEMMA NothingIsASequence == ASSUME NEW S PROVE <<>> \in Seq(S)
OBVIOUS

(* So is one that has only begun, at the key database.                    *)
LEMMA ShortIsASequence ==
  ASSUME NEW S PROVE <<>> \in Seq({0} \cup S) /\ <<0>> \in Seq({0} \cup S)
OBVIOUS

(* What is open, what is locked and how far the object has come agree.     *)
LEMMA HandlesInvariant == Spec => []HandlesInv
<1>1. Init => HandlesInv
  <2> SUFFICES ASSUME Init PROVE HandlesInv
    OBVIOUS
  <2>1. OpenDbs = {}
    BY DEF Init, OpenDbs
  <2>2. LockedIsOpen
    BY <2>1 DEF Init, LockedIsOpen
  <2>3. Compacting
    BY NothingIsASequence DEF Init, Compacting
  <2> QED
    BY <2>2, <2>3 DEF Init, HandlesInv, Typed, Rooms, Progress
<1>2. HandlesInv /\ [Next]_vars => HandlesInv'
  <2> SUFFICES ASSUME HandlesInv, [Next]_vars PROVE HandlesInv'
    OBVIOUS
  <2> PICK n \in Nat \ {0} : Slots = 1..n /\ 0 \notin Slots
    BY SlotsAreNumbers
  <2> USE DEF HandlesInv, Typed, Rooms, LockedIsOpen, Progress, Compacting, OpenDbs,
              loading, compaction, databases
  <2>1. CASE Make
    BY <2>1 DEF Make
  <2>2. ASSUME NEW o \in {"garbage", "null", "open"}, OpenKeys(o) PROVE HandlesInv'
    BY <2>2 DEF OpenKeys
  <2>3. ASSUME NEW success \in BOOLEAN, OpenShard(success) PROVE HandlesInv'
    BY <2>3 DEF OpenShard
  <2>4. ASSUME NEW i \in DOMAIN dbs, NEW success \in BOOLEAN, OpenDb(i, success)
        PROVE HandlesInv'
    <3>1. /\ stage = "shards" /\ dbs \in [Slots -> {"missing", "open"}]
          /\ keyDb' = keyDb /\ keyDb = "open" /\ i \in Slots /\ Len(dbs) = n
          /\ i \in 1..n
          /\ UNCHANGED <<toCompact, queued, holds, fault>>
          /\ stage' # "none"
      BY <2>4 DEF OpenDb, AfterDb
    <3>2. CASE success
      <4>1. /\ dbs' = [dbs EXCEPT ![i] = "open"] /\ locks' = locks \cup {i}
            /\ stage' = IF i = n THEN "load" ELSE "shards"
        BY <2>4, <3>1, <3>2 DEF OpenDb, AfterDb
      <4>2. dbs' \in [Slots -> {"missing", "open"}]
        BY <3>1, <4>1
      <4>3. LockedIsOpen'
        BY <3>1, <4>1, <4>2
      <4>4. i = n => dbs' = [j \in Slots |-> "open"]
        <5> SUFFICES ASSUME i = n PROVE \A j \in Slots : dbs'[j] = "open"
          BY <4>2
        <5>1. \A j \in 1..(n - 1) : dbs[j] # "missing"
          BY <2>4 DEF OpenDb
        <5> QED
          BY <3>1, <4>1, <5>1
      <4> QED
        BY <3>1, <4>1, <4>2, <4>3, <4>4
    <3>3. CASE ~success
      BY <2>4, <3>1, <3>3 DEF OpenDb, AfterDb
    <3> QED
      BY <3>2, <3>3
  <2>5. CASE NoIterator
    BY <2>5 DEF NoIterator
  <2>6. CASE ReadRecord
    BY <2>6 DEF ReadRecord
  <2>7. CASE EndLoad
    BY <2>7 DEF EndLoad
  <2>8. CASE CloseKeys
    BY <2>8 DEF CloseKeys
  <2>9. CASE CloseFails
    BY <2>9 DEF CloseFails
  <2>10. CASE CloseShards
    BY <2>10 DEF CloseShards, ToClose
  <2>11. CASE Destroy
    <3>1. /\ stage' = "none" /\ keyDb' = "none" /\ dbs' = <<>>
          /\ queued' = FALSE /\ toCompact' = <<>> /\ holds' = holds
          /\ toCompact' \in Seq({0} \cup Slots)
          /\ fault' \in BOOLEAN
      BY <2>11, NothingIsASequence DEF Destroy, QueuedStill
    <3>2. locks' = {}
      BY <2>11 DEF Destroy, ToClose
    <3>3. OpenDbs' = {}
      BY <3>1
    <3>4. LockedIsOpen'
      BY <3>1, <3>2, <3>3
    <3> QED
      BY <3>1, <3>2, <3>4
  <2>12. CASE QueueCompact
    BY <2>12 DEF QueueCompact
  <2>13. [i \in DOMAIN dbs |-> i] \in Seq({0} \cup Slots)
    OBVIOUS
  <2>14. ASSUME NEW dropped \in BOOLEAN, RunQueued(dropped) PROVE HandlesInv'
    <3>1. toCompact' \in Seq({0} \cup Slots)
      BY <2>14, ShortIsASequence DEF RunQueued
    <3> QED
      BY <2>14, <3>1 DEF RunQueued
  <2>15. CASE CompactNow
    <3>1. toCompact' = <<0>> \/ toCompact' = toCompact
      BY <2>15 DEF CompactNow
    <3>2. <<0>> \in Seq({0} \cup Slots)
      BY ShortIsASequence
    <3>3. toCompact' \in Seq({0} \cup Slots)
      BY <3>1, <3>2
    <3> QED
      BY <2>15, <3>3 DEF CompactNow
  <2>16. ASSUME NEW success \in BOOLEAN, Compact(success) PROVE HandlesInv'
    <3>1. /\ toCompact # <<>> /\ UNCHANGED <<databases, queued, holds>>
          /\ toCompact' \in {<<>>, [i \in DOMAIN dbs |-> i], Tail(toCompact)}
          /\ fault' \in BOOLEAN
      BY <2>16 DEF Compact, After
    <3>2. Tail(toCompact) \in Seq({0} \cup Slots)
      BY <3>1
    <3>3. toCompact' \in Seq({0} \cup Slots)
      <4>1. <<>> \in Seq({0} \cup Slots)
        BY NothingIsASequence
      <4> QED
        BY <2>13, <3>1, <3>2, <4>1
    <3> QED
      BY <3>1, <3>3
  <2>17. CASE UNCHANGED vars
    BY <2>17 DEF vars
  <2> QED
    BY <2>1, <2>2, <2>3, <2>4, <2>5, <2>6, <2>7, <2>8, <2>9, <2>10, <2>11, <2>12, <2>14,
       <2>15, <2>16, <2>17 DEF Next
<1> QED
  BY <1>1, <1>2, PTL DEF Spec

(* A storage object that is gone has left nothing locked: shard_rocksdb's  *)
(* and key_rocksdb's destructors close all that open has opened.           *)
THEOREM NothingIsLeftLocked == Spec => []NothingStaysLocked
<1>1. HandlesInv => NothingStaysLocked
  BY DEF HandlesInv, LockedIsOpen, Progress, OpenDbs, NothingStaysLocked
<1> QED
  BY <1>1, HandlesInvariant, PTL

(* storage::open answers true only with every database open.               *)
THEOREM ServingIsWhole == Spec => []ServesWhole
<1>1. HandlesInv => ServesWhole
  BY DEF HandlesInv, LockedIsOpen, Progress, OpenDbs, ServesWhole
<1> QED
  BY <1>1, HandlesInvariant, PTL

-----------------------------------------------------------------------------
(* What was read is in the cache or in the batch.                          *)
ReadSoFar ==
    /\ read \in Nat
    /\ stage \in {"none", "keys", "data", "shards"} => read = 0
    /\ stage \in {"none", "keys", "data", "shards", "load"} => restored \cup batch = 1..read
    /\ stage = "serving" => restored = 1..read

(* key_storage::load gives every record it reads to the cache.             *)
THEOREM AllReadIsRestored == Spec => []ReadIsRestored
<1>1. Init => ReadSoFar
  BY DEF Init, ReadSoFar
<1>2. ReadSoFar /\ [Next]_vars => ReadSoFar'
  <2> SUFFICES ASSUME ReadSoFar, [Next]_vars PROVE ReadSoFar'
    OBVIOUS
  <2> USE DEF ReadSoFar, loading, compaction, databases
  <2>1. CASE Make
    BY <2>1 DEF Make
  <2>2. ASSUME NEW o \in {"garbage", "null", "open"}, OpenKeys(o) PROVE ReadSoFar'
    BY <2>2 DEF OpenKeys
  <2>3. ASSUME NEW success \in BOOLEAN, OpenShard(success) PROVE ReadSoFar'
    BY <2>3 DEF OpenShard
  <2>4. ASSUME NEW i \in DOMAIN dbs, NEW success \in BOOLEAN, OpenDb(i, success)
        PROVE ReadSoFar'
    BY <2>4 DEF OpenDb, AfterDb
  <2>5. CASE NoIterator
    BY <2>5 DEF NoIterator
  <2>6. CASE ReadRecord
    <3>1. /\ read' = read + 1 /\ stage' = "load" /\ stage = "load"
          /\ restored' \cup batch' = restored \cup batch \cup {read + 1}
      BY <2>6 DEF ReadRecord
    <3>2. 1..(read + 1) = (1..read) \cup {read + 1}
      OBVIOUS
    <3> QED
      BY <3>1, <3>2
  <2>7. CASE EndLoad
    BY <2>7 DEF EndLoad, Rest
  <2>8. CASE CloseKeys \/ CloseFails \/ CloseShards
    BY <2>8 DEF CloseKeys, CloseFails, CloseShards
  <2>9. CASE Destroy
    BY <2>9 DEF Destroy
  <2>10. CASE QueueCompact \/ CompactNow
    BY <2>10 DEF QueueCompact, CompactNow
  <2>11. ASSUME NEW dropped \in BOOLEAN, RunQueued(dropped) PROVE ReadSoFar'
    BY <2>11 DEF RunQueued
  <2>12. ASSUME NEW success \in BOOLEAN, Compact(success) PROVE ReadSoFar'
    BY <2>12 DEF Compact
  <2>13. CASE UNCHANGED vars
    BY <2>13 DEF vars
  <2> QED
    BY <2>1, <2>2, <2>3, <2>4, <2>5, <2>6, <2>7, <2>8, <2>9, <2>10, <2>11, <2>12, <2>13 DEF Next
<1>3. ReadSoFar => ReadIsRestored
  BY DEF ReadSoFar, ReadIsRestored
<1> QED
  BY <1>1, <1>2, <1>3, PTL DEF Spec

-----------------------------------------------------------------------------
(* What a compaction goes through is there while the storage loads or      *)
(* serves.                                                                 *)
OpenIsReached == stage \in {"load", "serving"} => \A d \in {0} \cup Slots : Reached(d)

(* While a storage loads or serves, a call goes through a pointer that     *)
(* leads nowhere only in a step that stops or ends it, whenever the        *)
(* compaction that makes the call was asked for; and none that waited in   *)
(* the queue does so over a storage that is gone.                          *)
THEOREM FaultsAreOutsideService == Spec => FaultsOutsideService
<1> DEFINE Outside ==
      fault' /\ ~fault =>
        \/ stage \in {"keys", "data", "shards", "failed", "closing", "closed"}
        \/ stage = "none" /\ toCompact = <<>>
        \/ StopsOrEnds
<1>1. HandlesInv => OpenIsReached
  BY SlotsAreNumbers DEF HandlesInv, Progress, OpenIsReached, Reached
<1>2. HandlesInv /\ [Next]_vars => [Outside]_vars
  <2> SUFFICES ASSUME HandlesInv, Next, fault', ~fault PROVE Outside
    BY DEF vars
  <2>0. stage \in {"none", "keys", "data", "shards", "load", "serving", "closing",
                   "closed", "failed"}
    BY DEF HandlesInv, Typed
  <2>1. ASSUME NEW success \in BOOLEAN, Compact(success) PROVE Outside
    <3>1. toCompact # <<>> /\ toCompact \in Seq({0} \cup Slots)
      BY <2>1 DEF Compact, HandlesInv, Compacting
    <3>2. Head(toCompact) \in {0} \cup Slots
      BY <3>1
    <3>3. stage # "none"
      BY <3>1 DEF HandlesInv, Compacting
    <3>4. ~Reached(Head(toCompact)) \/ stage = "data"
      BY <2>1 DEF Compact, MissesData
    <3>5. stage \notin {"load", "serving"}
      BY <1>1, <3>2, <3>4 DEF OpenIsReached
    <3> QED
      BY <2>0, <3>3, <3>5
  <2>2. CASE CompactNow
    <3>1. stage = "none" /\ toCompact = <<>>
      BY <2>2 DEF CompactNow
    <3> QED
      BY <3>1
  <2>3. CASE Destroy \/ CloseKeys \/ CloseShards
    BY <2>3 DEF Destroy, CloseKeys, CloseShards, StopsOrEnds
  <2>4. CASE ~(Destroy \/ CloseKeys \/ CloseShards \/ CompactNow
               \/ \E success \in BOOLEAN : Compact(success))
    BY <2>4 DEF Next, Make, OpenKeys, OpenShard, OpenDb, NoIterator, ReadRecord, EndLoad,
       CloseFails, QueueCompact, RunQueued
  <2> QED
    BY <2>1, <2>2, <2>3, <2>4
<1> QED
  BY <1>2, HandlesInvariant, PTL DEF Spec, FaultsOutsideService

-----------------------------------------------------------------------------
(* The counts: at most what there is to read, to compact and to start.     *)
Counted ==
    /\ read \in 0..Records /\ batch \subseteq 1..Records /\ restored \subseteq 1..Records
    /\ starts \in 0..MaxStarts
    /\ Len(toCompact) <= Cardinality(Slots)

LEMMA SlotsAreCounted ==
    \E n \in Nat \ {0} : Slots = 1..n /\ IsFiniteSet(Slots) /\ Cardinality(Slots) = n
<1>1. PICK n \in Nat \ {0} : Slots = 1..n
  BY SlotsAreNumbers
<1>2. PICK a \in Nat : a = 1
  OBVIOUS
<1>3. IsFiniteSet(a..n) /\ Cardinality(a..n) = IF a > n THEN 0 ELSE n - a + 1
  BY FS_Interval
<1> QED
  BY <1>1, <1>2, <1>3

LEMMA ShortSequences ==
  ASSUME NEW S, NEW n \in Nat, NEW s \in Seq(S), Len(s) <= n
  PROVE  s \in SeqOf(S, n)
<1>1. PICK m \in 0..n : m = Len(s)
  OBVIOUS
<1>2. s \in [1..m -> S]
  BY <1>1
<1> QED
  BY <1>1, <1>2 DEF SeqOf

LEMMA CountedStep ==
  ASSUME HandlesInv, Counted, [Next]_vars
  PROVE  Counted'
<1> PICK n \in Nat \ {0} : Slots = 1..n /\ Cardinality(Slots) = n
  BY SlotsAreCounted
<1>0. /\ toCompact \in Seq({0} \cup Slots)
      /\ dbs = <<>> \/ dbs \in [Slots -> {"missing", "open"}]
  BY DEF HandlesInv, Compacting, Rooms
<1>1. Len([i \in DOMAIN dbs |-> i]) <= n
  <2>1. DOMAIN dbs = 1..0 \/ DOMAIN dbs = 1..n
    BY <1>0
  <2>2. PICK m \in Nat : DOMAIN dbs = 1..m /\ m <= n
    BY <2>1
  <2>3. PICK s : s = [i \in 1..m |-> i]
    OBVIOUS
  <2>4. s \in [1..m -> Nat]
    BY <2>3
  <2>5. s \in Seq(Nat) /\ Len(s) = m
    BY <2>4
  <2> QED
    BY <2>2, <2>3, <2>5
<1>2. Len(<<>>) <= n /\ Len(<<0>>) <= n
  OBVIOUS
<1> USE DEF Counted, loading, compaction, databases
<1>3. CASE Make
  BY <1>3, BoundsAssumption DEF Make
<1>4. ASSUME NEW o \in {"garbage", "null", "open"}, OpenKeys(o) PROVE Counted'
  BY <1>4 DEF OpenKeys
<1>5. ASSUME NEW success \in BOOLEAN, OpenShard(success) PROVE Counted'
  BY <1>5 DEF OpenShard
<1>6. ASSUME NEW i \in DOMAIN dbs, NEW success \in BOOLEAN, OpenDb(i, success) PROVE Counted'
  BY <1>6 DEF OpenDb
<1>7. CASE NoIterator
  BY <1>7 DEF NoIterator
<1>8. CASE ReadRecord
  <2>1. read < Records /\ read' = read + 1
    BY <1>8 DEF ReadRecord
  <2>2. read' \in 0..Records /\ read' \in 1..Records
    BY <2>1, BoundsAssumption
  <2> QED
    BY <1>8, <2>2 DEF ReadRecord
<1>9. CASE EndLoad
  BY <1>9 DEF EndLoad, Rest
<1>10. CASE CloseKeys \/ CloseFails \/ CloseShards
  BY <1>10 DEF CloseKeys, CloseFails, CloseShards
<1>11. CASE Destroy
  BY <1>2, <1>11, BoundsAssumption DEF Destroy
<1>12. CASE QueueCompact
  BY <1>12 DEF QueueCompact
<1>13. ASSUME NEW dropped \in BOOLEAN, RunQueued(dropped) PROVE Counted'
  BY <1>2, <1>13 DEF RunQueued
<1>14. CASE CompactNow
  BY <1>2, <1>14 DEF CompactNow
<1>15. ASSUME NEW success \in BOOLEAN, Compact(success) PROVE Counted'
  <2>1. /\ toCompact # <<>>
        /\ toCompact' \in {<<>>, [i \in DOMAIN dbs |-> i], Tail(toCompact)}
    BY <1>15 DEF Compact, After
  <2>2. Len(toCompact') <= n
    <3>1. CASE toCompact' = Tail(toCompact)
      BY <1>0, <2>1, <3>1
    <3> QED
      BY <1>1, <1>2, <2>1, <3>1
  <2> QED
    BY <1>15, <2>2 DEF Compact
<1>16. CASE UNCHANGED vars
  BY <1>16 DEF vars
<1> QED
  BY <1>3, <1>4, <1>5, <1>6, <1>7, <1>8, <1>9, <1>10, <1>11, <1>12, <1>13, <1>14, <1>15, <1>16
     DEF Next

(* Handles!TypeOK: among the rest, no more databases than slots, and no    *)
(* compaction that has more to do than there are databases.                *)
THEOREM WellTyped == Spec => []TypeOK
<1>1. Init => Counted
  <2> SUFFICES ASSUME Init PROVE Counted
    OBVIOUS
  <2> PICK n \in Nat \ {0} : Cardinality(Slots) = n
    BY SlotsAreCounted
  <2>1. toCompact = <<>> /\ Len(<<>>) = 0
    BY DEF Init
  <2> QED
    BY <2>1, BoundsAssumption DEF Init, Counted
<1>2. HandlesInv /\ Counted /\ [Next]_vars => Counted'
  BY CountedStep
<1>3. HandlesInv /\ Counted => TypeOK
  <2> SUFFICES ASSUME HandlesInv, Counted PROVE TypeOK
    OBVIOUS
  <2> PICK n \in Nat \ {0} : Slots = 1..n /\ Cardinality(Slots) = n
    BY SlotsAreCounted
  <2>1. dbs \in SeqOf({"missing", "open", "closed"}, n)
    <3>1. dbs = <<>> \/ dbs \in [1..n -> {"missing", "open"}]
      BY DEF HandlesInv, Rooms
    <3>2. dbs \in Seq({"missing", "open", "closed"}) /\ Len(dbs) <= n
      <4>1. CASE dbs = <<>>
        <5>1. <<>> \in Seq({"missing", "open", "closed"}) /\ Len(<<>>) = 0
          OBVIOUS
        <5> QED
          BY <4>1, <5>1
      <4>2. CASE dbs \in [1..n -> {"missing", "open"}]
        <5>1. dbs \in [1..n -> {"missing", "open", "closed"}]
          BY <4>2
        <5>2. dbs \in Seq({"missing", "open", "closed"}) /\ Len(dbs) = n
          BY <5>1
        <5> QED
          BY <5>2
      <4> QED
        BY <3>1, <4>1, <4>2
    <3> QED
      BY <3>2, ShortSequences
  <2>2. toCompact \in SeqOf({0} \cup Slots, n)
    BY ShortSequences DEF HandlesInv, Compacting, Counted
  <2> QED
    BY <2>1, <2>2 DEF HandlesInv, Typed, Compacting, Counted, TypeOK
<1> QED
  BY <1>1, <1>2, <1>3, HandlesInvariant, PTL DEF Spec
=============================================================================
