---------------------------- MODULE StorageProofs ----------------------------
(***************************************************************************)
(* Theorems about Storage, for every set of names, threads and windows and *)
(* every environment: its types, the ids in use and the points.            *)
(***************************************************************************)
EXTENDS Storage, TLAPS

USE DEF NoKey, Ids

LEMMA IdleType == Idle \in Calls
  BY DEF Calls

(* A call under way knows its name and id.                                 *)
LEMMA ActiveCall ==
  ASSUME call \in [Threads -> Calls], NEW t \in Threads, call[t].pc # "idle"
  PROVE  /\ call[t] \in [pc : Steps, name : Names, id : Ids, fresh : BOOLEAN,
                         todo : SUBSET Windows]
         /\ call[t].name \in Names /\ call[t].id \in Ids
         /\ call[t].todo \in SUBSET Windows
  BY DEF Calls, Idle

(* A call that moves on keeps its name and id.                             *)
LEMMA GotoType ==
  ASSUME call \in [Threads -> Calls], NEW t \in Threads, NEW pc \in Steps,
         call[t].pc # "idle", NEW todo \in SUBSET Windows, Goto(t, pc, todo)
  PROVE  call' \in [Threads -> Calls]
  BY ActiveCall DEF Goto, Calls

LEMMA ReturnType ==
  ASSUME call \in [Threads -> Calls], NEW t \in Threads, Return(t)
  PROVE  call' \in [Threads -> Calls]
  BY IdleType DEF Return

LEMMA FinishedType ==
  ASSUME call \in [Threads -> Calls], NEW t \in Threads, NEW w \in Windows,
         NEW pc \in Steps, call[t].pc # "idle", Finished(t, w, pc)
  PROVE  call' \in [Threads -> Calls]
<1>1. call[t].todo \ {w} \in SUBSET Windows
  BY ActiveCall
<1> QED
  BY <1>1, GotoType, ReturnType DEF Finished

LEMMA GetOrCreateType ==
  ASSUME TypeOK, NEW t \in Threads, NEW n \in Names, NEW pc \in {"add", "merge"},
         GetOrCreate(t, n, pc)
  PROVE  /\ call' \in [Threads -> Calls]
         /\ keyCounter' \in 0..MaxId
         /\ keyMap' \in [Names -> 0..MaxId]
<1>1. CASE keyMap[n] # NoKey
  <2>1. keyMap[n] \in Ids
    BY <1>1, MaxIdAssumption DEF TypeOK
  <2>2. [Idle EXCEPT !.pc = pc, !.name = n, !.id = keyMap[n]] \in Calls
    BY <2>1 DEF Calls, Idle, Steps
  <2> QED
    BY <1>1, <2>2 DEF GetOrCreate, TypeOK
<1>2. CASE keyMap[n] = NoKey
  <2>1. NextId \in Ids
    BY <1>2 DEF GetOrCreate, NextId, TypeOK
  <2>2. [Idle EXCEPT !.pc = pc, !.name = n, !.id = NextId, !.fresh = TRUE] \in Calls
    BY <2>1 DEF Calls, Idle, Steps
  <2>3. call' \in [Threads -> Calls]
    BY <1>2, <2>2 DEF GetOrCreate, TypeOK
  <2>4. keyCounter' \in 0..MaxId /\ keyMap' \in [Names -> 0..MaxId]
    BY <1>2, <2>1 DEF GetOrCreate, TypeOK
  <2> QED
    BY <2>3, <2>4
<1> QED
  BY <1>1, <1>2

LEMMA VanishType ==
  ASSUME TypeOK, Vanish
  PROVE  TypeOK'
<1>1. call' \in [Threads -> Calls]
  BY IdleType DEF Vanish
<1> QED
  BY <1>1, MaxIdAssumption DEF Vanish, TypeOK, disk

(* Replacing one point keeps the data database well typed.                 *)
LEMMA PointType ==
  ASSUME TypeOK, NEW i \in Ids, NEW w \in Windows, NEW v \in SUBSET Names,
         dataDb' = [dataDb EXCEPT ![i][w] = v]
  PROVE  dataDb' \in [Ids -> [Windows -> SUBSET Names]]
<1>1. [dataDb[i] EXCEPT ![w] = v] \in [Windows -> SUBSET Names]
  BY DEF TypeOK
<1> QED
  BY <1>1 DEF TypeOK

(* Every state of the shard is well typed: no step files a record under a  *)
(* value that is not an id, or works for a name that is not one.           *)
THEOREM TypeCorrect == Spec => []TypeOK
<1>1. Init => TypeOK
  BY IdleType, MaxIdAssumption DEF Init, TypeOK
<1>2. TypeOK /\ [Next]_vars => TypeOK'
  <2> SUFFICES ASSUME TypeOK, [Next]_vars PROVE TypeOK'
    OBVIOUS
  <2> USE DEF memory, disk, ghosts
  <2>0. call \in [Threads -> Calls]
    BY DEF TypeOK
  <2>1. ASSUME NEW t \in Threads, NEW n \in Names, StartAdd(t, n) PROVE TypeOK'
    BY <2>1, GetOrCreateType DEF StartAdd, TypeOK
  <2>2. ASSUME NEW t \in Threads, NEW n \in Names, StartMerge(t, n) PROVE TypeOK'
    BY <2>2, GetOrCreateType DEF StartMerge, TypeOK
  <2>3. ASSUME NEW t \in Threads, NEW n \in Names, StartDel(t, n) PROVE TypeOK'
    <3>1. [Idle EXCEPT !.pc = "delkey", !.name = n, !.id = keyMap[n]] \in Calls
      <4>1. keyMap[n] \in Ids
        BY <2>3, MaxIdAssumption DEF StartDel, TypeOK
      <4> QED
        BY <4>1 DEF Calls, Idle, Steps
    <3>2. call' \in [Threads -> Calls]
      BY <2>0, <2>3, <3>1 DEF StartDel
    <3>3. keyMap' \in [Names -> 0..MaxId]
      BY <2>3, MaxIdAssumption DEF StartDel, TypeOK
    <3> QED
      BY <2>3, <3>2, <3>3 DEF StartDel, TypeOK
  <2>4. ASSUME NEW t \in Threads, NEW ws \in SUBSET Windows, PushOnTime(t, ws)
        PROVE  TypeOK'
    <3>1. [call[t] EXCEPT !.pc = "setkey", !.fresh = FALSE, !.todo = ws] \in Calls
      BY <2>0, <2>4, ActiveCall DEF PushOnTime, Calls, Steps
    <3>2. ASSUME NEW u \in Threads
          PROVE  [call[u] EXCEPT !.fresh =
                    IF call[u].id = call[t].id THEN FALSE ELSE @] \in Calls
      <4>1. call[t].id \in Ids
        BY <2>0, <2>4, ActiveCall DEF PushOnTime
      <4>2. CASE call[u] = Idle
        <5>1. call[u].id # call[t].id
          BY <4>1, <4>2 DEF Idle
        <5>2. [Idle EXCEPT !.fresh = Idle.fresh] = Idle
          BY DEF Idle
        <5> QED
          BY <4>2, <5>1, <5>2, IdleType
      <4>3. CASE call[u] # Idle
        BY <2>0, <4>3 DEF Calls
      <4> QED
        BY <4>2, <4>3
    <3>3. call' \in [Threads -> Calls]
      BY <2>4, <3>1, <3>2 DEF PushOnTime
    <3> QED
      BY <2>4, <3>3 DEF PushOnTime, TypeOK
  <2>5. ASSUME NEW t \in Threads, NEW w \in Windows, PushLate(t, w) PROVE TypeOK'
    <3>1. call' \in [Threads -> Calls]
      BY <2>0, <2>5, GotoType DEF PushLate, Steps
    <3> QED
      BY <2>5, <3>1 DEF PushLate, TypeOK
  <2>6. ASSUME NEW t \in Threads, NEW ws \in SUBSET Windows, MergePoints(t, ws)
        PROVE  TypeOK'
    <3>1. call' \in [Threads -> Calls]
      BY <2>0, <2>6, GotoType DEF MergePoints, Steps
    <3> QED
      BY <2>6, <3>1 DEF MergePoints, TypeOK
  <2>7. ASSUME NEW t \in Threads, SetKey(t) PROVE TypeOK'
    <3>1. /\ call[t].pc # "idle" /\ call[t].name \in Names /\ call[t].id \in 0..MaxId
          /\ call[t].todo \in SUBSET Windows
      BY <2>0, <2>7, ActiveCall DEF SetKey
    <3>2. call' \in [Threads -> Calls]
      BY <2>0, <2>7, <3>1, GotoType, ReturnType DEF SetKey, Steps
    <3>3. keyDb' \in [Names -> 0..MaxId]
      BY <2>7, <3>1 DEF SetKey, TypeOK
    <3>4. stored' \subseteq Kept \X Windows /\ early' \subseteq Kept \X Windows
      BY <2>7 DEF SetKey, RecordSaved, TypeOK
    <3> QED
      BY <2>7, <3>2, <3>3, <3>4 DEF SetKey, TypeOK
  <2>8. ASSUME NEW t \in Threads, NEW w \in Windows, SetData(t, w) PROVE TypeOK'
    <3>1. call[t].pc # "idle" /\ call[t].id \in Ids /\ {call[t].name} \in SUBSET Names
      BY <2>0, <2>8, ActiveCall DEF SetData
    <3>2. call' \in [Threads -> Calls]
      BY <2>0, <2>8, <3>1, FinishedType DEF SetData, Steps
    <3>3. dataDb' \in [Ids -> [Windows -> SUBSET Names]]
      BY <2>8, <3>1, PointType DEF SetData
    <3>4. stored' \subseteq Kept \X Windows
      BY <2>8 DEF SetData, KeptPoint, TypeOK
    <3> QED
      BY <2>8, <3>2, <3>3, <3>4 DEF SetData, TypeOK
  <2>9. ASSUME NEW t \in Threads, NEW w \in Windows, IncData(t, w) PROVE TypeOK'
    <3>1. call[t].id \in Ids /\ call[t].name \in Names
      BY <2>0, <2>9, ActiveCall DEF IncData
    <3>2. call' \in [Threads -> Calls]
      BY <2>0, <2>9, ReturnType DEF IncData
    <3>3. dataDb[call[t].id][w] \subseteq Names
      BY <3>1 DEF TypeOK
    <3>4. PICK v \in SUBSET Names : dataDb' = [dataDb EXCEPT ![call[t].id][w] = v]
      BY <2>9, <3>1, <3>3 DEF IncData
    <3>5. dataDb' \in [Ids -> [Windows -> SUBSET Names]]
      BY <3>1, <3>4, PointType
    <3>6. stored' \subseteq Kept \X Windows /\ early' \subseteq Kept \X Windows
      BY <2>9 DEF IncData, KeptPoint, TypeOK
    <3> QED
      BY <2>9, <3>2, <3>5, <3>6 DEF IncData, TypeOK
  <2>10. ASSUME NEW t \in Threads, DelKey(t) PROVE TypeOK'
    <3>1. call' \in [Threads -> Calls]
      BY <2>0, <2>10, GotoType DEF DelKey, Steps
    <3>2. call[t].name \in Names /\ NoKey \in 0..MaxId
      BY <2>0, <2>10, ActiveCall, MaxIdAssumption DEF DelKey
    <3>3. keyDb' \in [Names -> 0..MaxId]
      BY <2>10, <3>2 DEF DelKey, TypeOK
    <3> QED
      BY <2>10, <3>1, <3>3 DEF DelKey, TypeOK
  <2>11. ASSUME NEW t \in Threads, DelScan(t) PROVE TypeOK'
    <3>1. call' \in [Threads -> Calls]
      BY <2>0, <2>11, GotoType, ReturnType DEF DelScan, Saved, Steps
    <3> QED
      BY <2>11, <3>1 DEF DelScan, TypeOK
  <2>12. ASSUME NEW t \in Threads, NEW w \in Windows, DelData(t, w) PROVE TypeOK'
    <3>1. call[t].id \in Ids
      BY <2>0, <2>12, ActiveCall DEF DelData
    <3>2. call' \in [Threads -> Calls]
      BY <2>0, <2>12, FinishedType DEF DelData, Steps
    <3>3. dataDb' = [dataDb EXCEPT ![call[t].id][w] = {}] /\ {} \in SUBSET Names
      BY <2>12 DEF DelData
    <3>4. dataDb' \in [Ids -> [Windows -> SUBSET Names]]
      BY <3>1, <3>3, PointType
    <3> QED
      BY <2>12, <3>2, <3>4 DEF DelData, TypeOK
  <2>13. ASSUME NEW t \in Threads, DbFails(t) PROVE TypeOK'
    BY <2>0, <2>13, ReturnType DEF DbFails, TypeOK
  <2>14. ASSUME NEW S \in SUBSET Names, Expire(S) PROVE TypeOK'
    BY <2>14, MaxIdAssumption DEF Expire, TypeOK
  <2>15. CASE Release
    BY <2>15 DEF Release, TypeOK
  <2>16. ASSUME NEW n \in Names, CloseKey(n) PROVE TypeOK'
    <3>1. /\ keyDb' \in [Names -> 0..MaxId]
          /\ closeList' \in [Names -> 0..MaxId]
      BY <2>16, MaxIdAssumption DEF CloseKey, TypeOK
    <3>2. stored' \subseteq Kept \X Windows /\ early' \subseteq Kept \X Windows
      BY <2>16 DEF CloseKey, RecordSaved, TypeOK
    <3> QED
      BY <2>16, <3>1, <3>2 DEF CloseKey, TypeOK
  <2>17. ASSUME NEW ws \in SUBSET Windows, CloseData(ws) PROVE TypeOK'
    <3>1. closeName \in Names
      BY <2>17 DEF CloseData, TypeOK
    <3>2. dataDb' \in [Ids -> [Windows -> SUBSET Names]]
      BY <2>17, <3>1 DEF CloseData, TypeOK
    <3> QED
      BY <2>17, <3>2 DEF CloseData, TypeOK
  <2>18. CASE FinishClose
    BY <2>18, VanishType DEF FinishClose
  <2>19. CASE CloseFails
    BY <2>19, VanishType DEF CloseFails
  <2>20. CASE Crash
    BY <2>20, VanishType DEF Crash
  <2>21. ASSUME NEW S \in SUBSET Names, Open(S) PROVE TypeOK'
    BY <2>21, MaxIdAssumption DEF Open, TypeOK
  <2>22. ASSUME NEW n \in Names, ExpireRecord(n) PROVE TypeOK'
    BY <2>22, MaxIdAssumption DEF ExpireRecord, TypeOK
  <2>23. ASSUME NEW i \in Ids, NEW w \in Windows, ExpirePoint(i, w) PROVE TypeOK'
    <3>1. dataDb' = [dataDb EXCEPT ![i][w] = {}] /\ {} \in SUBSET Names
      BY <2>23 DEF ExpirePoint
    <3>2. dataDb' \in [Ids -> [Windows -> SUBSET Names]]
      BY <3>1, PointType
    <3> QED
      BY <2>23, <3>2 DEF ExpirePoint, TypeOK
  <2>24. CASE UNCHANGED vars
    BY <2>24 DEF vars, TypeOK
  <2> QED
    BY <2>1, <2>2, <2>3, <2>4, <2>5, <2>6, <2>7, <2>8, <2>9, <2>10, <2>11, <2>12,
       <2>13, <2>14, <2>15, <2>16, <2>17, <2>18, <2>19, <2>20, <2>21, <2>22,
       <2>23, <2>24 DEF Next
<1> QED
  BY <1>1, <1>2, PTL DEF Spec

-----------------------------------------------------------------------------
(* Ids.                                                                    *)

(* Nothing is in memory when there is no process.                          *)
NothingWhenDown == phase = "down" =>
    /\ \A t \in Threads : call[t] = Idle
    /\ \A n \in Names : keyMap[n] = NoKey /\ closeList[n] = NoKey

IdsInv == IdsDisjoint /\ NothingWhenDown

(* The step files no name under an id a call did not have for it before.   *)
CallsKept == \A u \in Threads, n \in Names :
    call'[u].name = n => call[u].name = n /\ call'[u].id = call[u].id

LEMMA MovesKeepCalls ==
  ASSUME TypeOK, NEW t \in Threads, NEW pc, NEW todo, NEW w,
         Goto(t, pc, todo) \/ Return(t) \/ Finished(t, w, pc)
  PROVE  CallsKept
<1>1. ASSUME NEW td, Goto(t, pc, td) PROVE CallsKept
  BY <1>1 DEF Goto, CallsKept, TypeOK, Calls, Idle
<1>2. CASE Return(t)
  BY <1>2, NoNameAssumption DEF Return, CallsKept, TypeOK, Idle
<1> QED
  BY <1>1, <1>2, Zenon DEF Finished

(* A step that files nothing anew keeps the ids apart.                     *)
LEMMA Shrinks ==
  ASSUME TypeOK, TypeOK', IdsDisjoint,
         \A n \in Names, i \in Ids : FiledUnder(n, i)' => FiledUnder(n, i),
         Running' => Running /\ keyCounter' >= keyCounter
  PROVE  IdsDisjoint'
<1>1. OneNamePerId'
  BY DEF IdsDisjoint, OneNamePerId
<1>2. CounterPastAll'
  <2>1. ASSUME Running', NEW n \in Names, NEW i \in Ids, FiledUnder(n, i)'
        PROVE  i <= keyCounter'
    <3>1. i <= keyCounter
      BY <2>1 DEF IdsDisjoint, CounterPastAll
    <3>2. keyCounter \in Int /\ keyCounter' \in Int
      BY DEF TypeOK
    <3> QED
      BY <2>1, <3>1, <3>2
  <2> QED
    BY <2>1 DEF CounterPastAll
<1> QED
  BY <1>1, <1>2 DEF IdsDisjoint

(* Of the ids a new key could get, the next one is filed nowhere.          *)
LEMMA NextIdIsNew ==
  ASSUME TypeOK, IdsDisjoint, Running
  PROVE  \A n \in Names : ~FiledUnder(n, NextId)
<1>1. keyCounter \in Nat /\ NextId = keyCounter + 1
  BY DEF TypeOK, NextId
<1>2. CASE NextId \in Ids
  BY <1>1, <1>2 DEF IdsDisjoint, CounterPastAll
<1>3. CASE NextId \notin Ids
  <2>1. NextId > MaxId
    BY <1>1, <1>3, MaxIdAssumption
  <2>2. \A t \in Threads : call[t].id \in 0..MaxId
    BY MaxIdAssumption DEF TypeOK, Calls, Idle
  <2> QED
    BY <2>1, <2>2, MaxIdAssumption DEF FiledUnder, TypeOK
<1> QED
  BY <1>2, <1>3

(* get_or_create files a name under its own id or under a new one.         *)
LEMMA CreateKeepsApart ==
  ASSUME TypeOK, TypeOK', IdsDisjoint, Running, NEW t \in Threads, NEW n \in Names,
         NEW pc, GetOrCreate(t, n, pc), UNCHANGED <<phase, keyDb, closeList>>
  PROVE  IdsDisjoint'
<1>1. CASE keyMap[n] # NoKey
  <2>1. \A u \in Threads :
          \/ call'[u].name = call[u].name /\ call'[u].id = call[u].id
          \/ call'[u].name = n /\ call'[u].id = keyMap[n]
    BY <1>1 DEF GetOrCreate, TypeOK, Idle
  <2>2. \A m \in Names, i \in Ids : FiledUnder(m, i)' => FiledUnder(m, i)
    BY <1>1, <2>1 DEF GetOrCreate, FiledUnder
  <2>3. keyCounter' = keyCounter /\ keyCounter \in Int
    BY <1>1 DEF GetOrCreate, TypeOK
  <2> QED
    BY <2>2, <2>3, Shrinks
<1>2. CASE keyMap[n] = NoKey
  <2>1. \A u \in Threads :
          \/ call'[u].name = call[u].name /\ call'[u].id = call[u].id
          \/ call'[u].name = n /\ call'[u].id = NextId
    BY <1>2 DEF GetOrCreate, TypeOK, Idle
  <2>2. /\ \A m \in Names : keyMap'[m] = IF m = n THEN NextId ELSE keyMap[m]
        /\ keyCounter' = NextId
    BY <1>2 DEF GetOrCreate, TypeOK
  <2>3. \A m \in Names, i \in Ids :
          FiledUnder(m, i)' => FiledUnder(m, i) \/ (m = n /\ i = NextId)
    BY <2>1, <2>2 DEF FiledUnder
  <2>4. OneNamePerId'
    BY <2>3, NextIdIsNew DEF IdsDisjoint, OneNamePerId
  <2>5. keyCounter \in Nat /\ NextId = keyCounter + 1
    BY DEF TypeOK, NextId
  <2>6. CounterPastAll'
    BY <2>2, <2>3, <2>5 DEF IdsDisjoint, CounterPastAll
  <2> QED
    BY <2>4, <2>6 DEF IdsDisjoint
<1> QED
  BY <1>1, <1>2

(* The end of the process leaves only the records.                         *)
LEMMA VanishKeepsApart ==
  ASSUME TypeOK, TypeOK', IdsDisjoint, Vanish
  PROVE  IdsInv'
<1>1. NothingWhenDown'
  BY DEF NothingWhenDown, Vanish
<1>2. \A n \in Names, i \in Ids : FiledUnder(n, i)' => FiledUnder(n, i)
  BY NoNameAssumption DEF FiledUnder, Vanish, Idle, disk
<1>3. ~Running'
  BY DEF Vanish, Running
<1> QED
  BY <1>1, <1>2, <1>3, Shrinks DEF IdsInv

LEMMA IdsInvariant == Spec => []IdsInv
<1>1. Init => IdsInv
  BY NoNameAssumption DEF Init, IdsInv, IdsDisjoint, OneNamePerId, CounterPastAll,
     NothingWhenDown, FiledUnder, Idle
<1>2. TypeOK /\ TypeOK' /\ IdsInv /\ [Next]_vars => IdsInv'
  <2> SUFFICES ASSUME TypeOK, TypeOK', IdsDisjoint, NothingWhenDown, [Next]_vars
               PROVE  IdsInv'
    BY DEF IdsInv
  <2> USE DEF memory, disk, ghosts
  <2>A. ASSUME NEW t \in Threads, NEW n \in Names, NEW pc, Accepting,
               GetOrCreate(t, n, pc), UNCHANGED <<phase, closeList, closeName, disk, ghosts>>
        PROVE  IdsInv'
    <3>1. Running /\ phase' # "down"
      BY <2>A DEF Accepting, Running
    <3> QED
      BY <2>A, <3>1, CreateKeepsApart DEF IdsInv, NothingWhenDown
  <2>B. ASSUME CallsKept, Running, UNCHANGED <<phase, keyCounter, closeList>>,
               \A n \in Names : keyMap'[n] \in {keyMap[n], NoKey},
               \A n \in Names, i \in Ids : keyDb'[n] = i => FiledUnder(n, i)
        PROVE  IdsInv'
    <3>1. \A n \in Names, i \in Ids : FiledUnder(n, i)' => FiledUnder(n, i)
      BY <2>B DEF FiledUnder, CallsKept
    <3>2. keyCounter \in Int /\ phase' # "down"
      BY <2>B DEF TypeOK, Running
    <3> QED
      BY <2>B, <3>1, <3>2, Shrinks DEF IdsInv, NothingWhenDown
  <2>C. ASSUME CallsKept, Running, UNCHANGED <<memory, keyDb>> PROVE IdsInv'
    BY <2>B, <2>C DEF FiledUnder
  <2>1. ASSUME NEW t \in Threads, NEW n \in Names, StartAdd(t, n) \/ StartMerge(t, n)
        PROVE  IdsInv'
    BY <2>1, <2>A DEF StartAdd, StartMerge
  <2>3. ASSUME NEW t \in Threads, NEW n \in Names, StartDel(t, n) PROVE IdsInv'
    <3>1. \A u \in Threads :
          \/ call'[u].name = call[u].name /\ call'[u].id = call[u].id
          \/ call'[u].name = n /\ call'[u].id = keyMap[n]
      BY <2>3 DEF StartDel, TypeOK, Idle
    <3>2. \A m \in Names, i \in Ids : FiledUnder(m, i)' => FiledUnder(m, i)
      BY <2>3, <3>1 DEF StartDel, FiledUnder, TypeOK
    <3>3. keyCounter' = keyCounter /\ keyCounter \in Int /\ Running /\ phase' # "down"
      BY <2>3 DEF StartDel, TypeOK, Accepting, Running
    <3> QED
      BY <3>2, <3>3, Shrinks DEF IdsInv, NothingWhenDown
  <2>4. ASSUME NEW t \in Threads, NEW ws \in SUBSET Windows, PushOnTime(t, ws)
        PROVE  IdsInv'
    <3>1. CallsKept
      BY <2>4 DEF PushOnTime, CallsKept, TypeOK, Calls, Idle
    <3> QED
      BY <2>4, <2>C, <3>1 DEF PushOnTime
  <2>5. ASSUME NEW t \in Threads, NEW w \in Windows, PushLate(t, w) PROVE IdsInv'
    BY <2>5, <2>C, MovesKeepCalls DEF PushLate
  <2>6. ASSUME NEW t \in Threads, NEW ws \in SUBSET Windows, MergePoints(t, ws)
        PROVE  IdsInv'
    BY <2>6, <2>C, MovesKeepCalls DEF MergePoints
  <2>7. ASSUME NEW t \in Threads, SetKey(t) PROVE IdsInv'
    <3>1. CallsKept
      BY <2>7, MovesKeepCalls DEF SetKey
    <3>2. \A n \in Names, i \in Ids : keyDb'[n] = i => FiledUnder(n, i)
      BY <2>7 DEF SetKey, FiledUnder, TypeOK
    <3> QED
      BY <2>7, <2>B, <3>1, <3>2 DEF SetKey
  <2>8. ASSUME NEW t \in Threads, NEW w \in Windows, SetData(t, w) PROVE IdsInv'
    BY <2>8, <2>C, MovesKeepCalls DEF SetData
  <2>9. ASSUME NEW t \in Threads, NEW w \in Windows, IncData(t, w) PROVE IdsInv'
    BY <2>9, <2>C, MovesKeepCalls DEF IncData
  <2>10. ASSUME NEW t \in Threads, DelKey(t) PROVE IdsInv'
    <3>1. CallsKept
      BY <2>10, MovesKeepCalls DEF DelKey
    <3>2. \A n \in Names, i \in Ids : keyDb'[n] = i => FiledUnder(n, i)
      BY <2>10 DEF DelKey, FiledUnder, TypeOK
    <3> QED
      BY <2>10, <2>B, <3>1, <3>2 DEF DelKey
  <2>11. ASSUME NEW t \in Threads, DelScan(t) PROVE IdsInv'
    BY <2>11, <2>C, MovesKeepCalls DEF DelScan
  <2>12. ASSUME NEW t \in Threads, NEW w \in Windows, DelData(t, w) PROVE IdsInv'
    BY <2>12, <2>C, MovesKeepCalls DEF DelData
  <2>13. ASSUME NEW t \in Threads, DbFails(t) PROVE IdsInv'
    BY <2>13, <2>C, MovesKeepCalls DEF DbFails
  <2>14. ASSUME NEW S \in SUBSET Names, Expire(S) PROVE IdsInv'
    <3>1. \A n \in Names, i \in Ids : keyDb'[n] = i => FiledUnder(n, i)
      BY <2>14 DEF Expire, FiledUnder
    <3> QED
      BY <2>14, <2>B, <3>1 DEF Expire, CallsKept
  <2>15. CASE Release
    <3>1. \A n \in Names, i \in Ids : FiledUnder(n, i)' => FiledUnder(n, i)
      BY <2>15 DEF Release, FiledUnder
    <3>2. keyCounter' = keyCounter /\ keyCounter \in Int /\ Running /\ phase' # "down"
      BY <2>15 DEF Release, Running, TypeOK
    <3> QED
      BY <3>1, <3>2, Shrinks DEF IdsInv, NothingWhenDown
  <2>16. ASSUME NEW n \in Names, CloseKey(n) PROVE IdsInv'
    <3>1. \A m \in Names, i \in Ids : FiledUnder(m, i)' => FiledUnder(m, i)
      BY <2>16 DEF CloseKey, FiledUnder, TypeOK
    <3>2. keyCounter' = keyCounter /\ keyCounter \in Int /\ Running /\ phase' # "down"
      BY <2>16 DEF CloseKey, Running, TypeOK
    <3> QED
      BY <3>1, <3>2, Shrinks DEF IdsInv, NothingWhenDown
  <2>17. ASSUME NEW ws \in SUBSET Windows, CloseData(ws) PROVE IdsInv'
    <3>1. \A m \in Names, i \in Ids : FiledUnder(m, i)' => FiledUnder(m, i)
      BY <2>17 DEF CloseData, FiledUnder
    <3>2. keyCounter' = keyCounter /\ keyCounter \in Int /\ Running /\ phase' # "down"
      BY <2>17 DEF CloseData, Running, TypeOK
    <3> QED
      BY <3>1, <3>2, Shrinks DEF IdsInv, NothingWhenDown
  <2>18. CASE FinishClose \/ CloseFails \/ Crash
    BY <2>18, VanishKeepsApart DEF FinishClose, CloseFails, Crash
  <2>21. ASSUME NEW S \in SUBSET Names, Open(S) PROVE IdsInv'
    <3>1. PICK c \in 0..MaxId : IsLargestId(c) /\ keyCounter' = c
      BY <2>21 DEF Open
    <3>2. \A n \in Names, i \in Ids : FiledUnder(n, i)' => keyDb[n] = i
      BY <2>21, NoNameAssumption DEF Open, FiledUnder, NothingWhenDown, Idle
    <3>3. OneNamePerId'
      BY <3>2 DEF IdsDisjoint, OneNamePerId, FiledUnder
    <3>4. CounterPastAll'
      BY <3>1, <3>2 DEF CounterPastAll, IsLargestId
    <3> QED
      BY <2>21, <3>3, <3>4 DEF Open, IdsInv, IdsDisjoint, NothingWhenDown
  <2>22. ASSUME NEW n \in Names, ExpireRecord(n) PROVE IdsInv'
    <3>1. \A m \in Names, i \in Ids : keyDb'[m] = i => FiledUnder(m, i)
      BY <2>22 DEF ExpireRecord, FiledUnder, TypeOK
    <3> QED
      BY <2>22, <2>B, <3>1 DEF ExpireRecord, CallsKept
  <2>23. ASSUME NEW i \in Ids, NEW w \in Windows, ExpirePoint(i, w) PROVE IdsInv'
    BY <2>23, <2>C DEF ExpirePoint, CallsKept
  <2>24. CASE UNCHANGED vars
    BY <2>24 DEF vars, IdsInv, IdsDisjoint, OneNamePerId, CounterPastAll, FiledUnder,
       NothingWhenDown, Running
  <2> QED
    BY <2>1, <2>3, <2>4, <2>5, <2>6, <2>7, <2>8, <2>9, <2>10, <2>11, <2>12,
       <2>13, <2>14, <2>15, <2>16, <2>17, <2>18, <2>21, <2>22, <2>23, <2>24 DEF Next
<1> QED
  BY <1>1, <1>2, TypeCorrect, PTL DEF Spec

(* An id belongs to one name in the cache, the key database, the calls and *)
(* the close under way taken together, and the counter is past it.         *)
THEOREM IdsStayDisjoint == Spec => []IdsDisjoint
<1>1. IdsInv => IdsDisjoint
  BY DEF IdsInv
<1> QED
  BY <1>1, IdsInvariant, PTL

(* No two records of the key database ever share an id.                    *)
THEOREM RecordsNeverShareIds == Spec => []IdsInjective
<1>1. TypeOK /\ IdsDisjoint => IdsInjective
  <2> SUFFICES ASSUME TypeOK, OneNamePerId, NEW m \in Names, NEW n \in Names,
                      keyDb[m] = keyDb[n], keyDb[m] # NoKey
               PROVE  m = n
    BY DEF IdsDisjoint, IdsInjective
  <2>1. keyDb[m] \in Ids
    BY MaxIdAssumption DEF TypeOK
  <2> QED
    BY <2>1 DEF OneNamePerId, FiledUnder
<1> QED
  BY <1>1, TypeCorrect, IdsStayDisjoint, PTL

-----------------------------------------------------------------------------
(* The points of a shard: those of a name in use survive whatever happens, *)
(* and within one run each belongs to one counter, as Counters promises.   *)

(* The step moves calls on and files no name anywhere.                     *)
Moves ==
    /\ UNCHANGED memory
    /\ CallsKept

-----------------------------------------------------------------------------
(* Points of names in use survive.                                         *)

(* While the shard runs, a name in use has one id, wherever it is filed.   *)
OneIdEach == Running => \A n \in Kept :
    /\ keyDb[n] # NoKey => keyMap[n] = keyDb[n]
    /\ closeList[n] # NoKey => keyMap[n] = closeList[n]
    /\ \A t \in Threads : call[t].name = n => keyMap[n] = call[t].id

(* A call writes points when it has written the record, ...                *)
RecordFirst == \A t \in Threads, n \in Kept :
    call[t].pc = "setdata" /\ call[t].name = n => keyDb[n] = call[t].id

(* ... and those that delete do not delete a name in use.                  *)
DelsSpareKept == \A t \in Threads :
    call[t].pc \in {"delkey", "delscan", "deldata"} => call[t].name \notin Kept

PointsInv == OneIdEach /\ RecordFirst /\ DelsSpareKept /\ PointsSurvive

(* Names in use keep the points under every id they are filed under, ...   *)
PointsKept == \A n \in Kept, i \in Ids, w \in Windows :
    FiledUnder(n, i) /\ n \in dataDb[i][w] => n \in dataDb'[i][w]

(* ... and their ids in the records and in the cache.                      *)
IdsKept == \A n \in Kept :
    /\ keyDb[n] # NoKey => keyDb'[n] = keyDb[n]
    /\ keyMap[n] # NoKey => keyMap'[n] = keyMap[n]

(* An early point becomes a stored one when the record is saved under the  *)
(* id the cache has.                                                       *)
LEMMA SurvivesStep ==
  ASSUME TypeOK, PointsSurvive, IdsKept, PointsKept, early' \subseteq early,
         \A n \in Kept, w \in Windows : <<n, w>> \in stored' =>
            \/ <<n, w>> \in stored
            \/ <<n, w>> \in early /\ keyDb'[n] = keyMap[n]
  PROVE  PointsSurvive'
<1> SUFFICES ASSUME NEW n \in Kept, NEW w \in Windows
             PROVE  /\ <<n, w>> \in stored' => keyDb'[n] # NoKey /\ n \in dataDb'[keyDb'[n]][w]
                    /\ <<n, w>> \in early' => keyMap'[n] # NoKey /\ n \in dataDb'[keyMap'[n]][w]
  BY DEF PointsSurvive
<1>1. <<n, w>> \in stored => keyDb[n] # NoKey /\ n \in dataDb[keyDb[n]][w]
  BY DEF PointsSurvive
<1>2. <<n, w>> \in early => keyMap[n] # NoKey /\ n \in dataDb[keyMap[n]][w]
  BY DEF PointsSurvive
<1>3. /\ keyDb[n] # NoKey => keyDb[n] \in Ids /\ FiledUnder(n, keyDb[n])
      /\ keyMap[n] # NoKey => keyMap[n] \in Ids /\ FiledUnder(n, keyMap[n])
  BY KeptAssumption, MaxIdAssumption DEF TypeOK, FiledUnder
<1>4. <<n, w>> \in early => n \in dataDb'[keyMap[n]][w] /\ keyMap'[n] = keyMap[n]
  BY <1>2, <1>3 DEF IdsKept, PointsKept
<1>5. <<n, w>> \in stored => n \in dataDb'[keyDb[n]][w] /\ keyDb'[n] = keyDb[n]
  BY <1>1, <1>3 DEF IdsKept, PointsKept
<1> QED
  BY <1>1, <1>2, <1>4, <1>5

(* A point just written is stored if the record leads to it, and early if  *)
(* only the cache does.                                                    *)
LEMMA PointsAdded ==
  ASSUME TypeOK, PointsSurvive, PointsKept, UNCHANGED <<keyDb, keyMap>>,
         NEW t \in Threads, NEW w \in Windows,
         \/ stored' = stored \cup KeptPoint(t, w) /\ early' = early
         \/ stored' = stored /\ early' = early \cup KeptPoint(t, w),
         call[t].name \in Kept => call[t].name \in dataDb'[call[t].id][w],
         call[t].name \in Kept /\ stored' # stored =>
            keyDb[call[t].name] = call[t].id /\ call[t].id # NoKey,
         call[t].name \in Kept /\ early' # early =>
            keyMap[call[t].name] = call[t].id /\ call[t].id # NoKey
  PROVE  PointsSurvive'
<1> SUFFICES ASSUME NEW n \in Kept, NEW v \in Windows
             PROVE  /\ <<n, v>> \in stored' => keyDb'[n] # NoKey /\ n \in dataDb'[keyDb'[n]][v]
                    /\ <<n, v>> \in early' => keyMap'[n] # NoKey /\ n \in dataDb'[keyMap'[n]][v]
  BY DEF PointsSurvive
<1>1. <<n, v>> \in stored => keyDb[n] # NoKey /\ n \in dataDb[keyDb[n]][v]
  BY DEF PointsSurvive
<1>2. <<n, v>> \in early => keyMap[n] # NoKey /\ n \in dataDb[keyMap[n]][v]
  BY DEF PointsSurvive
<1>3. /\ keyDb[n] # NoKey => keyDb[n] \in Ids /\ FiledUnder(n, keyDb[n])
      /\ keyMap[n] # NoKey => keyMap[n] \in Ids /\ FiledUnder(n, keyMap[n])
  BY KeptAssumption, MaxIdAssumption DEF TypeOK, FiledUnder
<1>4. /\ <<n, v>> \in early => n \in dataDb'[keyMap[n]][v]
      /\ <<n, v>> \in stored => n \in dataDb'[keyDb[n]][v]
  BY <1>1, <1>2, <1>3 DEF PointsKept
<1>5. <<n, v>> \in KeptPoint(t, w) => n = call[t].name /\ v = w
  BY DEF KeptPoint
<1>6. <<n, v>> \in stored' \ stored => n = call[t].name /\ v = w
  BY <1>5
<1>7. <<n, v>> \in early' \ early => n = call[t].name /\ v = w
  BY <1>5
<1>8. <<n, v>> \in stored' => keyDb'[n] # NoKey /\ n \in dataDb'[keyDb'[n]][v]
  BY <1>1, <1>4, <1>6
<1>9. <<n, v>> \in early' => keyMap'[n] # NoKey /\ n \in dataDb'[keyMap'[n]][v]
  BY <1>2, <1>4, <1>7
<1> QED
  BY <1>8, <1>9

(* A step of a call that leaves memory and the records alone.              *)
LEMMA CallStep ==
  ASSUME TypeOK, OneIdEach, RecordFirst, DelsSpareKept, Moves, keyDb' = keyDb,
         \A t \in Threads : call'[t].pc = "setdata" =>
            call[t].pc = "setdata" \/ keyDb[call'[t].name] = call'[t].id,
         \A t \in Threads : call'[t].pc \in {"delkey", "delscan", "deldata"} =>
            call[t].pc \in {"delkey", "delscan", "deldata"} \/ call'[t].name \notin Kept
  PROVE  OneIdEach' /\ RecordFirst' /\ DelsSpareKept'
<1>1. OneIdEach'
  BY KeptAssumption DEF OneIdEach, Moves, CallsKept, memory, Running
<1>2. RecordFirst'
  BY KeptAssumption DEF RecordFirst, Moves, CallsKept
<1>3. DelsSpareKept'
  BY KeptAssumption DEF DelsSpareKept, Moves, CallsKept
<1> QED
  BY <1>1, <1>2, <1>3

(* A call that moves on or returns leaves the others alone.                *)
LEMMA MovesChangePc ==
  ASSUME TypeOK, NEW t \in Threads, NEW pc, NEW todo, NEW w,
         Goto(t, pc, todo) \/ Return(t) \/ Finished(t, w, pc)
  PROVE  /\ \A u \in Threads \ {t} : call'[u] = call[u]
         /\ call'[t].pc \in {"idle", pc}
         /\ call'[t].pc # "idle" => call'[t].id = call[t].id
<1>1. ASSUME NEW td, Goto(t, pc, td)
      PROVE  /\ \A u \in Threads \ {t} : call'[u] = call[u]
             /\ call'[t].pc \in {"idle", pc} /\ call'[t].id = call[t].id
  BY <1>1 DEF Goto, TypeOK, Calls, Idle
<1>2. CASE Return(t)
  BY <1>2 DEF Return, TypeOK, Idle
<1> QED
  BY <1>1, <1>2, Zenon DEF Finished

(* An id that a name in use is filed under is no other name's.             *)
LEMMA NobodyElse ==
  ASSUME IdsDisjoint, NEW n \in Kept, NEW i \in Ids, FiledUnder(n, i),
         NEW m \in Names, FiledUnder(m, i)
  PROVE  m = n
BY KeptAssumption DEF IdsDisjoint, OneNamePerId

LEMMA PointsInvariant == Spec => []PointsInv
<1>1. Init => PointsInv
  BY KeptAssumption, NoNameAssumption
     DEF Init, PointsInv, OneIdEach, RecordFirst, DelsSpareKept, PointsSurvive, Idle
<1>2. TypeOK /\ TypeOK' /\ IdsInv /\ PointsInv /\ [Next]_vars => PointsInv'
  <2> SUFFICES ASSUME TypeOK, TypeOK', IdsInv, PointsInv, [Next]_vars PROVE PointsInv'
    OBVIOUS
  <2> USE DEF memory, disk, ghosts
  <2>0. /\ OneIdEach /\ RecordFirst /\ DelsSpareKept /\ PointsSurvive
        /\ IdsDisjoint /\ NothingWhenDown /\ Kept \subseteq Names
        /\ call \in [Threads -> Calls]
    BY KeptAssumption DEF PointsInv, IdsInv, TypeOK
  <2>A. ASSUME UNCHANGED <<disk, ghosts>>,
               \A n \in Kept : keyMap[n] # NoKey => keyMap'[n] = keyMap[n]
        PROVE  PointsSurvive'
    <3>1. IdsKept /\ PointsKept
      BY <2>A DEF IdsKept, PointsKept
    <3> QED
      BY <2>0, <2>A, <3>1, SurvivesStep
  <2>D. ASSUME UNCHANGED <<keyDb, keyMap, ghosts>>, PointsKept PROVE PointsSurvive'
    <3>1. IdsKept
      BY <2>D DEF IdsKept
    <3> QED
      BY <2>0, <2>D, <3>1, SurvivesStep
  <2>B. ASSUME NEW t \in Threads, NEW n \in Names, NEW pc \in {"add", "merge"},
               Accepting, GetOrCreate(t, n, pc),
               UNCHANGED <<phase, closeList, closeName, disk, ghosts>>
        PROVE  PointsInv'
    <3>0. Running
      BY <2>B DEF Accepting, Running
    <3>1. CASE keyMap[n] # NoKey
      <4>1. /\ UNCHANGED <<keyMap, keyCounter>>
            /\ \A u \in Threads :
                 \/ call'[u] = call[u]
                 \/ call'[u].name = n /\ call'[u].id = keyMap[n] /\ call'[u].pc = pc
        BY <2>0, <2>B, <3>1 DEF GetOrCreate, Idle
      <4>2. OneIdEach' /\ RecordFirst' /\ DelsSpareKept'
        BY <2>0, <2>B, <3>0, <4>1 DEF OneIdEach, RecordFirst, DelsSpareKept, Running
      <4> QED
        BY <2>A, <2>B, <4>1, <4>2 DEF PointsInv
    <3>2. CASE keyMap[n] = NoKey
      <4>1. /\ \A m \in Names : keyMap'[m] = IF m = n THEN NextId ELSE keyMap[m]
            /\ \A u \in Threads :
                 \/ call'[u] = call[u]
                 \/ call'[u].name = n /\ call'[u].id = NextId /\ call'[u].pc = pc
        <5>1. keyMap' = [keyMap EXCEPT ![n] = NextId]
          BY <2>B, <3>2 DEF GetOrCreate
        <5>2. \A m \in Names : keyMap'[m] = IF m = n THEN NextId ELSE keyMap[m]
          BY <5>1 DEF TypeOK
        <5>3. \A u \in Threads : u # t => call'[u] = call[u]
          BY <2>0, <2>B, <3>2 DEF GetOrCreate
        <5>4. call'[t] = [Idle EXCEPT !.pc = pc, !.name = n, !.id = NextId, !.fresh = TRUE]
          BY <2>0, <2>B, <3>2 DEF GetOrCreate
        <5> QED
          BY <5>2, <5>3, <5>4 DEF Idle
      <4>2. n \in Kept => /\ keyDb[n] = NoKey /\ closeList[n] = NoKey
                          /\ \A u \in Threads : call[u].name # n
        <5>1. \A u \in Threads : call[u].name = n => call[u].id \in Ids
          BY <2>0, NoNameAssumption DEF Calls, Idle
        <5> QED
          BY <2>0, <3>0, <3>2, <5>1 DEF OneIdEach
      <4>3. OneIdEach'
        BY <2>0, <2>B, <3>0, <4>1, <4>2 DEF OneIdEach, Running
      <4>4. RecordFirst' /\ DelsSpareKept'
        BY <2>0, <2>B, <4>1 DEF RecordFirst, DelsSpareKept
      <4>5. \A m \in Kept : keyMap[m] # NoKey => keyMap'[m] = keyMap[m]
        BY <2>0, <3>2, <4>1
      <4> QED
        BY <2>A, <2>B, <4>3, <4>4, <4>5 DEF PointsInv
    <3> QED
      BY <3>1, <3>2
  <2>1. ASSUME NEW t \in Threads, NEW n \in Names, StartAdd(t, n) \/ StartMerge(t, n)
        PROVE  PointsInv'
    BY <2>1, <2>B DEF StartAdd, StartMerge
  <2>3. ASSUME NEW t \in Threads, NEW n \in Names, StartDel(t, n) PROVE PointsInv'
    <3>1. \A u \in Threads :
            \/ call'[u] = call[u]
            \/ call'[u].name = n /\ call'[u].pc = "delkey"
      BY <2>0, <2>3 DEF StartDel, Idle
    <3>2. \A m \in Kept : keyMap'[m] = keyMap[m] /\ m # n
      BY <2>0, <2>3 DEF StartDel, TypeOK
    <3>3. OneIdEach' /\ RecordFirst' /\ DelsSpareKept'
      BY <2>0, <2>3, <3>1, <3>2 DEF StartDel, OneIdEach, RecordFirst, DelsSpareKept, Running
    <3> QED
      BY <2>3, <2>A, <3>2, <3>3 DEF StartDel, PointsInv
  <2>4. ASSUME NEW t \in Threads, NEW ws \in SUBSET Windows, PushOnTime(t, ws)
        PROVE  PointsInv'
    <3>1. CallsKept /\ \A u \in Threads : call'[u].pc \in {"setkey", call[u].pc}
      BY <2>0, <2>4 DEF PushOnTime, CallsKept, Calls, Idle
    <3>2. \A u \in Threads : call'[u].pc = "setdata" => call[u].pc = "setdata"
      BY <3>1
    <3>3. \A u \in Threads : call'[u].pc \in {"delkey", "delscan", "deldata"}
            => call[u].pc \in {"delkey", "delscan", "deldata"}
      BY <3>1
    <3> QED
      BY <2>0, <2>4, <2>A, <3>1, <3>2, <3>3, CallStep DEF PushOnTime, PointsInv, Moves
  <2>C. ASSUME NEW t \in Threads, NEW pc, NEW todo, NEW w,
               Goto(t, pc, todo) \/ Return(t) \/ Finished(t, w, pc),
               pc = "setdata" => call[t].pc = "setdata",
               pc \in {"delkey", "delscan", "deldata"} =>
                 call[t].pc \in {"delkey", "delscan", "deldata"},
               UNCHANGED <<memory, keyDb>>
        PROVE  OneIdEach' /\ RecordFirst' /\ DelsSpareKept'
    <3>1. CallsKept
      BY <2>C, MovesKeepCalls
    <3>2. \A u \in Threads : call'[u].pc \in {"idle", call[u].pc} \/ (u = t /\ call'[u].pc = pc)
      BY <2>C, MovesChangePc
    <3> QED
      BY <2>0, <2>C, <3>1, <3>2, CallStep DEF Moves
  <2>5. ASSUME NEW t \in Threads, NEW w \in Windows, PushLate(t, w) PROVE PointsInv'
    BY <2>5, <2>A, <2>C DEF PushLate, PointsInv
  <2>6. ASSUME NEW t \in Threads, NEW ws \in SUBSET Windows, MergePoints(t, ws)
        PROVE  PointsInv'
    BY <2>6, <2>A, <2>C DEF MergePoints, PointsInv
  <2>7. ASSUME NEW t \in Threads, SetKey(t) PROVE PointsInv'
    <3>1. /\ CallsKept /\ \A u \in Threads \ {t} : call'[u] = call[u]
          /\ call'[t].pc \in {"idle", "setkey", "setdata"} /\ call[t].name \in Names
      BY <2>0, <2>7, MovesKeepCalls, MovesChangePc, ActiveCall DEF SetKey
    <3>2. \A n \in Names : keyDb'[n] = IF n = call[t].name THEN call[t].id ELSE keyDb[n]
      BY <2>7, <3>1 DEF SetKey, TypeOK
    <3>3. \A n \in Kept : keyDb[n] # NoKey => keyDb'[n] = keyDb[n]
      BY <2>0, <2>7, <3>2 DEF SetKey, OneIdEach
    <3>4. OneIdEach'
      BY <2>0, <2>7, <3>1, <3>2 DEF SetKey, OneIdEach, Running, CallsKept
    <3>5. RecordFirst'
      <4>1. ASSUME NEW u \in Threads, NEW n \in Kept, call'[u].pc = "setdata",
                   call'[u].name = n
            PROVE  keyDb'[n] = call'[u].id
        <5>1. call[u].name = n /\ call'[u].id = call[u].id
          BY <2>0, <3>1, <4>1 DEF CallsKept
        <5>2. CASE u = t
          BY <2>0, <3>2, <5>1, <5>2
        <5>3. CASE u # t
          <6>1. keyDb[n] = call[u].id /\ call[u].id # NoKey
            BY <2>0, <3>1, <4>1, <5>1, <5>3, ActiveCall DEF RecordFirst
          <6> QED
            BY <3>3, <5>1, <6>1
        <5> QED
          BY <5>2, <5>3
      <4> QED
        BY <4>1 DEF RecordFirst
    <3>6. DelsSpareKept'
      BY <2>0, <3>1 DEF DelsSpareKept
    <3>7. PointsSurvive'
      <4>1. IdsKept /\ PointsKept
        BY <2>7, <3>3 DEF SetKey, IdsKept, PointsKept
      <4>2. /\ early' \subseteq early
            /\ \A n \in Kept, w \in Windows : <<n, w>> \in stored' =>
                 <<n, w>> \in stored \/ (<<n, w>> \in early /\ n = call[t].name)
        BY <2>7 DEF SetKey, RecordSaved
      <4>3. call[t].name \in Kept => keyDb'[call[t].name] = keyMap[call[t].name]
        BY <2>0, <2>7, <3>1, <3>2 DEF SetKey, OneIdEach
      <4> QED
        BY <2>0, <4>1, <4>2, <4>3, SurvivesStep
    <3> QED
      BY <3>4, <3>5, <3>6, <3>7 DEF PointsInv
  <2>8. ASSUME NEW t \in Threads, NEW w \in Windows, SetData(t, w) PROVE PointsInv'
    <3>1. /\ call[t].name \in Names /\ call[t].id \in Ids
          /\ FiledUnder(call[t].name, call[t].id)
      BY <2>0, <2>8, ActiveCall DEF SetData, FiledUnder
    <3>2. \A i \in Ids, v \in Windows : dataDb'[i][v] =
            IF i = call[t].id /\ v = w THEN {call[t].name} ELSE dataDb[i][v]
      BY <2>8 DEF SetData, TypeOK
    <3>3. PointsKept
      <4> SUFFICES ASSUME NEW n \in Kept, NEW i \in Ids, NEW v \in Windows,
                          FiledUnder(n, i), n \in dataDb[i][v]
                   PROVE  n \in dataDb'[i][v]
        BY DEF PointsKept
      <4>1. i = call[t].id => call[t].name = n
        BY <2>0, <3>1, NobodyElse
      <4> QED
        BY <3>2, <4>1
    <3>4. PointsSurvive'
      <4>1. call[t].name \in Kept =>
              /\ keyDb[call[t].name] = call[t].id /\ call[t].id # NoKey
              /\ call[t].name \in dataDb'[call[t].id][w]
        BY <2>0, <2>8, <3>1, <3>2 DEF RecordFirst, SetData
      <4> QED
        BY <2>0, <2>8, <3>3, <4>1, PointsAdded DEF SetData
    <3>5. OneIdEach' /\ RecordFirst' /\ DelsSpareKept'
      BY <2>8, <2>C DEF SetData
    <3> QED
      BY <3>4, <3>5 DEF PointsInv
  <2>9. ASSUME NEW t \in Threads, NEW w \in Windows, IncData(t, w) PROVE PointsInv'
    <3>1. /\ call[t].name \in Names /\ call[t].id \in Ids
          /\ FiledUnder(call[t].name, call[t].id)
      BY <2>0, <2>9, ActiveCall DEF IncData, FiledUnder
    <3>2. \A i \in Ids, v \in Windows : dataDb'[i][v] =
            IF i = call[t].id /\ v = w
            THEN IF "setlate" \in features THEN {call[t].name}
                 ELSE dataDb[i][v] \cup {call[t].name}
            ELSE dataDb[i][v]
      BY <2>9, <3>1 DEF IncData, TypeOK
    <3>3. PointsKept
      <4> SUFFICES ASSUME NEW n \in Kept, NEW i \in Ids, NEW v \in Windows,
                          FiledUnder(n, i), n \in dataDb[i][v]
                   PROVE  n \in dataDb'[i][v]
        BY DEF PointsKept
      <4>1. i = call[t].id => call[t].name = n
        BY <2>0, <3>1, NobodyElse
      <4> QED
        BY <3>2, <4>1
    <3>4. PointsSurvive'
      <4>1. call[t].name \in Kept =>
              /\ keyMap[call[t].name] = call[t].id /\ call[t].id # NoKey
              /\ keyDb[call[t].name] # NoKey => keyDb[call[t].name] = call[t].id
              /\ call[t].name \in dataDb'[call[t].id][w]
        <5>1. Running /\ w \in Windows /\ call[t].id # NoKey
          BY <2>9, <3>1 DEF IncData
        <5>2. call[t].name \in dataDb'[call[t].id][w]
          BY <3>1, <3>2, <5>1
        <5> QED
          BY <2>0, <5>1, <5>2 DEF OneIdEach
      <4> QED
        BY <2>0, <2>9, <3>3, <4>1, PointsAdded DEF IncData
    <3> QED
      BY <2>9, <2>C, <3>4 DEF IncData, PointsInv
  <2>10. ASSUME NEW t \in Threads, DelKey(t) PROVE PointsInv'
    <3>1. CallsKept /\ \A u \in Threads \ {t} : call'[u] = call[u]
      BY <2>0, <2>10, MovesKeepCalls DEF DelKey, Goto
    <3>2. call'[t].pc = "delscan" /\ call[t].name \notin Kept
      BY <2>0, <2>10 DEF DelKey, Goto, DelsSpareKept
    <3>3. \A n \in Kept : keyDb'[n] = keyDb[n]
      BY <2>0, <2>10, <3>2 DEF DelKey, TypeOK
    <3>4. OneIdEach'
      BY <2>0, <2>10, <3>1, <3>3 DEF DelKey, OneIdEach, Running, CallsKept
    <3>5. RecordFirst' /\ DelsSpareKept'
      BY <2>0, <3>1, <3>2, <3>3 DEF RecordFirst, DelsSpareKept, CallsKept
    <3>6. PointsSurvive'
      <4>1. IdsKept /\ PointsKept
        BY <2>10, <3>3 DEF DelKey, IdsKept, PointsKept
      <4> QED
        BY <2>0, <2>10, <4>1, SurvivesStep DEF DelKey
    <3> QED
      BY <3>4, <3>5, <3>6 DEF PointsInv
  <2>11. ASSUME NEW t \in Threads, DelScan(t) PROVE PointsInv'
    BY <2>11, <2>A, <2>C DEF DelScan, PointsInv
  <2>12. ASSUME NEW t \in Threads, NEW w \in Windows, DelData(t, w) PROVE PointsInv'
    <3>1. /\ call[t].name \in Names /\ call[t].name \notin Kept
          /\ FiledUnder(call[t].name, call[t].id)
      BY <2>0, <2>12, ActiveCall DEF DelData, FiledUnder, DelsSpareKept
    <3>2. PointsKept
      <4> SUFFICES ASSUME NEW n \in Kept, NEW i \in Ids, NEW v \in Windows,
                          FiledUnder(n, i), n \in dataDb[i][v]
                   PROVE  n \in dataDb'[i][v]
        BY DEF PointsKept
      <4>1. i # call[t].id
        BY <2>0, <3>1, NobodyElse
      <4> QED
        BY <2>12, <4>1 DEF DelData, TypeOK
    <3>3. PointsSurvive'
      BY <2>12, <2>D, <3>2 DEF DelData
    <3> QED
      BY <2>12, <2>C, <3>3 DEF DelData, PointsInv
  <2>13. ASSUME NEW t \in Threads, DbFails(t) PROVE PointsInv'
    <3>1. Finished(t, 0, "idle") \/ Goto(t, "idle", {}) \/ Return(t)
      BY <2>13 DEF DbFails
    <3> QED
      BY <2>13, <2>A, <2>C, <3>1 DEF DbFails, PointsInv
  <2>14. ASSUME NEW S \in SUBSET Names, Expire(S) PROVE PointsInv'
    <3>1. \A n \in Kept : keyMap'[n] = keyMap[n]
      BY <2>0, <2>14 DEF Expire
    <3>2. OneIdEach'
      BY <2>0, <2>14, <3>1 DEF Expire, OneIdEach, Running
    <3> QED
      BY <2>0, <2>14, <2>A, <3>1, <3>2 DEF Expire, PointsInv, RecordFirst, DelsSpareKept
  <2>15. CASE Release
    <3>1. OneIdEach'
      BY <2>0, <2>15 DEF Release, OneIdEach, Running
    <3> QED
      BY <2>0, <2>15, <2>A, <3>1 DEF Release, PointsInv, RecordFirst, DelsSpareKept
  <2>16. ASSUME NEW n \in Names, CloseKey(n) PROVE PointsInv'
    <3>1. \A m \in Names : /\ keyDb'[m] = IF m = n THEN closeList[n] ELSE keyDb[m]
                           /\ closeList'[m] \in {closeList[m], NoKey}
      BY <2>16 DEF CloseKey, TypeOK
    <3>2. Running /\ closeList[n] # NoKey
      BY <2>16 DEF CloseKey, Running
    <3>3. \A m \in Kept : keyDb[m] # NoKey => keyDb'[m] = keyDb[m]
      BY <2>0, <3>1, <3>2 DEF OneIdEach
    <3>4. OneIdEach'
      BY <2>0, <2>16, <3>1, <3>2 DEF CloseKey, OneIdEach
    <3>5. RecordFirst' /\ DelsSpareKept'
      <4>1. \A t \in Threads : call[t].pc = "setdata" => call[t].id # NoKey
        BY <2>0, ActiveCall
      <4> QED
        BY <2>0, <2>16, <3>3, <4>1 DEF CloseKey, RecordFirst, DelsSpareKept
    <3>6. PointsSurvive'
      <4>1. IdsKept /\ PointsKept
        BY <2>16, <3>3 DEF CloseKey, IdsKept, PointsKept
      <4>2. /\ early' \subseteq early
            /\ \A m \in Kept, w \in Windows : <<m, w>> \in stored' =>
                 <<m, w>> \in stored \/ (<<m, w>> \in early /\ m = n)
        BY <2>16 DEF CloseKey, RecordSaved
      <4>3. n \in Kept => keyDb'[n] = keyMap[n]
        BY <2>0, <3>1, <3>2 DEF OneIdEach
      <4> QED
        BY <2>0, <4>1, <4>2, <4>3, SurvivesStep
    <3> QED
      BY <3>4, <3>5, <3>6 DEF PointsInv
  <2>17. ASSUME NEW ws \in SUBSET Windows, CloseData(ws) PROVE PointsInv'
    <3>1. PointsKept
      <4> SUFFICES ASSUME NEW n \in Kept, NEW i \in Ids, NEW v \in Windows,
                          FiledUnder(n, i), n \in dataDb[i][v]
                   PROVE  n \in dataDb'[i][v]
        BY DEF PointsKept
      <4>1. closeName \in Names
        BY <2>17 DEF CloseData, TypeOK
      <4>2. i = keyMap[closeName] => closeName = n
        BY <2>0, <4>1, NobodyElse DEF FiledUnder
      <4> QED
        BY <2>17, <4>2 DEF CloseData
    <3>2. PointsSurvive'
      BY <2>17, <2>D, <3>1 DEF CloseData
    <3> QED
      BY <2>0, <2>17, <3>2 DEF CloseData, PointsInv, OneIdEach, Running, RecordFirst,
         DelsSpareKept
  <2>18. CASE FinishClose \/ CloseFails \/ Crash
    <3>1. Vanish
      BY <2>18 DEF FinishClose, CloseFails, Crash
    <3>2. RecordFirst' /\ DelsSpareKept'
      BY <3>1 DEF Vanish, RecordFirst, DelsSpareKept, Idle
    <3>3. PointsSurvive'
      BY <2>0, <3>1 DEF Vanish, PointsSurvive
    <3> QED
      BY <3>1, <3>2, <3>3 DEF Vanish, PointsInv, OneIdEach, Running
  <2>21. ASSUME NEW S \in SUBSET Names, Open(S) PROVE PointsInv'
    <3>1. \A n \in Kept : keyMap'[n] = keyDb[n] /\ closeList[n] = NoKey
      BY <2>0, <2>21 DEF Open, NothingWhenDown
    <3>2. \A t \in Threads : call[t].name = NoName
      BY <2>0, <2>21 DEF Open, NothingWhenDown, Idle
    <3>3. OneIdEach'
      BY <2>0, <2>21, <3>1, <3>2, NoNameAssumption DEF Open, OneIdEach
    <3>4. \A n \in Kept : keyMap[n] = NoKey
      BY <2>0, <2>21 DEF Open, NothingWhenDown
    <3> QED
      BY <2>0, <2>21, <2>A, <3>3, <3>4 DEF Open, PointsInv, RecordFirst, DelsSpareKept
  <2>22. ASSUME NEW n \in Names, ExpireRecord(n) PROVE PointsInv'
    <3>1. \A m \in Kept : keyDb'[m] = keyDb[m]
      BY <2>0, <2>22 DEF ExpireRecord, TypeOK
    <3>2. OneIdEach' /\ RecordFirst' /\ DelsSpareKept'
      BY <2>0, <2>22, <3>1 DEF ExpireRecord, OneIdEach, Running, RecordFirst, DelsSpareKept
    <3>3. PointsSurvive'
      <4>1. IdsKept /\ PointsKept
        BY <2>22, <3>1 DEF ExpireRecord, IdsKept, PointsKept
      <4> QED
        BY <2>0, <2>22, <4>1, SurvivesStep DEF ExpireRecord
    <3> QED
      BY <3>2, <3>3 DEF PointsInv
  <2>23. ASSUME NEW i \in Ids, NEW w \in Windows, ExpirePoint(i, w) PROVE PointsInv'
    <3>1. PointsKept
      BY <2>0, <2>23 DEF ExpirePoint, PointsKept, TypeOK
    <3>2. PointsSurvive'
      BY <2>23, <2>D, <3>1 DEF ExpirePoint
    <3> QED
      BY <2>0, <2>23, <3>2 DEF ExpirePoint, PointsInv, OneIdEach, Running, RecordFirst,
         DelsSpareKept
  <2>24. CASE UNCHANGED vars
    BY <2>0, <2>24, <2>A DEF vars, PointsInv, OneIdEach, Running, RecordFirst, DelsSpareKept
  <2> QED
    BY <2>1, <2>3, <2>4, <2>5, <2>6, <2>7, <2>8, <2>9, <2>10, <2>11, <2>12,
       <2>13, <2>14, <2>15, <2>16, <2>17, <2>18, <2>21, <2>22, <2>23, <2>24 DEF Next
<1> QED
  BY <1>1, <1>2, TypeCorrect, IdsInvariant, PTL DEF Spec

(* The points saved for a name in use, late or on time, stay readable under*)
(* it, through every interleaving, collection, expiry, failure, stop and   *)
(* crash; those saved ahead of the name's first record as long as the      *)
(* process runs.                                                           *)
THEOREM SavedPointsSurvive == Spec => []PointsSurvive
<1>1. PointsInv => PointsSurvive
  BY DEF PointsInv
<1> QED
  BY <1>1, PointsInvariant, PTL

-----------------------------------------------------------------------------
(* Within one run each point belongs to one counter.                       *)

OneRunOnly == "close" \notin features /\ "crash" \notin features

(* A name is tied to an id by the cache, by a call under way and by its    *)
(* samples in the id's points.                                             *)
Tied(n, i) ==
    \/ keyMap[n] = i
    \/ \E t \in Threads : call[t].name = n /\ call[t].id = i
    \/ \E w \in Windows : n \in dataDb[i][w]

TiedToOne == \A m, n \in Names, i \in Ids : Tied(m, i) /\ Tied(n, i) => m = n

TiedBefore == \A n \in Names, i \in Ids : Tied(n, i) => i <= keyCounter

(* The id that a del works on does not come back into the cache.           *)
GoneForGood == \A t \in Threads, n \in Names :
    call[t].pc \in {"delkey", "delscan", "deldata"} => keyMap[n] # call[t].id

RunInv == phase = "open" /\ TiedToOne /\ TiedBefore /\ GoneForGood

(* A step that ties nothing anew and takes no new id.                      *)
LEMMA TiesShrink ==
  ASSUME RunInv, phase' = phase, keyCounter' = keyCounter,
         \A n \in Names, i \in Ids : Tied(n, i)' => Tied(n, i), GoneForGood'
  PROVE  RunInv'
  BY DEF RunInv, TiedToOne, TiedBefore

(* A step of a call that leaves memory alone and writes no sample.         *)
LEMMA CallTies ==
  ASSUME TypeOK, RunInv, NEW t \in Threads, NEW pc, NEW todo, NEW w, UNCHANGED memory,
         Goto(t, pc, todo) \/ Return(t) \/ Finished(t, w, pc),
         pc \in {"delkey", "delscan", "deldata"} =>
           call[t].pc \in {"delkey", "delscan", "deldata"},
         \A n \in Names, i \in Ids, v \in Windows :
           n \in dataDb'[i][v] => n \in dataDb[i][v] \/ (call[t].name = n /\ call[t].id = i)
  PROVE  RunInv'
<1>1. CallsKept
  BY MovesKeepCalls
<1>2. \A n \in Names, i \in Ids : Tied(n, i)' => Tied(n, i)
  BY <1>1 DEF Tied, CallsKept, memory
<1>3. GoneForGood'
  <2>1. ASSUME NEW u \in Threads, NEW n \in Names,
               call'[u].pc \in {"delkey", "delscan", "deldata"}
        PROVE  keyMap[n] # call'[u].id
    <3>1. call[u].pc \in {"delkey", "delscan", "deldata"}
      BY <2>1, MovesChangePc
    <3>2. call'[u].id = call[u].id
      BY <2>1, MovesChangePc
    <3> QED
      BY <3>1, <3>2 DEF RunInv, GoneForGood
  <2> QED
    BY <2>1 DEF GoneForGood, memory
<1> QED
  BY <1>2, <1>3, TiesShrink DEF memory

(* get_or_create ties a name to its own id or to one nothing is tied to.   *)
LEMMA CreateTies ==
  ASSUME TypeOK, TypeOK', RunInv, NEW t \in Threads, NEW n \in Names,
         NEW pc \in {"add", "merge"}, GetOrCreate(t, n, pc), UNCHANGED <<phase, dataDb>>
  PROVE  RunInv'
<1>0. call \in [Threads -> Calls]
  BY DEF TypeOK
<1>1. CASE keyMap[n] # NoKey
  <2>1. /\ UNCHANGED <<keyMap, keyCounter>>
        /\ \A u \in Threads :
             \/ call'[u] = call[u]
             \/ call'[u].name = n /\ call'[u].id = keyMap[n] /\ call'[u].pc = pc
    BY <1>0, <1>1 DEF GetOrCreate, Idle
  <2>2. \A m \in Names, i \in Ids : Tied(m, i)' => Tied(m, i)
    BY <2>1 DEF Tied
  <2>3. GoneForGood'
    BY <2>1 DEF RunInv, GoneForGood
  <2> QED
    BY <2>1, <2>2, <2>3, TiesShrink
<1>2. CASE keyMap[n] = NoKey
  <2>1. /\ keyCounter \in Nat /\ NextId = keyCounter + 1 /\ NextId \in Ids
        /\ keyCounter' = NextId /\ keyMap' = [keyMap EXCEPT ![n] = NextId]
    BY <1>2 DEF GetOrCreate, NextId, TypeOK
  <2>2. \A m \in Names : keyMap'[m] = IF m = n THEN NextId ELSE keyMap[m]
    BY <2>1 DEF TypeOK
  <2>3. call'[t] = [Idle EXCEPT !.pc = pc, !.name = n, !.id = NextId, !.fresh = TRUE]
    BY <1>0, <1>2 DEF GetOrCreate
  <2>4. \A u \in Threads : \/ call'[u] = call[u]
                           \/ /\ call'[u].name = n /\ call'[u].id = NextId
                              /\ call'[u].pc = pc
    BY <1>0, <1>2, <2>3 DEF GetOrCreate, Idle
  <2>5. \A m \in Names, i \in Ids : Tied(m, i)' => Tied(m, i) \/ (m = n /\ i = NextId)
    BY <2>2, <2>4 DEF Tied
  <2>6. \A m \in Names : ~Tied(m, NextId)
    BY <2>1 DEF RunInv, TiedBefore
  <2>7. TiedToOne'
    BY <2>5, <2>6 DEF RunInv, TiedToOne
  <2>8. TiedBefore'
    BY <2>1, <2>5 DEF RunInv, TiedBefore
  <2>9. GoneForGood'
    <3>1. ASSUME NEW u \in Threads, NEW m \in Names,
                 call'[u].pc \in {"delkey", "delscan", "deldata"}
          PROVE  keyMap'[m] # call'[u].id
      <4>1. call'[u] = call[u] /\ call[u].pc # "idle"
        BY <2>4, <3>1
      <4>2. Tied(call[u].name, call[u].id) /\ call[u].name \in Names
        BY <1>0, <4>1, ActiveCall DEF Tied
      <4> QED
        BY <2>2, <2>6, <3>1, <4>1, <4>2 DEF RunInv, GoneForGood
    <3> QED
      BY <3>1 DEF GoneForGood
  <2> QED
    BY <2>7, <2>8, <2>9 DEF RunInv
<1> QED
  BY <1>1, <1>2

LEMMA FeaturesStay ==
  ASSUME [Next]_vars
  PROVE  features' = features
  BY DEF Next, StartAdd, StartMerge, StartDel, PushOnTime, PushLate, MergePoints, SetKey, SetData,
     IncData, DelKey, DelScan, DelData, DbFails, Expire, ExpireRecord, ExpirePoint, Release,
     CloseKey, CloseData, FinishClose, CloseFails, Crash, Vanish, Open, vars

LEMMA RunInvariant == Spec /\ OneRunOnly => [](OneRunOnly /\ RunInv)
<1>1. Init => RunInv
  BY NoNameAssumption DEF Init, RunInv, TiedToOne, TiedBefore, GoneForGood, Tied, Idle
<1>2. OneRunOnly /\ [Next]_vars => OneRunOnly'
  BY FeaturesStay DEF OneRunOnly
<1>3. TypeOK /\ TypeOK' /\ OneRunOnly /\ RunInv /\ [Next]_vars => RunInv'
  <2> SUFFICES ASSUME TypeOK, TypeOK', OneRunOnly, RunInv, [Next]_vars PROVE RunInv'
    OBVIOUS
  <2> USE DEF memory, disk, ghosts
  <2>0. call \in [Threads -> Calls] /\ phase = "open" /\ GoneForGood
    BY DEF TypeOK, RunInv
  <2>1. ASSUME NEW t \in Threads, NEW n \in Names, StartAdd(t, n) \/ StartMerge(t, n)
        PROVE  RunInv'
    BY <2>1, CreateTies DEF StartAdd, StartMerge
  <2>3. ASSUME NEW t \in Threads, NEW n \in Names, StartDel(t, n) PROVE RunInv'
    <3>1. call' = [call EXCEPT ![t] =
             [Idle EXCEPT !.pc = "delkey", !.name = n, !.id = keyMap[n]]]
      BY <2>3 DEF StartDel
    <3>2. \A u \in Threads : \/ call'[u] = call[u]
                             \/ call'[u].name = n /\ call'[u].id = keyMap[n]
      BY <2>0, <3>1 DEF Idle
    <3>3. \A m \in Names : keyMap'[m] = IF m = n THEN NoKey ELSE keyMap[m]
      BY <2>3 DEF StartDel, TypeOK
    <3>4. \A m \in Names, i \in Ids : Tied(m, i)' => Tied(m, i)
      BY <2>3, <3>2, <3>3 DEF StartDel, Tied
    <3>5. GoneForGood'
      <4>1. keyMap[n] \in Ids
        BY <2>3, MaxIdAssumption DEF StartDel, TypeOK
      <4>2. \A m \in Names : keyMap'[m] # keyMap[n]
        BY <3>3, <4>1 DEF RunInv, TiedToOne, Tied
      <4>3. ASSUME NEW u \in Threads, NEW m \in Names,
                   call'[u].pc \in {"delkey", "delscan", "deldata"}
            PROVE  keyMap'[m] # call'[u].id
        <5>1. CASE call'[u] = call[u]
          <6>1. call[u].id \in Ids
            BY <2>0, <4>3, <5>1, ActiveCall
          <6> QED
            BY <2>0, <3>3, <4>3, <5>1, <6>1 DEF GoneForGood
        <5> QED
          BY <3>2, <4>2, <5>1
      <4> QED
        BY <4>3 DEF GoneForGood
    <3> QED
      BY <2>3, <3>4, <3>5, TiesShrink DEF StartDel
  <2>4. ASSUME NEW t \in Threads, NEW ws \in SUBSET Windows, PushOnTime(t, ws)
        PROVE  RunInv'
    <3>1. /\ CallsKept
          /\ \A u \in Threads : call'[u].pc \in {"setkey", call[u].pc} /\ call'[u].id = call[u].id
      BY <2>0, <2>4 DEF PushOnTime, CallsKept, Calls, Idle
    <3>2. \A n \in Names, i \in Ids : Tied(n, i)' => Tied(n, i)
      BY <2>4, <3>1 DEF PushOnTime, Tied, CallsKept
    <3>3. GoneForGood'
      BY <2>0, <2>4, <3>1 DEF PushOnTime, GoneForGood
    <3> QED
      BY <2>4, <3>2, <3>3, TiesShrink DEF PushOnTime
  <2>5. ASSUME NEW t \in Threads, NEW w \in Windows, PushLate(t, w) PROVE RunInv'
    BY <2>5, CallTies DEF PushLate
  <2>6. ASSUME NEW t \in Threads, NEW ws \in SUBSET Windows, MergePoints(t, ws)
        PROVE  RunInv'
    BY <2>6, CallTies DEF MergePoints
  <2>7. ASSUME NEW t \in Threads, SetKey(t) PROVE RunInv'
    <3>1. Goto(t, "setdata", call[t].todo) \/ Return(t)
      BY <2>7 DEF SetKey
    <3> QED
      BY <2>7, <3>1, CallTies DEF SetKey
  <2>8. ASSUME NEW t \in Threads, NEW w \in Windows, SetData(t, w) PROVE RunInv'
    <3>1. \A n \in Names, i \in Ids, v \in Windows :
            n \in dataDb'[i][v] => n \in dataDb[i][v] \/ (call[t].name = n /\ call[t].id = i)
      BY <2>8 DEF SetData, TypeOK
    <3> QED
      BY <2>8, <3>1, CallTies DEF SetData
  <2>9. ASSUME NEW t \in Threads, NEW w \in Windows, IncData(t, w) PROVE RunInv'
    <3>1. \A n \in Names, i \in Ids, v \in Windows :
            n \in dataDb'[i][v] => n \in dataDb[i][v] \/ (call[t].name = n /\ call[t].id = i)
      BY <2>9 DEF IncData, TypeOK
    <3> QED
      BY <2>9, <3>1, CallTies DEF IncData
  <2>10. ASSUME NEW t \in Threads, DelKey(t) PROVE RunInv'
    BY <2>10, CallTies DEF DelKey
  <2>11. ASSUME NEW t \in Threads, DelScan(t) PROVE RunInv'
    <3>1. Goto(t, "deldata", Saved(call[t].id)) \/ Return(t)
      BY <2>11 DEF DelScan
    <3> QED
      BY <2>11, <3>1, CallTies DEF DelScan
  <2>12. ASSUME NEW t \in Threads, NEW w \in Windows, DelData(t, w) PROVE RunInv'
    <3>1. \A n \in Names, i \in Ids, v \in Windows :
            n \in dataDb'[i][v] => n \in dataDb[i][v]
      BY <2>12 DEF DelData, TypeOK
    <3> QED
      BY <2>12, <3>1, CallTies DEF DelData
  <2>13. ASSUME NEW t \in Threads, DbFails(t) PROVE RunInv'
    <3>1. Finished(t, 0, "idle") \/ Goto(t, "idle", {}) \/ Return(t)
      BY <2>13 DEF DbFails
    <3> QED
      BY <2>13, <3>1, CallTies DEF DbFails
  <2>14. ASSUME NEW S \in SUBSET Names, Expire(S) PROVE RunInv'
    <3>1. \A n \in Names, i \in Ids : Tied(n, i)' => Tied(n, i)
      BY <2>14 DEF Expire, Tied
    <3>2. GoneForGood'
      <4>1. \A t \in Threads : call[t].pc # "idle" => call[t].id # NoKey
        BY <2>0, ActiveCall
      <4> QED
        BY <2>0, <2>14, <4>1 DEF Expire, GoneForGood
    <3> QED
      BY <2>14, <3>1, <3>2, TiesShrink DEF Expire
  <2>22. ASSUME NEW n \in Names, ExpireRecord(n) PROVE RunInv'
    BY <2>22 DEF ExpireRecord, RunInv, TiedToOne, TiedBefore, GoneForGood, Tied
  <2>23. ASSUME NEW i \in Ids, NEW w \in Windows, ExpirePoint(i, w) PROVE RunInv'
    <3>1. \A n \in Names, j \in Ids, v \in Windows :
            n \in dataDb'[j][v] => n \in dataDb[j][v]
      BY <2>23 DEF ExpirePoint, TypeOK
    <3>2. \A n \in Names, j \in Ids : Tied(n, j)' => Tied(n, j)
      BY <2>23, <3>1 DEF ExpirePoint, Tied
    <3> QED
      BY <2>0, <2>23, <3>2, TiesShrink DEF ExpirePoint, GoneForGood
  <2>24. CASE UNCHANGED vars
    BY <2>24 DEF vars, RunInv, TiedToOne, TiedBefore, GoneForGood, Tied
  <2>25. ~Release /\ ~FinishClose /\ ~CloseFails /\ ~Crash
    BY <2>0 DEF OneRunOnly, Release, FinishClose, CloseFails, Crash
  <2>26. /\ \A n \in Names : ~CloseKey(n)
         /\ \A ws \in SUBSET Windows : ~CloseData(ws)
         /\ \A S \in SUBSET Names : ~Open(S)
    BY <2>0 DEF CloseKey, CloseData, Open
  <2> QED
    BY <2>1, <2>3, <2>4, <2>5, <2>6, <2>7, <2>8, <2>9, <2>10, <2>11, <2>12,
       <2>13, <2>14, <2>22, <2>23, <2>24, <2>25, <2>26 DEF Next
<1> QED
  BY <1>1, <1>2, <1>3, TypeCorrect, PTL DEF Spec

-----------------------------------------------------------------------------
(* Calls that do not overlap.                                              *)

Deleting == {"delkey", "delscan", "deldata"}

(* A stop that waits for the calls comes when there are none, and calls of *)
(* callers that take turns come one at a time.                             *)
Apart ==
    /\ "undrained" \notin features /\ phase # "open" =>
         \A t \in Threads : call[t].pc = "idle"
    /\ "alone" \in features => \A t, u \in Threads :
         call[t].pc # "idle" /\ call[u].pc # "idle" => t = u

LEMMA ApartInvariant == Spec => []Apart
<1>1. Init => Apart
  BY DEF Init, Apart, Idle
<1>2. TypeOK /\ IdsInv /\ Apart /\ [Next]_vars => Apart'
  <2> SUFFICES ASSUME TypeOK, IdsInv, Apart, [Next]_vars PROVE Apart'
    OBVIOUS
  <2> USE DEF memory, disk, ghosts
  <2>0. call \in [Threads -> Calls] /\ features' = features
    BY FeaturesStay DEF TypeOK
  <2>A. ASSUME \A u \in Threads : call'[u].pc # "idle" => call[u].pc # "idle",
               phase' = phase
        PROVE  Apart'
    BY <2>0, <2>A DEF Apart
  <2>B. ASSUME Vanish PROVE Apart'
    BY <2>B DEF Vanish, Apart, Idle
  <2>C. ASSUME NEW t \in Threads, NEW pc, NEW todo, NEW w, call[t].pc # "idle",
               Goto(t, pc, todo) \/ Return(t) \/ Finished(t, w, pc), phase' = phase
        PROVE  Apart'
    <3>1. \A u \in Threads \ {t} : call'[u] = call[u]
      BY <2>C, MovesChangePc
    <3> QED
      BY <2>A, <2>C, <3>1
  <2>D. ASSUME NEW t \in Threads, Accepting, phase' = phase,
               \A u \in Threads \ {t} : call'[u] = call[u]
        PROVE  Apart'
    BY <2>0, <2>D DEF Accepting, Apart
  <2>1. ASSUME NEW t \in Threads, NEW n \in Names, StartAdd(t, n) \/ StartMerge(t, n)
        PROVE  Apart'
    <3>1. \A u \in Threads \ {t} : call'[u] = call[u]
      BY <2>0, <2>1 DEF StartAdd, StartMerge, GetOrCreate
    <3> QED
      BY <2>1, <2>D, <3>1 DEF StartAdd, StartMerge
  <2>3. ASSUME NEW t \in Threads, NEW n \in Names, StartDel(t, n) PROVE Apart'
    BY <2>0, <2>3, <2>D DEF StartDel
  <2>4. ASSUME NEW t \in Threads, NEW ws \in SUBSET Windows, PushOnTime(t, ws)
        PROVE  Apart'
    <3>1. \A u \in Threads : call'[u].pc # "idle" => call[u].pc # "idle"
      BY <2>0, <2>4 DEF PushOnTime, Calls, Idle
    <3> QED
      BY <2>4, <2>A, <3>1 DEF PushOnTime
  <2>5. ASSUME NEW t \in Threads, NEW w \in Windows, PushLate(t, w) PROVE Apart'
    BY <2>5, <2>C DEF PushLate
  <2>6. ASSUME NEW t \in Threads, NEW ws \in SUBSET Windows, MergePoints(t, ws)
        PROVE  Apart'
    BY <2>6, <2>C DEF MergePoints
  <2>7. ASSUME NEW t \in Threads, SetKey(t) PROVE Apart'
    <3>1. Goto(t, "setdata", call[t].todo) \/ Return(t)
      BY <2>7 DEF SetKey
    <3> QED
      BY <2>7, <2>C, <3>1 DEF SetKey
  <2>8. ASSUME NEW t \in Threads, NEW w \in Windows, SetData(t, w) PROVE Apart'
    BY <2>8, <2>C DEF SetData
  <2>9. ASSUME NEW t \in Threads, NEW w \in Windows, IncData(t, w) PROVE Apart'
    BY <2>9, <2>C DEF IncData
  <2>10. ASSUME NEW t \in Threads, DelKey(t) PROVE Apart'
    BY <2>10, <2>C DEF DelKey
  <2>11. ASSUME NEW t \in Threads, DelScan(t) PROVE Apart'
    <3>1. Goto(t, "deldata", Saved(call[t].id)) \/ Return(t)
      BY <2>11 DEF DelScan
    <3> QED
      BY <2>11, <2>C, <3>1 DEF DelScan
  <2>12. ASSUME NEW t \in Threads, NEW w \in Windows, DelData(t, w) PROVE Apart'
    BY <2>12, <2>C DEF DelData
  <2>13. ASSUME NEW t \in Threads, DbFails(t) PROVE Apart'
    <3>1. Finished(t, 0, "idle") \/ Goto(t, "idle", {}) \/ Return(t)
      BY <2>13 DEF DbFails
    <3> QED
      BY <2>13, <2>C, <3>1 DEF DbFails
  <2>14. ASSUME NEW S \in SUBSET Names, Expire(S) PROVE Apart'
    BY <2>14, <2>A DEF Expire
  <2>15. CASE Release
    BY <2>0, <2>15 DEF Release, Apart
  <2>16. ASSUME NEW n \in Names, CloseKey(n) \/ ExpireRecord(n) PROVE Apart'
    BY <2>16, <2>A DEF CloseKey, ExpireRecord
  <2>17. ASSUME NEW ws, CloseData(ws) PROVE Apart'
    BY <2>17, <2>A DEF CloseData
  <2>18. CASE FinishClose \/ CloseFails \/ Crash
    BY <2>18, <2>B DEF FinishClose, CloseFails, Crash
  <2>19. ASSUME NEW S, Open(S) PROVE Apart'
    BY <2>19 DEF Open, Apart, IdsInv, NothingWhenDown, Idle
  <2>23. ASSUME NEW i \in Ids, NEW w \in Windows, ExpirePoint(i, w) PROVE Apart'
    BY <2>23, <2>A DEF ExpirePoint
  <2>24. CASE UNCHANGED vars
    BY <2>24, <2>A DEF vars
  <2> QED
    BY <2>1, <2>3, <2>4, <2>5, <2>6, <2>7, <2>8, <2>9, <2>10, <2>11, <2>12, <2>13,
       <2>14, <2>15, <2>16, <2>17, <2>18, <2>19, <2>23, <2>24 DEF Next
<1> QED
  BY <1>1, <1>2, TypeCorrect, IdsInvariant, PTL DEF Spec

(* A del that nothing disturbs has removed the record before it looks for  *)
(* points, and of those it looked for it has still to remove the rest.     *)
Erasing == Undisturbed => \A t \in Threads :
    /\ call[t].pc \in {"delscan", "deldata"} => keyDb[call[t].name] = NoKey
    /\ call[t].pc = "deldata" =>
         \A w \in Windows \ call[t].todo : dataDb[call[t].id][w] = {}

(* While a del is under way nothing but the del saves anything.            *)
LEMMA ErasingStays ==
  ASSUME Erasing, features' = features,
         \A t \in Threads : call'[t].pc \in {"delscan", "deldata"} =>
           /\ call'[t] = call[t]
           /\ keyDb[call[t].name] = NoKey => keyDb'[call[t].name] = NoKey
           /\ \A w \in Windows :
                dataDb[call[t].id][w] = {} => dataDb'[call[t].id][w] = {}
  PROVE  Erasing'
  BY DEF Erasing, Undisturbed

LEMMA ErasingInvariant == Spec => []Erasing
<1>1. Init => Erasing
  BY DEF Init, Erasing, Idle
<1>2. TypeOK /\ IdsInv /\ Apart /\ Erasing /\ [Next]_vars => Erasing'
  <2> SUFFICES ASSUME TypeOK, IdsInv, Apart, Erasing, [Next]_vars, Undisturbed
               PROVE  Erasing'
    BY FeaturesStay DEF Erasing, Undisturbed
  <2> USE DEF memory, disk, ghosts
  <2>0. /\ call \in [Threads -> Calls] /\ features' = features
        /\ "alone" \in features /\ "undrained" \notin features /\ "io" \notin features
    BY FeaturesStay DEF TypeOK, Undisturbed
  <2>A. ASSUME \A u \in Threads : call'[u].pc \notin {"delscan", "deldata"}
        PROVE  Erasing'
    BY <2>A DEF Erasing
  <2>B. ASSUME NEW t \in Threads, call[t].pc # "idle",
               \A u \in Threads \ {t} : call'[u] = call[u],
               call'[t].pc \notin {"delscan", "deldata"}
        PROVE  Erasing'
    BY <2>0, <2>A, <2>B DEF Apart
  <2>C. ASSUME NEW t \in Threads, NEW pc, NEW todo, NEW w, call[t].pc # "idle",
               pc \notin {"delscan", "deldata"},
               Goto(t, pc, todo) \/ Return(t) \/ Finished(t, w, pc)
        PROVE  Erasing'
    <3>1. /\ \A u \in Threads \ {t} : call'[u] = call[u]
          /\ call'[t].pc \in {"idle", pc}
      BY <2>C, MovesChangePc
    <3> QED
      BY <2>B, <2>C, <3>1
  <2>D. ASSUME call' = call,
               \A n \in Names : keyDb[n] = NoKey => keyDb'[n] = NoKey,
               \A i \in Ids, w \in Windows : dataDb[i][w] = {} => dataDb'[i][w] = {}
        PROVE  Erasing'
    <3>1. \A t \in Threads : call'[t].pc \in {"delscan", "deldata"} =>
            call[t].name \in Names /\ call[t].id \in Ids
      BY <2>0, <2>D, ActiveCall
    <3> QED
      BY <2>0, <2>D, <3>1, ErasingStays
  <2>E. ASSUME NEW t \in Threads, Accepting, call'[t].pc \notin {"delscan", "deldata"},
               \A u \in Threads \ {t} : call'[u] = call[u]
        PROVE  Erasing'
    BY <2>0, <2>A, <2>E DEF Accepting
  <2>1. ASSUME NEW t \in Threads, NEW n \in Names, StartAdd(t, n) \/ StartMerge(t, n)
        PROVE  Erasing'
    <3>1. /\ \A u \in Threads \ {t} : call'[u] = call[u]
          /\ call'[t].pc \in {"add", "merge"}
      BY <2>0, <2>1 DEF StartAdd, StartMerge, GetOrCreate, Idle
    <3> QED
      BY <2>1, <2>E, <3>1 DEF StartAdd, StartMerge
  <2>3. ASSUME NEW t \in Threads, NEW n \in Names, StartDel(t, n) PROVE Erasing'
    <3>1. call'[t].pc = "delkey" /\ \A u \in Threads \ {t} : call'[u] = call[u]
      BY <2>0, <2>3 DEF StartDel, Idle
    <3> QED
      BY <2>3, <2>E, <3>1 DEF StartDel
  <2>4. ASSUME NEW t \in Threads, NEW ws \in SUBSET Windows, PushOnTime(t, ws)
        PROVE  Erasing'
    <3>1. call[t].pc = "add" /\ \A u \in Threads : call'[u].pc \in {"setkey", call[u].pc}
      BY <2>0, <2>4 DEF PushOnTime, Calls, Idle
    <3>2. \A u \in Threads \ {t} : call[u].pc = "idle"
      BY <2>0, <3>1 DEF Apart
    <3> QED
      BY <2>A, <3>1, <3>2
  <2>5. ASSUME NEW t \in Threads, NEW w \in Windows, PushLate(t, w) PROVE Erasing'
    <3>1. Goto(t, "late", {w}) /\ call[t].pc = "add"
      BY <2>5 DEF PushLate
    <3>2. /\ \A u \in Threads \ {t} : call'[u] = call[u]
          /\ call'[t].pc = "late"
      BY <2>0, <3>1 DEF Goto, Calls
    <3> QED
      BY <2>B, <3>1, <3>2
  <2>6. ASSUME NEW t \in Threads, NEW ws \in SUBSET Windows, MergePoints(t, ws)
        PROVE  Erasing'
    BY <2>6, <2>C DEF MergePoints
  <2>7. ASSUME NEW t \in Threads, SetKey(t) PROVE Erasing'
    <3>1. /\ Goto(t, "setdata", call[t].todo) \/ Return(t)
          /\ call[t].pc = "setkey"
      BY <2>7 DEF SetKey
    <3> QED
      BY <2>C, <3>1
  <2>8. ASSUME NEW t \in Threads, NEW w \in Windows, SetData(t, w) PROVE Erasing'
    BY <2>8, <2>C DEF SetData
  <2>9. ASSUME NEW t \in Threads, NEW w \in Windows, IncData(t, w) PROVE Erasing'
    BY <2>9, <2>C DEF IncData
  <2>10. ASSUME NEW t \in Threads, DelKey(t) PROVE Erasing'
    <3>1. /\ \A u \in Threads \ {t} : call'[u] = call[u] /\ call[u].pc = "idle"
          /\ call[t].name \in Names
      BY <2>0, <2>10, ActiveCall DEF DelKey, Goto, Apart
    <3>2. call'[t].pc = "delscan" /\ call'[t].name = call[t].name
      BY <2>0, <2>10, ActiveCall DEF DelKey, Goto
    <3>3. keyDb'[call[t].name] = NoKey
      BY <2>10, <3>1 DEF DelKey, TypeOK
    <3> QED
      BY <3>1, <3>2, <3>3 DEF Erasing
  <2>11. ASSUME NEW t \in Threads, DelScan(t) PROVE Erasing'
    <3>1. CASE Return(t)
      BY <2>11, <2>C, <3>1 DEF DelScan
    <3>2. CASE Goto(t, "deldata", Saved(call[t].id))
      <4>1. \A u \in Threads \ {t} : call'[u] = call[u] /\ call[u].pc = "idle"
        BY <2>0, <2>11, <3>2 DEF DelScan, Goto, Apart
      <4>2. /\ call'[t].pc = "deldata" /\ call'[t].name = call[t].name
            /\ call'[t].id = call[t].id /\ call'[t].todo = Saved(call[t].id)
        BY <2>0, <2>11, <3>2, ActiveCall DEF DelScan, Goto
      <4>3. keyDb'[call[t].name] = NoKey /\ dataDb' = dataDb
        BY <2>11 DEF DelScan, Erasing
      <4>4. \A w \in Windows \ Saved(call[t].id) : dataDb[call[t].id][w] = {}
        BY DEF Saved
      <4> QED
        BY <4>1, <4>2, <4>3, <4>4 DEF Erasing
    <3> QED
      BY <2>11, <3>1, <3>2 DEF DelScan
  <2>12. ASSUME NEW t \in Threads, NEW w \in Windows, DelData(t, w) PROVE Erasing'
    <3>1. CASE Return(t)
      BY <2>12, <2>C, <3>1 DEF DelData
    <3>2. CASE Goto(t, "deldata", call[t].todo \ {w})
      <4>1. \A u \in Threads \ {t} : call'[u] = call[u] /\ call[u].pc = "idle"
        BY <2>0, <2>12, <3>2 DEF DelData, Goto, Apart
      <4>2. /\ call'[t].pc = "deldata" /\ call'[t].name = call[t].name
            /\ call'[t].id = call[t].id /\ call'[t].todo = call[t].todo \ {w}
            /\ call[t].id \in Ids
        BY <2>0, <2>12, <3>2, ActiveCall DEF DelData, Goto
      <4>3. keyDb'[call[t].name] = NoKey
        BY <2>12 DEF DelData, Erasing
      <4>4. \A v \in Windows : dataDb'[call[t].id][v] =
              IF v = w THEN {} ELSE dataDb[call[t].id][v]
        BY <2>12, <4>2 DEF DelData, TypeOK
      <4>5. \A v \in Windows \ call[t].todo : dataDb[call[t].id][v] = {}
        BY <2>12 DEF DelData, Erasing
      <4> QED
        BY <4>1, <4>2, <4>3, <4>4, <4>5 DEF Erasing
    <3> QED
      BY <2>12, <3>1, <3>2 DEF DelData, Finished
  <2>14. ASSUME NEW S \in SUBSET Names, Expire(S) PROVE Erasing'
    BY <2>14, <2>D DEF Expire
  <2>15. CASE Release
    BY <2>15, <2>D DEF Release
  <2>16. ASSUME NEW n \in Names, CloseKey(n) PROVE Erasing'
    <3>1. \A u \in Threads : call'[u].pc = "idle"
      BY <2>0, <2>16 DEF CloseKey, Apart
    <3> QED
      BY <2>A, <3>1
  <2>17. ASSUME NEW ws, CloseData(ws) PROVE Erasing'
    <3>1. \A u \in Threads : call'[u].pc = "idle"
      BY <2>0, <2>17 DEF CloseData, Apart
    <3> QED
      BY <2>A, <3>1
  <2>18. CASE FinishClose \/ CloseFails \/ Crash
    <3>1. \A u \in Threads : call'[u].pc = "idle"
      BY <2>18 DEF FinishClose, CloseFails, Crash, Vanish, Idle
    <3> QED
      BY <2>A, <3>1
  <2>19. ASSUME NEW S, Open(S) PROVE Erasing'
    BY <2>19, <2>D DEF Open
  <2>22. ASSUME NEW n \in Names, ExpireRecord(n) PROVE Erasing'
    <3>1. \A m \in Names : keyDb[m] = NoKey => keyDb'[m] = NoKey
      BY <2>22 DEF ExpireRecord, TypeOK
    <3> QED
      BY <2>22, <2>D, <3>1 DEF ExpireRecord
  <2>23. ASSUME NEW i \in Ids, NEW w \in Windows, ExpirePoint(i, w) PROVE Erasing'
    <3>1. \A j \in Ids, v \in Windows : dataDb[j][v] = {} => dataDb'[j][v] = {}
      BY <2>23 DEF ExpirePoint, TypeOK
    <3> QED
      BY <2>23, <2>D, <3>1 DEF ExpirePoint
  <2>24. CASE UNCHANGED vars
    BY <2>24, <2>D DEF vars
  <2>25. \A t \in Threads : ~DbFails(t)
    BY <2>0 DEF DbFails
  <2> QED
    BY <2>1, <2>3, <2>4, <2>5, <2>6, <2>7, <2>8, <2>9, <2>10, <2>11, <2>12, <2>14,
       <2>15, <2>16, <2>17, <2>18, <2>19, <2>22, <2>23, <2>24, <2>25 DEF Next
<1> QED
  BY <1>1, <1>2, TypeCorrect, IdsInvariant, ApartInvariant, PTL DEF Spec

(* A del that answers true has erased the record and every point of the id *)
(* it took from the cache, whatever is collected or expires and whenever   *)
(* the process dies, if no call overlaps with it or with a stop.           *)
THEOREM DeletesErase == Spec => DeleteErases
<1>1. TypeOK /\ IdsInv /\ Apart /\ Erasing /\ [Next]_vars => (Undisturbed => Erases)
  <2> SUFFICES ASSUME TypeOK, IdsInv, Apart, Erasing, [Next]_vars, Undisturbed,
                      NEW t \in Threads, call[t].pc \in {"delscan", "deldata"},
                      call'[t].pc = "idle", phase' # "down"
               PROVE  /\ keyDb'[call[t].name] = NoKey
                      /\ \A w \in Windows : dataDb'[call[t].id][w] = {}
    BY DEF Erases
  <2> USE DEF memory, disk, ghosts
  <2>0. /\ call \in [Threads -> Calls] /\ call[t].name \in Names /\ call[t].id \in Ids
        /\ "alone" \in features /\ "io" \notin features
        /\ keyDb[call[t].name] = NoKey
    BY ActiveCall DEF TypeOK, Undisturbed, Erasing
  <2>A. ASSUME NEW u \in Threads \ {t}, call[u].pc # "idle" PROVE FALSE
    BY <2>0, <2>A DEF Apart
  <2>B. ASSUME call' = call PROVE FALSE
    BY <2>B
  <2>C. ASSUME Vanish PROVE FALSE
    BY <2>C DEF Vanish
  <2>1. ASSUME NEW u \in Threads, NEW n \in Names,
               StartAdd(u, n) \/ StartMerge(u, n) \/ StartDel(u, n)
        PROVE  FALSE
    BY <2>0, <2>1 DEF StartAdd, StartMerge, StartDel, Accepting
  <2>4. ASSUME NEW u \in Threads, NEW ws \in SUBSET Windows,
               PushOnTime(u, ws) \/ MergePoints(u, ws)
        PROVE  FALSE
    BY <2>4, <2>A DEF PushOnTime, MergePoints
  <2>5. ASSUME NEW u \in Threads, NEW w \in Windows,
               PushLate(u, w) \/ SetData(u, w) \/ IncData(u, w)
        PROVE  FALSE
    BY <2>5, <2>A DEF PushLate, SetData, IncData
  <2>7. ASSUME NEW u \in Threads, SetKey(u) \/ DelKey(u) \/ DbFails(u) PROVE FALSE
    BY <2>0, <2>7, <2>A DEF SetKey, DelKey, DbFails
  <2>11. ASSUME NEW u \in Threads, DelScan(u)
         PROVE  /\ keyDb'[call[t].name] = NoKey
                /\ \A w \in Windows : dataDb'[call[t].id][w] = {}
    <3>1. u = t
      BY <2>11, <2>A DEF DelScan
    <3>2. Saved(call[t].id) = {}
      BY <2>0, <2>11, <3>1, ActiveCall DEF DelScan, Goto
    <3> QED
      BY <2>0, <2>11, <3>2 DEF DelScan, Saved
  <2>12. ASSUME NEW u \in Threads, NEW w \in Windows, DelData(u, w)
         PROVE  /\ keyDb'[call[t].name] = NoKey
                /\ \A v \in Windows : dataDb'[call[t].id][v] = {}
    <3>1. u = t
      BY <2>12, <2>A DEF DelData
    <3>2. call[t].todo = {w}
      BY <2>0, <2>12, <3>1, ActiveCall DEF DelData, Finished, Goto
    <3>3. \A v \in Windows \ {w} : dataDb[call[t].id][v] = {}
      BY <2>12, <3>1, <3>2 DEF DelData, Erasing
    <3>4. \A v \in Windows : dataDb'[call[t].id][v] =
            IF v = w THEN {} ELSE dataDb[call[t].id][v]
      BY <2>0, <2>12, <3>1 DEF DelData, TypeOK
    <3> QED
      BY <2>0, <2>12, <3>3, <3>4 DEF DelData
  <2>14. ASSUME NEW S, Expire(S) \/ Open(S) PROVE FALSE
    BY <2>14, <2>B DEF Expire, Open
  <2>15. ASSUME Release \/ FinishClose \/ CloseFails \/ Crash PROVE FALSE
    BY <2>15, <2>B, <2>C DEF Release, FinishClose, CloseFails, Crash
  <2>16. ASSUME NEW n, CloseKey(n) \/ ExpireRecord(n) PROVE FALSE
    BY <2>16, <2>B DEF CloseKey, ExpireRecord
  <2>17. ASSUME NEW ws, CloseData(ws) PROVE FALSE
    BY <2>17, <2>B DEF CloseData
  <2>23. ASSUME NEW i, NEW w, ExpirePoint(i, w) PROVE FALSE
    BY <2>23, <2>B DEF ExpirePoint
  <2>24. ASSUME UNCHANGED vars PROVE FALSE
    BY <2>24, <2>B DEF vars
  <2> QED
    BY <2>1, <2>4, <2>5, <2>7, <2>11, <2>12, <2>14, <2>15, <2>16, <2>17, <2>23,
       <2>24 DEF Next
<1> QED
  BY <1>1, TypeCorrect, IdsInvariant, ApartInvariant, ErasingInvariant, PTL
     DEF Spec, DeleteErases

-----------------------------------------------------------------------------
(* An environment in which nothing fails: what the cache, the records, the *)
(* calls and the points say of a name agrees, whatever is under way.       *)

(* A call works under the id the cache has for its name, or deletes a name *)
(* the cache has no more.                                                  *)
CallsCurrent == \A t \in Threads :
    /\ call[t].pc \in Deleting => keyMap[call[t].name] = NoKey /\ "alone" \in features
    /\ call[t].pc \notin Deleting \cup {"idle"} => keyMap[call[t].name] = call[t].id

(* The call is going to save the record of its name.                       *)
Brings(t, n) ==
    /\ call[t].name = n
    /\ call[t].pc \in {"merge", "setkey"} \/ (call[t].pc = "add" /\ call[t].fresh)

(* A record follows its key, but for one a call is going to save or remove.*)
RecordsFollow == Running => \A n \in Names :
    \/ keyDb[n] = keyMap[n]
    \/ keyDb[n] = NoKey /\ \E t \in Threads : Brings(t, n)
    \/ keyMap[n] = NoKey /\ \E t \in Threads : call[t].name = n /\ call[t].pc = "delkey"

CloseListed == phase = "closing" =>
    \A n \in Names : closeList[n] \in {NoKey, keyMap[n]}

(* Samples lie under the id of their name, or under one a call is removing.*)
PointsFiled == \A n \in Names, i \in Ids, w \in Windows : n \in dataDb[i][w] =>
    \/ IdOf(n) = i
    \/ \E t \in Threads : call[t].pc \in Deleting /\ call[t].name = n /\ call[t].id = i

Agree  == CallsCurrent /\ RecordsFollow /\ CloseListed /\ PointsFiled
DepInv == Dependable => Agree

(* A call that moves on is the same call, no more fresh.                   *)
LEMMA SameCall ==
  ASSUME TypeOK, TypeOK', NEW t \in Threads, NEW pc, NEW todo, NEW w,
         Goto(t, pc, todo) \/ Return(t) \/ Finished(t, w, pc)
  PROVE  /\ \A u \in Threads \ {t} : call'[u] = call[u]
         /\ call'[t].pc \in {"idle", pc}
         /\ call'[t].pc # "idle" =>
              call'[t].name = call[t].name /\ call'[t].id = call[t].id
<1>1. /\ \A u \in Threads \ {t} : call'[u] = call[u]
      /\ call'[t].pc \in {"idle", pc}
      /\ call'[t].pc # "idle" => call'[t].id = call[t].id
  BY MovesChangePc
<1>2. CallsKept
  BY MovesKeepCalls
<1>3. ASSUME call'[t].pc # "idle" PROVE call'[t].name = call[t].name
  <2>1. call'[t].name \in Names
    BY <1>3 DEF TypeOK, Calls, Idle
  <2> QED
    BY <1>2, <2>1 DEF CallsKept
<1> QED
  BY <1>1, <1>3

(* A step of a call that leaves memory and the records alone, and writes   *)
(* samples only under the id its name has.                                 *)
LEMMA CallAgrees ==
  ASSUME TypeOK, TypeOK', Agree, NEW t \in Threads, NEW pc, NEW todo, NEW w,
         call[t].pc # "idle", call[t].pc # "delkey", UNCHANGED memory, keyDb' = keyDb,
         features' = features,
         Goto(t, pc, todo) \/ Return(t) \/ Finished(t, w, pc),
         pc \in Deleting <=> call[t].pc \in Deleting, pc # "idle",
         \/ \A n \in Names : ~Brings(t, n)
         \/ pc = "setkey" /\ Goto(t, pc, todo),
         \A n \in Names, i \in Ids, v \in Windows : n \in dataDb'[i][v] =>
           n \in dataDb[i][v] \/ (n = call[t].name /\ i = call[t].id /\ keyMap[n] = i),
         call[t].pc \in Deleting /\ call'[t].pc = "idle" =>
           \A v \in Windows : dataDb'[call[t].id][v] = {},
         Running
  PROVE  Agree'
<1>1. /\ \A u \in Threads \ {t} : call'[u] = call[u]
      /\ call'[t].pc \in {"idle", pc}
      /\ call'[t].pc # "idle" =>
           call'[t].name = call[t].name /\ call'[t].id = call[t].id
  BY SameCall
<1>2. CallsCurrent'
  <2>1. \A u \in Threads : call'[u].pc # "idle" =>
          /\ call'[u].name = call[u].name /\ call'[u].id = call[u].id
          /\ call[u].pc # "idle"
          /\ call'[u].pc \in Deleting <=> call[u].pc \in Deleting
    BY <1>1
  <2> QED
    BY <2>1 DEF Agree, CallsCurrent, memory, Deleting
<1>3. RecordsFollow'
  <2>1. ASSUME NEW n \in Names, NEW u \in Threads, Brings(u, n) PROVE Brings(u, n)'
    <3>1. CASE u # t
      BY <1>1, <2>1, <3>1 DEF Brings
    <3>2. CASE u = t
      <4>1. pc = "setkey" /\ call'[t].pc = "setkey"
        <5>1. pc = "setkey" /\ Goto(t, pc, todo)
          BY <2>1, <3>2
        <5>2. call \in [Threads -> Calls]
          BY DEF TypeOK
        <5> QED
          BY <5>1, <5>2, ActiveCall DEF Goto
      <4> QED
        BY <1>1, <2>1, <3>2, <4>1 DEF Brings
    <3> QED
      BY <3>1, <3>2
  <2>2. \A n \in Names, u \in Threads : call[u].name = n /\ call[u].pc = "delkey" =>
          call'[u].name = n /\ call'[u].pc = "delkey"
    BY <1>1
  <2> QED
    BY <2>1, <2>2 DEF Agree, RecordsFollow, Running, memory
<1>4. CloseListed'
  BY DEF Agree, CloseListed, memory
<1>5. PointsFiled'
  <2>1. ASSUME NEW n \in Names, NEW i \in Ids, NEW v \in Windows, n \in dataDb'[i][v],
               ~(IdOf(n) = i)'
        PROVE  \E u \in Threads :
                 call'[u].pc \in Deleting /\ call'[u].name = n /\ call'[u].id = i
    <3>1. keyMap[n] # i /\ phase # "down"
      BY <2>1 DEF IdOf, memory, Running
    <3>2. n \in dataDb[i][v]
      BY <2>1, <3>1
    <3>3. PICK u \in Threads :
            call[u].pc \in Deleting /\ call[u].name = n /\ call[u].id = i
      BY <3>1, <3>2 DEF Agree, PointsFiled, IdOf
    <3>4. CASE u # t
      BY <1>1, <3>3, <3>4
    <3>5. CASE u = t
      <4>1. call'[t].pc # "idle"
        BY <2>1, <3>3, <3>5
      <4> QED
        BY <1>1, <3>3, <3>5, <4>1
    <3> QED
      BY <3>4, <3>5
  <2> QED
    BY <2>1 DEF PointsFiled
<1> QED
  BY <1>2, <1>3, <1>4, <1>5 DEF Agree

(* get_or_create ties a call to the id the cache has for its name, and the *)
(* call that made the key brings its record.                               *)
LEMMA CreateAgrees ==
  ASSUME TypeOK, TypeOK', Agree, Dependable, NEW t \in Threads, NEW n \in Names,
         NEW pc \in {"add", "merge"}, Accepting, call[t].pc = "idle",
         GetOrCreate(t, n, pc),
         UNCHANGED <<features, phase, keyDb, dataDb>>
  PROVE  Agree'
<1>0. /\ call \in [Threads -> Calls] /\ phase = "open" /\ phase' = "open"
      /\ "alone" \in features => \A u \in Threads : call[u].pc = "idle"
  BY DEF TypeOK, Accepting, Dependable
<1>1. /\ \A u \in Threads \ {t} : call'[u] = call[u]
      /\ call'[t].pc = pc /\ call'[t].name = n /\ call'[t].id = keyMap'[n]
      /\ keyMap[n] = NoKey => call'[t].fresh
      /\ \A m \in Names : keyMap'[m] = keyMap[m] \/ (m = n /\ keyMap[m] = NoKey)
  <2>1. CASE keyMap[n] # NoKey
    BY <1>0, <2>1 DEF GetOrCreate, Idle
  <2>2. CASE keyMap[n] = NoKey
    <3>1. call'[t] = [Idle EXCEPT !.pc = pc, !.name = n, !.id = NextId, !.fresh = TRUE]
      BY <1>0, <2>2 DEF GetOrCreate
    <3>2. \A m \in Names : keyMap'[m] = IF m = n THEN NextId ELSE keyMap[m]
      BY <2>2 DEF GetOrCreate, TypeOK
    <3>3. \A u \in Threads \ {t} : call'[u] = call[u]
      BY <1>0, <2>2 DEF GetOrCreate
    <3> QED
      BY <2>2, <3>1, <3>2, <3>3 DEF Idle
  <2> QED
    BY <2>1, <2>2
<1>2. \A u \in Threads : call[u].pc # "idle" =>
        /\ call[u].pc \notin Deleting /\ call[u].name \in Names /\ call[u].id # NoKey
        /\ keyMap[call[u].name] = call[u].id
  BY <1>0, ActiveCall DEF Agree, CallsCurrent
<1>3. CallsCurrent'
  <2>1. \A u \in Threads \ {t} : call'[u].pc # "idle" =>
          call'[u].pc \notin Deleting /\ keyMap'[call'[u].name] = call'[u].id
    BY <1>1, <1>2
  <2>2. call'[t].pc \notin Deleting /\ keyMap'[call'[t].name] = call'[t].id
    BY <1>1 DEF Deleting
  <2> QED
    BY <2>1, <2>2 DEF CallsCurrent, Deleting
<1>4. RecordsFollow'
  <2>1. ASSUME NEW m \in Names
        PROVE  keyDb[m] = keyMap'[m] \/ (keyDb[m] = NoKey /\ \E u \in Threads : Brings(u, m)')
    <3>1. \/ keyDb[m] = keyMap[m]
          \/ keyDb[m] = NoKey /\ \E u \in Threads : Brings(u, m)
      BY <1>0, <1>2 DEF Agree, RecordsFollow, Running, Deleting
    <3>2. CASE keyMap'[m] # keyMap[m]
      <4>1. m = n /\ keyMap[n] = NoKey
        BY <1>1, <3>2
      <4>2. Brings(t, n)'
        BY <1>1, <4>1 DEF Brings
      <4>3. \A u \in Threads : ~Brings(u, n)
        BY <1>2, <4>1 DEF Brings
      <4> QED
        BY <3>1, <4>1, <4>2, <4>3
    <3>3. CASE keyMap'[m] = keyMap[m]
      <4>1. \A u \in Threads : Brings(u, m) => Brings(u, m)'
        BY <1>1 DEF Brings
      <4> QED
        BY <3>1, <3>3, <4>1
    <3> QED
      BY <3>2, <3>3
  <2> QED
    BY <2>1 DEF RecordsFollow
<1>5. CloseListed'
  BY <1>0 DEF CloseListed
<1>6. PointsFiled'
  <2>1. \A m \in Names, i \in Ids : keyMap[m] = i => keyMap'[m] = i
    BY <1>1
  <2>2. \A u \in Threads : call[u].pc \notin Deleting
    BY <1>2 DEF Deleting
  <2>3. \A m \in Names, i \in Ids, w \in Windows : m \in dataDb[i][w] => keyMap[m] = i
    BY <1>0, <2>2 DEF Agree, PointsFiled, IdOf
  <2> QED
    BY <1>0, <2>1, <2>3 DEF PointsFiled, IdOf
<1> QED
  BY <1>3, <1>4, <1>5, <1>6 DEF Agree

(* A step that leaves calls, keys, records and points alone.               *)
LEMMA IdleAgrees ==
  ASSUME Agree, features' = features, call' = call, keyMap' = keyMap, dataDb' = dataDb,
         keyDb' = keyDb, Running' <=> Running, phase' = "down" <=> phase = "down",
         CloseListed'
  PROVE  Agree'
<1>1. CallsCurrent'
  BY DEF Agree, CallsCurrent
<1>2. RecordsFollow'
  BY DEF Agree, RecordsFollow, Brings
<1>3. PointsFiled'
  BY DEF Agree, PointsFiled, IdOf
<1> QED
  BY <1>1, <1>2, <1>3 DEF Agree

LEMMA DependableInvariant == Spec => []DepInv
<1>1. Init => DepInv
  BY DEF Init, DepInv, Agree, CallsCurrent, RecordsFollow, CloseListed, PointsFiled, Idle,
     Deleting
<1>2. TypeOK /\ TypeOK' /\ IdsInv /\ Apart /\ Erasing /\ DepInv /\ [Next]_vars => DepInv'
  <2> SUFFICES ASSUME TypeOK, TypeOK', IdsInv, Apart, Erasing, Agree, [Next]_vars, Dependable
               PROVE  Agree'
    BY FeaturesStay DEF DepInv, Dependable
  <2> USE DEF memory, disk, ghosts
  <2>0. /\ call \in [Threads -> Calls] /\ features' = features
        /\ features \cap {"gc", "ttl", "undrained", "crash", "io"} = {}
        /\ "del" \in features => "alone" \in features
    BY FeaturesStay DEF TypeOK, Dependable
  <2>A. ASSUME \A u \in Threads : call[u].pc = "idle"
        PROVE  /\ \A m \in Names, i \in Ids, w \in Windows :
                    m \in dataDb[i][w] => IdOf(m) = i
               /\ Running => \A m \in Names : keyDb[m] = keyMap[m]
    BY <2>A DEF Agree, PointsFiled, RecordsFollow, Deleting, Brings
  <2>B. phase # "open" => \A u \in Threads : call[u].pc = "idle"
    BY <2>0 DEF Apart
  <2>C. ASSUME \A u \in Threads : call'[u].pc = "idle",
               \A m \in Names, i \in Ids, w \in Windows :
                 m \in dataDb'[i][w] => (IdOf(m) = i)',
               Running' => \A m \in Names : keyDb'[m] = keyMap'[m],
               CloseListed'
        PROVE  Agree'
    <3>1. CallsCurrent'
      BY <2>C DEF CallsCurrent, Deleting
    <3>2. RecordsFollow'
      BY <2>C DEF RecordsFollow
    <3>3. PointsFiled'
      BY <2>C DEF PointsFiled
    <3> QED
      BY <2>C, <3>1, <3>2, <3>3 DEF Agree
  <2>1. ASSUME NEW t \in Threads, NEW n \in Names, StartAdd(t, n) \/ StartMerge(t, n)
        PROVE  Agree'
    BY <2>1, CreateAgrees DEF StartAdd, StartMerge
  <2>3. ASSUME NEW t \in Threads, NEW n \in Names, StartDel(t, n) PROVE Agree'
    <3>1. /\ "alone" \in features /\ \A u \in Threads : call[u].pc = "idle"
          /\ phase = "open" /\ phase' = "open" /\ keyMap[n] # NoKey
      BY <2>0, <2>3 DEF StartDel, Accepting
    <3>2. /\ \A u \in Threads \ {t} : call'[u] = call[u]
          /\ call'[t].pc = "delkey" /\ call'[t].name = n /\ call'[t].id = keyMap[n]
      BY <2>0, <2>3 DEF StartDel, Idle
    <3>3. \A m \in Names : keyMap'[m] = IF m = n THEN NoKey ELSE keyMap[m]
      BY <2>3 DEF StartDel, TypeOK
    <3>4. CallsCurrent'
      BY <2>0, <3>1, <3>2, <3>3 DEF CallsCurrent, Deleting
    <3>5. RecordsFollow'
      <4>1. \A m \in Names : keyDb'[m] = keyMap[m]
        BY <2>3, <2>A, <3>1 DEF StartDel, Running
      <4> QED
        BY <3>2, <3>3, <4>1 DEF RecordsFollow
    <3>6. CloseListed'
      BY <3>1 DEF CloseListed
    <3>7. PointsFiled'
      <4>1. \A m \in Names, i \in Ids, w \in Windows : m \in dataDb'[i][w] => keyMap[m] = i
        BY <2>3, <2>A, <3>1 DEF StartDel, IdOf
      <4> QED
        BY <3>1, <3>2, <3>3, <4>1 DEF PointsFiled, IdOf, Deleting
    <3> QED
      BY <3>4, <3>5, <3>6, <3>7 DEF Agree
  <2>4. ASSUME NEW t \in Threads, NEW ws \in SUBSET Windows, PushOnTime(t, ws)
        PROVE  Agree'
    <3>1. /\ call'[t].pc = "setkey" /\ call[t].pc = "add"
          /\ \A u \in Threads : /\ call'[u].name = call[u].name /\ call'[u].id = call[u].id
                                /\ u # t => call'[u].pc = call[u].pc
                                /\ u # t /\ call[u].id # call[t].id =>
                                     call'[u].fresh = call[u].fresh
      <4>1. /\ call[t].pc = "add"
            /\ call'[t] = [call[t] EXCEPT !.pc = "setkey", !.fresh = FALSE, !.todo = ws]
            /\ \A u \in Threads \ {t} : call'[u] =
                 [call[u] EXCEPT !.fresh = IF call[u].id = call[t].id THEN FALSE ELSE @]
        BY <2>0, <2>4 DEF PushOnTime
      <4>2. /\ call'[t].pc = "setkey"
            /\ call'[t].name = call[t].name /\ call'[t].id = call[t].id
        BY <2>0, <4>1, ActiveCall
      <4>3. ASSUME NEW u \in Threads \ {t}
            PROVE  /\ call'[u].name = call[u].name /\ call'[u].id = call[u].id
                   /\ call'[u].pc = call[u].pc
                   /\ call[u].id # call[t].id => call'[u].fresh = call[u].fresh
        <5>1. call[u] \in Calls
          BY <2>0
        <5> QED
          <6>1. PICK b \in {FALSE, call[u].fresh} :
                  /\ call'[u] = [call[u] EXCEPT !.fresh = b]
                  /\ call[u].id # call[t].id => b = call[u].fresh
            BY <4>1
          <6>2. CASE call[u] = Idle
            BY <6>1, <6>2 DEF Idle
          <6>3. CASE call[u] \in [pc : Steps, name : Names, id : Ids, fresh : BOOLEAN,
                                  todo : SUBSET Windows]
            BY <6>1, <6>3
          <6> QED
            BY <5>1, <6>2, <6>3 DEF Calls
      <4> QED
        BY <4>1, <4>2, <4>3
    <3>2. call[t].name \in Names /\ call[t].id \in Ids
      BY <2>0, <3>1, ActiveCall
    <3>3. CallsCurrent'
      BY <2>4, <2>0, <3>1 DEF PushOnTime, Agree, CallsCurrent, Deleting
    <3>4. RecordsFollow'
      <4>1. ASSUME NEW n \in Names, NEW u \in Threads, Brings(u, n)
            PROVE  \E v \in Threads : Brings(v, n)'
        <5>1. CASE call[u].id = call[t].id
          <6>1. call[t].name = n
            BY <3>2, <4>1, <5>1 DEF IdsInv, IdsDisjoint, OneNamePerId, FiledUnder, Brings
          <6>2. Brings(t, n)'
            BY <3>1, <6>1 DEF Brings
          <6> QED
            BY <6>2
        <5>2. CASE call[u].id # call[t].id
          <6>1. Brings(u, n)'
            BY <3>1, <4>1, <5>2 DEF Brings
          <6> QED
            BY <6>1
        <5> QED
          BY <5>1, <5>2
      <4>2. \A n \in Names, u \in Threads : call[u].name = n /\ call[u].pc = "delkey" =>
              call'[u].name = n /\ call'[u].pc = "delkey"
        BY <3>1
      <4> QED
        BY <2>4, <4>1, <4>2 DEF PushOnTime, Agree, RecordsFollow, Running
    <3>5. CloseListed'
      BY <2>4 DEF PushOnTime, Agree, CloseListed
    <3>6. PointsFiled'
      BY <2>4, <3>1 DEF PushOnTime, Agree, PointsFiled, IdOf, Deleting
    <3> QED
      BY <3>3, <3>4, <3>5, <3>6 DEF Agree
  <2>D. ASSUME NEW t \in Threads, call[t].pc \notin Deleting \cup {"idle"}
        PROVE  keyMap[call[t].name] = call[t].id
    BY <2>D DEF Agree, CallsCurrent
  <2>5. ASSUME NEW t \in Threads, NEW w \in Windows, PushLate(t, w) PROVE Agree'
    <3>1. \A n \in Names : ~Brings(t, n)
      BY <2>5 DEF PushLate, Brings
    <3> QED
      BY <2>0, <2>5, <3>1, CallAgrees DEF PushLate, Deleting
  <2>6. ASSUME NEW t \in Threads, NEW ws \in SUBSET Windows, MergePoints(t, ws)
        PROVE  Agree'
    BY <2>0, <2>6, CallAgrees DEF MergePoints, Deleting
  <2>7. ASSUME NEW t \in Threads, SetKey(t) PROVE Agree'
    <3>1. /\ call[t].pc = "setkey" /\ call[t].name \in Names /\ Running
          /\ Goto(t, "setdata", call[t].todo) \/ Return(t)
          /\ UNCHANGED <<keyMap, dataDb, phase, closeList>>
      BY <2>0, <2>7, ActiveCall DEF SetKey
    <3>2. /\ \A u \in Threads \ {t} : call'[u] = call[u]
          /\ call'[t].pc \in {"idle", "setdata"}
          /\ call'[t].pc # "idle" =>
               call'[t].name = call[t].name /\ call'[t].id = call[t].id
      BY <3>1, SameCall
    <3>3. \A m \in Names : keyDb'[m] = IF m = call[t].name THEN keyMap[m] ELSE keyDb[m]
      BY <2>7, <2>D, <3>1 DEF SetKey, TypeOK, Deleting
    <3>4. CallsCurrent'
      BY <2>0, <3>1, <3>2 DEF Agree, CallsCurrent, Deleting
    <3>5. RecordsFollow'
      <4>1. \A m \in Names \ {call[t].name}, u \in Threads : Brings(u, m) => Brings(u, m)'
        BY <3>2 DEF Brings
      <4>2. \A m \in Names, u \in Threads : call[u].name = m /\ call[u].pc = "delkey" =>
              call'[u].name = m /\ call'[u].pc = "delkey"
        BY <3>1, <3>2
      <4> QED
        BY <3>1, <3>3, <4>1, <4>2 DEF Agree, RecordsFollow, Running
    <3>6. CloseListed'
      BY <3>1 DEF Agree, CloseListed
    <3>7. PointsFiled'
      <4>1. \A u \in Threads : call[u].pc \in Deleting => call'[u] = call[u]
        BY <3>1, <3>2 DEF Deleting
      <4>2. Running /\ phase # "down" /\ phase' # "down"
        BY <3>1 DEF Running
      <4> QED
        BY <3>1, <4>1, <4>2 DEF Agree, PointsFiled, IdOf
    <3> QED
      BY <3>4, <3>5, <3>6, <3>7 DEF Agree
  <2>8. ASSUME NEW t \in Threads, NEW w \in Windows, SetData(t, w) PROVE Agree'
    <3>1. /\ call[t].pc = "setdata" /\ \A n \in Names : ~Brings(t, n)
          /\ keyMap[call[t].name] = call[t].id
      BY <2>8, <2>D DEF SetData, Brings, Deleting
    <3>2. \A n \in Names, i \in Ids, v \in Windows : n \in dataDb'[i][v] =>
            n \in dataDb[i][v] \/ (n = call[t].name /\ i = call[t].id /\ keyMap[n] = i)
      BY <2>8, <3>1 DEF SetData, TypeOK
    <3> QED
      BY <2>0, <2>8, <3>1, <3>2, CallAgrees DEF SetData, Deleting
  <2>9. ASSUME NEW t \in Threads, NEW w \in Windows, IncData(t, w) PROVE Agree'
    <3>1. /\ call[t].pc = "late" /\ \A n \in Names : ~Brings(t, n)
          /\ keyMap[call[t].name] = call[t].id
      BY <2>9, <2>D DEF IncData, Brings, Deleting
    <3>2. \A n \in Names, i \in Ids, v \in Windows : n \in dataDb'[i][v] =>
            n \in dataDb[i][v] \/ (n = call[t].name /\ i = call[t].id /\ keyMap[n] = i)
      BY <2>9, <3>1 DEF IncData, TypeOK
    <3>3. Finished(t, w, "late") \/ Goto(t, "late", {}) \/ Return(t)
      BY <2>9 DEF IncData
    <3> QED
      BY <2>0, <2>9, <3>1, <3>2, <3>3, CallAgrees DEF IncData, Deleting
  <2>10. ASSUME NEW t \in Threads, DelKey(t) PROVE Agree'
    <3>1. /\ call[t].pc = "delkey" /\ call[t].name \in Names /\ Running
          /\ Goto(t, "delscan", {})
          /\ UNCHANGED <<keyMap, dataDb, phase, closeList>>
      BY <2>0, <2>10, ActiveCall DEF DelKey
    <3>2. /\ \A u \in Threads \ {t} : call'[u] = call[u]
          /\ call'[t].pc = "delscan"
          /\ call'[t].name = call[t].name /\ call'[t].id = call[t].id
      <4>1. call'[t].pc = "delscan"
        BY <2>0, <3>1, ActiveCall DEF Goto
      <4> QED
        BY <3>1, <4>1, SameCall
    <3>3. \A m \in Names : keyDb'[m] = IF m = call[t].name THEN NoKey ELSE keyDb[m]
      BY <2>10, <3>1 DEF DelKey, TypeOK
    <3>4. CallsCurrent'
      BY <2>0, <3>1, <3>2 DEF Agree, CallsCurrent, Deleting
    <3>5. RecordsFollow'
      <4>1. \A m \in Names, u \in Threads : Brings(u, m) => Brings(u, m)'
        BY <3>1, <3>2 DEF Brings
      <4>2. \A m \in Names \ {call[t].name}, u \in Threads :
              call[u].name = m /\ call[u].pc = "delkey" =>
              call'[u].name = m /\ call'[u].pc = "delkey"
        BY <3>2
      <4>3. keyMap[call[t].name] = NoKey
        BY <3>1 DEF Agree, CallsCurrent, Deleting
      <4> QED
        BY <3>1, <3>3, <4>1, <4>2, <4>3 DEF Agree, RecordsFollow, Running
    <3>6. CloseListed'
      BY <3>1 DEF Agree, CloseListed
    <3>7. PointsFiled'
      <4>1. \A u \in Threads : call[u].pc \in Deleting =>
              /\ call'[u].pc \in Deleting
              /\ call'[u].name = call[u].name /\ call'[u].id = call[u].id
        BY <3>2 DEF Deleting
      <4>2. Running /\ phase # "down" /\ phase' # "down"
        BY <3>1 DEF Running
      <4> QED
        BY <3>1, <4>1, <4>2 DEF Agree, PointsFiled, IdOf
    <3> QED
      BY <3>4, <3>5, <3>6, <3>7 DEF Agree
  <2>E. ASSUME NEW t \in Threads, call[t].pc \in Deleting PROVE Undisturbed
    BY <2>0, <2>E DEF Agree, CallsCurrent, Undisturbed
  <2>11. ASSUME NEW t \in Threads, DelScan(t) PROVE Agree'
    <3>1. /\ call[t].pc = "delscan" /\ \A n \in Names : ~Brings(t, n)
          /\ Goto(t, "deldata", Saved(call[t].id)) \/ Return(t)
      BY <2>11 DEF DelScan, Brings
    <3>2. call'[t].pc = "idle" => \A v \in Windows : dataDb'[call[t].id][v] = {}
      <4>1. ASSUME call'[t].pc = "idle" PROVE Saved(call[t].id) = {}
        BY <2>0, <2>11, <3>1, <4>1, ActiveCall DEF DelScan, Goto
      <4> QED
        BY <2>11, <4>1 DEF DelScan, Saved
    <3> QED
      BY <2>0, <2>11, <3>1, <3>2, CallAgrees DEF DelScan, Deleting
  <2>12. ASSUME NEW t \in Threads, NEW w \in Windows, DelData(t, w) PROVE Agree'
    <3>1. /\ call[t].pc = "deldata" /\ \A n \in Names : ~Brings(t, n)
          /\ call[t].id \in Ids
      BY <2>0, <2>12, ActiveCall DEF DelData, Brings
    <3>2. \A i \in Ids, v \in Windows : dataDb'[i][v] =
            IF i = call[t].id /\ v = w THEN {} ELSE dataDb[i][v]
      BY <2>12, <3>1 DEF DelData, TypeOK
    <3>3. call'[t].pc = "idle" => \A v \in Windows : dataDb'[call[t].id][v] = {}
      <4>1. ASSUME call'[t].pc = "idle" PROVE call[t].todo = {w}
        BY <2>0, <2>12, <3>1, <4>1, ActiveCall DEF DelData, Finished, Goto
      <4>2. \A v \in Windows \ call[t].todo : dataDb[call[t].id][v] = {}
        BY <2>E, <3>1 DEF Erasing, Deleting
      <4> QED
        BY <3>1, <3>2, <4>1, <4>2
    <3> QED
      BY <2>0, <2>12, <3>1, <3>2, <3>3, CallAgrees DEF DelData, Deleting
  <2>15. CASE Release
    <3>1. CloseListed'
      BY <2>15 DEF Release, CloseListed
    <3> QED
      BY <2>0, <2>15, <3>1, IdleAgrees DEF Release, Running
  <2>16. ASSUME NEW n \in Names, CloseKey(n) PROVE Agree'
    <3>1. /\ \A u \in Threads : call[u].pc = "idle"
          /\ phase = "closing" /\ phase' = "closing"
          /\ closeList[n] = keyMap[n]
      BY <2>16, <2>B DEF CloseKey, Agree, CloseListed
    <3>2. \A m \in Names : keyDb'[m] = keyMap[m]
      BY <2>16, <2>A, <3>1 DEF CloseKey, TypeOK, Running
    <3>3. CloseListed'
      BY <2>16, <3>1 DEF CloseKey, Agree, CloseListed, TypeOK
    <3> QED
      BY <2>16, <2>A, <2>C, <3>1, <3>2, <3>3 DEF CloseKey, IdOf
  <2>17. ASSUME NEW ws \in SUBSET Windows, CloseData(ws) PROVE Agree'
    <3>1. /\ \A u \in Threads : call[u].pc = "idle"
          /\ phase = "closing" /\ phase' = "closing"
      BY <2>17, <2>B DEF CloseData
    <3>2. \A m \in Names, i \in Ids, w \in Windows : m \in dataDb'[i][w] => keyMap[m] = i
      BY <2>17, <2>A, <3>1 DEF CloseData, IdOf
    <3>3. CloseListed'
      BY <2>17 DEF CloseData, Agree, CloseListed
    <3> QED
      BY <2>17, <2>A, <2>C, <3>1, <3>2, <3>3 DEF CloseData, IdOf, Running
  <2>18. CASE FinishClose
    <3>1. /\ \A u \in Threads : call[u].pc = "idle"
          /\ phase = "closing" /\ Vanish
      BY <2>18, <2>B DEF FinishClose
    <3>2. \A m \in Names, i \in Ids, w \in Windows : m \in dataDb'[i][w] => keyDb'[m] = i
      BY <2>A, <3>1 DEF Vanish, IdOf, Running
    <3> QED
      BY <2>C, <3>1, <3>2 DEF Vanish, IdOf, Running, CloseListed, Idle
  <2>19. ASSUME NEW S \in SUBSET Names, Open(S) PROVE Agree'
    <3>1. /\ \A u \in Threads : call[u].pc = "idle"
          /\ phase = "down" /\ phase' = "open" /\ S = {}
          /\ UNCHANGED <<call, keyDb, dataDb>>
      BY <2>0, <2>19, <2>B DEF Open
    <3>2. \A m \in Names : keyMap'[m] = keyDb[m]
      BY <2>19, <3>1 DEF Open
    <3> QED
      BY <2>A, <2>C, <3>1, <3>2 DEF IdOf, CloseListed
  <2>24. CASE UNCHANGED vars
    <3>1. CloseListed'
      BY <2>24 DEF vars, Agree, CloseListed
    <3> QED
      BY <2>24, <3>1, IdleAgrees DEF vars, Running
  <2>25. /\ ~CloseFails /\ ~Crash /\ \A t \in Threads : ~DbFails(t)
         /\ \A S \in SUBSET Names : ~Expire(S)
         /\ \A n \in Names : ~ExpireRecord(n)
         /\ \A i \in Ids, w \in Windows : ~ExpirePoint(i, w)
    BY <2>0 DEF CloseFails, Crash, DbFails, Expire, ExpireRecord, ExpirePoint
  <2> QED
    BY <2>1, <2>3, <2>4, <2>5, <2>6, <2>7, <2>8, <2>9, <2>10, <2>11, <2>12, <2>15,
       <2>16, <2>17, <2>18, <2>19, <2>24, <2>25 DEF Next
<1> QED
  BY <1>1, <1>2, TypeCorrect, IdsInvariant, ApartInvariant, ErasingInvariant, PTL DEF Spec

(* In an environment where nothing fails, every key the cache serves is    *)
(* saved under the id it serves as soon as no call is under way.           *)
THEOREM RecordsAreKept == Spec => []RecordsKept
<1>1. DepInv => RecordsKept
  BY DEF DepInv, Agree, RecordsFollow, RecordsKept, Running, Held, Brings
<1> QED
  BY <1>1, DependableInvariant, PTL

-----------------------------------------------------------------------------
(* What callers see: within one run, whatever is collected, expires or     *)
(* fails, and across restarts in an environment where nothing fails.       *)

(* The argument differs, what it shows is the same: a new id has no points,*)
(* a del works on an id out of everyone's reach, points are their owner's. *)
NewIdsBlank == Running => \A i \in Ids, w \in Windows : i > keyCounter => dataDb[i][w] = {}

Tidy == NewIdsBlank /\ GoneForGood /\ OwnPoints

Steady == (OneRunOnly /\ RunInv) \/ (Dependable /\ Agree)

LEMMA SteadyIsTidy ==
  ASSUME TypeOK, IdsInv, Steady
  PROVE  Tidy
<1>0. /\ \A n \in Names : keyMap[n] # NoKey => keyMap[n] \in Ids
      /\ \A i \in Ids, w \in Windows : dataDb[i][w] \subseteq Names
      /\ call \in [Threads -> Calls]
  BY MaxIdAssumption DEF TypeOK
<1>1. CASE RunInv
  <2>1. NewIdsBlank
    <3>1. \A n \in Names, i \in Ids, w \in Windows : n \in dataDb[i][w] => i <= keyCounter
      BY <1>1 DEF RunInv, TiedBefore, Tied
    <3>2. ASSUME NEW i \in Ids, NEW w \in Windows, i > keyCounter PROVE dataDb[i][w] = {}
      <4>1. keyCounter \in Int
        BY DEF TypeOK
      <4> QED
        BY <1>0, <3>1, <3>2, <4>1
    <3> QED
      BY <3>2 DEF NewIdsBlank
  <2>2. OwnPoints
    BY <1>0, <1>1 DEF RunInv, TiedToOne, Tied, OwnPoints, Held
  <2> QED
    BY <1>1, <2>1, <2>2 DEF RunInv, Tidy
<1>2. CASE Agree
  <2>1. \A t \in Threads : call[t].pc \in Deleting =>
          call[t].name \in Names /\ call[t].id \in Ids /\ keyMap[call[t].name] = NoKey
    BY <1>0, <1>2, ActiveCall DEF Agree, CallsCurrent, Deleting
  <2>2. GoneForGood
    <3>1. ASSUME NEW t \in Threads, NEW n \in Names, call[t].pc \in Deleting
          PROVE  keyMap[n] # call[t].id
      <4>1. CASE keyMap[n] = call[t].id
        <5>1. n = call[t].name
          BY <2>1, <3>1, <4>1 DEF IdsInv, IdsDisjoint, OneNamePerId, FiledUnder
        <5> QED
          BY <2>1, <3>1, <4>1, <5>1
      <4> QED
        BY <4>1
    <3> QED
      BY <3>1 DEF GoneForGood, Deleting
  <2>3. ASSUME Running, NEW n \in Names, NEW i \in Ids, NEW w \in Windows, n \in dataDb[i][w]
        PROVE  FiledUnder(n, i)
    BY <1>2, <2>3 DEF Agree, PointsFiled, IdOf, FiledUnder, Running
  <2>4. NewIdsBlank
    <3>1. ASSUME Running, NEW i \in Ids, NEW w \in Windows, i > keyCounter
          PROVE  dataDb[i][w] = {}
      <4>1. keyCounter \in Int
        BY DEF TypeOK
      <4>2. \A n \in Names : n \notin dataDb[i][w]
        BY <2>3, <3>1, <4>1 DEF IdsInv, IdsDisjoint, CounterPastAll
      <4> QED
        BY <1>0, <4>2
    <3> QED
      BY <3>1 DEF NewIdsBlank
  <2>5. OwnPoints
    <3>1. ASSUME NEW n \in Held, NEW w \in Windows, NEW m \in dataDb[keyMap[n]][w]
          PROVE  m = n
      <4>1. n \in Names /\ keyMap[n] \in Ids /\ m \in Names /\ FiledUnder(n, keyMap[n])
        BY <1>0 DEF Held, FiledUnder
      <4>2. Running
        BY <4>1 DEF IdsInv, NothingWhenDown, Running, TypeOK
      <4>3. FiledUnder(m, keyMap[n])
        BY <2>3, <4>1, <4>2
      <4> QED
        BY <4>1, <4>3 DEF IdsInv, IdsDisjoint, OneNamePerId
    <3> QED
      BY <3>1 DEF OwnPoints
  <2> QED
    BY <2>2, <2>4, <2>5 DEF Tidy
<1> QED
  BY <1>1, <1>2 DEF Steady

LEMMA SteadyInvariant == Spec /\ (OneRunOnly \/ Dependable) => []Steady
<1>1. Dependable /\ [Next]_vars => Dependable'
  BY FeaturesStay DEF Dependable
<1>2. Dependable /\ DepInv => Steady
  BY DEF DepInv, Steady
<1>3. OneRunOnly /\ RunInv => Steady
  BY DEF Steady
<1>4. Spec /\ Dependable => []Dependable
  BY <1>1, PTL DEF Spec
<1> QED
  BY <1>2, <1>3, <1>4, RunInvariant, DependableInvariant, PTL

(* get never shows a counter another's points: within one run whatever is  *)
(* created, deleted, collected or expires and whatever fails, and across   *)
(* restarts where nothing fails.                                           *)
THEOREM PointsAreOwn == Spec /\ (OneRunOnly \/ Dependable) => []OwnPoints
<1>1. TypeOK /\ IdsInv /\ Steady => OwnPoints
  BY SteadyIsTidy DEF Tidy
<1> QED
  BY <1>1, TypeCorrect, IdsInvariant, SteadyInvariant, PTL

(* A write or a removal of one point is seen by the counter it belongs to. *)
LEMMA PointSeen ==
  ASSUME TypeOK, IdsDisjoint, Running, Running', keyMap' = keyMap,
         NEW i \in Ids, NEW w \in Windows, NEW v \in SUBSET Names,
         dataDb' = [dataDb EXCEPT ![i][w] = v]
  PROVE  /\ Known' = Known
         /\ \/ UNCHANGED Shown
            \/ \E n \in Known : /\ keyMap[n] = i
                 /\ Shown' = [Shown EXCEPT ![n] = IF v = {} THEN @ \ {w} ELSE @ \cup {w}]
<1>0. phase # "down" /\ phase' # "down"
  BY DEF Running
<1>1. Known' = Known
  BY <1>0 DEF Known, IdOf
<1>2. \A j \in Ids : Saved(j)' = IF j = i
        THEN IF v = {} THEN Saved(j) \ {w} ELSE Saved(j) \cup {w} ELSE Saved(j)
  BY DEF Saved, TypeOK
<1>3. \A n \in Names : keyMap[n] # NoKey => keyMap[n] \in Ids
  BY MaxIdAssumption DEF TypeOK
<1>4. CASE \A n \in Names : keyMap[n] # i
  <2>1. \A n \in Names : Shown'[n] = Shown[n]
    BY <1>0, <1>2, <1>3, <1>4 DEF Shown, IdOf
  <2> QED
    BY <1>1, <2>1 DEF Shown
<1>5. ASSUME NEW n \in Names, keyMap[n] = i
      PROVE  \E m \in Known : /\ keyMap[m] = i
                /\ Shown' = [Shown EXCEPT ![m] = IF v = {} THEN @ \ {w} ELSE @ \cup {w}]
  <2>1. n \in Known
    BY <1>0, <1>5 DEF Known, IdOf
  <2>2. \A m \in Names \ {n} : keyMap[m] # i
    BY <1>5 DEF IdsDisjoint, OneNamePerId, FiledUnder
  <2>3. \A m \in Names : Shown'[m] =
          IF m = n THEN IF v = {} THEN Shown[m] \ {w} ELSE Shown[m] \cup {w} ELSE Shown[m]
    BY <1>0, <1>2, <1>3, <1>5, <2>2 DEF Shown, IdOf
  <2>4. Shown' = [Shown EXCEPT ![n] = IF v = {} THEN @ \ {w} ELSE @ \cup {w}]
    BY <2>3 DEF Shown
  <2> QED
    BY <1>5, <2>1, <2>4
<1> QED
  BY <1>1, <1>4, <1>5

(* A step that changes neither the id of a name nor a point is not seen.   *)
LEMMA NotSeen ==
  ASSUME features' = features, dataDb' = dataDb, \A n \in Names : IdOf(n)' = IdOf(n)
  PROVE  CountersStep
<1>1. Known' = Known
  BY DEF Known
<1>2. \A n \in Names : Shown'[n] = Shown[n]
  BY DEF Shown, Saved
<1>3. Shown' = Shown
  BY <1>2 DEF Shown
<1> QED
  BY <1>1, <1>3 DEF CountersStep

(* Names that leave the cache are lost with all their points.              *)
LEMMA LeaveIsLose ==
  ASSUME Running, Running', features' = features, dataDb' = dataDb,
         NEW S \in SUBSET (Names \ Kept),
         \A n \in Names : keyMap'[n] = IF n \in S THEN NoKey ELSE keyMap[n]
  PROVE  CountersStep
<1>0. phase # "down" /\ phase' # "down"
  BY DEF Running
<1>1. Known' = Known \ S
  BY <1>0 DEF Known, IdOf
<1>2. Shown' = [n \in Names |-> IF n \in S THEN {} ELSE Shown[n]]
  BY <1>0 DEF Shown, IdOf, Saved
<1>3. Counters!Lose(S)
  BY <1>1, <1>2 DEF Counters!Lose, Lasting
<1> QED
  BY <1>3 DEF Counters!Next, CountersStep

(* A key made anew is a counter without points.                            *)
LEMMA MadeIsCreate ==
  ASSUME TypeOK, NewIdsBlank, Running, Running', features' = features, dataDb' = dataDb,
         NEW t \in Threads, NEW n \in Names, NEW pc, GetOrCreate(t, n, pc)
  PROVE  CountersStep
<1>0. phase # "down" /\ phase' # "down"
  BY DEF Running
<1>1. CASE keyMap[n] # NoKey
  <2>1. keyMap' = keyMap
    BY <1>1 DEF GetOrCreate
  <2> QED
    BY <1>0, <2>1, NotSeen DEF IdOf
<1>2. CASE keyMap[n] = NoKey
  <2>1. /\ keyCounter \in Nat /\ NextId = keyCounter + 1 /\ NextId \in Ids
        /\ keyMap' = [keyMap EXCEPT ![n] = NextId]
    BY <1>2 DEF GetOrCreate, NextId, TypeOK
  <2>2. \A m \in Names : keyMap'[m] = IF m = n THEN NextId ELSE keyMap[m]
    BY <2>1 DEF TypeOK
  <2>3. Saved(NextId) = {}
    BY <2>1 DEF NewIdsBlank, Saved
  <2>4. n \notin Known /\ Known' = Known \cup {n}
    BY <1>0, <1>2, <2>1, <2>2 DEF Known, IdOf
  <2>5. \A m \in Names : Shown'[m] = IF m = n THEN {} ELSE Shown[m]
    BY <1>0, <2>2, <2>3 DEF Shown, IdOf, Saved
  <2>6. Shown' = [Shown EXCEPT ![n] = {}]
    BY <2>5 DEF Shown
  <2>7. Counters!Create(n)
    BY <2>4, <2>6 DEF Counters!Create
  <2> QED
    BY <2>7 DEF Counters!Next, CountersStep
<1> QED
  BY <1>1, <1>2

(* The shard implements Counters: a new counter starts empty, a point      *)
(* belongs to one counter, and one in use keeps its points.  It does within*)
(* one run, under any interleaving of calls, deletes, collections, expiry  *)
(* and failures, and across restarts where nothing fails.                  *)
THEOREM StorageImplementsCounters == Spec /\ (OneRunOnly \/ Dependable) => CountersSpec
<1>1. Init => Counters!Init
  BY DEF Init, Counters!Init, Known, Shown, IdOf
<1>2. TypeOK /\ TypeOK' /\ IdsInv /\ Apart /\ Steady /\ [Next]_vars => CountersStep
  <2> SUFFICES ASSUME TypeOK, TypeOK', IdsInv, Apart, Steady, [Next]_vars
               PROVE  CountersStep
    OBVIOUS
  <2> USE DEF memory, disk, ghosts
  <2>0. /\ call \in [Threads -> Calls] /\ features' = features
        /\ Tidy /\ IdsDisjoint
    BY FeaturesStay, SteadyIsTidy DEF TypeOK, IdsInv
  <2>A. ASSUME UNCHANGED <<phase, keyMap, keyDb, dataDb>> PROVE CountersStep
    BY <2>0, <2>A, NotSeen DEF IdOf
  <2>B. ASSUME Running, Running', keyMap' = keyMap, dataDb' = dataDb PROVE CountersStep
    <3>1. phase # "down" /\ phase' # "down"
      BY <2>B DEF Running
    <3> QED
      BY <2>0, <2>B, <3>1, NotSeen DEF IdOf
  <2>C. ASSUME Running, Running', keyMap' = keyMap, NEW i \in Ids, NEW w \in Windows,
               NEW v \in SUBSET Names, v # {}, dataDb' = [dataDb EXCEPT ![i][w] = v]
        PROVE  CountersStep
    <3>1. /\ Known' = Known
          /\ UNCHANGED Shown \/ \E n \in Known : Shown' = [Shown EXCEPT ![n] = @ \cup {w}]
      BY <2>0, <2>C, PointSeen, Zenon
    <3>2. CASE UNCHANGED Shown
      BY <2>0, <3>1, <3>2 DEF CountersStep
    <3>3. ASSUME NEW n \in Known, Shown' = [Shown EXCEPT ![n] = @ \cup {w}]
          PROVE  CountersStep
      <4>1. Counters!Save(n, w) /\ n \in Names
        BY <2>0, <3>1, <3>3 DEF Counters!Save, Known
      <4> QED
        BY <4>1 DEF Counters!Next, CountersStep
    <3> QED
      BY <3>1, <3>2, <3>3
  <2>1. ASSUME NEW t \in Threads, NEW n \in Names, StartAdd(t, n) \/ StartMerge(t, n)
        PROVE  CountersStep
    <3>1. Running /\ Running'
      BY <2>1 DEF StartAdd, StartMerge, Accepting, Running
    <3> QED
      BY <2>0, <2>1, <3>1, MadeIsCreate DEF StartAdd, StartMerge, Tidy
  <2>3. ASSUME NEW t \in Threads, NEW n \in Names, StartDel(t, n) PROVE CountersStep
    <3>1. \A m \in Names : keyMap'[m] = IF m \in {n} THEN NoKey ELSE keyMap[m]
      BY <2>3 DEF StartDel, TypeOK
    <3>2. {n} \in SUBSET (Names \ Kept) /\ dataDb' = dataDb /\ Running /\ Running'
      BY <2>3 DEF StartDel, Accepting, Running
    <3> QED
      BY <2>0, <3>1, <3>2, LeaveIsLose
  <2>4. ASSUME NEW t \in Threads, NEW ws \in SUBSET Windows,
               PushOnTime(t, ws) \/ MergePoints(t, ws)
        PROVE  CountersStep
    BY <2>4, <2>A DEF PushOnTime, MergePoints
  <2>5. ASSUME NEW t \in Threads, NEW w \in Windows, PushLate(t, w) PROVE CountersStep
    BY <2>5, <2>A DEF PushLate
  <2>7. ASSUME NEW t \in Threads, SetKey(t) \/ DelKey(t) \/ DelScan(t) \/ DbFails(t)
        PROVE  CountersStep
    BY <2>7, <2>B DEF SetKey, DelKey, DelScan, DbFails, Running
  <2>8. ASSUME NEW t \in Threads, NEW w \in Windows, SetData(t, w) PROVE CountersStep
    <3>1. call[t].id \in Ids /\ {call[t].name} \in SUBSET Names /\ Running /\ Running'
      BY <2>0, <2>8, ActiveCall DEF SetData, Running
    <3> QED
      BY <2>8, <2>C, <3>1 DEF SetData
  <2>9. ASSUME NEW t \in Threads, NEW w \in Windows, IncData(t, w) PROVE CountersStep
    <3>1. call[t].id \in Ids /\ call[t].name \in Names /\ Running /\ Running'
      BY <2>0, <2>9, ActiveCall DEF IncData, Running
    <3>2. dataDb[call[t].id][w] \subseteq Names
      BY <3>1 DEF TypeOK
    <3>3. PICK v \in SUBSET Names :
            v # {} /\ dataDb' = [dataDb EXCEPT ![call[t].id][w] = v]
      BY <2>9, <3>1, <3>2 DEF IncData
    <3> QED
      BY <2>9, <2>C, <3>1, <3>3 DEF IncData
  <2>12. ASSUME NEW t \in Threads, NEW w \in Windows, DelData(t, w) PROVE CountersStep
    <3>1. /\ call[t].id \in Ids /\ \A n \in Names : keyMap[n] # call[t].id
          /\ Running /\ Running'
      BY <2>0, <2>12, ActiveCall DEF DelData, Tidy, GoneForGood, Running
    <3>2. /\ keyMap' = keyMap /\ {} \in SUBSET Names
          /\ dataDb' = [dataDb EXCEPT ![call[t].id][w] = {}]
      BY <2>12 DEF DelData
    <3>3. /\ Known' = Known
          /\ UNCHANGED Shown \/ \E n \in Known : keyMap[n] = call[t].id
      BY <2>0, <3>1, <3>2, PointSeen, Zenon
    <3> QED
      BY <2>0, <3>1, <3>3 DEF CountersStep, Known
  <2>14. ASSUME NEW S \in SUBSET Names, Expire(S) PROVE CountersStep
    <3>1. /\ S \in SUBSET (Names \ Kept) /\ dataDb' = dataDb /\ Running /\ Running'
          /\ \A n \in Names : keyMap'[n] = IF n \in S THEN NoKey ELSE keyMap[n]
      BY <2>14 DEF Expire, Held, Running
    <3> QED
      BY <2>0, <3>1, LeaveIsLose
  <2>15. CASE Release
    BY <2>15, <2>B DEF Release, Running
  <2>16. ASSUME NEW n \in Names, CloseKey(n) \/ ExpireRecord(n) PROVE CountersStep
    BY <2>16, <2>B DEF CloseKey, ExpireRecord, Running
  <2>17. ASSUME NEW ws \in {{}} \cup {{w} : w \in Windows}, CloseData(ws)
         PROVE  CountersStep
    <3>1. /\ Running /\ Running' /\ closeName \in Names /\ keyMap' = keyMap
          /\ dataDb' = [i \in Ids |-> [w \in Windows |->
               IF i = keyMap[closeName] /\ w \in ws THEN {closeName} ELSE dataDb[i][w]]]
          /\ dataDb = [i \in Ids |-> [w \in Windows |-> dataDb[i][w]]]
      BY <2>17 DEF CloseData, Running, TypeOK
    <3>2. CASE ws = {} \/ keyMap[closeName] \notin Ids
      <4>1. dataDb' = dataDb
        BY <3>1, <3>2
      <4> QED
        BY <2>B, <3>1, <4>1
    <3>3. ASSUME NEW w \in Windows, ws = {w}, keyMap[closeName] \in Ids
          PROVE  CountersStep
      <4>1. dataDb' = [dataDb EXCEPT ![keyMap[closeName]][w] = {closeName}]
        BY <3>1, <3>3
      <4>2. {closeName} \in SUBSET Names
        BY <3>1
      <4> QED
        BY <2>C, <3>1, <3>3, <4>1, <4>2
    <3> QED
      BY <2>17, <3>2, <3>3
  <2>18. CASE FinishClose
    <3>1. Agree /\ Dependable
      BY <2>18 DEF FinishClose, Steady, RunInv
    <3>2. \A t \in Threads : call[t].pc = "idle"
      BY <2>18, <3>1 DEF FinishClose, Dependable, Apart
    <3>3. \A n \in Names : keyDb[n] = keyMap[n]
      BY <2>18, <3>1, <3>2 DEF FinishClose, Agree, RecordsFollow, Running, Brings
    <3> QED
      BY <2>0, <2>18, <3>3, NotSeen DEF FinishClose, Vanish, IdOf
  <2>19. ASSUME NEW S \in SUBSET Names, Open(S) PROVE CountersStep
    <3>1. S = {}
      BY <2>19 DEF Open, Steady, RunInv, Dependable
    <3> QED
      BY <2>0, <2>19, <3>1, NotSeen DEF Open, IdOf
  <2>23. ASSUME NEW i \in Ids, NEW w \in Windows, ExpirePoint(i, w) PROVE CountersStep
    <3>1. /\ keyMap' = keyMap /\ "ttl" \in features /\ Running /\ Running'
          /\ dataDb' = [dataDb EXCEPT ![i][w] = {}] /\ {} \in SUBSET Names
      BY <2>23 DEF ExpirePoint, Running
    <3>2. /\ Known' = Known
          /\ UNCHANGED Shown \/ \E n \in Known :
               keyMap[n] = i /\ Shown' = [Shown EXCEPT ![n] = @ \ {w}]
      BY <2>0, <3>1, PointSeen, Zenon
    <3>3. CASE UNCHANGED Shown
      BY <2>0, <3>2, <3>3 DEF CountersStep
    <3>4. ASSUME NEW n \in Known, keyMap[n] = i, Shown' = [Shown EXCEPT ![n] = @ \ {w}]
          PROVE  CountersStep
      <4>1. n \in Names /\ n \in Held
        BY <3>4, MaxIdAssumption DEF Known, Held
      <4>2. dataDb[i][w] \subseteq {n}
        BY <2>0, <3>4, <4>1 DEF Tidy, OwnPoints
      <4>3. n \notin Kept
        BY <2>23, <4>2 DEF ExpirePoint
      <4>4. Counters!Age(n, w)
        BY <2>0, <3>1, <3>2, <3>4, <4>3 DEF Counters!Age, Lasting
      <4> QED
        BY <4>1, <4>4 DEF Counters!Next, CountersStep
    <3> QED
      BY <3>2, <3>3, <3>4
  <2>24. CASE UNCHANGED vars
    BY <2>24, <2>A DEF vars
  <2>25. ~CloseFails /\ ~Crash
    BY DEF Steady, OneRunOnly, RunInv, Dependable, CloseFails, Crash
  <2> QED
    BY <2>1, <2>3, <2>4, <2>5, <2>7, <2>8, <2>9, <2>12, <2>14, <2>15, <2>16, <2>17,
       <2>18, <2>19, <2>23, <2>24, <2>25 DEF Next
<1> QED
  BY <1>1, <1>2, TypeCorrect, IdsInvariant, ApartInvariant, SteadyInvariant, PTL
     DEF Spec, CountersSpec, CountersStep, Counters!Spec, Counters!vars
=============================================================================
