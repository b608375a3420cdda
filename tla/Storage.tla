------------------------------- MODULE Storage -------------------------------
(***************************************************************************)
(* btp::storage: one shard, made of the cache of keys (in memory), the     *)
(* key database (name -> id) and the data database ((id, window) -> point).*)
(* No lock covers a whole call: a caller's thread works on the cache under *)
(* its mutex, then writes the two databases one record at a time, so other *)
(* calls, the gc timer, a stop or a crash come between any two steps.      *)
(*                                                                         *)
(* A stored point is abstracted to the names whose samples it holds: Put   *)
(* replaces it, Merge adds to it.  What the samples add up to is the       *)
(* business of the aggregator and is left out here.                        *)
(***************************************************************************)
EXTENDS Integers, FiniteSets

CONSTANTS
    Names,      \* names of counters
    NoName,     \* no name
    Threads,    \* threads calling the shard
    Windows,    \* aggregation windows a point can fall in
    MaxId,      \* bound on the ids of one run
    Kept,       \* names in use all the time: nobody calls del for them, they
                \* are not stale, their records and points not past a TTL
    Environments \* the environments a behaviour may have: sets of features

(* del, merge: callers use these methods; gc: the collection of stale keys *)
(* is on; ttl: the databases drop what is older than their TTL; close: the *)
(* service is stopped; undrained: it may be stopped with calls still       *)
(* running; crash: the process may die; io: a database call may fail;      *)
(* setlate: storage_options::disable_merge; alone: calls do not overlap.   *)
AllFeatures ==
    {"del", "merge", "gc", "ttl", "close", "undrained", "crash", "io", "setlate", "alone"}

ASSUME EnvironmentsAssumption == Environments \subseteq SUBSET AllFeatures
ASSUME NoNameAssumption   == NoName \notin Names
ASSUME MaxIdAssumption    == MaxId \in Nat
ASSUME KeptAssumption     == Kept \subseteq Names

VARIABLES
    features,    \* what the environment of this behaviour does
    phase,       \* "open", "closing" (inside close), "down" (no process)
    keyCounter,  \* key_cache::_key_counter
    keyMap,      \* key_cache::_key_map, the id of each name
    keyDb,       \* the key database: the id in each name's record
    dataDb,      \* the data database: the names in each point's value
    call,        \* call[t]: the call thread t is in the middle of
    closeList,   \* close: the released records not yet saved
    closeName,   \* close: the record being saved
    stored,      \* ghost: <<name, window>> of each point of a kept name that
                 \* add or merge has saved
    early        \* ghost: of those, the late points no record leads to yet

memory == <<phase, keyCounter, keyMap, closeList, closeName>>
disk   == <<keyDb, dataDb>>
ghosts == <<stored, early>>
vars   == <<features, memory, disk, call, ghosts>>

NoKey == 0
Ids   == 1..MaxId

Idle == [pc |-> "idle", name |-> NoName, id |-> NoKey, fresh |-> FALSE, todo |-> {}]

Steps == {"add", "merge", "setkey", "setdata", "late", "delkey", "delscan", "deldata"}

Calls == {Idle} \cup
    [pc : Steps, name : Names, id : Ids, fresh : BOOLEAN, todo : SUBSET Windows]

Held == {n \in Names : keyMap[n] # NoKey}

TypeOK ==
    /\ features \in Environments
    /\ phase \in {"open", "closing", "down"}
    /\ keyCounter \in 0..MaxId
    /\ keyMap \in [Names -> 0..MaxId]
    /\ keyDb \in [Names -> 0..MaxId]
    /\ dataDb \in [Ids -> [Windows -> SUBSET Names]]
    /\ call \in [Threads -> Calls]
    /\ closeList \in [Names -> 0..MaxId]
    /\ closeName \in Names \cup {NoName}
    /\ stored \subseteq Kept \X Windows
    /\ early \subseteq Kept \X Windows

Init ==
    /\ features \in Environments
    /\ phase = "open"
    /\ keyCounter = 0
    /\ keyMap = [n \in Names |-> NoKey]
    /\ keyDb = [n \in Names |-> NoKey]
    /\ dataDb = [i \in Ids |-> [w \in Windows |-> {}]]
    /\ call = [t \in Threads |-> Idle]
    /\ closeList = [n \in Names |-> NoKey]
    /\ closeName = NoName
    /\ stored = {}
    /\ early = {}

-----------------------------------------------------------------------------
(* Calls.  call[t].fresh: t made the aggregator of its key, and no one has *)
(* moved it past its first window since.                                   *)

(* Calls enter while the shard is open; with "undrained" also while it is  *)
(* being closed, because nothing in storage keeps them out.                *)
Accepting ==
    /\ \/ phase = "open"
       \/ phase = "closing" /\ "undrained" \in features
    /\ "alone" \in features => \A u \in Threads : call[u].pc = "idle"
Running   == phase \in {"open", "closing"}

Return(t) == call' = [call EXCEPT ![t] = Idle]

Goto(t, pc, todo) ==
    call' = [call EXCEPT ![t].pc = pc, ![t].fresh = FALSE, ![t].todo = todo]

(* Operators named Slip... are the code with one plausible mistake; the     *)
(* project lists the property that each of them breaks.                    *)

(* Ids are counted from the size of the map.                               *)
SlipIdFromSize == Cardinality(Held) + 1

(* key_cache::get_or_create: the id a call works with from here on.        *)
NextId == keyCounter + 1

GetOrCreate(t, n, pc) ==
    IF keyMap[n] # NoKey
    THEN /\ call' = [call EXCEPT ![t] =
              [Idle EXCEPT !.pc = pc, !.name = n, !.id = keyMap[n]]]
         /\ UNCHANGED <<keyCounter, keyMap>>
    ELSE /\ NextId <= MaxId
         /\ keyCounter' = NextId
         /\ keyMap' = [keyMap EXCEPT ![n] = NextId]
         /\ call' = [call EXCEPT ![t] =
              [Idle EXCEPT !.pc = pc, !.name = n, !.id = NextId, !.fresh = TRUE]]

StartAdd(t, n) ==
    /\ Accepting
    /\ call[t].pc = "idle"
    /\ GetOrCreate(t, n, "add")
    /\ UNCHANGED <<features, phase, closeList, closeName, disk, ghosts>>

StartMerge(t, n) ==
    /\ "merge" \in features
    /\ Accepting
    /\ call[t].pc = "idle"
    /\ GetOrCreate(t, n, "merge")
    /\ UNCHANGED <<features, phase, closeList, closeName, disk, ghosts>>

(* The record is saved only when there is no point to save.                *)
SlipRecordSkipped(t, ws) ==
    /\ Running
    /\ call[t].pc = "add"
    /\ Goto(t, IF ws = {} THEN "setkey" ELSE "setdata", ws)
    /\ UNCHANGED <<features, memory, disk, ghosts>>

(* An add that yields no point returns without saving the record.          *)
SlipNothingToSave(t, ws) ==
    /\ Running
    /\ call[t].pc = "add"
    /\ IF ws = {} THEN Return(t) ELSE Goto(t, "setkey", ws)
    /\ UNCHANGED <<features, memory, disk, ghosts>>

(* key_aggregator::add of data for the current window or a later one: it   *)
(* yields the points the push completed, and the current one if            *)
(* aggregate_last_point is on, so any number of points, or none.           *)
PushOnTime(t, ws) ==
    /\ Running
    /\ call[t].pc = "add"
    /\ call' = [u \in Threads |->
         IF u = t
         THEN [call[t] EXCEPT !.pc = "setkey", !.fresh = FALSE, !.todo = ws]
         ELSE [call[u] EXCEPT !.fresh = IF call[u].id = call[t].id THEN FALSE ELSE @]]
    /\ UNCHANGED <<features, memory, disk, ghosts>>

(* key_aggregator::add of data older than the current window: one point    *)
(* that bypasses the aggregator.  The thread that made the key made it     *)
(* with the time of its own data, which is late only once another thread   *)
(* has moved the aggregator on.                                            *)
PushLate(t, w) ==
    /\ Running
    /\ call[t].pc = "add"
    /\ ~call[t].fresh
    /\ Goto(t, "late", {w})
    /\ UNCHANGED <<features, memory, disk, ghosts>>

(* key_aggregator::merge yields a point for each run of equal windows.     *)
MergePoints(t, ws) ==
    /\ Running
    /\ call[t].pc = "merge"
    /\ Goto(t, "setkey", ws)
    /\ UNCHANGED <<features, memory, disk, ghosts>>

(* From here on a record leads to the points of n saved before.            *)
RecordSaved(n) ==
    /\ stored' = stored \cup {p \in early : p[1] = n}
    /\ early'  = {p \in early : p[1] # n}

(* The key's record goes first, ...                                        *)
SetKey(t) ==
    /\ Running
    /\ call[t].pc = "setkey"
    /\ keyDb' = [keyDb EXCEPT ![call[t].name] = call[t].id]
    /\ IF call[t].todo = {} THEN Return(t) ELSE Goto(t, "setdata", call[t].todo)
    /\ RecordSaved(call[t].name)
    /\ UNCHANGED <<features, memory, dataDb>>

(* ... then its points, each overwriting what the window held.             *)
KeptPoint(t, w) == {<<call[t].name, w>>} \cap (Kept \X Windows)

Finished(t, w, pc) ==
    IF call[t].todo = {w} THEN Return(t) ELSE Goto(t, pc, call[t].todo \ {w})

SetData(t, w) ==
    /\ Running
    /\ call[t].pc = "setdata"
    /\ w \in call[t].todo
    /\ dataDb' = [dataDb EXCEPT ![call[t].id][w] = {call[t].name}]
    /\ Finished(t, w, "setdata")
    /\ stored' = stored \cup KeptPoint(t, w)
    /\ UNCHANGED <<features, memory, keyDb, early>>

(* A late point adds to what its window holds, or overwrites it when       *)
(* merging is disabled.  The key's record is not saved: that is left to    *)
(* the call that made the key, and until then the point is early.          *)
IncData(t, w) ==
    /\ Running
    /\ call[t].pc = "late"
    /\ w \in call[t].todo
    /\ dataDb' = [dataDb EXCEPT ![call[t].id][w] =
         IF "setlate" \in features THEN {call[t].name} ELSE @ \cup {call[t].name}]
    /\ Return(t)
    /\ \/ /\ keyDb[call[t].name] # NoKey
          /\ stored' = stored \cup KeptPoint(t, w) /\ early' = early
       \/ /\ keyDb[call[t].name] = NoKey
          /\ early' = early \cup KeptPoint(t, w) /\ stored' = stored
    /\ UNCHANGED <<features, memory, keyDb>>

(* del: the cache first, ...                                               *)
StartDel(t, n) ==
    /\ "del" \in features
    /\ Accepting
    /\ call[t].pc = "idle"
    /\ n \notin Kept
    /\ keyMap[n] # NoKey
    /\ keyMap' = [keyMap EXCEPT ![n] = NoKey]
    /\ call' = [call EXCEPT ![t] =
         [Idle EXCEPT !.pc = "delkey", !.name = n, !.id = keyMap[n]]]
    /\ UNCHANGED <<features, phase, keyCounter, closeList, closeName, disk, ghosts>>

(* ... then the key's record, ...                                          *)
DelKey(t) ==
    /\ Running
    /\ call[t].pc = "delkey"
    /\ keyDb' = [keyDb EXCEPT ![call[t].name] = NoKey]
    /\ Goto(t, "delscan", {})
    /\ UNCHANGED <<features, memory, dataDb, ghosts>>

(* The iterator starts past the id's points, or past one of them.          *)
SlipScanNothing(id) == {}
SlipScanSkipsOne(id) ==
    LET ws == {w \in Windows : dataDb[id][w] # {}}
    IN  IF ws = {} THEN {} ELSE ws \ {CHOOSE w \in ws : TRUE}

(* ... then the points an iterator saw at its creation, one by one.        *)
Saved(id) == {w \in Windows : dataDb[id][w] # {}}

DelScan(t) ==
    /\ Running
    /\ call[t].pc = "delscan"
    /\ IF Saved(call[t].id) = {}
       THEN Return(t)
       ELSE Goto(t, "deldata", Saved(call[t].id))
    /\ UNCHANGED <<features, memory, disk, ghosts>>

DelData(t, w) ==
    /\ Running
    /\ call[t].pc = "deldata"
    /\ w \in call[t].todo
    /\ dataDb' = [dataDb EXCEPT ![call[t].id][w] = {}]
    /\ Finished(t, w, "deldata")
    /\ UNCHANGED <<features, memory, keyDb, ghosts>>

(* A database call fails: the method returns false at once, and what it    *)
(* has done so far stays done.                                             *)
DbFails(t) ==
    /\ "io" \in features
    /\ Running
    /\ call[t].pc \in {"setkey", "setdata", "late", "delkey", "deldata"}
    /\ Return(t)
    /\ UNCHANGED <<features, memory, disk, ghosts>>

-----------------------------------------------------------------------------
(* The shard's own life.                                                   *)

(* key_cache::gc takes keys out of memory only; which ones is the business *)
(* of module KeyCache.                                                     *)
Expire(S) ==
    /\ "gc" \in features
    /\ Running
    /\ S \subseteq Held \ Kept
    /\ keyMap' = [n \in Names |-> IF n \in S THEN NoKey ELSE keyMap[n]]
    /\ UNCHANGED <<features, phase, keyCounter, closeList, closeName, disk, call, ghosts>>

(* DBWithTTL drops a record that was not saved again for the TTL of the    *)
(* key database, in a compaction some time later; ...                      *)
ExpireRecord(n) ==
    /\ "ttl" \in features
    /\ Running
    /\ n \in Names \ Kept
    /\ keyDb' = [keyDb EXCEPT ![n] = NoKey]
    /\ UNCHANGED <<features, memory, dataDb, call, ghosts>>

(* ... and so, with a TTL of its own, does the data database.              *)
ExpirePoint(i, w) ==
    /\ "ttl" \in features
    /\ Running
    /\ dataDb[i][w] # {} /\ dataDb[i][w] \cap Kept = {}
    /\ dataDb' = [dataDb EXCEPT ![i][w] = {}]
    /\ UNCHANGED <<features, memory, keyDb, call, ghosts>>

(* close: a copy of every key's record and last point.                     *)
Release ==
    /\ "close" \in features
    /\ phase = "open"
    /\ "undrained" \in features \/ \A t \in Threads : call[t].pc = "idle"
    /\ phase' = "closing"
    /\ closeList' = keyMap
    /\ UNCHANGED <<features, keyCounter, keyMap, closeName, disk, call, ghosts>>

(* The record is written under the id the cache has by now, bad_key if none.*)
SlipLiveId(n) ==
    /\ phase = "closing"
    /\ closeName = NoName
    /\ closeList[n] # NoKey
    /\ keyDb' = [keyDb EXCEPT ![n] = IF keyMap[n] = NoKey THEN -1 ELSE keyMap[n]]
    /\ closeList' = [closeList EXCEPT ![n] = NoKey]
    /\ closeName' = n
    /\ UNCHANGED <<features, phase, keyCounter, keyMap, dataDb, call, ghosts>>

(* The record is written under the name and id copied, ...                 *)
CloseKey(n) ==
    /\ phase = "closing"
    /\ closeName = NoName
    /\ closeList[n] # NoKey
    /\ keyDb' = [keyDb EXCEPT ![n] = closeList[n]]
    /\ closeList' = [closeList EXCEPT ![n] = NoKey]
    /\ closeName' = n
    /\ RecordSaved(n)
    /\ UNCHANGED <<features, phase, keyCounter, keyMap, dataDb, call>>

(* ... the last point, if there is one, under the id the cache has for the *)
(* name by now.  If it has none, get_id gives bad_key, and a point saved   *)
(* under that id is out of everyone's reach.                               *)
CloseData(ws) ==
    /\ phase = "closing"
    /\ closeName # NoName
    /\ dataDb' = [i \in Ids |-> [w \in Windows |->
         IF i = keyMap[closeName] /\ w \in ws THEN {closeName} ELSE dataDb[i][w]]]
    /\ closeName' = NoName
    /\ UNCHANGED <<features, phase, keyCounter, keyMap, closeList, keyDb, call, ghosts>>

(* The end of a process: what was in memory is gone, and with the ids that *)
(* are in no record the early points under them.                           *)
Vanish ==
    /\ phase' = "down"
    /\ keyCounter' = 0
    /\ keyMap' = [n \in Names |-> NoKey]
    /\ closeList' = [n \in Names |-> NoKey]
    /\ closeName' = NoName
    /\ call' = [t \in Threads |-> Idle]
    /\ early' = {}
    /\ UNCHANGED <<features, disk, stored>>

FinishClose ==
    /\ phase = "closing"
    /\ closeName = NoName
    /\ \A n \in Names : closeList[n] = NoKey
    /\ Vanish

(* A database call of close fails: close gives up on what is left.         *)
CloseFails ==
    /\ "io" \in features
    /\ phase = "closing"
    /\ Vanish

Crash ==
    /\ "crash" \in features
    /\ Running
    /\ Vanish

(* The counter is set to the number of records restored.                   *)
SlipCountRecords(c) == c = Cardinality({n \in Names : keyDb[n] # NoKey})

(* open: every record of the key database becomes a key of the cache, the  *)
(* counter ends at the largest id, and stale keys are collected.           *)
IsLargestId(c) ==
    /\ \A n \in Names : keyDb[n] <= c
    /\ c = 0 \/ \E n \in Names : keyDb[n] = c

Open(S) ==
    /\ phase = "down"
    /\ phase' = "open"
    /\ \E c \in 0..MaxId : IsLargestId(c) /\ keyCounter' = c
    /\ "gc" \notin features => S = {}
    /\ S \cap Kept = {}
    /\ keyMap' = [n \in Names |-> IF n \in S THEN NoKey ELSE keyDb[n]]
    /\ UNCHANGED <<features, closeList, closeName, disk, call, ghosts>>

Next ==
    \/ \E t \in Threads, n \in Names : StartAdd(t, n)
    \/ \E t \in Threads, n \in Names : StartMerge(t, n)
    \/ \E t \in Threads, n \in Names : StartDel(t, n)
    \/ \E t \in Threads, ws \in SUBSET Windows : PushOnTime(t, ws)
    \/ \E t \in Threads, w \in Windows : PushLate(t, w)
    \/ \E t \in Threads, ws \in (SUBSET Windows) \ {{}} : MergePoints(t, ws)
    \/ \E t \in Threads : SetKey(t)
    \/ \E t \in Threads, w \in Windows : SetData(t, w)
    \/ \E t \in Threads, w \in Windows : IncData(t, w)
    \/ \E t \in Threads : DelKey(t)
    \/ \E t \in Threads : DelScan(t)
    \/ \E t \in Threads, w \in Windows : DelData(t, w)
    \/ \E t \in Threads : DbFails(t)
    \/ \E S \in SUBSET Names : Expire(S)
    \/ \E n \in Names : ExpireRecord(n)
    \/ \E i \in Ids, w \in Windows : ExpirePoint(i, w)
    \/ Release
    \/ \E n \in Names : CloseKey(n)
    \/ \E ws \in {{}} \cup {{w} : w \in Windows} : CloseData(ws)
    \/ FinishClose
    \/ CloseFails
    \/ Crash
    \/ \E S \in SUBSET Names : Open(S)

Spec == Init /\ [][Next]_vars

-----------------------------------------------------------------------------
(* Safety.                                                                 *)

(* No two records of the key database share an id, whatever calls,         *)
(* collections, failures, stops and crashes came before: storage::open     *)
(* restores them into one cache, where a shared id would mix two counters. *)
IdsInjective == \A m, n \in Names :
    keyDb[m] = keyDb[n] /\ keyDb[m] # NoKey => m = n

(* A name may be filed under an id by the cache, by its record, by a call  *)
(* under way or by a close under way.                                      *)
FiledUnder(n, i) ==
    \/ keyMap[n] = i
    \/ keyDb[n] = i
    \/ closeList[n] = i
    \/ \E t \in Threads : call[t].name = n /\ call[t].id = i

(* The reason: an id belongs to one name in all these places together, and *)
(* while the shard runs the counter is past all of them.                   *)
OneNamePerId == \A m, n \in Names, i \in Ids :
    FiledUnder(m, i) /\ FiledUnder(n, i) => m = n

CounterPastAll == Running =>
    \A n \in Names, i \in Ids : FiledUnder(n, i) => i <= keyCounter

IdsDisjoint == OneNamePerId /\ CounterPastAll

(* A point add or merge has saved, late or on time, stays readable under   *)
(* its name as long as that name is in use: its record leads to the id,    *)
(* the id to the point, through every later call, collection, expiry, stop,*)
(* failure and crash.  For a late point saved ahead of the record the      *)
(* cache has to do that: it survives calls and failures, but not the end   *)
(* of the process.                                                         *)
PointsSurvive == \A n \in Kept, w \in Windows :
    /\ <<n, w>> \in stored => keyDb[n] # NoKey /\ n \in dataDb[keyDb[n]][w]
    /\ <<n, w>> \in early  => keyMap[n] # NoKey /\ n \in dataDb[keyMap[n]][w]

(* What get returns for a name holds samples of that name only: a counter  *)
(* is "a named entity linked with a discrete set of aggregated data"       *)
(* (storage.hpp:16).                                                       *)
OwnPoints == \A n \in Held, w \in Windows : dataDb[keyMap[n]][w] \subseteq {n}

(* An environment in which nothing fails and no key leaves the cache but by*)
(* a del that overlaps with no other call; stops wait for the calls.       *)
Dependable ==
    /\ features \cap {"gc", "ttl", "undrained", "crash", "io"} = {}
    /\ "del" \in features => "alone" \in features

(* When no call is under way, every key the cache serves is saved under    *)
(* the id it serves, so a restart brings the same key to the same points.  *)
RecordsKept ==
    Dependable /\ phase = "open" /\ (\A t \in Threads : call[t].pc = "idle")
      => \A n \in Held : keyDb[n] = keyMap[n]

(* A del that answers true has left neither the record nor a point of the  *)
(* id it removed from the cache, if no call overlaps with it or with the   *)
(* stop, whatever is collected or expires, and whenever the process dies.  *)
Undisturbed == features \cap {"alone", "undrained", "io"} = {"alone"}

Erases == \A t \in Threads :
    call[t].pc \in {"delscan", "deldata"} /\ call'[t].pc = "idle" /\ phase' # "down"
      => /\ keyDb'[call[t].name] = NoKey
         /\ \A w \in Windows : dataDb'[call[t].id][w] = {}

DeleteErases == [][Undisturbed => Erases]_vars

-----------------------------------------------------------------------------
(* What callers can see of a shard: the counters, each with its points.    *)

(* The id that leads to a counter's points, in the process that runs or in *)
(* the next one.                                                           *)
IdOf(n) == IF phase = "down" THEN keyDb[n] ELSE keyMap[n]

Known    == {n \in Names : IdOf(n) # NoKey}
Shown    == [n \in Names |-> IF IdOf(n) = NoKey THEN {} ELSE Saved(IdOf(n))]
Lasting  == Kept

Counters == INSTANCE Counters WITH
    exists <- Known, points <- Shown, ages <- "ttl" \in features

(* The shard keeps the promises of Counters: a new counter starts empty, a *)
(* point belongs to one counter, and a counter in use keeps its points.    *)
(* It does within one run, and across restarts where the environment is    *)
(* dependable.                                                             *)
CountersStep == [Counters!Next]_<<Known, Shown, "ttl" \in features>>
CountersSpec == Counters!Spec
=============================================================================
