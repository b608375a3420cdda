------------------------------- MODULE Handles -------------------------------
(***************************************************************************)
(* The life of a storage object and of its handles: the key database and   *)
(* the HashSize data databases are opened one by one, any of them may      *)
(* fail, the keys are loaded in batches; stop closes the databases, the    *)
(* destructors close what is left.  A directory is locked by the database  *)
(* open on it.  After a failed start or a test's reopening, a new storage  *)
(* object is made over the same directories.                               *)
(*                                                                         *)
(* A compaction runs over all the databases, at once or from a queue, and  *)
(* nothing keeps it from coming before they are open, or a stop from       *)
(* closing them under it.                                                  *)
(***************************************************************************)
EXTENDS Integers, FiniteSets, SequencesExt

CONSTANTS
    HashSize,   \* data_storage_options::hash_size
    Records,    \* number of records in the key database
    Step,       \* records of a batch
    MaxStarts   \* bound on the storage objects made

ASSUME HashSizeAssumption == HashSize \in Nat
ASSUME StepAssumption     == Step \in Nat \ {0}
ASSUME BoundsAssumption   == Records \in Nat /\ MaxStarts \in Nat

VARIABLES
    stage,    \* what storage::open, close or the destructor has come to
    keyDb,    \* key_storage's database: "none", "garbage", "null", "open", "gone"
    dbs,      \* shard_rocksdb::_dbs: "missing", "open" or "closed"
    locks,    \* the directories locked: 0 for the keys, i for the i-th data database
    read,     \* records read by load
    batch,    \* ... and not yet given to the cache
    restored, \* records in the cache
    queued,   \* is a compaction in the queue of the workflow?
    toCompact, \* databases a compaction has yet to go through: first 0, the keys
    holds,    \* does that compaction share the storage, so that it lives on?
    starts,   \* storage objects made so far
    fault     \* a call went through a pointer that is null, dangling or not set

loading    == <<read, batch, restored>>
compaction == <<queued, toCompact, holds>>
vars       == <<stage, keyDb, dbs, locks, loading, compaction, starts, fault>>

(* Operators named Slip... are the code with one plausible mistake.        *)

(* One database too many.                                                  *)
SlipSlots == 0..HashSize

(* The data databases; the code numbers them from 0.                       *)
Slots == 1..(IF HashSize = 0 THEN 1 ELSE HashSize)

TypeOK ==
    /\ stage \in {"none", "keys", "data", "shards", "load", "serving", "closing",
                  "closed", "failed"}
    /\ keyDb \in {"none", "garbage", "null", "open", "gone"}
    /\ dbs \in SeqOf({"missing", "open", "closed"}, Cardinality(Slots))
    /\ locks \subseteq {0} \cup Slots
    /\ read \in 0..Records /\ batch \subseteq 1..Records /\ restored \subseteq 1..Records
    /\ queued \in BOOLEAN
    /\ toCompact \in SeqOf({0} \cup Slots, Cardinality(Slots))
    /\ holds \in BOOLEAN
    /\ starts \in 0..MaxStarts
    /\ fault \in BOOLEAN

Init ==
    /\ stage = "none"
    /\ keyDb = "none"
    /\ dbs = <<>>
    /\ locks = {}
    /\ read = 0
    /\ batch = {}
    /\ restored = {}
    /\ queued = FALSE
    /\ toCompact = <<>>
    /\ holds = FALSE
    /\ starts = 0
    /\ fault = FALSE

-----------------------------------------------------------------------------
(* start_: a new storage object.                                           *)
Make ==
    /\ stage = "none" /\ ~fault
    /\ starts < MaxStarts
    /\ starts' = starts + 1
    /\ stage' = "keys"
    /\ UNCHANGED <<keyDb, dbs, locks, loading, compaction, fault>>

(* key_rocksdb::open: the directory or the options may fail before the     *)
(* pointer to the database has a value.                                    *)
OpenKeys(outcome) ==
    /\ stage = "keys"
    /\ outcome = "open" => 0 \notin locks
    /\ keyDb' = outcome
    /\ locks' = IF outcome = "open" THEN locks \cup {0} ELSE locks
    /\ stage' = IF outcome = "open" THEN "data" ELSE "failed"
    /\ UNCHANGED <<dbs, loading, compaction, starts, fault>>

(* shard_rocksdb::open: the directory and the options, then room for all.  *)
OpenShard(success) ==
    /\ stage = "data"
    /\ dbs' = IF success THEN [i \in Slots |-> "missing"] ELSE <<>>
    /\ stage' = IF success THEN "shards" ELSE "failed"
    /\ UNCHANGED <<keyDb, locks, loading, compaction, starts, fault>>

(* A database that fails is left out.                                      *)
SlipGoOn(i, success) == IF i = Len(dbs) THEN "load" ELSE "shards"

AfterDb(i, success) ==
    IF ~success THEN "failed" ELSE IF i = Len(dbs) THEN "load" ELSE "shards"

OpenDb(i, success) ==
    /\ stage = "shards"
    /\ dbs[i] = "missing" /\ \A j \in 1..(i - 1) : dbs[j] # "missing"
    /\ success => i \notin locks
    /\ dbs' = IF success THEN [dbs EXCEPT ![i] = "open"] ELSE dbs
    /\ locks' = IF success THEN locks \cup {i} ELSE locks
    /\ stage' = AfterDb(i, success)
    /\ UNCHANGED <<keyDb, loading, compaction, starts, fault>>

NoIterator ==
    /\ stage = "load" /\ read = 0
    /\ stage' = "failed"
    /\ UNCHANGED <<keyDb, dbs, locks, loading, compaction, starts, fault>>

(* A full batch goes to the cache.                                         *)
ReadRecord ==
    /\ stage = "load" /\ read < Records
    /\ read' = read + 1
    /\ LET all  == batch \cup {read'}
           full == Cardinality(all) = Step
       IN  /\ batch' = IF full THEN {} ELSE all
           /\ restored' = IF full THEN restored \cup all ELSE restored
    /\ UNCHANGED <<stage, keyDb, dbs, locks, compaction, starts, fault>>

(* What is left of the last batch is dropped.                              *)
SlipNoRest == restored

Rest == restored \cup batch

(* The iterator ends after the last record, or at an error: load does not  *)
(* tell one from the other.                                                *)
EndLoad ==
    /\ stage = "load"
    /\ restored' = Rest
    /\ batch' = {}
    /\ stage' = "serving"
    /\ UNCHANGED <<read, keyDb, dbs, locks, compaction, starts, fault>>

-----------------------------------------------------------------------------
(* storage::close: the keys first; a record that cannot be saved before    *)
(* that ends it with everything open.                                      *)
CloseKeys ==
    /\ stage = "serving"
    /\ keyDb' = "gone"
    /\ locks' = locks \ {0}
    /\ stage' = "closing"
    /\ fault' = (fault \/ (toCompact # <<>> /\ Head(toCompact) = 0))
    /\ UNCHANGED <<dbs, loading, compaction, starts>>

CloseFails ==
    /\ stage = "serving"
    /\ stage' = "closed"
    /\ UNCHANGED <<keyDb, dbs, locks, loading, compaction, starts, fault>>

(* Only the first database is closed.                                      *)
SlipCloseFirst == {i \in DOMAIN dbs : i = 1 /\ dbs[i] = "open"}

(* shard_rocksdb::close.                                                   *)
ToClose == {i \in DOMAIN dbs : dbs[i] = "open"}

CloseShards ==
    /\ stage = "closing"
    /\ locks' = locks \ ToClose
    /\ dbs' = <<>>
    /\ stage' = "closed"
    /\ fault' = (fault \/ toCompact # <<>>)
    /\ UNCHANGED <<keyDb, loading, compaction, starts>>

(* A compaction in the queue knows the storage by a plain pointer.         *)
SlipPlainPointer == queued

(* It knows it by a weak one: of a storage that is gone nothing is left to *)
(* do.                                                                     *)
QueuedStill == FALSE

(* ~storage, after a failed open (ag_domain drops it), after close, or by  *)
(* a test without close: the data databases, then the keys: ~key_storage   *)
(* closes whatever its pointer leads to, also when close has made it null. *)
(* A compaction from the queue keeps the storage until it is through; one  *)
(* asked for directly does not, and goes on in what is gone.               *)
Destroy ==
    /\ stage \in {"failed", "closed", "serving"}
    /\ toCompact # <<>> => ~holds
    /\ toCompact' = <<>>
    /\ queued' = QueuedStill
    /\ fault' = (fault \/ keyDb \in {"garbage", "gone"} \/ toCompact # <<>>)
    /\ locks' = (locks \ ToClose) \ (IF keyDb = "open" THEN {0} ELSE {})
    /\ dbs' = <<>>
    /\ keyDb' = "none"
    /\ read' = 0 /\ batch' = {} /\ restored' = {}
    /\ stage' = "none"
    /\ UNCHANGED <<holds, starts>>

-----------------------------------------------------------------------------
(* ag_domain::compact does not ask how far the storage has come, or        *)
(* whether there is one.                                                   *)
databases == <<stage, keyDb, dbs, locks, loading, starts>>

(* A request without a callback goes to the queue with a weak pointer,     *)
(* which leads nowhere when there is no storage yet, ...                   *)
QueueCompact ==
    /\ ~queued
    /\ queued' = (stage # "none")
    /\ UNCHANGED <<databases, toCompact, holds, fault>>

(* ... and may leave it when the storage is closed already, or be dropped. *)
RunQueued(dropped) ==
    /\ queued /\ toCompact = <<>>
    /\ queued' = FALSE
    /\ toCompact' = IF dropped THEN <<>> ELSE <<0>>
    /\ holds' = TRUE
    /\ UNCHANGED <<databases, fault>>

(* One with a callback is done at once, through the pointer there is.      *)
CompactNow ==
    /\ toCompact = <<>>
    /\ \/ stage # "none" /\ toCompact' = <<0>> /\ UNCHANGED fault
       \/ stage = "none" /\ fault' = TRUE /\ UNCHANGED toCompact
    /\ holds' = FALSE
    /\ UNCHANGED <<databases, queued>>

Reached(d) ==
    IF d = 0 THEN keyDb = "open" ELSE d \in DOMAIN dbs /\ dbs[d] = "open"

(* storage::compact: the keys, then the data databases there are by then,  *)
(* one by one, until one fails.                                            *)
After(d) == IF d = 0 THEN [i \in DOMAIN dbs |-> i] ELSE Tail(toCompact)

(* The data storage is made a moment after the key database is open: until *)
(* then there may be none.                                                 *)
MissesData(d) == d = 0 /\ stage = "data"

Compact(success) ==
    LET d == Head(toCompact)
    IN  /\ toCompact # <<>>
        /\ toCompact' = IF success /\ Reached(d) THEN After(d) ELSE <<>>
        /\ \/ Reached(d) /\ UNCHANGED fault
           \/ (~Reached(d) \/ (success /\ MissesData(d))) /\ fault' = TRUE
        /\ UNCHANGED <<databases, queued, holds>>

Next ==
    \/ Make
    \/ \E outcome \in {"garbage", "null", "open"} : OpenKeys(outcome)
    \/ \E success \in BOOLEAN : OpenShard(success)
    \/ \E i \in DOMAIN dbs, success \in BOOLEAN : OpenDb(i, success)
    \/ NoIterator
    \/ ReadRecord
    \/ EndLoad
    \/ CloseKeys
    \/ CloseFails
    \/ CloseShards
    \/ Destroy
    \/ QueueCompact
    \/ \E dropped \in BOOLEAN : RunQueued(dropped)
    \/ CompactNow
    \/ \E success \in BOOLEAN : Compact(success)

Spec == Init /\ [][Next]_vars

-----------------------------------------------------------------------------
(* A storage object that is gone has left no directory locked, however far *)
(* its opening or its closing came: a new one can open them.               *)
NothingStaysLocked == stage = "none" => locks = {}

(* Requests are served only when every database is open.                   *)
ServesWhole == stage = "serving" => locks = {0} \cup Slots

(* No call goes through a pointer that leads nowhere while a storage loads *)
(* or serves, unless the step stops or ends it, and a compaction from the  *)
(* queue never does when there is no storage any more.  What is left is a  *)
(* compaction asked for when there is no storage or one that still opens,  *)
(* a stop, and the end of an object.                                       *)
StopsOrEnds == stage' # stage /\ stage' \in {"closing", "none"}

FaultsOutsideService == [][
    fault' /\ ~fault =>
        \/ stage \in {"keys", "data", "shards", "failed", "closing", "closed"}
        \/ stage = "none" /\ toCompact = <<>>
        \/ StopsOrEnds]_vars

(* Every record read is in the cache by then, whatever the batches.        *)
ReadIsRestored == stage = "serving" => restored = 1..read
=============================================================================
