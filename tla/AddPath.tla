------------------------------- MODULE AddPath -------------------------------
(***************************************************************************)
(* How the samples of one counter reach its saved points: threads push     *)
(* them into the counter's aggregator under its mutex and write what it    *)
(* yields to the databases after the mutex is released.  The key is in use *)
(* all the time, so it is neither deleted nor collected.                   *)
(*                                                                         *)
(* Windows are numbered from 1 by time; a sample is known by its window.   *)
(***************************************************************************)
EXTENDS KeyAggregator, MergeOperator

CONSTANTS
    Threads,     \* threads that call storage::add and storage::merge
    MaxWindow,   \* bound on the windows
    MaxSamples,  \* bound on the samples
    Environments \* what the environment may do: sets of AllFeatures

(* merge: callers merge too; close: the service is stopped; crash: the     *)
(* process may die; io: a database call may fail; alone: there is one call *)
(* at a time; compact: RocksDB compacts the data database; spoil: a value  *)
(* in it may turn out unreadable; setlate: the option disable_merge is on. *)
AllFeatures ==
    {"merge", "close", "crash", "io", "alone", "compact", "spoil", "setlate"}

ASSUME BoundsAssumption == MaxWindow \in Nat \ {0} /\ MaxSamples \in Nat \ {0}
ASSUME ThreadsAssumption == IsFiniteSet(Threads)
ASSUME EnvironmentsAssumption == Environments \subseteq SUBSET AllFeatures

VARIABLES
    features,  \* what the environment of this behaviour does
    lastPoint, \* the shard's option aggregate_last_point
    phase,    \* "open", "closing" or "down"
    agg,      \* the key's aggregator in the cache, NoAggregator if none
    call,     \* call[t]: the call thread t is in the middle of
    keyDb,    \* the key's record in the key database
    dataDb,   \* what the data database keeps for each window
    pushed,   \* ghost: samples handed to the aggregator, by window
    cutShort  \* ghost: windows a process had not finished with at its end,
              \* or of which a value was lost

vars == <<features, lastPoint, phase, agg, call, keyDb, dataDb, pushed, cutShort>>
options == <<features, lastPoint, cutShort>>

Windows == 1..MaxWindow

Counts == 0..MaxSamples

NoAggregator == New(0, lastPoint)
NoRecord     == EmptyRecord

Idle == [pc |-> "idle", window |-> 0, points |-> <<>>, record |-> NoRecord]

(* Where a call is: at add's next step, at one of merge's, or at one of    *)
(* those they share.                                                       *)
Places == {"idle", "push", "late", "merge", "compare", "max", "maxat",
           "info", "setkey", "setdata"}

TypeOK ==
    /\ features \in Environments
    /\ lastPoint \in BOOLEAN
    /\ phase \in {"open", "closing", "down"}
    /\ agg \in Aggregators(0..MaxWindow, Counts)
    /\ call \in [Threads ->
         [pc : Places, window : 0..MaxWindow,
          points : SeqOf(Points(Windows, Counts), 2),
          record : [lastUpdate : 0..MaxWindow, max : Counts, maxAt : 0..MaxWindow]]]
    /\ keyDb \in [lastUpdate : 0..MaxWindow, max : Counts, maxAt : 0..MaxWindow]
    /\ DOMAIN dataDb = Windows
    /\ \A w \in Windows : \A i \in DOMAIN dataDb[w] :
         dataDb[w][i] \in Entries(Counts) /\ (dataDb[w][i].set => i = 1)
    /\ pushed \in [Windows -> Counts]
    /\ cutShort \subseteq Windows

Init ==
    /\ features \in Environments
    /\ lastPoint \in BOOLEAN
    /\ phase = "open"
    /\ agg = NoAggregator
    /\ call = [t \in Threads |-> Idle]
    /\ keyDb = NoRecord
    /\ dataDb = [w \in Windows |-> <<>>]
    /\ pushed = [w \in Windows |-> 0]
    /\ cutShort = {}

-----------------------------------------------------------------------------
Running == phase \in {"open", "closing"}

Return(t) == call' = [call EXCEPT ![t] = Idle]

(* get_or_create, with the time of the caller's data; pushed counts the    *)
(* sample from here on.                                                    *)
Start(t, w, pc) ==
    /\ phase = "open"
    /\ call[t].pc = "idle"
    /\ "alone" \in features => \A u \in Threads : call[u].pc = "idle"
    /\ FoldFunction(+, 0, pushed) < MaxSamples
    /\ pushed' = [pushed EXCEPT ![w] = @ + 1]
    /\ agg' = IF agg = NoAggregator THEN New(w, lastPoint) ELSE agg
    /\ call' = [call EXCEPT ![t] = [Idle EXCEPT !.pc = pc, !.window = w]]
    /\ UNCHANGED <<options, phase, keyDb, dataDb>>

StartAdd(t, w) == Start(t, w, "push")

StartMerge(t, w) == "merge" \in features /\ Start(t, w, "merge")

(* key_aggregator::add, under the key's mutex: a late sample is passed on  *)
(* for saving by itself.                                                   *)
PushLate(t) ==
    /\ Running
    /\ call[t].pc = "push"
    /\ IsLate(agg, call[t].window)
    /\ call' = [call EXCEPT ![t].pc = "late",
                            ![t].points = <<Point(call[t].window, 1)>>]
    /\ UNCHANGED <<options, phase, agg, keyDb, dataDb, pushed>>

PushOnTime(t) ==
    /\ Running
    /\ call[t].pc = "push"
    /\ ~IsLate(agg, call[t].window)
    /\ agg' = Push(agg, call[t].window)
    /\ call' = [call EXCEPT ![t].pc = "info",
                            ![t].points = Yielded(agg, call[t].window)]
    /\ UNCHANGED <<options, phase, keyDb, dataDb, pushed>>

(* key_aggregator::merge does not take the mutex: it sets the last update, *)
(* compares with the maximum, assigns it and assigns its time step by      *)
(* step, and others may come in between.  (An add holds the mutex, but a   *)
(* merge may also come between the same four steps of its.  The records it *)
(* could leave are in reach without: a merge's maximum or its time next to *)
(* those of an add.)                                                       *)
MergeUpdates(t) ==
    /\ Running
    /\ call[t].pc = "merge"
    /\ agg' = [agg EXCEPT !.record.lastUpdate = call[t].window]
    /\ call' = [call EXCEPT ![t].pc = "compare",
                            ![t].points = <<Point(call[t].window, 1)>>]
    /\ UNCHANGED <<options, phase, keyDb, dataDb, pushed>>

MergeCompares(t) ==
    /\ Running
    /\ call[t].pc = "compare"
    /\ call' = [call EXCEPT ![t].pc = IF agg.record.max < 1 THEN "max" ELSE "info"]
    /\ UNCHANGED <<options, phase, agg, keyDb, dataDb, pushed>>

MergeAssigns(t) ==
    /\ Running
    /\ call[t].pc = "max"
    /\ agg' = [agg EXCEPT !.record.max = 1]
    /\ call' = [call EXCEPT ![t].pc = "maxat"]
    /\ UNCHANGED <<options, phase, keyDb, dataDb, pushed>>

MergeDates(t) ==
    /\ Running
    /\ call[t].pc = "maxat"
    /\ agg' = [agg EXCEPT !.record.maxAt = call[t].window]
    /\ call' = [call EXCEPT ![t].pc = "info"]
    /\ UNCHANGED <<options, phase, keyDb, dataDb, pushed>>

(* get_key_info locks the mutex again: by now the record may know of other *)
(* threads' points.                                                        *)
TakeRecord(t) ==
    /\ Running
    /\ call[t].pc = "info"
    /\ call' = [call EXCEPT ![t].pc = "setkey", ![t].record = agg.record]
    /\ UNCHANGED <<options, phase, agg, keyDb, dataDb, pushed>>

SetKey(t) ==
    /\ Running
    /\ call[t].pc = "setkey"
    /\ keyDb' = call[t].record
    /\ IF call[t].points = <<>>
       THEN Return(t)
       ELSE call' = [call EXCEPT ![t].pc = "setdata"]
    /\ UNCHANGED <<options, phase, agg, dataDb, pushed>>

(* Points on time are added to what the window holds, like late ones.      *)
SlipSetAdds(t) ==
    LET p == Head(call[t].points)
    IN  /\ Running
        /\ call[t].pc = "setdata"
        /\ dataDb' = [dataDb EXCEPT ![p.window] = Append(@, MergedWith(p.count))]
        /\ IF Len(call[t].points) = 1
           THEN Return(t)
           ELSE call' = [call EXCEPT ![t].points = Tail(@)]
        /\ UNCHANGED <<options, phase, agg, keyDb, pushed>>

SetData(t) ==
    LET p == Head(call[t].points)
    IN  /\ Running
        /\ call[t].pc = "setdata"
        /\ dataDb' = [dataDb EXCEPT ![p.window] = <<SetTo(p.count)>>]
        /\ IF Len(call[t].points) = 1
           THEN Return(t)
           ELSE call' = [call EXCEPT ![t].points = Tail(@)]
        /\ UNCHANGED <<options, phase, agg, keyDb, pushed>>

(* A late point overwrites what the window holds.                          *)
SlipLateSets(t) ==
    LET p == Head(call[t].points)
    IN  /\ Running
        /\ call[t].pc = "late"
        /\ dataDb' = [dataDb EXCEPT ![p.window] = <<SetTo(p.count)>>]
        /\ Return(t)
        /\ UNCHANGED <<options, phase, agg, keyDb, pushed>>

(* With disable_merge a late point is set like any other.                  *)
IncData(t) ==
    LET p == Head(call[t].points)
    IN  /\ Running
        /\ call[t].pc = "late"
        /\ dataDb' = [dataDb EXCEPT ![p.window] =
             IF "setlate" \in features
             THEN <<SetTo(p.count)>>
             ELSE Append(@, MergedWith(p.count))]
        /\ Return(t)
        /\ UNCHANGED <<options, phase, agg, keyDb, pushed>>

DbFails(t) ==
    /\ "io" \in features
    /\ Running
    /\ call[t].pc \in {"setkey", "setdata", "late"}
    /\ Return(t)
    /\ UNCHANGED <<options, phase, agg, keyDb, dataDb, pushed>>

-----------------------------------------------------------------------------
(* close, by a thread of its own while no call is under way: the record as *)
(* it was before the last point is forced out, then that point.            *)
StartClose(t) ==
    /\ "close" \in features
    /\ phase = "open"
    /\ agg # NoAggregator
    /\ \A u \in Threads : call[u].pc = "idle"
    /\ phase' = "closing"
    /\ call' = [call EXCEPT ![t] =
         [Idle EXCEPT !.pc = "setkey", !.record = agg.record,
                      !.points = ForcedPoints(agg)]]
    /\ UNCHANGED <<options, agg, keyDb, dataDb, pushed>>

(* The end of a process cuts short what it knew of: the calls under way,   *)
(* and the windows since the last update its record tells of.  That of the *)
(* last update is the one the next process starts from.                    *)
UnderWay(t) ==
    {call[t].window} \cup {call[t].points[i].window : i \in DOMAIN call[t].points}

Vanish ==
    /\ cutShort' = cutShort \cup (Windows \cap
         ({keyDb.lastUpdate} \cup keyDb.lastUpdate..agg.window
            \cup UNION {UnderWay(t) : t \in Threads}))
    /\ phase' = "down"
    /\ agg' = NoAggregator
    /\ call' = [t \in Threads |-> Idle]
    /\ UNCHANGED <<features, lastPoint, keyDb, dataDb, pushed>>

FinishClose ==
    /\ phase = "closing"
    /\ \A t \in Threads : call[t].pc = "idle"
    /\ Vanish

Crash ==
    /\ "crash" \in features
    /\ Running
    /\ Vanish

Open ==
    /\ phase = "down"
    /\ phase' = "open"
    /\ agg' \in IF keyDb = NoRecord THEN {NoAggregator} ELSE Restored(keyDb, lastPoint)
    /\ UNCHANGED <<options, call, keyDb, dataDb, pushed>>

-----------------------------------------------------------------------------
(* RocksDB on its own: a compaction of a window's entries, ...             *)
Compact(w) ==
    /\ "compact" \in features
    /\ \E entries \in Compactions(dataDb[w]) : dataDb' = [dataDb EXCEPT ![w] = entries]
    /\ UNCHANGED <<options, phase, agg, call, keyDb, pushed>>

(* ... and an entry that cannot be read any more.                          *)
Spoil(w) ==
    /\ "spoil" \in features
    /\ \E i \in DOMAIN dataDb[w] : dataDb' = [dataDb EXCEPT ![w][i].value = Unreadable]
    /\ cutShort' = cutShort \cup {w}
    /\ UNCHANGED <<features, lastPoint, phase, agg, call, keyDb, pushed>>

Next ==
    \/ \E t \in Threads, w \in Windows : StartAdd(t, w)
    \/ \E t \in Threads, w \in Windows : StartMerge(t, w)
    \/ \E t \in Threads : PushLate(t)
    \/ \E t \in Threads : PushOnTime(t)
    \/ \E t \in Threads : MergeUpdates(t)
    \/ \E t \in Threads : MergeCompares(t)
    \/ \E t \in Threads : MergeAssigns(t)
    \/ \E t \in Threads : MergeDates(t)
    \/ \E t \in Threads : TakeRecord(t)
    \/ \E t \in Threads : SetKey(t)
    \/ \E t \in Threads : SetData(t)
    \/ \E t \in Threads : IncData(t)
    \/ \E t \in Threads : DbFails(t)
    \/ \E t \in Threads : StartClose(t)
    \/ FinishClose
    \/ Crash
    \/ Open
    \/ \E w \in Windows : Compact(w)
    \/ \E w \in Windows : Spoil(w)

Spec == Init /\ [][Next]_vars

-----------------------------------------------------------------------------
Quiet == phase = "open" /\ \A t \in Threads : call[t].pc = "idle"

Alone == "alone" \in features

(* The count of a saved point, 0 for none.                                 *)
Count(w) == ReadOf(dataDb[w])

(* With one call at a time, each saved point counts exactly the samples    *)
(* pushed for its window, whatever the order they came in; a stop or a     *)
(* crash spoils no window but those it cut short.  Without the aggregation *)
(* of last points the open window is not saved yet; with disable_merge a   *)
(* late sample replaces its window.                                        *)
WindowsComplete == Alone /\ Quiet /\ "setlate" \notin features =>
    \A w \in Windows \ cutShort :
        Count(w) = pushed[w] \/ (~lastPoint /\ w = agg.window)

(* With last points aggregated, an orderly restart goes on counting the    *)
(* open window where it stopped (storage_suite.cpp:93).                    *)
RestartContinues == 
    Quiet /\ lastPoint => \A w \in Windows : Count(w) = pushed[w]

(* The windows before the open one, which no later sample repairs, are      *)
(* complete: what comes late is passed on to be saved                      *)
(* (key_aggregator.cpp:59).                                                *)
ClosedComplete == Quiet =>
    \A w \in Windows : w < agg.window => Count(w) = pushed[w]

(* No saved point ever counts a sample twice or one nobody pushed, however *)
(* the writes of concurrent calls, late, on time or merging, are ordered   *)
(* and fail, and whatever stops and crashes they live through: only the    *)
(* windows an end of the process cut short are not to be relied on (a      *)
(* restart counts the record's maximum for one of them, as                 *)
(* RestartContinues shows).                                                *)
NeverInvents == \A w \in Windows \ cutShort : Count(w) <= pushed[w]

(* The maximum in the saved record was reached in the window it names; if  *)
(* callers merge, which assigns the maximum and its time one after the     *)
(* other without the mutex, it was reached in some window.                 *)
RecordTruthful == keyDb.max > 0 =>
    /\ "merge" \notin features =>
         keyDb.maxAt \in cutShort \/ keyDb.max <= pushed[keyDb.maxAt]
    /\ cutShort = {} => \E w \in Windows : keyDb.max <= pushed[w]

(* With one call at a time and last points, no saved point is newer than   *)
(* the record says.  A restart takes the record's last update for the open *)
(* window; a newer point would be taken for a window yet to come, and      *)
(* overwritten by its next sample.                                         *)
RecordKnowsPoints == Alone /\ lastPoint =>
    \A w \in Windows : dataDb[w] # <<>> => w <= keyDb.lastUpdate

(* Whatever RocksDB combines, in whatever order and grouping, and whatever *)
(* of it cannot be read, a reader finds the same value after a compaction. *)
CompactionKeepsReads ==
    [][(\E w \in Windows : Compact(w)) =>
         \A w \in Windows : ReadOf(dataDb'[w]) = ReadOf(dataDb[w])]_vars
=============================================================================
