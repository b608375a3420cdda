---------------------------- MODULE KeyAggregator ----------------------------
(***************************************************************************)
(* btp::key_aggregator: the window of a counter that is still open, and    *)
(* the counter's record (its last update and its maxima).  The module      *)
(* gives each method as a function of the aggregator's state; module       *)
(* AddPath puts threads, databases and restarts around them.               *)
(*                                                                         *)
(* A sample counts 1; of the statistics of a point only the count is kept: *)
(* the others are accumulated, saved and restored next to it.  The         *)
(* library's aggregator is modelled from how key_aggregator uses it.       *)
(***************************************************************************)
EXTENDS Integers, Sequences

Point(w, c) == [window |-> w, count |-> c]

EmptyRecord == [lastUpdate |-> 0, max |-> 0, maxAt |-> 0]

Aggregators(windows, counts) ==
    [window : windows, count : counts, lastPoint : BOOLEAN,
     record : [lastUpdate : windows, max : counts, maxAt : windows]]

Points(windows, counts) == [window : windows, count : counts]

(* lastPoint is the aggregator's option aggregate_last_point.              *)
New(w, lastPoint) ==
    [window |-> w, count |-> 0, lastPoint |-> lastPoint, record |-> EmptyRecord]

(* Operators named Slip... are the code with one plausible mistake.        *)

(* A greater maximum keeps the time of the one before.                     *)
SlipTimeStays(record, p) ==
    [lastUpdate |-> p.window,
     max   |-> IF record.max < p.count THEN p.count ELSE record.max,
     maxAt |-> IF record.max = 0 THEN p.window ELSE record.maxAt]

(* update_info_ and update_field_: the record learns of a point.           *)
Learn(record, p) ==
    [lastUpdate |-> p.window,
     max   |-> IF record.max < p.count THEN p.count ELSE record.max,
     maxAt |-> IF record.max < p.count THEN p.window ELSE record.maxAt]

IsLate(agg, w) == w < agg.window

(* Samples of the open window once one for w, on time, is in.              *)
CountIn(agg, w) == IF w = agg.window THEN agg.count + 1 ELSE 1

(* Does a sample complete the open window?  Not if nothing was in it.      *)
Completes(agg, w) == w > agg.window /\ agg.count > 0

(* The points of an add on time: the window it completes, then the window  *)
(* it opens or continues if last points are aggregated.                    *)
Yielded(agg, w) ==
    (IF Completes(agg, w) THEN <<Point(agg.window, agg.count)>> ELSE <<>>)
    \o (IF agg.lastPoint THEN <<Point(w, CountIn(agg, w))>> ELSE <<>>)

(* Only completed windows are made known to the record.                    *)
SlipLearnCompleted(agg, w) ==
    [agg EXCEPT !.window = w, !.count = CountIn(agg, w),
     !.record = IF Completes(agg, w)
                THEN Learn(agg.record, Point(agg.window, agg.count))
                ELSE @]

(* The record learns of the points yielded, in their order.                *)
Push(agg, w) ==
    LET completed == IF Completes(agg, w)
                     THEN Learn(agg.record, Point(agg.window, agg.count))
                     ELSE agg.record
        record    == IF agg.lastPoint
                     THEN Learn(completed, Point(w, CountIn(agg, w)))
                     ELSE completed
    IN  [agg EXCEPT !.window = w, !.count = CountIn(agg, w), !.record = record]

(* The window handed out by the stop of the shard.                         *)
ForcedPoints(agg) ==
    IF agg.lastPoint /\ agg.count > 0 THEN <<Point(agg.window, agg.count)>> ELSE <<>>

(* set_key_info: the open window starts at the last update with the counts *)
(* of the record's maximum.  Data of an older window may or may not be     *)
(* taken by the library's aggregator: both are allowed.                    *)
Restored(record, lastPoint) ==
    {[New(record.lastUpdate, lastPoint) EXCEPT !.count = c, !.record = record] :
        c \in IF record.maxAt = record.lastUpdate
              THEN {record.max} ELSE {0, record.max}}
=============================================================================
