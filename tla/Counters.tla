------------------------------ MODULE Counters -------------------------------
(***************************************************************************)
(* What a shard promises to those who use it, without ids, caches, records *)
(* and threads: named counters, each with the windows it has a point for.  *)
(***************************************************************************)
CONSTANTS
    Names,    \* names of counters
    Windows,  \* aggregation windows
    Lasting   \* counters that are in use all the time and are never deleted

VARIABLES
    exists,  \* the counters there are
    points,  \* points[n]: the windows counter n has a point for
    ages     \* do points have a limited life?

Init ==
    /\ ages \in BOOLEAN
    /\ exists = {}
    /\ points = [n \in Names |-> {}]

(* A counter starts without points, whatever its name had before.          *)
Create(n) ==
    /\ n \notin exists
    /\ exists' = exists \cup {n}
    /\ points' = [points EXCEPT ![n] = {}]
    /\ UNCHANGED ages

Save(n, w) ==
    /\ n \in exists
    /\ points' = [points EXCEPT ![n] = @ \cup {w}]
    /\ UNCHANGED <<exists, ages>>

(* Counters that are deleted, or have been unused for long, go with all    *)
(* their points.                                                           *)
Lose(S) ==
    /\ S \cap Lasting = {}
    /\ exists' = exists \ S
    /\ points' = [n \in Names |-> IF n \in S THEN {} ELSE points[n]]
    /\ UNCHANGED ages

(* The points of counters in use all the time are younger than that.       *)
Age(n, w) ==
    /\ ages /\ n \notin Lasting
    /\ points' = [points EXCEPT ![n] = @ \ {w}]
    /\ UNCHANGED <<exists, ages>>

Next ==
    \/ \E n \in Names : Create(n)
    \/ \E n \in Names, w \in Windows : Save(n, w)
    \/ \E S \in SUBSET Names : Lose(S)
    \/ \E n \in Names, w \in Windows : Age(n, w)

vars == <<exists, points, ages>>

Spec == Init /\ [][Next]_vars
=============================================================================
