------------------------------ MODULE AgStartup ------------------------------
(***************************************************************************)
(* The start and the stop of ag_domain, with several instances.  The main  *)
(* thread initialises all instances, starts them one after the other and   *)
(* then lets requests in.  With mtload an instance opens its storage in a  *)
(* thread of its own, and the last instance makes the main thread wait for *)
(* all of them; without it the main thread opens the storage itself.       *)
(***************************************************************************)
EXTENDS Integers, FiniteSets

CONSTANT
    N           \* the number of instances, started in the order 1..N

ASSUME NAssumption == N \in Nat \ {0}

VARIABLES
    mtload,     \* the mtload option of each instance
    main,       \* the main thread: "starting", "loading" (inside start_),
                \* "waiting", "running", "stopping" or "stopped"
    at,         \* the instance the main thread is at
    counter1,   \* ag_domain::instance_counter1
    counter2,   \* ag_domain::instance_counter2
    loading,    \* the start_ of each instance: "no", "begun", "opening", "done"
                \* or "failed"
    storage     \* _storage of each instance: "null", "closed" or "open"

vars == <<mtload, main, at, counter1, counter2, loading, storage>>

Instances == 1..N

TypeOK ==
    /\ mtload \in [Instances -> BOOLEAN]
    /\ main \in {"starting", "loading", "waiting", "running", "stopping", "stopped"}
    /\ at \in 1..(N + 1)
    /\ counter1 \in 0..N
    /\ counter2 \in 0..N
    /\ loading \in [Instances -> {"no", "begun", "opening", "done", "failed"}]
    /\ storage \in [Instances -> {"null", "closed", "open"}]

(* initialize has counted every instance twice.                            *)
Init ==
    /\ mtload \in [Instances -> BOOLEAN]
    /\ main = "starting"
    /\ at = 1
    /\ counter1 = N
    /\ counter2 = N
    /\ loading = [i \in Instances |-> "no"]
    /\ storage = [i \in Instances |-> "null"]

-----------------------------------------------------------------------------
(* The main thread.                                                        *)

(* Operators named Slip... are the code with one plausible mistake.        *)

(* The last instance is told by the loaded ones, not by the started ones.  *)
SlipWaitsByLoaded == counter2 = 0

LastStarted == counter1' = 0

(* After start: the next instance, or the requests.                        *)
GoesOn == main' = IF at = N THEN "running" ELSE "starting"

Start ==
    /\ main = "starting"
    /\ counter1' = counter1 - 1
    /\ loading' = [loading EXCEPT ![at] = "begun"]
    /\ IF ~mtload[at] THEN main' = "loading" /\ UNCHANGED at
       ELSE IF LastStarted THEN main' = "waiting" /\ UNCHANGED at
       ELSE GoesOn /\ at' = at + 1
    /\ UNCHANGED <<mtload, counter2, storage>>

(* start reports what start_ has reported already.                         *)
SlipReportsTwice ==
    /\ main = "loading"
    /\ loading[at] \in {"done", "failed"}
    /\ GoesOn
    /\ at' = at + 1
    /\ counter2' = counter2 - 1
    /\ UNCHANGED <<mtload, counter1, loading, storage>>

(* Without mtload start returns when start_ does, well or not.             *)
Loaded ==
    /\ main = "loading"
    /\ loading[at] \in {"done", "failed"}
    /\ GoesOn
    /\ at' = at + 1
    /\ UNCHANGED <<mtload, counter1, counter2, loading, storage>>

(* The sleep in the loop of start ends: another look at the counter.       *)
WaitEnds ==
    /\ main = "waiting"
    /\ counter2 = 0
    /\ GoesOn
    /\ at' = at + 1
    /\ UNCHANGED <<mtload, counter1, counter2, loading, storage>>

-----------------------------------------------------------------------------
(* start_, in the main thread or a thread of its own.                      *)

(* An instance that has failed reports too.                                *)
SlipFailedReports(i) ==
    /\ loading[i] = "begun"
    /\ loading' = [loading EXCEPT ![i] = "failed"]
    /\ counter2' = counter2 - 1
    /\ UNCHANGED <<mtload, main, at, counter1, storage>>

(* The directories of the databases cannot be made.                        *)
NoDirectory(i) ==
    /\ loading[i] = "begun"
    /\ loading' = [loading EXCEPT ![i] = "failed"]
    /\ UNCHANGED <<mtload, main, at, counter1, counter2, storage>>

(* The storage is there, for everyone to see, before it is open.           *)
MakeStorage(i) ==
    /\ loading[i] = "begun"
    /\ loading' = [loading EXCEPT ![i] = "opening"]
    /\ storage' = [storage EXCEPT ![i] = "closed"]
    /\ UNCHANGED <<mtload, main, at, counter1, counter2>>

OpenFails(i) ==
    /\ loading[i] = "opening"
    /\ loading' = [loading EXCEPT ![i] = "failed"]
    /\ storage' = [storage EXCEPT ![i] = "null"]
    /\ UNCHANGED <<mtload, main, at, counter1, counter2>>

(* Only instances with mtload report.                                      *)
SlipReportsMtOnly(i) ==
    /\ loading[i] = "opening"
    /\ loading' = [loading EXCEPT ![i] = "done"]
    /\ storage' = [storage EXCEPT ![i] = "open"]
    /\ counter2' = IF mtload[i] THEN counter2 - 1 ELSE counter2
    /\ UNCHANGED <<mtload, main, at, counter1>>

(* open, the gc timer, and the report.                                     *)
OpenStorage(i) ==
    /\ loading[i] = "opening"
    /\ loading' = [loading EXCEPT ![i] = "done"]
    /\ storage' = [storage EXCEPT ![i] = "open"]
    /\ counter2' = counter2 - 1
    /\ UNCHANGED <<mtload, main, at, counter1>>

-----------------------------------------------------------------------------
(* The service is stopped: every instance closes its storage.  An instance *)
(* without one dereferences a null pointer: the model stops there.         *)
StopBegins ==
    /\ main = "running"
    /\ main' = "stopping"
    /\ at' = 1
    /\ UNCHANGED <<mtload, counter1, counter2, loading, storage>>

Stop ==
    /\ main = "stopping"
    /\ storage[at] # "null"
    /\ storage' = [storage EXCEPT ![at] = "closed"]
    /\ at' = at + 1
    /\ main' = IF at = N THEN "stopped" ELSE "stopping"
    /\ UNCHANGED <<mtload, counter1, counter2, loading>>

Next ==
    \/ Start
    \/ Loaded
    \/ WaitEnds
    \/ \E i \in Instances : NoDirectory(i)
    \/ \E i \in Instances : MakeStorage(i)
    \/ \E i \in Instances : OpenFails(i)
    \/ \E i \in Instances : OpenStorage(i)
    \/ StopBegins
    \/ Stop

Spec == Init /\ [][Next]_vars

(* Threads run, the loop sleeps for a second at a time, an opening ends.   *)
FairSpec ==
    /\ Spec
    /\ WF_vars(Start) /\ WF_vars(Loaded) /\ WF_vars(WaitEnds)
    /\ \A i \in Instances : WF_vars(MakeStorage(i)) /\ WF_vars(OpenStorage(i))

-----------------------------------------------------------------------------
(* What a client relies on when the service lets it in: the requests of    *)
(* every instance run into an open storage.  The wait promises it when the *)
(* last instance has mtload, whatever the others have and whatever fails.  *)
ReadyMeansLoaded ==
    main = "running" /\ mtload[N] => \A i \in Instances : storage[i] = "open"

(* The counter the main thread waits for is the number of instances that   *)
(* have not loaded, at any moment of the start of any mix of instances.    *)
CounterCountsLoading ==
    counter2 = Cardinality({i \in Instances : loading[i] # "done"})

(* Stopping finds no instance without a storage, so it closes them all.    *)
StopFindsStorage ==
    main = "stopping" /\ mtload[N] => storage[at] # "null"

(* Unless an instance has failed, the service gets ready in the end,       *)
(* whatever the mix of instances and the order in which their storages     *)
(* open.  (A failed instance may keep it waiting forever.)                 *)
GetsReady == <>(main = "running" \/ \E i \in Instances : loading[i] = "failed")
=============================================================================
