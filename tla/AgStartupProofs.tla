--------------------------- MODULE AgStartupProofs ---------------------------
(***************************************************************************)
(* Theorems about AgStartup, for any number of instances, any mix of the   *)
(* mtload option and any failures.                                         *)
(***************************************************************************)
EXTENDS AgStartup, FiniteSetTheorems, TLAPS

(* The state of the start is well typed: the counters never go below 0 and *)
(* main never goes past the last instance.  It takes the meaning of the    *)
(* counters to show it: counter1 is the number of instances not started.   *)
Behind == {i \in Instances : loading[i] # "done"}

Order ==
    /\ main = "starting" => at <= N /\ counter1 = N + 1 - at
    /\ main \in {"loading", "waiting"} => at <= N /\ counter1 = N - at
    /\ main = "stopping" => at <= N
    /\ main = "loading" => ~mtload[at]
    /\ main = "waiting" => at = N

Typed ==
    /\ mtload \in [Instances -> BOOLEAN]
    /\ main \in {"starting", "loading", "waiting", "running", "stopping", "stopped"}
    /\ at \in 1..(N + 1)
    /\ counter1 \in 0..N
    /\ counter2 \in Int
    /\ loading \in [Instances -> {"no", "begun", "opening", "done", "failed"}]
    /\ storage \in [Instances -> {"null", "closed", "open"}]

MainInv == Typed /\ Order

LEMMA MainInvariant == Spec => []MainInv
<1> USE NAssumption DEF Instances
<1>1. Init => MainInv
  BY DEF Init, MainInv, Typed, Order
<1>2. MainInv /\ [Next]_vars => MainInv'
  <2> SUFFICES ASSUME MainInv, [Next]_vars PROVE MainInv'
    OBVIOUS
  <2> USE DEF MainInv, Typed, Order
  <2>1. CASE Start
    <3>1. loading' \in [Instances -> {"no", "begun", "opening", "done", "failed"}]
      BY <2>1 DEF Start
    <3>2. /\ mtload' = mtload /\ counter2' = counter2 /\ storage' = storage
          /\ counter1' = counter1 - 1
          /\ counter1 = N + 1 - at
          /\ at <= N
      BY <2>1 DEF Start
    <3>3. CASE ~mtload[at]
      BY <2>1, <3>1, <3>2, <3>3 DEF Start
    <3>4. CASE mtload[at] /\ counter1' = 0
      BY <2>1, <3>1, <3>2, <3>4 DEF Start, LastStarted
    <3>5. CASE mtload[at] /\ counter1' # 0
      <4>1. at < N
        BY <3>2, <3>5
      <4>2. main' = "starting" /\ at' = at + 1
        BY <2>1, <3>5, <4>1 DEF Start, LastStarted, GoesOn
      <4> QED
        BY <3>1, <3>2, <4>1, <4>2
    <3> QED
      BY <3>2, <3>3, <3>4, <3>5
  <2>2. CASE Loaded
    BY <2>2 DEF Loaded, GoesOn
  <2>3. CASE WaitEnds
    BY <2>3 DEF WaitEnds, GoesOn
  <2>4. ASSUME NEW i \in Instances, NoDirectory(i) PROVE MainInv'
    BY <2>4 DEF NoDirectory
  <2>5. ASSUME NEW i \in Instances, MakeStorage(i) PROVE MainInv'
    BY <2>5 DEF MakeStorage
  <2>6. ASSUME NEW i \in Instances, OpenFails(i) PROVE MainInv'
    BY <2>6 DEF OpenFails
  <2>7. ASSUME NEW i \in Instances, OpenStorage(i) PROVE MainInv'
    BY <2>7 DEF OpenStorage
  <2>8. CASE StopBegins
    BY <2>8 DEF StopBegins
  <2>9. CASE Stop
    BY <2>9 DEF Stop
  <2>10. CASE UNCHANGED vars
    BY <2>10 DEF vars
  <2> QED
    BY <2>1, <2>2, <2>3, <2>4, <2>5, <2>6, <2>7, <2>8, <2>9, <2>10 DEF Next
<1> QED
  BY <1>1, <1>2, PTL DEF Spec

-----------------------------------------------------------------------------
(* The instances the main thread has not come to yet are untouched.        *)
Untouched == \A i \in Instances :
    \/ main = "starting" /\ at <= i
    \/ main \in {"loading", "waiting"} /\ at < i
    => loading[i] = "no"

LEMMA UntouchedInvariant == Spec => []Untouched
<1> USE NAssumption DEF Instances
<1>1. Init => Untouched
  BY DEF Init, Untouched
<1>2. MainInv /\ Untouched /\ [Next]_vars => Untouched'
  <2> SUFFICES ASSUME MainInv, Untouched, [Next]_vars PROVE Untouched'
    OBVIOUS
  <2> USE DEF MainInv, Typed, Order, Untouched
  <2>1. CASE Start
    BY <2>1 DEF Start, LastStarted, GoesOn
  <2>2. CASE Loaded
    BY <2>2 DEF Loaded, GoesOn
  <2>3. CASE WaitEnds
    BY <2>3 DEF WaitEnds, GoesOn
  <2>4. ASSUME NEW i \in Instances, NoDirectory(i) PROVE Untouched'
    BY <2>4 DEF NoDirectory
  <2>5. ASSUME NEW i \in Instances, MakeStorage(i) PROVE Untouched'
    BY <2>5 DEF MakeStorage
  <2>6. ASSUME NEW i \in Instances, OpenFails(i) PROVE Untouched'
    BY <2>6 DEF OpenFails
  <2>7. ASSUME NEW i \in Instances, OpenStorage(i) PROVE Untouched'
    BY <2>7 DEF OpenStorage
  <2>8. CASE StopBegins \/ Stop \/ UNCHANGED vars
    BY <2>8 DEF StopBegins, Stop, vars
  <2> QED
    BY <2>1, <2>2, <2>3, <2>4, <2>5, <2>6, <2>7, <2>8 DEF Next
<1> QED
  BY <1>1, <1>2, MainInvariant, PTL DEF Spec

-----------------------------------------------------------------------------
(* The set of instances that have not loaded shrinks by one when a storage *)
(* opens, and only then.                                                   *)
LEMMA BehindFinite == IsFiniteSet(Behind) /\ Cardinality(Behind) \in 0..N
<1>1. IsFiniteSet(Instances) /\ Cardinality(Instances) = N
  BY NAssumption, FS_Interval DEF Instances
<1> QED
  BY <1>1, FS_Subset, FS_CardinalityType DEF Behind

LEMMA SameBehind ==
  ASSUME \A i \in Instances : (loading'[i] = "done") <=> (loading[i] = "done")
  PROVE  Behind' = Behind
  BY DEF Behind, Instances

(* CounterCountsLoading: the counter the main thread waits for             *)
(* (ag_domain.cpp:116, 136) is the number of instances not loaded.         *)
THEOREM CounterIsExact == Spec => []CounterCountsLoading
<1> USE NAssumption
<1>1. Init => CounterCountsLoading
  <2> SUFFICES ASSUME Init PROVE CounterCountsLoading
    OBVIOUS
  <2>1. {i \in Instances : loading[i] # "done"} = Instances
    BY DEF Init
  <2>2. Cardinality(Instances) = N
    BY FS_Interval DEF Instances
  <2> QED
    BY <2>1, <2>2 DEF Init, CounterCountsLoading
<1>2. MainInv /\ Untouched /\ CounterCountsLoading /\ [Next]_vars => CounterCountsLoading'
  <2> SUFFICES ASSUME MainInv, Untouched, CounterCountsLoading, [Next]_vars
               PROVE  counter2' = Cardinality(Behind')
    BY DEF CounterCountsLoading, Behind, Instances
  <2>0. counter2 = Cardinality(Behind)
    BY DEF CounterCountsLoading, Behind
  <2> USE DEF MainInv, Typed, Order
  <2>1. ASSUME NEW i \in Instances, OpenStorage(i) PROVE counter2' = Cardinality(Behind')
    <3>1. i \in Behind /\ Behind' = Behind \ {i}
      BY <2>1 DEF OpenStorage, Behind, Instances
    <3>2. Cardinality(Behind') = Cardinality(Behind) - 1
      BY <3>1, BehindFinite, FS_RemoveElement
    <3> QED
      BY <2>0, <2>1, <3>2 DEF OpenStorage
  <2>2. CASE ~ \E i \in Instances : OpenStorage(i)
    <3>1. counter2' = counter2
      BY <2>2 DEF Next, vars, Start, Loaded, WaitEnds, NoDirectory, MakeStorage,
                  OpenFails, StopBegins, Stop
    <3>2. \A i \in Instances : (loading'[i] = "done") <=> (loading[i] = "done")
      <4>1. CASE Start
        <5>1. loading[at] = "no"
          BY <4>1 DEF Start, Untouched, Instances
        <5> QED
          BY <4>1, <5>1 DEF Start
      <4>2. ASSUME NEW i \in Instances, NoDirectory(i) \/ MakeStorage(i) \/ OpenFails(i)
            PROVE  \A j \in Instances : (loading'[j] = "done") <=> (loading[j] = "done")
        BY <4>2 DEF NoDirectory, MakeStorage, OpenFails
      <4>3. CASE Loaded \/ WaitEnds \/ StopBegins \/ Stop \/ UNCHANGED vars
        BY <4>3 DEF Loaded, WaitEnds, StopBegins, Stop, vars
      <4> QED
        BY <2>2, <4>1, <4>2, <4>3 DEF Next
    <3> QED
      BY <2>0, <3>1, <3>2, SameBehind
  <2> QED
    BY <2>1, <2>2
<1> QED
  BY <1>1, <1>2, MainInvariant, UntouchedInvariant, PTL DEF Spec

-----------------------------------------------------------------------------
(* TypeOK: the counter of the instances that load stays within 0..N, so    *)
(* the loop that waits for 0 cannot miss it.                               *)
THEOREM TypeIsOK == Spec => []TypeOK
<1>1. MainInv /\ CounterCountsLoading => TypeOK
  BY BehindFinite DEF MainInv, Typed, CounterCountsLoading, Behind, TypeOK
<1> QED
  BY <1>1, MainInvariant, CounterIsExact, PTL

(* What a load leaves behind, and what the end of the wait means.          *)
Opened == \A i \in Instances :
    loading[i] = "done" =>
        /\ storage[i] # "null"
        /\ main \notin {"stopping", "stopped"} => storage[i] = "open"

AllLoaded ==
    main \in {"running", "stopping", "stopped"} /\ mtload[N] =>
        \A i \in Instances : loading[i] = "done"

LEMMA OpenedInvariant == Spec => [](Opened /\ AllLoaded)
<1> USE NAssumption DEF Instances
<1>1. Init => Opened /\ AllLoaded
  BY DEF Init, Opened, AllLoaded
<1>2. MainInv /\ Untouched /\ CounterCountsLoading /\ Opened /\ AllLoaded /\ [Next]_vars
        => Opened' /\ AllLoaded'
  <2> SUFFICES ASSUME MainInv, Untouched, CounterCountsLoading, Opened, AllLoaded,
                      [Next]_vars
               PROVE  Opened' /\ AllLoaded'
    OBVIOUS
  <2> USE DEF MainInv, Typed, Order, Untouched, Opened, AllLoaded
  <2>1. CASE Start
    <3>1. main' # "running" \/ ~mtload[N]
      BY <2>1 DEF Start, LastStarted, GoesOn
    <3> QED
      BY <2>1, <3>1 DEF Start, GoesOn
  <2>2. CASE Loaded
    BY <2>2 DEF Loaded, GoesOn
  <2>3. CASE WaitEnds
    <3>1. Behind = {}
      BY <2>3, BehindFinite, FS_EmptySet DEF WaitEnds, CounterCountsLoading, Behind
    <3> QED
      BY <2>3, <3>1 DEF WaitEnds, GoesOn, Behind
  <2>4. ASSUME NEW i \in Instances, NoDirectory(i) PROVE Opened' /\ AllLoaded'
    BY <2>4 DEF NoDirectory
  <2>5. ASSUME NEW i \in Instances, MakeStorage(i) PROVE Opened' /\ AllLoaded'
    BY <2>5 DEF MakeStorage
  <2>6. ASSUME NEW i \in Instances, OpenFails(i) PROVE Opened' /\ AllLoaded'
    BY <2>6 DEF OpenFails
  <2>7. ASSUME NEW i \in Instances, OpenStorage(i) PROVE Opened' /\ AllLoaded'
    BY <2>7 DEF OpenStorage
  <2>8. CASE StopBegins
    BY <2>8 DEF StopBegins
  <2>9. CASE Stop
    BY <2>9 DEF Stop
  <2>10. CASE UNCHANGED vars
    BY <2>10 DEF vars
  <2> QED
    BY <2>1, <2>2, <2>3, <2>4, <2>5, <2>6, <2>7, <2>8, <2>9, <2>10 DEF Next
<1> QED
  BY <1>1, <1>2, MainInvariant, UntouchedInvariant, CounterIsExact, PTL DEF Spec

(* ReadyMeansLoaded: when the last instance has mtload, the main thread    *)
(* leaves start (ag_domain.cpp:133-142) only into a service whose storages *)
(* are all open, whatever the other instances have and whatever fails.     *)
THEOREM ReadyIsLoaded == Spec => []ReadyMeansLoaded
<1>1. Opened /\ AllLoaded => ReadyMeansLoaded
  BY DEF Opened, AllLoaded, ReadyMeansLoaded
<1> QED
  BY <1>1, OpenedInvariant, PTL

(* StopFindsStorage: and the stop (ag_domain.cpp:150-153) then never       *)
(* dereferences a storage that is not there.                               *)
THEOREM StopIsSafe == Spec => []StopFindsStorage
<1>1. MainInv /\ Opened /\ AllLoaded => StopFindsStorage
  BY DEF MainInv, Typed, Order, Opened, AllLoaded, StopFindsStorage, Instances
<1> QED
  BY <1>1, MainInvariant, OpenedInvariant, PTL
=============================================================================
