------------------------------- MODULE Requests ------------------------------
(***************************************************************************)
(* The requests that change a counter, from the service that takes them to *)
(* the shards: ag_domain, one instance per shard, and rt_domain, which     *)
(* counts samples per name in a limited map of open windows and hands each *)
(* window that closes to all its targets, here all the instances.          *)
(*                                                                         *)
(* A request runs on its caller's thread from beginning to end and calls   *)
(* the targets one after the other; other threads come in between.  What   *)
(* a shard does with a sample or a deletion is the business of module      *)
(* Storage: here it takes it or fails.  The answer to a request goes to    *)
(* its callback.                                                           *)
(***************************************************************************)
EXTENDS Integers, FiniteSets, SequencesExt

CONSTANTS
    Names,      \* names of counters
    Threads,    \* threads that handle requests
    N,          \* number of instances, the targets of rt_domain
    Limit,      \* limit of names in rt_domain's map
    MaxItems,   \* bound on the samples or names of a request
    MaxRequests \* bound on the requests

ASSUME ThreadsAssumption  == IsFiniteSet(Threads)
ASSUME TargetsAssumption  == N \in Nat \ {0}
ASSUME LimitAssumption    == Limit \in Nat
ASSUME BoundsAssumption   == MaxItems \in Nat /\ MaxRequests \in Nat

VARIABLES
    known,    \* rt_domain: the names in its map
    open,     \* rt_domain: samples in the open window of each name
    alive,    \* the instances that still exist: rt_domain holds weak pointers
    call,     \* call[t]: the request thread t is in the middle of
    got,      \* got[i][<<op, n>>]: what shard i was called for, done or failed
    owed,     \* ghost: what clients have asked for that shard i should do
    requests  \* the number of requests so far

shards == <<got, owed>>
vars   == <<known, open, alive, call, shards, requests>>

Targets    == 1..N
Packages   == SeqOf(Names, MaxItems) \ {<<>>}
MaxSamples == MaxItems * MaxRequests
Ops     == {"add", "del"}

(* rt_domain's push and add differ in the form of the request only.        *)
RtKinds == {"rt_push", "rt_multi_add", "rt_del"}
AgKinds == {"push", "multi_push", "merge", "del"}
Kinds   == RtKinds \cup AgKinds
Many    == {"rt_multi_add", "rt_del", "multi_push", "del"}

Idle == [pc |-> "idle", kind |-> "none", at |-> 0, items |-> <<>>,
         agg |-> [names |-> <<>>, count |-> 0], to |-> <<>>, ok |-> TRUE, good |-> TRUE]

(* ok is the status to be answered; good, a ghost, tells if every sample   *)
(* of the request was taken.                                               *)
Calls == {Idle} \cup
    [pc : {"rt", "deliver", "unpack", "ag", "answer"}, kind : Kinds, at : 0..N,
     items : SeqOf(Names, MaxItems),
     agg : [names : SeqOf(Names, MaxItems), count : 0..MaxSamples],
     to : SeqOf(Targets, N), ok : BOOLEAN, good : BOOLEAN]

TypeOK ==
    /\ known \subseteq Names
    /\ Cardinality(known) <= Limit
    /\ open \in [Names -> Nat]
    /\ alive \subseteq Targets
    /\ call \in [Threads -> Calls]
    /\ \A f \in {got, owed} : f \in [Targets -> [Ops \X Names -> Nat]]
    /\ requests \in 0..MaxRequests

Nothing == [i \in Targets |-> [x \in Ops \X Names |-> 0]]

Init ==
    /\ known = {}
    /\ open = [n \in Names |-> 0]
    /\ alive = Targets
    /\ call = [t \in Threads |-> Idle]
    /\ got = Nothing
    /\ owed = Nothing
    /\ requests = 0

-----------------------------------------------------------------------------
Count(items, n) == Cardinality({j \in DOMAIN items : items[j] = n})

(* k times each of the items, added to what the shards in S have of op.    *)
Plus(f, S, op, items, k) ==
    [i \in Targets |-> [x \in Ops \X Names |->
        f[i][x] + IF i \in S /\ x[1] = op THEN k * Count(items, x[2]) ELSE 0]]

OpOf(kind) == IF kind \in {"rt_del", "del"} THEN "del" ELSE "add"

(* Operators named Slip... are the code with one plausible mistake.        *)

(* The last status is answered.                                            *)
SlipLastStatus(c, status) == IF c.kind = "rt_multi_add" THEN c.ok ELSE status

(* The status of a request after one more of its parts: multi_add of       *)
(* rt_domain does not look at it.                                          *)
Status(c, status) == IF c.kind = "rt_multi_add" THEN c.ok ELSE c.ok /\ status

(* The first target is forgotten.                                          *)
SlipSecondOn == [j \in 1..(N - 1) |-> j + 1]

(* The copies go one target too far.                                       *)
SlipPastEnd == Append([j \in 1..N |-> j + 1], 1)

(* rt_domain gives copies to the targets after the first, then moves what  *)
(* it has to the first.                                                    *)
Order == Append([j \in 1..(N - 1) |-> j + 1], 1)

Arrive(t, kind, at, items) ==
    /\ call[t] = Idle
    /\ requests < MaxRequests
    /\ kind \notin Many => Len(items) = 1
    /\ requests' = requests + 1
    /\ UNCHANGED <<known, open, alive, got>>

(* A request to an instance.                                               *)
ArriveAg(t, kind, i, items) ==
    /\ i \in alive
    /\ Arrive(t, kind, i, items)
    /\ owed' = Plus(owed, {i}, OpOf(kind), items, 1)
    /\ call' = [call EXCEPT ![t] =
         [Idle EXCEPT !.pc = IF kind = "multi_push" THEN "unpack" ELSE "ag",
                      !.kind = kind, !.at = i, !.items = items]]

(* A request to rt_domain; the samples it accepts are owed to all.         *)
ArriveRt(t, kind, items) ==
    /\ Arrive(t, kind, 0, items)
    /\ owed' = IF kind = "rt_del" THEN Plus(owed, Targets, "del", items, 1) ELSE owed
    /\ call' = [call EXCEPT ![t] =
         IF kind = "rt_del"
         THEN [Idle EXCEPT !.pc = "deliver", !.kind = kind, !.to = Order,
                           !.agg = [names |-> items, count |-> 1]]
         ELSE [Idle EXCEPT !.pc = "rt", !.kind = kind, !.items = items]]

(* multi_push: a package that cannot be unpacked is refused as a whole.    *)
Unpack(t, success) ==
    LET c == call[t]
    IN  /\ c.pc = "unpack"
        /\ call' = [call EXCEPT ![t] =
             IF success THEN [c EXCEPT !.pc = "ag"]
             ELSE [c EXCEPT !.pc = "answer", !.items = <<>>, !.ok = FALSE, !.good = FALSE]]
        /\ owed' = IF success THEN owed ELSE Plus(owed, {c.at}, "add", c.items, -1)
        /\ UNCHANGED <<known, open, alive, got, requests>>

(* push, merge, multi_push, del: the loop goes on after a failure.         *)
AgItem(t, success) ==
    LET c == call[t]
    IN  /\ c.pc = "ag"
        /\ got' = Plus(got, {c.at}, OpOf(c.kind), <<Head(c.items)>>, 1)
        /\ call' = [call EXCEPT ![t] =
             [c EXCEPT !.items = Tail(@),
                       !.pc = IF Len(c.items) = 1 THEN "answer" ELSE "ag",
                       !.ok = Status(c, success), !.good = @ /\ success]]
        /\ UNCHANGED <<known, open, alive, owed, requests>>

-----------------------------------------------------------------------------
After(items) == IF items = <<>> THEN "answer" ELSE "rt"

(* A new name is refused when the map is full.                             *)
Refuse(t) ==
    LET c == call[t]
    IN  /\ c.pc = "rt"
        /\ Head(c.items) \notin known /\ Cardinality(known) >= Limit
        /\ call' = [call EXCEPT ![t] =
             [c EXCEPT !.items = Tail(@), !.pc = After(Tail(c.items)),
                       !.ok = Status(c, FALSE), !.good = FALSE]]
        /\ UNCHANGED <<known, open, alive, shards, requests>>

Room == Cardinality(known) < Limit

(* Otherwise the sample is counted in the open window of its name, closes  *)
(* that window, or comes late and is handed on by itself.                  *)
Accept(t, out, left) ==
    LET c == call[t]
        n == Head(c.items)
    IN  /\ c.pc = "rt"
        /\ n \in known \/ Room
        /\ <<out, left>> \in
             {<<0, open[n] + 1>>} \cup (IF open[n] > 0 THEN {<<open[n], 1>>, <<1, open[n]>>} ELSE {})
        /\ known' = known \cup {n}
        /\ open' = [open EXCEPT ![n] = left]
        /\ owed' = Plus(owed, Targets, "add", <<n>>, 1)
        /\ call' = [call EXCEPT ![t] =
             [c EXCEPT !.items = Tail(@),
                       !.pc = IF out > 0 THEN "deliver" ELSE After(Tail(c.items)),
                       !.agg = [names |-> <<n>>, count |-> out],
                       !.to = IF out > 0 THEN Order ELSE <<>>,
                       !.ok = Status(c, TRUE)]]
        /\ UNCHANGED <<alive, got, requests>>

(* ag_handler_ and del: the next target, if it still exists; nobody waits  *)
(* for its answer.  del has no answer of its own either.                   *)
Deliver(t) ==
    LET c == call[t]
        i == Head(c.to)
    IN  /\ c.pc = "deliver"
        /\ got' = Plus(got, {i} \cap alive, OpOf(c.kind), c.agg.names, c.agg.count)
        /\ call' = [call EXCEPT ![t] =
             IF Len(c.to) > 1 THEN [c EXCEPT !.to = Tail(@)]
             ELSE IF c.kind = "rt_del" THEN Idle
             ELSE [c EXCEPT !.to = <<>>, !.agg = Idle.agg, !.pc = After(c.items)]]
        /\ UNCHANGED <<known, open, alive, owed, requests>>

Answer(t) ==
    /\ call[t].pc = "answer"
    /\ call' = [call EXCEPT ![t] = Idle]
    /\ UNCHANGED <<known, open, alive, shards, requests>>

(* An instance is gone for good once nothing but weak pointers lead to it. *)
Vanish(i) ==
    /\ i \in alive
    /\ \A t \in Threads : call[t].at # i
    /\ alive' = alive \ {i}
    /\ UNCHANGED <<known, open, call, shards, requests>>

Next ==
    \/ \E t \in Threads, kind \in AgKinds, i \in Targets, items \in Packages :
         ArriveAg(t, kind, i, items)
    \/ \E t \in Threads, kind \in RtKinds, items \in Packages : ArriveRt(t, kind, items)
    \/ \E t \in Threads, success \in BOOLEAN : Unpack(t, success)
    \/ \E t \in Threads, success \in BOOLEAN : AgItem(t, success)
    \/ \E t \in Threads : Refuse(t)
    \/ \E t \in Threads, out \in 0..MaxSamples, left \in 0..MaxSamples : Accept(t, out, left)
    \/ \E t \in Threads : Deliver(t)
    \/ \E t \in Threads : Answer(t)
    \/ \E i \in Targets : Vanish(i)

Spec == Init /\ [][Next]_vars

-----------------------------------------------------------------------------
UnderWay(t, i, op, n) ==
    LET c == call[t]
    IN  (IF i \in ToSet(c.to) /\ OpOf(c.kind) = op THEN c.agg.count * Count(c.agg.names, n)
         ELSE 0)
        + (IF c.at = i /\ OpOf(c.kind) = op THEN Count(c.items, n) ELSE 0)

(* Every sample accepted, and every deletion, comes once to each shard     *)
(* that it is meant for and that still exists: it is in rt_domain's map,   *)
(* on its way, or the shard was called with it, whatever was refused, has  *)
(* failed or has vanished elsewhere.                                       *)
EachComesOnce == \A i \in alive, op \in Ops, n \in Names :
    owed[i][<<op, n>>] = got[i][<<op, n>>]
        + (IF op = "add" THEN open[n] ELSE 0)
        + SumFunction([t \in Threads |-> UnderWay(t, i, op, n)])

(* The status answered is true if and only if every sample of the request  *)
(* was taken.                                                              *)
StatusTruthful == \A t \in Threads :
    call[t].pc = "answer" /\ call[t].kind \notin {"rt_multi_add", "del"}
        => call[t].ok = call[t].good

(* "false: the limit of counters was exceeded, for at least one new one"   *)
(* (multi_add.hpp:24).                                                     *)
MultiAddTellsLimit == \A t \in Threads :
    call[t].pc = "answer" /\ call[t].kind = "rt_multi_add" => call[t].ok = call[t].good
=============================================================================
