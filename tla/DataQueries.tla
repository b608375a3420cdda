----------------------------- MODULE DataQueries -----------------------------
(***************************************************************************)
(* data_rocksdb::get as a function of the points saved.  A point is known  *)
(* by its key <<id, window>>; what it counts does not matter here.  The    *)
(* database of an id is one of HashSize, and holds other ids' points too.  *)
(* An iterator sees the database as it was when it was made, so each call  *)
(* sees one set of points.                                                 *)
(***************************************************************************)
EXTENDS Integers, Sequences, FiniteSets, SequencesExt, SortedSets

CONSTANTS
    HashSize,    \* data_storage_options::hash_size
    ResultLimit, \* data_storage_options::result_limit
    TTL          \* storage_options' TTL, in windows

ASSUME HashSizeAssumption    == HashSize \in Nat
ASSUME ResultLimitAssumption == ResultLimit \in Nat \ {0}
ASSUME TTLAssumption         == TTL \in Nat

\* The order of data_comparator.
Before(a, b) == a[1] < b[1] \/ (a[1] = b[1] /\ a[2] < b[2])

\* shard_rocksdb::get_db: the points next to those of an id.
Shards == IF HashSize = 0 THEN 1 ELSE HashSize
DbOf(points, id) == {k \in points : k[1] % Shards = id % Shards}

(* What an iterator gives from a key on.                                   *)
ByKey(S) == {p \in S \X S : Before(p[1], p[2])}

Iterate(points, from) ==
    LET found == {k \in DbOf(points, from[1]) : ~Before(k, from)}
    IN  SortedBy(found, ByKey(found))

(* storage::get without a start goes back a TTL from now.                  *)
StartOf(ts, now) == IF ts = 0 THEN Max({0, now - TTL}) ELSE ts

(* Operators named Slip... are the code with one plausible mistake.        *)

(* The scan runs on into the next id.                                      *)
SlipRunsOn(s, id) == s

(* The scan ends at the first point of another id.                         *)
UpTo(s, id) ==
    LET other == SelectInSeq(s, LAMBDA k : k[1] # id)
    IN  IF other = 0 THEN s ELSE SubSeq(s, 1, other - 1)

(* At most ResultLimit points, whatever the limit asked for.               *)
Capped(limit) == IF limit = 0 \/ limit > ResultLimit THEN ResultLimit ELSE limit

Get(points, id, start, offset, limit) ==
    LET s == UpTo(Iterate(points, <<id, start>>), id)
    IN  SubSeq(s, offset + 1, Min({offset + Capped(limit), Len(s)}))
=============================================================================
