---------------------------- MODULE MergeOperator ----------------------------
(***************************************************************************)
(* What the data database keeps for one window: what was set last, and     *)
(* what was merged since.  RocksDB combines neighbouring entries with      *)
(* btp::merge_operator when it likes, and all of them for a reader.  A     *)
(* value is a count, or Unreadable: bytes of another size than an          *)
(* aggregated_info, such as another version of the program may leave.      *)
(***************************************************************************)
EXTENDS Integers, SequencesExt

CONSTANT Unreadable

ASSUME UnreadableAssumption == Unreadable \notin Int

(* Entries of a window, the oldest first.  Only the first one may be set.  *)
SetTo(v)      == [set |-> TRUE, value |-> v]
MergedWith(v) == [set |-> FALSE, value |-> v]
Entries(Counts) == [set : BOOLEAN, value : Counts \cup {Unreadable}]

(* What cannot be read counts as nothing; so does a value that is not there.*)
Deserialize(v) == IF v = Unreadable THEN 0 ELSE v
NoValue == 0

(* An unreadable existing value spoils the result.                         *)
SlipExistingStays(existing, operand) ==
    IF existing = Unreadable THEN Unreadable ELSE existing + Deserialize(operand)

Merge(existing, operand) == Deserialize(existing) + Deserialize(operand)

(* AssociativeMergeOperator merges one operand after the other into the    *)
(* value that was set, or into none.                                       *)
ReadOf(entries) ==
    LET first    == IF entries # <<>> /\ entries[1].set THEN 1 ELSE 0
        operands == SubSeq(entries, first + 1, Len(entries))
    IN  FoldLeft(LAMBDA x, e : Merge(x, e.value),
                 IF first = 1 THEN entries[1].value ELSE NoValue, operands)

(* A compaction combines an entry with the next one, ...                   *)
Combined(entries, i) ==
    SubSeq(entries, 1, i - 1)
    \o <<[entries[i] EXCEPT !.value = Merge(@, entries[i + 1].value)]>>
    \o SubSeq(entries, i + 2, Len(entries))

(* ... or, at the bottom, the first operand with the absence of a value.   *)
Settled(entries) == <<SetTo(Merge(NoValue, entries[1].value))>> \o Tail(entries)

Compactions(entries) ==
    {Combined(entries, i) : i \in 1..Len(entries) - 1}
    \cup {Settled(entries) : i \in {j \in {1} : entries # <<>> /\ ~entries[1].set}}
=============================================================================
