------------------------------ MODULE KeyQueries -----------------------------
(***************************************************************************)
(* key_cache::select and key_cache::tree as functions of the names the     *)
(* cache holds.  Both run under the cache's mutex, so each call sees one   *)
(* set of names; module Browse has clients that make many calls.           *)
(*                                                                         *)
(* A name is a sequence of characters, numbers in their order as bytes.    *)
(* The separator of tree is a single character here.  An answer is in the  *)
(* order of the names (sort_by::NOSORT) or by a value of theirs, greatest  *)
(* first; which statistic of the counter the value is does not matter.     *)
(***************************************************************************)
EXTENDS Integers, Sequences, FiniteSets, SequencesExt, SortedSets

CONSTANT
    Sep         \* the separator of tree

ASSUME SepAssumption == Sep \in Nat \ {0}

\* The order of std::string.
Less(a, b) ==
    \/ IsStrictPrefix(a, b)
    \/ \E i \in DOMAIN a \cap DOMAIN b :
         a[i] < b[i] /\ \A j \in 1..(i - 1) : a[j] = b[j]

\* The members of a set of names in the order of the map.
ByName(S)  == {p \in S \X S : Less(p[1], p[2])}
InOrder(S) == SortedBy(S, ByName(S))

(* From offset on, at most limit of them; limit 0 is no limit.             *)
Page(s, offset, limit) ==
    SubSeq(s, offset + 1, IF limit = 0 THEN Len(s) ELSE Min({offset + limit, Len(s)}))

(* Operators named Slip... are the code with one plausible mistake.        *)

(* The offset is spent on names without the suffix too.                    *)
SlipOffsetFirst(names, prefix, suffix, offset, limit) ==
    Page(SelectSeq(Page(SelectSeq(InOrder(names), LAMBDA n : IsPrefix(prefix, n)), offset, 0),
                   LAMBDA n : IsSuffix(suffix, n)), 0, limit)

(* The names with the prefix follow one another in the map; of those with  *)
(* the suffix too, offset are skipped and limit taken.                     *)
Fitting(names, prefix, suffix) == {n \in names : IsPrefix(prefix, n) /\ IsSuffix(suffix, n)}

Select(names, prefix, suffix, offset, limit) ==
    Page(InOrder(Fitting(names, prefix, suffix)), offset, limit)

(* The orders std::sort may give to a selection: by value, names of equal  *)
(* value in any order.                                                     *)
Rankings(names, worth) ==
    LET above == {p \in names \X names : worth[p[1]] > worth[p[2]]}
        ties  == {p \in ByName(names) : worth[p[1]] = worth[p[2]]}
        Ranked(kept) == above \cup kept \cup {<<p[2], p[1]>> : p \in ties \ kept}
    IN  {R \in {Ranked(kept) : kept \in SUBSET ties} : IsStrictOrder(R, names)}

(* A page of the names is taken first and sorted then.                     *)
SlipSortPage(names, ranking, offset, limit) == Page(InOrder(names), offset, limit)

(* select by a value: the whole selection is sorted, then the page taken.  *)
SelectRanked(names, ranking, offset, limit) == Page(SortedBy(names, ranking), offset, limit)

-----------------------------------------------------------------------------
(* Positions are counted from 0, as in the code.                           *)
Npos == -1

Find(name, pos) ==
    LET found == {i \in pos..(Len(name) - 1) : name[i + 1] = Sep}
    IN  IF found = {} THEN Npos ELSE Min(found)

HeadOf(prefix) == IF prefix = <<>> THEN <<>> ELSE Append(prefix, Sep)

(* The end of the first depth segments after head.  Each search begins at  *)
(* the separator the last one found and finds it again, so that is the end *)
(* of the first one.                                                       *)
EndOf(name, head, depth) == IF depth = 0 THEN Len(head) ELSE Find(name, Len(head))

(* The length of the branch is not reduced by the length of the head.      *)
SlipLongBranch(name, head, depth) ==
    LET pos == EndOf(name, head, depth)
    IN  SubSeq(name, Len(head) + 1,
               IF pos = Npos THEN Len(name) ELSE Min({pos + Len(head), Len(name)}))

(* What a name becomes in the answer: the rest of it if it is a leaf, its  *)
(* next segment if it lies on a branch.                                    *)
Entry(name, head, depth) ==
    LET pos == EndOf(name, head, depth)
    IN  SubSeq(name, Len(head) + 1, IF pos = Npos THEN Len(name) ELSE pos)

(* The end of the page is counted from the start of the list.              *)
SlipPageEnd(s, offset, limit) == SubSeq(s, offset + 1, Min({limit, Len(s)}))

(* Past the first page a limit of 0 takes nothing.                         *)
TreePage(s, offset, limit) ==
    IF offset = 0 THEN Page(s, 0, limit)
    ELSE SubSeq(s, offset + 1, Min({offset + limit, Len(s)}))

(* What tree answers of the names selected, in their order.  node is "any",*)
(* "leaf" or "branch".  Branches repeat, so the answer is sorted by name   *)
(* and its repetitions dropped, unless only leaves are wanted.             *)
TreeOf(selected, order, head, depth, node, offset, limit) ==
    LET wanted == {n \in selected : IF EndOf(n, head, depth) = Npos THEN node # "branch"
                                                                    ELSE node # "leaf"}
        sorted == SortedBy(wanted, order)
    IN  IF depth = 0 THEN <<>>
        ELSE TreePage(IF node = "leaf"
                      THEN [i \in DOMAIN sorted |-> Entry(sorted[i], head, depth)]
                      ELSE InOrder({Entry(n, head, depth) : n \in wanted}),
                      offset, limit)

Tree(names, prefix, depth, node, offset, limit) ==
    LET selected == Fitting(names, HeadOf(prefix), <<>>)
    IN  TreeOf(selected, ByName(selected), HeadOf(prefix), depth, node, offset, limit)
=============================================================================
