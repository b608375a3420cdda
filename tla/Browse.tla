------------------------------- MODULE Browse --------------------------------
(***************************************************************************)
(* A client that reads a long answer in many calls while the shard changes *)
(* under it: pages of select, tree or get, the greatest names or leaves    *)
(* first, or a walk down the tree that asks for the branches and the       *)
(* leaves of every prefix it finds; or, in text form, in one call.  A call *)
(* about names is atomic, get is two steps, the reading many calls.        *)
(***************************************************************************)
EXTENDS KeyQueries, DataQueries

CONSTANTS
    Names,      \* names that may be in the cache
    Asked,      \* prefixes a client asks for
    AskedSuffixes, \* suffixes a client asks for
    Depths,     \* depths a client asks for
    Keys,       \* points that may be saved, <<id, window>>
    Limits,     \* limits of a page
    FirstWorth, \* the value of each name before the client begins
    MaxWorth,   \* bound on the values
    MaxNow,     \* bound on the time, in windows
    MaxChanges  \* bound on the changes while the client reads

ASSUME NamesAssumption == IsFiniteSet(Names) /\ Names \subseteq Seq(1..Sep)
ASSUME AskedAssumption == Asked \subseteq Seq(1..Sep) /\ AskedSuffixes \subseteq Seq(1..Sep)
\* The walk from the root cannot go below an empty first segment.
ASSUME NoEmptyFirst == \A n \in Names : n # <<>> /\ n[1] # Sep
ASSUME DepthsAssumption == Depths \subseteq Nat \ {0}
ASSUME LimitsAssumption == Limits \subseteq Nat
\* No counter has the id 0.
ASSUME KeysAssumption == IsFiniteSet(Keys) /\ Keys \subseteq (Nat \ {0}) \X Nat
ASSUME BoundsAssumption == MaxNow \in Nat /\ MaxChanges \in Nat /\ MaxWorth \in Nat
\* The limit of tree in text form.  A cache of more names gets a cut answer.
TextLimit == 1000000
ASSUME TextAssumption == Cardinality(Names) <= TextLimit
ASSUME FirstWorthAssumption == FirstWorth \in [Names -> 0..MaxWorth]

VARIABLES
    names,    \* the names in the cache
    worth,    \* the value of each name, by which an answer may be sorted
    ranking,  \* the order std::sort gives to the names asked for: pairs <<earlier, later>>
    keyId,    \* the id of the counter whose points are read, or BadKey
    points,   \* the points in the data database
    now,      \* the clock
    ask,      \* what the client asks for, the same in all its calls
    offset,   \* the offset of its next page
    taken,    \* the id that the get under way has taken, or BadKey
    todo,     \* the calls its walk has yet to make
    reading,  \* has it not come to the end?
    seen,     \* ghost: what it was answered so far
    twice,    \* ghost: was it answered anything twice?
    changes,  \* ghost: the number of changes since it began
    stable,   \* ghost: what its answer should hold, all the time
    ever,     \* ghost: what its answer should hold, at some time
    grew,     \* ghost: did anything come to what the answer should hold ...
    shrank,   \* ghost: ... or leave it?
    moved     \* ghost: did two names of equal value change places?

cache  == <<names, worth, ranking>>
shard  == <<cache, keyId, points, now>>
client == <<ask, offset, taken, todo, reading, seen, twice>>
ghosts == <<changes, stable, ever, grew, shrank, moved>>
vars   == <<shard, client, ghosts>>

Ids    == {k[1] : k \in Keys}
BadKey == 0

Asks ==
    [what : {"names"}, prefix : Asked, suffix : AskedSuffixes, limit : Limits]
    \cup [what : {"children"}, prefix : Asked, depth : Depths, limit : Limits]
    \cup [what : {"walk"}, prefix : Asked, depth : Depths]
    \cup [what : {"top"}, prefix : Asked, suffix : AskedSuffixes, limit : Limits]
    \cup [what : {"top leaves"}, prefix : Asked, depth : Depths, limit : Limits]
    \cup [what : {"points"}, ts : 0..MaxNow, limit : Limits]
    \cup [what : {"text"}, prefix : Asked]

(* What the whole answer is, by the meaning of the request.                *)
Under(head) == {n \in names : IsPrefix(head, n)}

Children(head) ==
    {c \in UNION {{SubSeq(n, Len(head) + 1, k) : k \in Len(head)..Len(n)} : n \in Under(head)} :
        /\ \A i \in DOMAIN c : c[i] # Sep
        /\ \E n \in Under(head) : n = head \o c \/ IsPrefix(head \o c \o <<Sep>>, n)}

Leaves(head) == {c \in Children(head) : head \o c \in names}

Sorted == ask.what \in {"top", "top leaves"}

(* What select sorts; nothing if the answer is not to be sorted.           *)
Selection ==
    CASE ask.what = "top"        -> {n \in Under(ask.prefix) : IsSuffix(ask.suffix, n)}
      [] ask.what = "top leaves" -> Under(HeadOf(ask.prefix))
      [] OTHER                   -> {}

PointsOf(id) == {k \in points : k[1] = id /\ k[2] >= StartOf(ask.ts, now)}

(* A sorted answer gives each name with its value.                         *)
Listing ==
    CASE ask.what = "names"    -> {n \in Under(ask.prefix) : IsSuffix(ask.suffix, n)}
      [] ask.what \in {"children", "text"} -> Children(HeadOf(ask.prefix))
      [] ask.what = "walk"     -> Under(HeadOf(ask.prefix))
      [] ask.what = "top"      -> {<<n, worth[n]>> : n \in Selection}
      [] ask.what = "top leaves" ->
           {<<c, worth[HeadOf(ask.prefix) \o c]>> : c \in Leaves(HeadOf(ask.prefix))}
      [] ask.what = "points"   -> PointsOf(keyId)

(* A get under way answers the points of the id it has taken.              *)
Answerable == Listing \cup PointsOf(taken)

(* Only what the client reads matters to it: the rest may as well be empty.*)
Init ==
    /\ ask \in Asks
    /\ names \in IF ask.what = "points" THEN {{}} ELSE SUBSET Names
    /\ points \in IF ask.what = "points" THEN SUBSET Keys ELSE {{}}
    /\ keyId \in IF ask.what = "points" THEN Ids ELSE {BadKey}
    /\ worth = FirstWorth
    /\ ranking \in Rankings(Selection, worth)
    /\ now = 0
    /\ offset = 0
    /\ taken = BadKey
    /\ todo = IF ask.what = "walk" THEN {ask.prefix} \X {"leaf", "branch"} ELSE {}
    /\ reading = TRUE
    /\ seen = {}
    /\ twice = FALSE
    /\ changes = 0
    /\ stable = Listing
    /\ ever = Listing
    /\ grew = FALSE
    /\ shrank = FALSE
    /\ moved = FALSE

-----------------------------------------------------------------------------
(* A call for the next page; an empty page is the end.                     *)
Turn(page) ==
    /\ reading
    /\ offset' = offset + Len(page)
    /\ taken' = BadKey
    /\ reading' = (page # <<>>)
    /\ seen' = seen \cup ToSet(page)
    /\ twice' = (twice \/ ToSet(page) \cap seen # {} \/ Cardinality(ToSet(page)) < Len(page))
    /\ UNCHANGED <<shard, ask, todo, ghosts>>

SelectPage ==
    ask.what = "names" /\ Turn(Select(names, ask.prefix, ask.suffix, offset, ask.limit))

TreePageAny ==
    ask.what = "children" /\ Turn(Tree(names, ask.prefix, ask.depth, "any", offset, ask.limit))

(* The names of a sorted answer, with their values.                        *)
Valued(page, head) == [i \in DOMAIN page |-> <<page[i], worth[head \o page[i]]>>]

TopPage ==
    ask.what = "top" /\ Turn(Valued(SelectRanked(Selection, ranking, offset, ask.limit), <<>>))

TopLeaves ==
    LET head == HeadOf(ask.prefix)
    IN  /\ ask.what = "top leaves"
        /\ Turn(Valued(TreeOf(Selection, ranking, head, ask.depth, "leaf", offset, ask.limit),
                       head))

(* Each get asks the cache for the id anew, and then the database.  Without *)
(* an id its answer is empty.                                              *)
GetId ==
    /\ ask.what = "points" /\ reading
    /\ taken = BadKey /\ keyId # BadKey
    /\ taken' = keyId
    /\ UNCHANGED <<shard, ask, offset, todo, reading, seen, twice, ghosts>>

NoId == ask.what = "points" /\ taken = BadKey /\ keyId = BadKey /\ Turn(<<>>)

GetPage ==
    taken # BadKey /\ Turn(Get(points, taken, StartOf(ask.ts, now), offset, ask.limit))

(* The text form of tree: one call.                                        *)
TextTree ==
    /\ ask.what = "text"
    /\ reading
    /\ reading' = FALSE
    /\ seen' = ToSet(Tree(names, ask.prefix, 1, "any", 0, TextLimit))
    /\ UNCHANGED <<shard, ask, offset, taken, todo, twice, ghosts>>

(* A call of the walk: the leaves of a prefix are names, each branch is    *)
(* walked in its turn.                                                     *)
Walk(prefix, node) ==
    LET answer == ToSet(Tree(names, prefix, ask.depth, node, 0, 0))
        below  == {HeadOf(prefix) \o a : a \in answer}
        rest   == todo \ {<<prefix, node>>}
    IN  /\ <<prefix, node>> \in todo
        /\ todo' = IF node = "leaf" THEN rest
                   ELSE rest \cup below \X {"leaf", "branch"}
        /\ seen' = IF node = "leaf" THEN seen \cup below ELSE seen
        /\ reading' = (todo' # {})
        /\ UNCHANGED <<shard, ask, offset, taken, twice, ghosts>>

-----------------------------------------------------------------------------
(* The shard changes: a name is created, deleted or collected, its value   *)
(* rises, a point is saved or deleted, the counter read leaves the cache   *)
(* or comes back to it, a window passes.                                   *)
Meanwhile == reading /\ changes < MaxChanges /\ UNCHANGED client

(* What the ghosts note of it.                                             *)
Noted ==
    /\ changes' = changes + 1
    /\ stable' = stable \cap Listing'
    /\ ever' = ever \cup Answerable'
    /\ grew' = (grew \/ ~(Answerable' \subseteq Answerable))
    /\ shrank' = (shrank \/ ~(Listing \subseteq Listing'))
    /\ moved' = (moved \/ \E p \in ranking : <<p[2], p[1]>> \in ranking')

(* The same selection is sorted the same way again; another one may put    *)
(* names of equal value in another order.                                  *)
Resort == \E S \in {Selection'}, w \in {worth'} :
    IF S = Selection /\ \A n \in S : w[n] = worth[n]
    THEN UNCHANGED ranking
    ELSE ranking' \in Rankings(S, w)

AboutNames == ask.what # "points"

Create(n) ==
    /\ Meanwhile /\ AboutNames /\ n \notin names
    /\ names' = names \cup {n}
    /\ worth' = [worth EXCEPT ![n] = 0]
    /\ UNCHANGED <<keyId, points, now>>
    /\ Resort
    /\ Noted

Drop(n) ==
    /\ Meanwhile /\ AboutNames /\ n \in names
    /\ names' = names \ {n}
    /\ UNCHANGED <<worth, keyId, points, now>>
    /\ Resort
    /\ Noted

(* The maximum of a statistic only rises.                                  *)
Rise(n) ==
    /\ Meanwhile /\ Sorted /\ n \in names
    /\ worth[n] < MaxWorth
    /\ worth' = [worth EXCEPT ![n] = @ + 1]
    /\ UNCHANGED <<names, keyId, points, now>>
    /\ Resort
    /\ Noted

SavePoint(k) ==
    /\ Meanwhile /\ ~AboutNames /\ k \notin points
    /\ points' = points \cup {k}
    /\ UNCHANGED <<cache, keyId, now>>
    /\ Noted

DelPoint(k) ==
    /\ Meanwhile /\ ~AboutNames /\ k \in points
    /\ points' = points \ {k}
    /\ UNCHANGED <<cache, keyId, now>>
    /\ Noted

Leave ==
    /\ Meanwhile /\ keyId # BadKey
    /\ keyId' = BadKey
    /\ UNCHANGED <<cache, points, now>>
    /\ Noted

(* Under a new id, or under that of its record after a restart.            *)
ComeBack(id) ==
    /\ Meanwhile /\ ~AboutNames /\ keyId = BadKey
    /\ keyId' = id
    /\ UNCHANGED <<cache, points, now>>
    /\ Noted

Tick ==
    /\ Meanwhile /\ ~AboutNames /\ now < MaxNow
    /\ now' = now + 1
    /\ UNCHANGED <<cache, keyId, points>>
    /\ Noted

Next ==
    \/ SelectPage
    \/ TreePageAny
    \/ TopPage
    \/ TopLeaves
    \/ GetId
    \/ NoId
    \/ GetPage
    \/ TextTree
    \/ \E call \in todo : Walk(call[1], call[2])
    \/ \E n \in Names : Create(n)
    \/ \E n \in Names : Drop(n)
    \/ \E n \in Names : Rise(n)
    \/ \E k \in Keys : SavePoint(k)
    \/ \E k \in Keys : DelPoint(k)
    \/ Leave
    \/ \E id \in Ids : ComeBack(id)
    \/ Tick

Spec == Init /\ [][Next]_vars

-----------------------------------------------------------------------------
(* Reading by pages misses nothing that was there all the time, as long as *)
(* nothing leaves the answer meanwhile, whatever comes to it: limits above *)
(* result_limit and short pages included.  In a sorted answer a name whose *)
(* value rises leaves its place, and names of equal value must keep theirs.*)
NoneMissed ==
    ~reading /\ ask.what # "walk" /\ ~shrank /\ ~moved => stable \subseteq seen

(* ... and answers nothing twice, as long as nothing comes to it.          *)
NoneTwice == ~grew /\ ~moved => ~twice

(* What a client that reads a sorted answer has had by any page is greater *)
(* than all that is left, as long as nothing changes.                      *)
GreatestFirst ==
    Sorted /\ changes = 0 => \A x \in seen, y \in Listing \ seen : x[2] >= y[2]

(* The walk down the tree finds every name that is there all the time,     *)
(* whatever is created, deleted or collected meanwhile.                    *)
WalkFindsAll == ~reading /\ ask.what = "walk" => stable \subseteq seen

(* No answer holds anything that never belonged to it: a point of an id    *)
(* the counter never had, a branch that no name lies on.                   *)
OnlyListed == seen \subseteq ever
=============================================================================
