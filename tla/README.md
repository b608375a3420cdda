# A verification project for wfc_btp

wfc_btp is the package behind `btpd`, a server that collects statistics into
RocksDB.  Clients push samples of named counters; the server aggregates each
counter's samples into windows of a fixed length (5 seconds, a minute, an
hour, ...), saves one point per window, and answers queries for the points of
a counter and for the tree of names.  This directory models the part of it
whose correctness is hard to test, checks the models with TLC and proves what
matters most with TLAPS.

All paths below are relative to the repository (`src/` here).

## 1. Inventory

### The parts of the system

| part | source | state it keeps | operations |
|---|---|---|---|
| key cache | `libbtp/btp/key_cache.*` | `_key_map` (name to aggregator), `_key_time_map` and `_time_key_set` (two indexes by time of use), `_key_counter` | create, add, merge, init, del, gc, release; get_id, select, tree, size |
| key aggregator | `libbtp/btp/key_aggregator.*` | the window that is open (a `wrtstat` aggregator) and the counter's maxima (`stored_key`) | add, merge, set_key_info, aggregate_last_point_if, get_key_info |
| storage, one shard | `libbtp/btp/storage.*` | the cache, the key database, the data database | open, add, merge, del, gc, close; get, select, tree, compact |
| key database | `key_storage.*`, `key_rocksdb.*` | name to record (id and maxima) | open, load, close, set, get, del, compact |
| data database | `data_storage.*`, `shard_rocksdb.*`, `data_rocksdb.*` | (id, window) to point, spread over `hash_size` databases by id | open, close, set (overwrite), inc (merge), get, del, compact |
| merge operator | `merge_operator.*` | none | adds a point to the point a window holds |
| aggregation service | `package/ag/domain/*` | one storage per instance, two counters shared by all instances, the gc timer | initialize, start, stop, push, multi_push, merge, del, compact, queries |
| real-time service | `package/rt/domain/*` | a map of aggregators, the list of targets | push, add, multi_add, del |
| gateways, API, JSON, services | `package/*/gateway`, `api`, `service` | none | translation and wiring |

### How they interact

A request reaches `ag_domain`, which calls `storage`.  `storage::add` works in
three steps that no common lock covers: (1) the cache, under its mutex, finds
or creates the key and, under the key's own mutex, pushes the sample, which
yields a record and any number of points; (2) the record goes to the key
database; (3) each point goes to the data database.  `merge` and `del` have
the same shape.  Requests run on many threads.  A timer runs `gc`, which takes
stale keys out of the cache and leaves both databases alone.  `close` copies
all records and last points, then writes them one by one.  `open` restores the
cache from the key database; the data database is never scanned, so a point
can be found only through the id in its key's record.

### What is hard

* Every public call can be interleaved with every other one between any two
  database writes, and cut short there by a crash or a failed write.
* The meaning of a point rests on an id, and ids are handed out by a counter
  that is not stored but rebuilt at start.
* The cache answers by a *recorded* time of use which deliberately lags.
* The service is stopped while calls may still be running.
* Start-up of several instances is a small synchronisation protocol.
* The value of a window is built in memory and written again and again.

### What makes each part correct

* key cache: its three containers describe the same keys; ids are unique; a
  collection takes exactly the stale keys, within the lag of the times.
* storage: no two records share an id; a saved point stays reachable under
  its name and under no other; a deleted counter leaves nothing behind; what
  is served is what is saved.
* key aggregator: each sample is counted in its window once; the last point
  written of a window is the complete one.
* data database: paging through a counter returns each point once, in order.
* aggregation service: it does not report readiness before every shard is
  loaded, and it does report it in the end.
* real-time service: each aggregated point reaches each living target, and the
  answer tells the caller what happened.

The hazards, each with its line and the properties that watch it, are listed
in `PROJECT.json`.

## 2. Plan

The order is by how much depends on the part.

| step | modules | state |
|---|---|---|
| 1 | `KeyRegistry` (abstract), `KeyCache` (implements it), `KeyCacheProofs` | modelled, checked, proved |
| 2 | `Storage`, composed of the cache's ids, the two databases, callers, stops, failures and crashes; `StorageProofs` | modelled, checked, proved |
| 3 | `Counters` (abstract), which `Storage` implements; `StorageProofs` | modelled, checked, proved for one run and for orderly restarts |
| 4 | `KeyAggregator`, `MergeOperator` (functions), `AddPath` (threads, databases, compactions, restarts around them); `AddPathProofs`, with `Sums` | modelled, checked, proved |
| 5 | `AgStartup`, `AgStartupProofs` | modelled, checked, safety proved |
| 6 | `SortedSets`, `KeyQueries`, `DataQueries` (functions), `Browse` (clients that read with them); `BrowseProofs` | modelled, checked, proved |
| 7 | `Requests`: the handlers of both services, the delivery to the targets; `RequestsProofs` | modelled, checked, proved |
| 8 | `Handles`: opening, loading, compacting, closing and destroying; `HandlesProofs` | modelled, checked, proved |

Every safety property of the passing runs is a theorem; §11 says under which
conditions, and what the provers cannot do.

## 3. The key cache

`KeyRegistry` is what the cache promises: a name in use has an id nobody else
has, ids are never handed out twice, a key leaves on request or after `TTL`
seconds without use, give or take `gc_interval`.

`KeyCache` is the code.  Every public method of `key_cache` holds `_mutex`
from beginning to end, so each method is one action.

| model | code |
|---|---|
| `keyMap`, `keyCounter` | `_key_map` (the id of each aggregator), `_key_counter` |
| `keyTime`, `timeKeySet` | `_key_time_map`, the multiset `_time_key_set` as a count per entry |
| `gcInterval` | the option `gc_interval`, one of `GcIntervals` |
| `now` | `time(0)` |
| `Load`, `OpenDone` | `key_cache::init` for each restored record, the `gc` at the end of `storage::open` |
| `GetOrCreate` | `get_or_create`, the part of add, merge and create that concerns the cache |
| `Del`, `Gc` | `del`, `gc` |
| `reply` | the value returned, with `BadKey` for `bad_key` |
| `lastUse` | a ghost: when the name was really used |

The two indexes exist for `gc`; `update_time_` skips them when the recorded
time is younger than `gc_interval`, so the recorded time lags.  `LagBounded`
says by how much, and `GcWindow` what that does to a collection: it keeps
every key used in the last `TTL - gc_interval` seconds and leaves none unused
for more than `TTL`.  With `gc_interval > TTL` the first half is empty: a key
may be collected immediately after use.  `IndexesAgree` is what the two
"consistency of the indexes is broken" branches of the code test for;
`DelAnswersItsId` says that they are never taken.

Run `key_cache`: two names, ids up to 4, a clock up to 6, TTL 2, and for
`gc_interval` 0 (no collection), 2 (the TTL) and 3 (longer than the TTL).
That is enough for a name to be used, lag, be collected, come back with a new
id and be collected again, and for two names to be restored in either order of
their ids, younger than the clock too.  Fairness: `WF(OpenDone)`, because
`storage::open` comes to its end, and `WF(Gc)`, because the timer of
`ag_domain.cpp:107-115` fires every `gc_interval` seconds.  `StaleKeysCollected`
then says that a stale key is collected or used again, unless collection is
switched off.

`KeyCacheProofs` proves, for every set of names and every value of the
options: `TypeOK`, `IndexesAgree`, `IdsUnique`, `LagBounded`, `GcWindow` and
that the cache implements the registry.  The indexes are inductive together
(`OneEntryEach` and `TimedIffHeld`); `LagBounded` needs in addition that a
name outside the cache has no use recorded (`LagInv`).  The refinement maps
`issued` to `1..keyCounter`: an id is new because it is past the counter.
`GcWindow` and the refinement follow from these invariants and one lemma
(`DoomedWindow`): the names doomed are those whose recorded time is before the
death time.  `DelAnswersItsId` compares sizes of containers: the entries of the
multiset are as many as the names that have a recorded time (`EntriesAreTimed`),
because entry and name determine each other and every entry is there once, and
that a sum of ones is a cardinality is a lemma of `Sums`.  `StaleKeysCollected` is
liveness and model-checked only.

## 4. A shard

`Storage` models a whole shard: callers' threads, the cache reduced to its
ids, the two databases, `close`, crashes and `open`.  Each step of a call
between two database writes is an action, and `call[t]` remembers what the
thread took from the cache: exactly the local variables of `storage::add`,
`merge` and `del`.

| model | code |
|---|---|
| `StartAdd`, `StartMerge`, `StartDel` | the call of the cache at the top of `storage::add`, `merge`, `del` |
| `PushOnTime`, `PushLate`, `MergePoints` | `key_aggregator::add` and `merge`: which points the call yields |
| `SetKey`, `SetData`, `IncData` | the writes of `storage.cpp:112-148` and `171-184` |
| `DelKey`, `DelScan`, `DelData` | `key_rocksdb::del`, then the iterator of `data_rocksdb::del` and its deletes one by one |
| `DbFails`, `CloseFails` | a database call that returns false |
| `Release`, `CloseKey`, `CloseData`, `FinishClose` | `storage::close` |
| `Expire` | `storage::gc` (which keys: module `KeyCache`) |
| `ExpireRecord`, `ExpirePoint` | the TTL that `key_rocksdb::open` and `shard_rocksdb::open` give to RocksDB, which drops old entries when it likes |
| `Crash`, `Vanish`, `Open` | the death of the process, and `storage::open` |

A point is abstracted to the set of names whose samples it holds: that is what
tells a counter's points from another's.  `Kept` holds names that are in use all
the time: nobody deletes them, they are not stale, and the databases' TTLs spare
their records and points.  `KeyCache.Load` assumes that no two restored records
share an id; `IdsInjective` here is the proof that the key database never gives
it any.

`Counters` is what a shard promises to those who use it, without ids, caches,
records and threads: counters come, start empty, get points and go with them, and
those in use keep theirs.  The refinement mapping takes the counters from the
cache, or from the key database when no process runs, and the points of a counter
from the data database through its id.

Properties:

* `IdsInjective`: no two records share an id.  It holds because an id belongs
  to one name in the cache, the records, the calls under way and the close
  under way *together* (`OneNamePerId`) and the counter is past all of them
  (`CounterPastAll`).  That a record may pass its TTL while the cache still holds
  its key is the hardest case: only the memory knows the id then.
* `PointsSurvive`: a point that add or merge has saved for a name in use can be
  read under that name through every later call, failure, stop and crash.  It is
  the reason the record is written before the points.  A late point is written
  without a record (`storage.cpp:129-148`).  If the call that made the key has not
  saved it yet, or failed to, the point is `early`: it can be read under its name
  as long as the process lives, through calls and failures of others, but a crash
  loses it, or a stop that does not save that record, although its caller was
  answered true.  From the first record of the name on, it is a point
  like any other.
* `OwnPoints`: get never shows points of another counter.
* `CountersSpec`: `Storage` implements `Counters`.
* `RecordsKept`: when the shard is quiet, every served key is saved as served.
* `DeleteErases`: a del that answers true leaves neither record nor points of
  the id it removed.

Not every property holds in every environment.  The variable `features` says which
one a behaviour has; it is chosen at the start from `Environments` and never
changes.  `Dependable` and `Undisturbed` name what a property needs of it, and
the runs say where the line is.

* `storage`: everything at once (deletes, merges, collections, TTLs, failures,
  stops with calls running, crashes).  Two names, one in use and one not; two
  threads, so that a call can overlap with another call or with the stop; one
  window, since a point survives or not by itself; two ids, so that both names
  have one and a third is refused.
* `storage_runs` has three environments.  Two names, one of them in use, two windows, so that
  a delete has several points to erase, and three ids, so that a name can come back
  under a new one:
  * *one run*: two threads with deletes, collections and failures, and
    `disable_merge`, without a stop: `OwnPoints`, `CountersSpec`;
  * *orderly*: one caller and stops that wait for it: both across restarts,
    `RecordsKept`, `DeleteErases`;
  * *calm*: two threads that only save, and stops that wait for them: both across
    restarts, `RecordsKept`.
* `storage_gc_reuse` shows that `OwnPoints` fails across restarts with
  collection, without any failure: a key collected, used again under a new id
  and deleted leaves the points of its first id, which the counter rebuilt at
  start hands to a new name.  This contradicts the description of a counter at
  `storage.hpp:16`.  (A crash between the two deletes of `storage::del` has the
  same effect.)

`StorageProofs` proves all of these for every set of names, threads and windows.

*In every environment*: `TypeOK`, `IdsDisjoint`, `IdsInjective`, `PointsSurvive`.
The invariant of the ids adds `NothingWhenDown` (a dead process has no calls and
no cache) to their disjointness.  The one of `PointsSurvive` says that, while the
shard runs, a name in use has one id wherever it is filed (`OneIdEach`), that a
call writes points only when the record says so (`RecordFirst`) or the cache alone
leads to them (late ones), and that those
who delete do not delete it (`DelsSpareKept`); that an id belongs to one name
(`IdsDisjoint`) keeps other calls off its points.

*In one run*: `OneRunOnly` says that the service is neither stopped nor killed; keys
may be collected, records and points expire and database calls fail.  There an id
is tied to a name by the cache, by a call under way and by the samples in its
points, and it is tied to one name only, ever (`TiedToOne`); ids yet to come are
tied to nobody (`TiedBefore`); and the id a del works on never comes back into the
cache (`GoneForGood`), which makes a delete invisible to other counters.

*Where nothing fails*: `Dependable` leaves out collections, TTLs, failures, crashes
and stops with calls running, and lets calls overlap as long as none deletes.
`Agree` says then what the cache, the records, the calls and the points have to do
with each other in the middle of calls: a call works under the id the cache has
for its name (`CallsCurrent`); a record differs from its key only while a call is
going to save or remove it, and that call can be named (`RecordsFollow`: an add
brings the record only as long as it is the one that made the key, which another
thread's add may take from it, and then that thread brings it); and samples lie
under the id of their name or under one a delete is just emptying (`PointsFiled`).
`RecordsKept` follows when no call is under way.  It is also what carries the
refinement over a restart: as the process ends, the ids in the records are those of
the cache, so the counters seen by way of the one are those seen by way of the
other.

`OwnPoints` and `CountersSpec` are proved under either of the two conditions,
`OneRunOnly` or `Dependable`, from what they have in common (`Tidy`): new ids have
no points, a delete's id is out of reach, points are their owner's.  Without them
both are false, as `storage_gc_reuse` shows.

*`DeleteErases`* needs only that no call overlaps with the delete and that no
database call fails (`Undisturbed`); keys may be collected and the process may die
at any point.  Its invariant (`Erasing`) says how far a delete has come: once the record is
removed it stays removed, and of the points the iterator found those not on the
list any more are gone, no new ones having come.

## 5. The way of a sample

`KeyAggregator` gives `key_aggregator` as functions: an aggregator is its open
window, the samples in it, the option `aggregate_last_point` and the key's
record.  Of the statistics of a point only the count is kept; a point is
`[window, count]`.  The library's aggregator is what the source expects of it:
`CountIn` and `Yielded` say what a push leaves in the window and which points
it calls back with.

`MergeOperator` gives `merge_operator.cpp` as functions.  A window's value is not one
number but a sequence of entries, what was set and what was merged since, and a
reader finds their sum.  `Compactions` are the ways RocksDB may combine them.

`AddPath` puts the aggregator of one key between threads, the record in the key
database and the points in the data database.

| model | code |
|---|---|
| `StartAdd`, `StartMerge` | the cache finds or creates the key |
| `PushLate`, `PushOnTime` | `key_aggregator::add` under the key's mutex |
| `TakeRecord` | `get_key_info`, a second turn of that mutex |
| `MergeUpdates`, `MergeCompares`, `MergeAssigns`, `MergeDates` | `key_aggregator::merge`, which has no mutex: the last update (`key_aggregator.cpp:230`), then the comparison and the two assignments of `update_field_` (`:256`, `:258`, `:259`) are steps of their own |
| `SetKey`, `SetData`, `IncData`, `DbFails` | the writes of `storage::add` and `merge`; `set` replaces what the window holds, `inc` leaves an operand for the merge operator, and with `disable_merge` (`setlate`) a late point is set too |
| `Compact`, `Spoil` | RocksDB combines entries of a window when it likes; one of them has another size than an `aggregated_info` |
| `StartClose`, `FinishClose`, `Crash`, `Vanish`, `Open` | stop, death, restart; a restart seeds the window from the record (`Restored`) |

`pushed`, a ghost, counts the samples handed over for each window, and
`cutShort` holds the windows that a process had not finished with when it ended:
those of the calls under way, those between the record's last update and the open
window, and that of the last update itself, from which the next process starts.
About them nothing is promised; all others are.

* `WindowsComplete`: with one call at a time, each saved point counts exactly the
  samples of its window, in whatever order they came.  With `disable_merge`, which
  the options describe as a help for migrations, a late sample replaces its window
  and the property leaves such shards out.
* `RecordKnowsPoints`: with one call at a time, no saved point is newer than the
  record says, which a restart relies on.
* `NeverInvents`: no point counts a sample nobody pushed, for every window that is not
  cut short, in every environment.
* `RecordTruthful`: the record's maximum was reached in the window it names.  Where
  callers merge this is false, and the property asks only that some window reached
  it: one thread's merge has compared, another's add raises the maximum, and the
  first then writes the time of its own point next to it.  TLC finds that record when
  the exception for merges is dropped, and another, before the second assignment,
  with a maximum and no time at all.
* `CompactionKeepsReads`: whatever is combined, in whatever grouping, a reader finds
  the same sum; an entry that cannot be read counts as nothing wherever it stands.

The run `add_path` has five environments: one call at a time with stops and crashes;
two threads with stops, crashes and failing databases, with `disable_merge` and
without; two threads that merge too, with stops and crashes; and one call at a time
with compactions and entries that cannot be read.  Three windows and four samples: a
window can be opened, completed, joined by a late sample and left for another, with
one sample to spare.

An add holds the mutex during its own four steps in `update_field_` and is one action,
`PushOnTime`; a merge could still come between them.  What it could leave behind, its
own value or time next to those of the add, the model reaches by a merge that comes
before and after the add.

`AddPathProofs` proves all of these for any number of threads, windows and samples
and for entries of any number and order.  Its first part says what the merge
operator's functions do to the sum of a window's entries, and `Sums` what happens to
a sum over a set when one summand changes.  The invariants go from shape to meaning:

* `Shapes`: what every variable looks like in every environment; counts have no
  bound yet.  `CompactionKeepsReads` needs no more.
* `Bounded`: no aggregator, call, record or window counts more than `Entered`, the
  samples handed in less those that still wait for the mutex.  It gives the bounds
  of `TypeOK`; a sample moves from waiting to entered in the step that may count it.
* `HonestAt(w)`, the same for each window by itself that is not cut short.  A restart
  does not touch it, because the window it opens is the one of the record's last
  update, which the end of the process has cut short.  `NeverInvents` follows, in
  every environment.
* `Truthful`, what a record says of its maximum, wherever the record is: in the
  aggregator, with a call or in the database; and `InOrder`, without merges nothing
  in memory or saved is younger than the open window.  `RecordTruthful` follows, in
  every environment; its exception for merges is in the property.
* `CompleteAt(w)`, for one call at a time (`Single`): what entered for a window has
  been saved, is on its way in the one call, or is in the open window and not due
  yet; `LatesBehind` keeps late samples off the open window.  It gives
  `WindowsComplete`.
* `Latest` and `KeyKnows`: no window younger than the record says has a point, and
  the record to be saved is as young as the open window.  They give
  `RecordKnowsPoints`.

The last two assume `LoneCallsSucceed` for environments with one call at a time, the
only ones these two properties speak of: a merge overwrites what a window holds, and
a call that fails drops the points it was to save, so a window is not complete then.

Two runs show where the code does less than its words:

* `add_path_reopen`: after an orderly stop the restored window starts from the
  counter's historic maximum, not from what was in the window; the next saved
  point counts samples that were not in it.  The test at `storage_suite.cpp:93`
  cannot tell the two apart, because its only window holds the maximum.
* `add_path_race`: with two threads, a point written after the mutex is released
  overwrites what another thread's late sample has added meanwhile.

## 6. Start and stop of the service

`AgStartup` models `N` instances, each with or without `mtload`: the main thread
starts one after the other; with `mtload` the storage is opened in a thread of
its own and the last instance waits for `instance_counter2` to reach zero.  An
instance may fail to make its directories or to open its storage; then it never
reports.  The storage pointer is set before the storage is open, and null again
after a failure.  `stop` calls `close` through it.

Run `ag_startup`: four instances and every mix of options.  Fairness: the
threads run (`Start`, `Loaded`, `MakeStorage`, `OpenStorage`) and the sleeping
loop looks again (`WaitEnds`).  `GetsReady` says that the service gets ready
unless an instance has failed; that it may wait forever otherwise is what the
code does.  `ReadyMeansLoaded` and `StopFindsStorage` hold when the last
instance has `mtload`: it alone waits.  Without it requests are let in while
other instances are still loading, and after a failed opening the stop goes
through a null pointer; the model shows both and no property forbids them.

`AgStartupProofs` proves `TypeOK`, `CounterCountsLoading`, `ReadyMeansLoaded`
and `StopFindsStorage` for every number of instances.  The inductive invariant
has five parts: the types with the counter as a cardinality; the order in which
the main thread passes the instances; instances not reached are untouched; an
instance is done exactly when its storage is open, until the stop; and once the
wait is over all instances are loaded.  The step that matters is from
`counter2 = 0` to an empty set of instances not loaded.

## 7. Reading while the shard changes

`KeyQueries` has `select` and `tree` as functions of the names held,
`DataQueries` has `get` as a function of the points.  A name is a sequence of
characters, numbers here, in the order of `std::string`; the separator is one
character.  `Rankings` is every order `std::sort` may give to names of equal
value.  What a map, an iterator or a sort has in order is in `SortedSets`: an order is
a relation, the place of a member is the number of those before it, and the sequence
has at each index the member of that place.

A call of `select` or `tree` is atomic in the code (one mutex).  `storage::get` is
two steps: the cache's id of the name, then an iterator over that id's points; the
counter may leave the cache in between, or come back under another id.  A long
answer is not atomic at all: a client reads it by `offset` and `limit`, or walks down the tree
with one call per branch, while names are created and dropped, values rise and
points come and go.  `Browse` is that client.  The text form of `tree`, which
`perform_io` answers, is one call without a limit to speak of.

* `NoneMissed`: what is there all the time is found by the time an empty page
  comes, as long as nothing leaves the answer before.
* `NoneTwice`: nothing is answered twice, as long as nothing comes to it.
* For sorted answers a name whose value rises counts as one that leaves and one
  that comes, and names of equal value have to keep their order: the code sorts
  anew for every page, and `std::sort` promises nothing about equals.
* `GreatestFirst`: when nothing changes, what was answered first is not less
  than what is left.
* `WalkFindsAll`: the walk finds every name that is there all the time, whatever
  else happens.
* `OnlyListed`: nothing is answered that never belonged there, points of an id the
  counter never had included.

Run `browse`: five names that are leaf and branch at once, share characters
without sharing a segment, or have an empty segment, from every subset of them;
six points of three ids in two databases from every subset; limits 0 to 3 with
`result_limit` 2; up to two changes.  The reference for an answer (`Listing`) is
a set defined by what the request means, not by how the code finds it.  Names
that begin with the separator are left out (the walk cannot ask for their empty
first segment), and so are offsets near the largest number.  The text form of `tree`
has a limit of a million (`TextLimit`), and no cache here holds more names.

`BrowseProofs` proves the five properties for every set of names and points, every
request and any number of changes.  Its argument:

* A call answers what it should: for each query, the page holds exactly the members of
  `Listing` (of the points of the id taken, for `get`) whose places lie between the
  offset and the offset plus the length of the page, each once, and an empty page means
  the offset is past the last, or that `tree` was asked without a limit, which gives all
  in its first page and nothing after it (`IsPage`, `Paged`).  For `tree` this rests on
  what a segment is: every child is the next segment of some name, and the segments of
  names are children (`ChildrenAre`).  `Place` is a cardinality, so no induction over the
  answer is needed.
* `HadInv`: what was there all the time and has its place before the offset has been
  answered.  A change that takes nothing from the answer moves no member to an earlier
  place (`PlaceSinks`), so it brings none behind the offset.  It also says that a counter
  that came back under another id had nothing to miss: else something had left.
* `NewInv`: what was answered and is still there has its place before the offset, also
  among the points of the id a get has taken.  A change that adds nothing moves no member
  to a later place, so the next page, which begins at the offset, repeats none.
* Both need that names keep their order (`OrderKept`), which for a sorted answer is what
  `moved` watches.
* `TopInv`: while nothing changes, exactly the places before the offset were answered.
* `ListedInv`: what is answered belongs to the answer as it is or to the points of the id
  taken, and every prefix the walk has yet to ask for is below the one it began with.
* `WalkInv`: each name that is there all the time was found, or a call is ahead of it:
  one for the leaves below a prefix if the name is a leaf there, one for the branches
  otherwise, and then that call leaves another for the longer prefix (`WalkGoesOn`).
  Here names that begin with the separator are excluded.

## 8. Requests

`Requests` models the handlers that change counters.  A request runs on its
caller's thread and calls its targets one after the other, while other threads
come in between.  For `ag_domain` it is one instance: `push`, `merge`, and the
loops of `multi_push` and `del` (`AgItem`), which go on after a failure.  For
`rt_domain` (`ArriveRt`, `Accept`, `Refuse`, `Deliver`) samples go to a map of
open windows that takes no new name beyond its limit; a window that closes goes
to all targets, the first one last; a target is a weak pointer and may be gone
(`Vanish`).

* `EachComesOnce` balances, for every shard that is left, every operation and
  every name: what clients have asked for and the map has accepted is what the
  shard was called with, what is on its way in some thread and what is in the
  open window.
* `StatusTruthful`: the answer is true exactly if every sample was taken.
* `requests_limit` shows that `multi_add` of `rt_domain` has no such answer: it
  drops what each push returned and answers true, against `multi_add.hpp:24`.

Run `requests`: two threads, two names, two instances, a map with room for one
name, up to three requests of up to two items: two requests may overlap while a
third follows, and every limit is met.

`RequestsProofs` proves `TypeOK`, `EachComesOnce` and `StatusTruthful` for any number
of threads, names and instances.  They hold together (`RequestsInv`), with two more
facts: the map holds finitely many names, and a call under way goes only to targets
it found alive (`CalledLive`).  `EachComesOnce` is a balance of four sums, one of them
over the threads (`OnTheWay`); a step changes the call of one thread, and `OneCallMoves`
says by how much the sum changes then.

## 9. The databases' handles

`Handles` follows one storage object from `storage::open` to its destructor, and
the next one over the same directories.  The key database and `HashSize` data
databases are opened one by one, each may fail, and an open one locks its
directory.  The records are loaded in batches.  `compact` goes through the
databases at once or from the workflow's queue.  `ag_domain::compact` asks neither
whether there is a storage nor how far it has come, so nothing keeps a compaction
from coming while the databases are still being opened (in a thread of its own with
`mtload`), after a failed open, or while the stop closes them.

* `NothingStaysLocked`: when a storage object is gone no directory is locked,
  however far its opening or closing came.
* `ServesWhole`: a storage whose `open` has returned true has every database open.
  (`ag_domain` does not ask for that before it passes a request on; when it does
  so is the business of `AgStartup`.)
* `ReadIsRestored`: whatever the size of the last batch, what was read is in the
  cache.  The end of the iteration may be an error, which `load` does not look
  for; the model lets it end anywhere.  What was restored is a set, so it would not
  show a batch given twice.
* `FaultsOutsideService`: a storage that loads or serves makes no call through a
  pointer that leads nowhere, unless the step is its stop or its end, and a
  compaction from the queue makes none when the storage is gone (it holds a weak
  pointer; with a plain one it would).  Outside that time the code does make such
  calls, and the property says which: a compaction asked for directly when there is
  no storage, or one from either way that meets a database not open yet; `~key_storage`
  calls `close`, which has made its pointer null when the storage was closed before;
  a key database whose options could not be read has a pointer without a value; a
  compaction meets a database that was closed.  After such a fault the model makes
  no further storage.

Run `handles`: four data databases, five records in batches of two (so the last
is short), three storage objects.

`HandlesProofs` proves all four properties.  None is inductive as it stands; the
invariant behind them says that exactly what is open is locked, that how far the
object has come (`stage`) determines which databases are open, and that a
compaction runs or waits only over a storage that is there, opened or not.  `ReadIsRestored`
needs that, while loading, the cache and the batch together hold what was read.
`TypeOK` is proved as well; its bounds on the lengths of the batch and of the queue
follow from what each step adds to them.

## 10. The runs

| run | module | what it asks |
|---|---|---|
| `key_cache` | `KeyCache` | do the containers agree, are ids unique, does a collection take the right keys, is the registry implemented |
| `storage` | `MCStorage` | can two names ever get one id, and does a saved point survive |
| `storage_runs` | `MCStorage` | are the promises of `Counters` kept, records saved, deletes complete |
| `storage_gc_reuse` | `MCStorage` | violated: points of one counter shown by another |
| `add_path` | `MCAddPath` | is every sample counted once in its window, whatever is compacted |
| `add_path_reopen` | `MCAddPath` | violated: does a restart continue the open window |
| `add_path_race` | `MCAddPath` | violated: are closed windows complete with two threads |
| `browse` | `MCBrowse` | what do clients miss, see twice, or get wrongly |
| `ag_startup` | `AgStartup` | is the service ready when it says so, and in the end |
| `requests` | `MCRequests` | does each sample and deletion reach each shard once, and is the answer true |
| `requests_limit` | `MCRequests` | violated: does `multi_add` tell of the limit |
| `handles` | `Handles` | is everything opened, closed and unlocked, whatever fails |

Deadlock is checked where the system never stops by itself; the other
configurations say why it may.  Operators whose names begin with `Slip` are the
code with one plausible mistake: each property is known to fail for one of them.

## 11. What is proved and what is only checked

Proved, for every value of the constants:

| module | theorems |
|---|---|
| `KeyCacheProofs` | `TypeOK`, `IndexesAgree`, `IdsUnique`, `LagBounded`, `GcWindow`, `DelAnswersItsId`, the refinement of `KeyRegistry` |
| `StorageProofs` | `TypeOK`, `IdsDisjoint`, `IdsInjective`, `PointsSurvive`, `RecordsKept`, `DeleteErases`; for one run and for restarts where nothing fails `OwnPoints` and the refinement of `Counters` |
| `AddPathProofs` | `TypeOK`, `CompactionKeepsReads`; `NeverInvents` and `RecordTruthful` in every environment; `WindowsComplete` and `RecordKnowsPoints` unless a lone call merges or fails |
| `AgStartupProofs` | `TypeOK`, `CounterCountsLoading`, `ReadyMeansLoaded`, `StopFindsStorage` |
| `RequestsProofs` | `TypeOK`, `EachComesOnce`, `StatusTruthful` |
| `HandlesProofs` | `TypeOK`, `NothingStaysLocked`, `ServesWhole`, `ReadIsRestored`, `FaultsOutsideService` |
| `BrowseProofs` | `NoneMissed`, `NoneTwice`, `GreatestFirst`, `OnlyListed`, `WalkFindsAll` |
| `Sums` | lemmas the others rest on |

They assume what the modules assume of their constants (named `...Assumption`; for
instance that the mark of an unreadable entry is not a number, and that `Requests` has
finitely many threads), and the conditions named in the table besides.  Each condition
is a predicate of the module it is about, and the sections above say why the property
is false without it.

Sums over sets and sequences are folds in the models.  The provers cannot do an
induction over a fold, but what the proofs need of a sum is how it changes when one
summand changes.  That follows from the recursive function that defines the sum, by
looking at a smallest set for which it would not hold (`Sums`).

Only model-checked is liveness (`StaleKeysCollected`, `GetsReady`), which these
provers cannot do, and what the runs that expect a violation show.

## 12. What is assumed

* RocksDB is an atomic map; an iterator shows the map as of its creation; a
  write that failed has not happened.  It drops entries past their TTL one by one,
  at any time, but none of a name in use; it combines merged entries at any time.
* A crash loses the memory and keeps every write that returned.
* `wrtstat`, the statistics library, is not in the repository: its aggregator and
  its map of aggregators are modelled from how the code uses them and marked as
  external.
* `MaxTime`, `MaxId`, `MaxSamples`, `MaxRequests`, `MaxChanges`, `MaxStarts` and
  the like bound clocks, counters and inputs; they are guards of the actions that
  would pass them, and nothing else depends on them.
* A cache holds at most a million names, the limit of `tree` in text form, and no name
  is empty or begins with the separator (`TextAssumption`, `NoEmptyFirst` in `Browse`).

## 13. What is not modelled

The JSON and RPC layers, the gateways and the registration with the framework
have no state and make no decisions; a gateway forwards each call to a connection
of the framework and its answer back.  `mkpath` is file-system I/O.

Of the statistics of a point only the count, or one value, is kept.  The powers
(a statistic times the count) are left out: `ag_domain.cpp:39` and
`key_aggregator.cpp:250` compute them apart, the first with the square of the
average, and nothing in the repository says what they should be.

A value of another size is followed through the merge operator, which reads it as
nothing, and not through `data_rocksdb::get`, which takes it as it is.  Components
that are modelled in part, with the reason, are listed in `PROJECT.json`.
