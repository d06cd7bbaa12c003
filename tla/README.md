# Learned-Index: a verification project

TLA+ models of the storage engine in `src/cpp`: the write-ahead log, the store
with its snapshots and checkpoints, the learned index (a gapped array with a
segmented model), the packed keys, the catalog and the SQL executor, the parser
and the row format, and the static indexes and the B+-tree the engine is
compared with. Two of them are shown to implement an abstract specification: the
store a crash-safe map, and the executor, which stands on that map, a table of
rows. TLC checks small instances; TLAPS proves the main results about the log,
the store, the merge of log and snapshot, the packed keys, the executor, the
gapped array, both fits and the index lookups, both refinements among them,
for every value of the constants.

## The system

A statement comes from the shell (`repl.cpp`) or the test harness
(`sql_harness.cpp`), is parsed (`sql_tokenizer.h`, `sql_parser.h`, `sql_ast.h`)
and run by the executor (`executor.h`). Everything it reads and writes is a row
of one key-value store (`durable_store.h`): rows of tables, entries of secondary
indexes and the catalog itself (`catalog.h`), told apart by the table id packed
into the high bits of the key (`table_key.h`). The store logs a write
(`write_ahead_log.h`), then applies it to the index in memory (`gapped_array.h`,
or the library B+-tree of `btree_row_index.h`). A checkpoint writes all rows to a
snapshot (`snapshot.h`) and empties the log; a start loads the snapshot and
merges the log into it. The program is one process with one thread: what is
hard is not concurrency but crashes between two system calls, calls that fail
half-way, index structures that must stay consistent through long sequences of
operations, and arithmetic on keys.

| Part | State | Operations | What makes it correct |
|---|---|---|---|
| write-ahead log | the file, `size_`, `unsynced_` | open and recover, append, sync, reset, close | an acknowledged record is always reachable by recovery; a bounded number wait for an fsync |
| snapshot | two files | write, read | never half-written, never older than what the log assumes |
| durable store | index in memory, `writes_since_checkpoint_` | put, remove, checkpoint, open, close | memory = what a restart finds; no acknowledged write is lost or undone |
| gapped array | keys and values with gaps, segments, change counts | build, insert, remove, refresh, rebuild, lookup | lookups exact whatever the model predicts; bookkeeping consistent; predictions close |
| segmented and linear model | a list of lines | two fits, search | predictions within eps; fewest segments; searches find every key |
| packed keys | none | pack, unpack | round trips, no two rows share a key |
| catalog | ids and names | create, load | no id twice; a restart finds the same catalog |
| executor | statement in progress | CREATE, INSERT, UPDATE, DELETE, SELECT | a statement changes the rows it describes and no others; index in step with rows; every access path gives the same answer; order, aggregate and limit compose |
| SQL parser | place in the grammar, statement so far | one token | the statement says what was read; every statement of the grammar is understood |
| row format | position in the bytes | encode, decode a value | a decoded row is the encoded one; a cut-off row is noticed |
| B+-tree (baseline) | nodes | insert, search | balanced, linked, complete |
| tokenizer, caches, Bloom filters, library B+-tree, demos | | | not modelled, see below |

## Modules

| Module | Models | Correspondence |
|---|---|---|
| `WriteAheadLog` | `write_ahead_log.h` | one action per system call: `OpenFresh`, `CreateHeader`, `CreateFsync`, `CreateDirSync`, `OpenIntact`, `OpenDamaged`, `CutFsync` are `recover()`; `WriteRecord`, `AppendFsync`, `WriteFails`, `UndoWrite` are `append()`; `SyncLog`, `ResetTruncate`, `ResetFsync`, `CloseLog` the rest. `pc` is the place in the code. `Crash` and `PowerLoss` may come between any two |
| `LogReplay` | what a log says about a set of rows | `Recovered`, used by the store and checked against the merge |
| `Ascending` | sorting, and scanning in key order | an element's place is the number of elements before it; no recursion, so that proofs can use it |
| `ApplyLog` | `apply_log()` | one action per turn of the merge loop |
| `DurableStore` | `durable_store.h` and `snapshot.h` | EXTENDS the log and takes its steps: `StartWrite` ... `Apply` are put and remove, `Checkpoint`, `WriteTmp`, `FsyncTmp`, `RenameTmp`, `FsyncDir`, `EmptyLog`, `CheckpointDone` the checkpoint |
| `CrashSafeMap` | nothing: the abstract specification | a map with the versions a crash may leave; `StoreIsMap` says that `DurableStore` implements it |
| `TableKey` | `table_key.h` | the same functions, with spans for the widths |
| `Query` | what a statement reads: WHERE, SELECT | pure operators over the store and the catalog: `find_matches` and `collect_matches`, `access_method` and `Fetched` for the paths of a SELECT, `Sorted`, `Aggregated`, `Limited` in the order of the code |
| `Executor` | what a statement writes, and `catalog.h` | EXTENDS `Query`. `Begin` notes an UPDATE or DELETE (`stmt`), `Search` collects its matches (`pending`), `UpdateRow` and `DeleteRow` work out the store calls of one row (`todo`), `StoreCall` makes one. `Throw` and `Restart` cut a statement short between two calls, or in one |
| `SqlTable` | nothing: the abstract specification | a table as a function from keys to rows; a statement is worked out once, from the rows there are, and writes them one by one |
| `ExecutorRefinement` | the mapping from one to the other | `ExecIsTable` says that `Executor` implements `SqlTable` for `TheTable`, which is any of the tables; `RowsHomed` and `OwnRows` are what its proof needs |
| `SqlParser` | `sql_parser.h`, `sql_ast.h`, the kinds of tokens | `place` is where in which production the parser is; `Take` is `advance()`, `EndBefore` and `Reject` the two ways to stop |
| `RowFormat` | `row_format.h` | `encode_row` as an operator, `decode_row` as one action per value |
| `SqlFrontEnd` | `execute_one(InsertStmt)` between the two | what is parsed as an INSERT is encoded and decoded |
| `SegmentedModel` | `build_segmented_model`, `find_segment_index` | pure operators, exact fractions |
| `Segmentation` | `Segmenter`, `build_optimal_segmented_model` | one action per point |
| `StaticIndex` | `linear_model.h`, `segmented_search` | EXTENDS `Segmentation`: the arrays are its keys |
| `GappedArray` | `gapped_array.h` but `locate()` | `insert`, `remove`, and `Refresh` for each turn of `refresh_segments()`; lookups and range scans as operators |
| `Locate` | `locate()`, `gallop()`, `reaches()` | one action per turn of a loop |
| `BPlusTree` | `bplus_tree.h` | `insert`, then one step per level of a split |
| `*Proofs` | | the theorems of the module they extend |
| `MCDurableStore`, `MCExecutor`, `MCGappedArray`, `MCFrontEnd` | | values for the constants of the runs |

`DurableStore` is composed of `WriteAheadLog` and `LogReplay`; `Executor` stands on
the map that `DurableStore` implements, with the ways a store call can end taken
from there (`Throw`: nothing written, or the record only, or everything and then a
failed checkpoint), and implements `SqlTable`; `SqlFrontEnd` is `SqlParser` and `RowFormat`
put together; `GappedArray` uses lower bounds, which `Locate` justifies, and
the fit of `SegmentedModel`, which `segmentation` checks. Operators under "Broken:" are plausible
mistakes; each is put in the place of its original in turn, and the property named with it in
`PROJECT.json` must then fail.

### What is abstracted

* A log record is a value and the file a sequence of cells; a cell that fails its
  checksum, whatever is in it, is `Damaged`. Sizes count cells.
* A power loss keeps what was fsync'd and some of what came after, in order, the
  last of it perhaps damaged; or any of what it would have kept before a truncation that
  was not fsync'd (`Flushed`, remembered in `stale`). An fsync that succeeds covers what an earlier one failed on.
  The directory fsync of a snapshot is not credited to the log's own entry.
* Every table has the columns `(id INT, a INT)`; an index may be on either. A TEXT
  literal is one value, which no column takes. A WHERE clause is a record with column,
  operator and values. Literals are small numbers on both sides of every limit of
  spans of 8, 4 and 2 instead of 2^48, 2^28 and 2^20. `SetInput` and `WhereInput` keep
  the statements that write to those that differ in path, in moved keys, or in
  refused literals; the statements that only read are asked of every state
  (`WhereAsked`, `QueryAsked`).
* The parser sees the kind of a literal and not its value, two identifiers, and lists of up
  to two. A keyword is its own token, as in the tokenizer. A statement is written back
  without `ASC` and the semicolon, which leave no trace in it.
* Bytes have 2 bits, integers 2 bytes and lengths 1; texts have up to two bytes.
* Slopes and predictions are exact fractions instead of doubles. The density and
  the limits of `too_dense` are tenths.
* SUM is a sum of integers: that it may leave the range of `int64_t` is not modelled.
* In `layout` and `relay` a key never has to give way to another: there are never
  more keys than slots, so the spread alone keeps them apart.
* Past the end of `segment_changes_` (see `doc_refresh_range`) the model reads a
  count below the threshold.
* A search of a sorted array is the set of what it may answer (`FindIn`). Where it reads past the
  end of the array (see "Other divergences"), that may be the key or not, or end the
  program: the position, `NotFound` or `Fault`. An iterator before the array is only formed: what
  is read then is the first key.

## Runs

| Run | Instance | Shows |
|---|---|---|
| `store_power` | 2 keys, 1 value, 3 records, checkpoint every 2 writes, sync_every 1, failing writes, power loss | `StoreTypeOK`; `AckedReadable`, `OpenClean`, `AtRiskBound`; `MemoryIsFile`; `CheckpointSafe`, `SnapshotWhole`, `NoAckedWriteLost`; and `StoreIsMap`, the refinement, in which a returned call is on the disk. A new file needs its directory fsync'd |
| `store_io_errors` | the same with sync_every 2, 2 records, failing fsync and ftruncate, process crashes, a snapshot that rots | `OnlyFailedWritesDiffer`, `OpenShowsAcked`, `AtRiskWindow` |
| `apply_log` | every snapshot of 3 keys and 2 values, every log of up to 3 records | `MergeReplays`, `RecoveredReplays` |
| `executor` | keys of 3 bits and values of 1, literals around both limits and of the wrong type, one table, an index on either column, one statement cut short by an error or a crash at any of its calls | `QueriesAgree`, `ResultsRight` for some 260 queries; `IndexInSync` for all rows not caught in the middle; `KindsApart`, `CatalogReloads`; and `ExecIsTable`, the refinement |
| `sql_front` | every sequence of tokens with lists of two, every row of one or two values, cut off anywhere | `WritesBack`, `Understood`, `RowSurvives` |
| `gapped_array` | 5 keys in 2 clusters, 2 values, eps 2, segments of at most 4 keys | `HoldsExpected`, for every lookup and every range scan, `Consistent`, `LineDriftBounded`, `PredictionBounded` |
| `segmentation` | every list of up to 6 points with steps from the cfg | `AverageFits`, `Fewest` against an exhaustive minimum; `PinnedWithinEps`, `CapKept` for every cap; `LearnedFindsKeys`, `SegmentedFindsKeys`: both searches find every key, and nothing else up to the last key (of its segment) or with a window that starts in the array |
| `locate` | every sorted array of up to 7 slots, target, prediction and two walk limits | `LowerBound`, `BracketHolds`, `Terminates` |
| `bplus_tree` | order 2, 7 keys in every order | `SearchFinds`, `LeafChain`, `Balanced` |
| `doc_refresh_range` | 7 keys in 3 clusters | violated: see the first finding |
| `doc_checkpoint` | sync_every 2, power loss | violated: see the second |
| `doc_update_key` | an UPDATE that gives several rows one key | violated: see the third |

The bounds are the smallest at which the interesting cases happen. Two keys and three
records are enough for a failed write in the middle of a log, a checkpoint between two writes
and a log that is replayed over a snapshot with part of it. The gapped array's instance
reaches arrays with three segments, crowded ones that borrow slots from a neighbour, a last segment
that grows, and counts that are not zero between two calls. Seven keys give the tree three
levels, so a split goes through a leaf, an inner node and the root. The executor's keys are
enough for two rows that an UPDATE moves onto each other, one that no index can hold and one no table
can; one statement is cut short (`MaxCuts`), any number run before and after it.
Lists of two have a first, a last, and a comma. `MaxLog`, `MaxId`, `MaxCuts`, `MaxKeys`, `MaxSlots`,
`MaxLen`, `MaxPoints`, `MaxList` and `TextLimit` are bounds of the models only. Symmetry
is used where no operation looks at what is permuted: the keys and values of the store
(its index is a function and never compares them) and the values of the gapped array.
Deadlock is checked but for what simply ends: the merge, `locate()`, the fits, and the parser and decoder.

### Fairness

Only `Locate` claims that something happens: `WF_vars(LocateNext)`, since `locate()` is one call
in one thread and nothing can keep it from its next step. Everything else is safety:
the code promises neither that a disk recovers nor that a caller calls.

## Proofs

Checked by TLAPS for every value of the constants, from the named assumptions of the modules.

* **`DurableStoreProofs`, the log**. `LogTypeOK`; then `LogInvariant`, of which `AckedReadable` and
  `OpenClean` are parts. They are not inductive alone: a failed write is taken back by cutting
  the file at `size_`, so one has to know that `size_` is where the good records end (`UndoExact`);
  a power loss may bring back an older file, so that has to agree with what is
  on the disk (`StaleAgrees`); and a file that could vanish must not hold anything (`HeaderFirst`,
  `AnchorFirst`). `AtRiskWindow` follows from `UnsyncedCounts`: `unsynced_` is at least the
  number of records that are neither on the disk nor from before the open. Assumptions:
  `SafeFaults` (where writes can fail, fsync and ftruncate do not) and `SafeEntry` (where the
  power may go, no process crash and no failing fsync between a new log's header and its directory's
  fsync, or a file system that does not need that fsync).
  What happens without them is described under "Other divergences".
* **`DurableStoreProofs`, the store**. Every step of the store is a step of the log or leaves it alone
  (`StoreImplementsLog`), so the log's theorems hold inside the store. `MemoryIsFile` needs
  `StoreInvariant`: where a call is in the code decides whether the file already has its record.
  Its proof rests on the lemmas of `LogReplayProofs` about `Recovered`, chiefly that appending a record changes
  one row, and that replaying a log over rows that already contain it changes nothing. Where fsync and
  ftruncate may fail and the process may die, memory and files do differ: `DifferenceExplained` says at every
  step of a write that a row differs only while its write is under way or if the last record of its key was
  never acknowledged, from which `OnlyFailedWritesDiffer` follows; `MemoryShowsAcked` adds what was
  acknowledged, and gives `OpenShowsAcked` and, while snapshots stay whole, `NoAckedWriteLost`, both for every
  sync_every and without power loss.
  The last part of the module is `StoreImplementsMap`: the store implements `CrashSafeMap`; with it
  `NoAckedWriteLost`, `CheckpointSafe` and `SnapshotWhole`. They assume `Synced`: sync_every is 1, writes may fail
  but fsync and rename do what they say, the power may go at any step, snapshots do not rot. The invariant adds
  to `StoreInvariant` what is on the disk. `LogOnDisk`: all of the log is, but for the record of an
  append before its fsync or a cut before its own, and then whatever a power loss leaves
  reads as the log with or without it. `SnapshotOnDisk`: of the snapshots a power loss may leave, each says what the
  rows in memory say once the log is replayed over it; that is the order of
  fsync, rename, directory fsync and reset. `ShowsAcked`: what the files say was acknowledged, or is
  being written; it is needed since a restart takes its rows from the files. From the first two, `DiskRows` is the
  files' rows and at most the rows before the write in progress (`DiskHolds`), so that every step
  maps to one of the map's or to a stutter (`MapStep`).
* **`AscendingProofs`** has what the others share: sorted lists, functions defined by recursion, sums, and the
  segments of the pinned fit. **`ApplyLogProofs`**. `MergeReplays`: what the merge returns is, in key order, what
  replaying the log record by record leaves, for every snapshot and log. `ApplyInv` says what `out` is in the
  middle: the rows of the keys passed so far, listed in order, and which positions of log and snapshot
  are passed. It needs that a sorted list is the only one of its elements (`OneAscendingList`), and that the
  last record of a key decides (`RecoveredIsReplay`, for logs of every length: `RecoveredReplays`).
  Both are inductions over a length, done by taking the least counterexample (`LeastNumber`).
* **`ExecutorProofs`**. Packing and unpacking are inverse, keys of different rows differ, composites
  fit, and the range query of an indexed value takes in the entries of that value in that index and no other
  key of the store (`BlocksApart`): for all spans, and for table ids on both sides of the sign bit, where the order
  of the keys is not that of the ids. With that `CatalogKept`: the types and
  `CatalogInv` hold for every number of tables, indexes, statements, failed calls and restarts. `KindsApart` and
  `CatalogReloads` are parts of it. They are not inductive alone. A restart computes the next id from the
  catalog rows it finds, so every id with a row must be below `next_id`, in memory and on the disk
  (`CatalogOK`); a row that comes back from the log must belong to a table that comes back too, so
  calls about data are about ids that both maps have (`DataCall`); and a CREATE INDEX that is
  cut short leaves entries under an id no one else may get, so its catalog row comes first and its
  other calls stay in its own block (`Creating`). The proofs rest on lemmas about the calls of `sync_indexes`, the
  matches of a search and the rows a scan finds. One assumption, `IdsFit`: no more ids are given out than the
  16 bits of a key hold (`catalog.h:72`).
  `IndexInSync`, between statements, follows from `SyncInv`, which holds in the middle of them too: what the
  store holds once the calls still in `todo` are made (`Final`) has every live index in step (`LiveInSync`). A
  statement keeps that by the calls it puts in `todo` (`SyncEffect`, `UpdateEffect`, for any number of
  indexes); a call made moves from `Final`'s second half to its first. UPDATE and DELETE take a row as their search
  found it, so the rows they have not come to are unchanged and different (`PendingCurrent`), of which the one
  assumption on the input is part: an UPDATE that assigns a key finds at most one row (`MovesOne`; `KeyUpdates =
  "one"`: with "many" it is false, finding 3). A statement cut short leaves no trace but under keys in `interrupted`, and
  a restart no other, since disk and memory differ there only (`OnlyCaughtDiffer`); and an index whose CREATE was
  cut short is not taken for a whole one when a restart finds it (`UnknownIsHalf`). In the middle of the fill, the
  entries are under the new id and no one else's (`CreatesOwn`).
  `QueriesAgree` follows from the same invariant. A scan's clamped bounds take in the table's keys and no other
  (`KeyBlock`), so each path lists the rows of the WHERE clause, each once (`CollectLists`, `PointLists`). The
  entries of an indexed value are one block (`CompositeBlock`, the heart of `BlocksApart`) and those in it are one to one with the rows of that
  value (`EntriesMatch`): because the index is in step, and because no row has a value or a key that the index would
  cut down to another's (`Indexable`). That is kept by the limits on literals, and `AssignsOk` carries them from the
  check of an UPDATE to its rows. Rows that were caught by a failure may break it, so the property asks that there are none.
  `ResultsRight` adds what a SELECT makes of the rows it fetched: each list that `std::sort` may give has the
  same rows, each once (`SortedLists`), LIMIT keeps the first of them, and of a list in order those are the
  ones no other row is ahead of (`ShownRows`). COUNT needs that no row is listed twice, and so does SUM, a fold over
  the list, that has to equal the sum over the set of rows (`SumOfRows`: a sum does not depend on the order of its
  terms, and the recursive functions that both folds are exist).
* **`ExecutorTableProofs`**. `ExecIsTable`: what the executor does to any one of its tables is what `SqlTable`
  says, under the same two assumptions as `IndexInSync` (`IdsFit`, and `KeyUpdates = "one"`: with "many" an UPDATE
  meets rows it has itself put there, which the table's specification does not). The abstract table's rows are
  those under its id; the writes it has left are those among `todo`, index entries dropped, and those
  `pending` will come to. Steps that work out the calls of a row map to stutters: what they append to `todo` is
  what they take off `pending` (`MatchRefines`, on lemmas about lists of lists, `FlattenHead` and `FlattenConcat`).
  A store call is the abstract table's next write or is not about it (`FirstWrite`), for which a call must be about
  the statement's own table, and a row that is removed must still be there, since the store logs no removal of what
  is not (`OwnRows`). A restart reads the ids from the disk: rows must not be under an id that only the disk
  has (`RowsHomed`). And the search must find what the WHERE clause describes, in key order whichever path
  it took (`FoundAs`), so that it is the one list `SqlTable` works out.
* **`GappedArrayProofs`**. All that its run checks: `HoldsExpected`, `Consistent`, `LineDriftBounded`,
  `PredictionBounded` and the types, for every finite set of keys, eps, density and segment cap. The inductive
  invariant is `GappedInv`. Its first part is `Sound`: keys in order, each with a value, counts and
  segments in step, the fitted keys among those present, and `Drifted`. That one is what makes the
  predictions near: each fitted key had a slot, within eps of the line of the segment that owns the key and not
  before its anchor, from which it is as many slots away as the segment has changes at the most. The keys
  that were not there when their segment was fitted are not in it: the code promises nothing about them. The second,
  `Pending`, says that a segment over the threshold is among those `refresh_segments()` still has to come to; so there is
  none when the call returns. The third, that the array's rows are `expected`, gives lookups and scans.
  The proof follows an array through its operations, each of which turns a whole array (`Whole`) into a whole
  one. A fresh layout spreads keys over slots that do not collide (`Spread` grows, since there are at least as many slots as
  keys), and the pinned fit of its points is within eps of all of them (`SegmentsAreBuilt`). A region laid out anew has
  segments before it, inside and after; a key's owner is in the same part as its slot, since region
  borders are the slots of the segments' first keys (`OwnerBefore`, `OwnerInside`, `OwnerAfter`). A shift
  moves each key between gap and insertion point by one slot, and those keys' owners are all counted, because
  they lie between the segments that `insert` looks up for the two ends (`Changed`), and `find_segment_index`
  finds the owner (`SearchFindsOwner`). `RefreshInRange` is no part of it, being false
  (finding 1): what the proof says of a count read past the end is what the model does there.
* **`LookupProofs`**. `locate()` returns the lower bound, for arrays of any length, any prediction and
  any limit: `LocateInvariant` is the type, sortedness, and the meaning of the bracket in each loop.
  Then the fits of any number of points at any distances, of which the one invariant is that they are in
  order (`PointsInOrder`). `PinnedWithinEps` and `CapKept` are the pinned fit's: the line of a segment is the middle of
  the steepest and the shallowest slope that fit its points (`LineFits`), each segment covers a stretch of points
  and the next begins after it (`FittedTo`, by induction on the points left), and the search finds the
  segment whose stretch a key is in. For `LearnedFindsKeys` and `SegmentedFindsKeys` one has to know
  that the window is wide enough: for the line, its greatest error (`ErrorsBounded`), for the segments eps, which
  rounding to the nearest position does not exceed (`RoundedBetween`). That what is not a key is not found
  takes more: the search must not read past the array, and it does not when the window starts in it (`RangeSearched`).
  So it does for every number up to a key that its line predicts within the window, since lines do not
  fall (`LinePredicts`, `SegmentClimbs`: the sum of products is not negative for keys in order, `SumOfProducts`).
  For a number above, nothing holds but what its window says: there the code may read past the array.
  `AverageFits` and `Fewest` are those of the fit without anchors, and geometry. The invariant of its Segmenter
  is `Hulls`: from where the steepest line begins to where the shallowest ends, the lower hull lies over the lower ends of
  all gaps so far and bends one way only, and both lines lie over them; for the upper hull the
  same is said upside down (`Side` of the mirrored points), so that each lemma is proved once. A point at the end of a hull
  removes only points under the line from the last corner left (`PoppedUnder`, `HullExtends`). The pivot the code
  looks for, the first point after which the slope turns back, has the whole hull on the right side (`PivotTouches`);
  and the points before the pivot are dropped for good, since no later line comes
  back to them: the hull has to be right only from where its line begins (`LinePivots`). The order of the two updates
  matters: the shallowest line is raised on an upper hull that already has the new point's end (`After`).
  That both lines stay in every gap (`LinesInGaps`) gives `AverageFits`. That each is held by two
  ends of gaps gives the converse (`UnfitPoint`): a point is refused only if no line fits it with the
  points of the segment. So no segment could have gone on for longer, and by induction over the points no choice of
  segments for the first j of them has fewer (`FewestUpTo`).

Only model-checked: everything about `SqlFrontEnd` and `BPlusTree`; and `Terminates`, since liveness under fairness is
out of the provers' reach.
What recursive operators compute for all inputs
(the tree's descent, the folds of the row format) is out of reach as well: the library's
induction theorems take an operator as a parameter. Where a recursive function stands in for the
recursion, the least counterexample does instead, as in `ApplyLogProofs`; and that such a function exists is itself
proved, for any rank that goes down (`RecursionDefines` in `AscendingProofs`).

## Findings

1. `gapped_array.h:612`: `refresh_segments()` counts down over indices it took before the first
   refresh. A refresh that widens replaces a window that may include lower segments by fewer of them, and
   the next index can lie past the end of `segment_changes_`, contrary to the comment above it.
2. `durable_store.h:111`: with `sync_every` of 2 or more, `checkpoint()` does not sync the log before the
   rename. A power loss between the rename and the emptied log may leave the new snapshot with a log
   that is missing its end; replaying it sets rows back to older values. `write_ahead_log.h` says the log is
   synced before a checkpoint empties it.
3. `executor.h:353`: `UPDATE t SET id = 1` over several rows, one of them row 1: when its turn comes the row at
   its old key is one this statement put there, which is not taken for displaced. Its index entry stays.

### Other divergences

Met while modelling, in the models, and without a run of their own:

* `write_ahead_log.h:218`: an opened log counts from `unsynced_ = 0`, though what it found may
  never have been fsync'd. The bound "k - 1 acknowledged writes" holds per process only; hence the
  two forms `AtRiskWindow` (proved) and `AtRiskBound` (for sync_every 1).
* `write_ahead_log.h:160`: if `reset()` truncates and its fsync fails, `size_` keeps the old length,
  and a failed append later "cuts" the file to that length, putting zeros in front of
  what follows. `write_ahead_log.h:281`: if taking a failed write back fails, so does everything appended
  after it. Both are excluded by `SafeFaults`.
* `write_ahead_log.h:201`: a crash after the header of a new log is written and before its directory is
  fsync'd; the next open does not fsync it. Excluded by `SafeEntry`.
* `executor.h:158`: a row and its entries are separate writes, so a crash leaves them out of step for that
  row, and `executor.h:363`: an UPDATE of a primary key removes the row before it is put back.
  `interrupted` and `half` name these rows and indexes, and the properties except them.
* `executor.h:259`: EXPLAIN returns before the columns of ORDER BY and SUM are looked at, so it plans a query
  that is refused when it is run. `ResultsRight` has both.
* `executor.h:411`: CREATE INDEX checks the rows it sees. The row of an INSERT that failed after it was
  logged (its fsync, say) is not among them, comes back with the next restart, and may be too large
  for the index; its entries are then those of a smaller key. `IndexInSync` excepts both.
* `executor.h:80`: on an index on `id` a key is an indexed value as well, and only its
  limit as a key is checked; its entries keep the low bits. No query looks there, since `id =` is a point lookup.
* `sql_parser.h:68`: after a statement the parser does not look for the end of the input: `DELETE FROM t WHER
  id = 1` deletes every row. `sql_parser_test.cpp:110` says that malformed input throws.
* `row_format.h:46`: bytes that break off between two values decode to a shorter row, without an error.
* `catalog.h:72`: ids past 16 bits share their keys with earlier ones; the theorems on `pack_key` assume
  that no more are given out than fit.
* `gapped_array.h:380`: when the key a segment's anchor was fitted on is removed, the segment before it
  may be laid out past that anchor, and its predictions are cut off more than 2 eps short. Lookups stay exact.
* `linear_model.h:84`: `learned_search()` clamps the start of its window at 0 but not at the end of the array,
  though `predict` leaves the clamping to its caller (`linear_model.h:18`). For a query far enough above the keys, 3
  in {0, 1}, the range is inverted, `lower_bound` leaves it at once and not at its end, and line 90 reads
  past the vector. `segmented_model.h:138` is the same: in {0, 1, 2, 3, 4, 8} with eps 1 the query 10 is predicted at 8 and
  `keys[7]` is read, and behind a steep segment even a query between two keys may do that. If what lies past
  the vector happens to be the number asked for, the search reports a hit. `LearnedFindsKeys` and
  `SegmentedFindsKeys` except windows that start past the array; without that they are violated on these lists.
* `snapshot.h:76`: a snapshot that can not be opened, for whatever reason, is taken for one that does not
  exist. Opening errors are not in the models.
* `segmented_model.h:134`: slopes are doubles, and for keys past 2^53 a prediction may miss its bound by
  rounding. `locate()` makes the gapped array independent of predictions; the search of a sorted array is not.
* `table_key.h:21`: the key of table 32767 and primary key 2^48 - 1 is `INT64_MAX`, the mark of an
  empty slot. `GappedArray` assumes keys below the mark.

## Not modelled

* The characters of a line and how `sql_tokenizer.h` makes tokens of them; the text of results and error messages.
* `destroy()`, which deletes the files of a closed store for tests and demos.
* The caches and the Bloom filters: research code that demos run over generated traces and lists. The database uses
  neither; what is hard in them is the training of a classifier in floating point.
* The library B+-tree and its wrappers, which pass calls on to vendored code.
* Benchmarks, demos, workload generators, scripts and plots.

## Plan

Done: log, store, replay, packed keys, catalog and executor with all its statements, gapped array, both fits, static
indexes, locate, B+-tree, parser and row format; both refinements, and their proofs. Next:

1. `StoreImplementsMap` for process crashes and for sync_every above 1, where the versions on the disk are several.
2. Tables with other columns, and several tables at a time, in the executor's instance.
