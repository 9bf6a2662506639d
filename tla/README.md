# TLA+ verification of UCOF

UCOF is a container format with an experimental successor ("immutable successor"):
append-only files whose objects are found through immutable directory pages and
whose newest state is named by a footer. The repository holds the sequential core
(`crates/ucof-core`), a command line, and the experiments
(`crates/ucof-experiments`): persistent tree updates, bounded readers over remote
objects, conditional HTTP clients, root recovery, and private staging with durable
publication. This project models the parts where order, failure and concurrency
decide whether the code is right.

Paths below are relative to `src/crates/ucof-experiments/src/` unless they start
with `ucof-core`; `is/` stands for `immutable_successor/`.

## Inventory

| Component | State | Operations | What is hard |
|---|---|---|---|
| Staged publication `is/persistent_staged_publication.rs`, `is/persistent_unix_staging.rs` | the backend's staged path and file; the names and inodes of two directories; what of them is on disk | begin, copy, validate, sync, link without replacement, sync parent, retire, abort | failing calls between any two steps, several publishers, power loss, errors of calls that took effect |
| Versioned copy `is/persistent_source_copy.rs`, `is/persistent_versioned_source_copy.rs` | pinned identity, expected version, digest, read budget, sink | version check, length, range read, write, tail | the object changes between check, read and use |
| Conditional client `is/conditional_*.rs` | attempt counter, delay budget, refresh counter, pinned version, control | metadata, range read, retry, wait, refresh, cancel | slow, lossy and misbehaving servers; shared budgets; cancellation of every await |
| Mixed leaf planning `mixed_update_plan.rs` | the leaves under repair, their origins, touched pages, actions | route, apply, split, borrow, merge, validate | repairs that change the neighbours of what is being repaired |
| Root selection and enumeration `snapshots.rs`, `enumeration.rs` | candidates, parent chains | strict and recovery selection, enumeration | forks, gaps, damage, cut tails, depth limits |
| Publication stages `publication.rs` | stage, checkpoints | advance, checkpoint, report | crash at every stage |
| Repair, compaction `repair.rs`, `compaction.rs`, `semantic_*.rs` | object graph, plan | closure, plan, copy | missing and doubled objects |
| Tree writers `is/occupancy.rs`, `is/persistent_{batch,insert,delete,multi_put,mixed}.rs` | pages by identity | insert, delete, replace, mixed batches | occupancy along the path, reuse of pages |
| EXP-0002 files `exp0002*.rs` | header, commits of records, pages, snapshot and footer | append, rewrite; strict validation, lookup, recovery scan, chain walk, in memory and over a source | the same checks in five readers, torn and damaged files, a source that changes under a lookup |
| Immutable-successor readers `is/part*.rs`, `is/history.rs`, `is/source*.rs`, `is/conditional_async_source_*.rs` | read budget, pinned version | lookup, strict and canonical validation, history, recovery scan, inventory; in memory, over a bounded source, asynchronous over one version | one budget over many prefixes, pages shared between commits, an object that is replaced between two reads |
| History, rewrite and freshness `is/rewrite.rs`, `is/source_history_rewrite.rs`, `is/freshness.rs` | linked commits, the checkpoint an application trusts | whole, selected and historical rewrites, evaluation of a checkpoint | rollback, fork, cut and continued files |
| Streaming rewrites `is/*streaming_genesis.rs`, `is/active_file_streaming.rs`, `active_file_selected_streaming.rs`, `is/*_to_sink.rs` | the sink, the running digest, the shape announced | preflight, write objects, pages, snapshot, footer | a sink that fails after any unit, a source that changes on the way |
| Streaming tails `is/persistent_*_streaming.rs`, `is/persistent_streaming_dispatch.rs` | the tail under construction, offsets behind the base | tails of replacements, insertions, puts, deletions, mixed batches; dispatch | offsets of a file that does not exist yet, occupancy along the path |
| Source planners `is/persistent_source_*.rs` | the same over a versioned source | the same five | the source changes while planning; one budget over validation, identity and walk |
| Directory pinning `is/persistent_unix_directory_pinning.rs` | device and inode of two directories | check around each call | replaced directories |
| Sequential core `ucof-core` `stream.rs`, `stream_writer.rs`, `reader.rs`, `writer.rs`, `source.rs`, `source_validate.rs`, `diagnostic.rs` | the writer's entries, digest and failure; the reader's state, inventory and budgets | add, finish; next event; parse, inspect, validate, salvage | sinks and sources that fail inside a record, truncation and damage, five readers of one format |
| Encodings, S3 adapter, command line, instrumentation, EXP-0002 directory prototypes | - | - | byte layouts and I/O, out of a model checker's interest |

How they interact: the orchestrator of staged publication calls the versioned copy,
which writes to the backend through a digest writer and reads the source through the
version check. The asynchronous readers reach an object through the conditional
client; the synchronous ones through a source that may look at a version around every
call. A scan produces candidates for selection and enumeration; the selected root is
the base of the tree writers, whose tails, streamed or planned, the staged publication
appends to the base.

## Modules

| Module | Models |
|---|---|
| `StagedPublication` | the orchestrator and the Unix backend, with the file system and its durability |
| `NoReplaceRegister` | the abstract promise: a register written at most once |
| `StagedPublicationProofs` | its inductive invariant, seven theorems |
| `VersionedCopy` | the two-pass copy with its version checks |
| `VersionedCopyProofs` | its inductive invariant, two theorems |
| `ConditionalClient` | the asynchronous conditional client under the reader that uses it |
| `ConditionalClientProofs` | its inductive invariant, three theorems |
| `MixedLeafPlan` | `plan_mixed_leaf_updates` |
| `MixedLeafPlanProofs` | its inductive invariant, one theorem, and the arithmetic of a split |
| `RootSelection` | `select` and `enumerate` over a file that grows, forks, breaks and is cut |
| `RootSelectionProofs` | what the two walks compute and that they go in step, four theorems |
| `CanonicalGroups` | `canonical_group_sizes`: how entries are divided over pages |
| `CanonicalGroupsProofs` | its arithmetic for every capacity, four theorems |
| `TreeUpdate` | all writers of the in-memory immutable tree, and the dispatch among them |
| `RecordFile` | the layout of a sequential file, in units |
| `RecordReaders` | the readers that have the whole file, the salvager, and the writer in memory |
| `SequentialStream` | the streaming writer, the way of a file to its reader, and the one-pass reader |
| `SequentialStreamProofs` | how records lie in a file, what the scans find of it, the invariants of writer and reader, four theorems |
| `PagedFile` | the bytes of an EXP-0002 file and its writers |
| `PagedReaders` | its readers: strict validation, lookup, recovery, chain |
| `PagedHistory` | the life of such a file, and a lookup that reads it in parts |
| `TreeFile` | the bytes of an immutable-successor file and the writers in memory |
| `TreeReaders` | the readers of bytes in memory, and the bounded reader over a source |
| `TreeSources` | the operations on a source, synchronous and asynchronous |
| `TreeSinks` | the writers that stream a new file into a sink |
| `TreeTails` | tails of replacements and mixed batches, streamed and planned |
| `TreePaths` | tails of insertions, puts and deletions, streamed and planned, and the dispatch |
| `TreeHistory` | composes the six: the life of a file, operations on a source that changes, an application that trusts a checkpoint |
| `NaturalsSets` | lemmas: induction over sets of natural numbers, least and greatest elements |
| `MC*` | instances for TLC: symmetry sets and structured constants |

The definitions marked "Mutant" are plausible bugs, one for each property; each of
them, put in the place of the definition below it, makes TLC report that property.

### StagedPublication

A publisher's `pc` is its place in `stage_and_publish_versioned_source_with_tail`;
each backend call that succeeds or fails is one action, so that publishers, exits
and power losses interleave between any two calls. Two calls of `retire_private` and
`abort_private` (remove, then sync the directory) are two steps. `active` is
`staged_path.is_some()`; `file` the inode behind the open file. The copy is one
step: its inside is `VersionedCopy`. The bytes of an inode are abstracted to free,
partial and full; validation compares with the digest of what was sent, so it passes
exactly for "full".

The file system is external. `name` and `dest` are what programs see; `nameDisk` and
`destDisk` the sets of values a power loss may leave. A directory sync collapses the
set to the current value; a failed sync of the destination directory may or may not
have. A file that is not synced keeps any part of its bytes. `MetadataMayFail`
selects whether the two `metadata` calls after a failed `hard_link` may fail too.

### VersionedCopy

Each source operation is a check, a call and a check (`step`); the object may be
replaced before each of them. `job.versioned` selects the wrapped or the bare copy.
A digest is the sequence hashed, a range one unit of the object, a chunk one write.
The byte limits are left out: they are compared before the first read and have the
form of the operation limit that is modelled.

### ConditionalClient

One action per await. `Answer` is the server: any earlier version of the object (a
cache, or an ignored `If-Match`), a retryable status with or without a minimum delay,
a version conflict, 401, a terminal error, or a lost connection; or nothing at all.
`Classify` is the classifier; lengths, ranges and encodings that do not fit are part
of "terminal". Delays are numbers, time is not: a deadline passes when it likes, and
with a deadline any planned delay may be too long for what remains. `Exponential`
keeps the 64-bit shift of the code.

### MixedLeafPlan

One action per turn of the code's loops. A leaf is the set of its identifiers,
positions count from 1. `Init` enumerates every input `validate_input_pages` lets
pass, and batches with replacements, insertions, deletions, missing and doubled
identifiers. Action records are counted, not kept.

### RootSelection

The file is the sequence of candidates a scan finds, oldest first; a candidate's place
stands for its footer offset. Each function has its own loop: `Turn` and `Walk` are
`evaluate_chain`, which refuses a chain by the length of what it collected;
`ClassifyTurn` and `ClassifyWalk` are `classify_chain`, which keeps a set of visited
identities and a counter of the depth that starts at one (`DepthExceeded`). The depth
limit ends both within `MaxDepth + 1` turns. `Select` and `Enumerate` are evaluated in
every reachable file; `Intact` is an independent definition of what they look for.

`InterruptedAppend` is a writer that dies before its footer is complete: a scan finds
nothing of its snapshot, or a candidate with the status `Truncated` that names the root
as its parent. A cut of the file may leave such a candidate, too. A writer then resumes
from the root a strict reader sees or from the one that recovery found. Of the other
statuses `IntegrityFailed` stands for three, since selection does not tell them apart and
enumeration passes each on. Writers, damage and truncation are external.

### TreeUpdate

`tree` is the directory of the newest commit as a record of pages: a leaf has
locators, an internal page has pages. Files only grow, so all that identity can mean
to a commit is whether a page or a record was there before it: `at` and `rec` are
"old" or "new", and `Keep`, the caller's storing of the returned bytes, makes
everything old. Each call is one action: the code is sequential and works on bytes
in memory. It carries the whole chain: checks of the operations, the writer, the
limits of `publish`, and the validation the writer makes of its own output
(`Published`; insertion alone does not ask for canonical occupancy). The entry point
of mixed batches is the function the dispatch calls, and is modelled through it. The
dispatch's own fallback to a full rebuild is reached only by a put of kind zero,
which the rebuild refuses.

Errors are in three classes: "Refused" (the operations), "Limit", and "Invalid" (a
self-check of the code failed). Limits on bytes, allocations and the output's length
are left out; payloads and digests are, too. Two operations on one identifier stand
for every duplicate.

### SequentialStream

A file is a sequence of units: a fixed structure is one unit, so is each piece of a
payload, and an offset counts units. A digest is the sequence it was computed from.
Encoded metadata is as long as it has items, so that limits and chunks cut it.

A call of `StreamingWriter` is one action with every outcome its sink may give it:
all units taken, or a failure after any of them, perhaps with the first bytes of the
next; `accepted` collects the records of the calls that returned `Ok`. A call that is
refused before it writes leaves no trace and is no action. `SeekableWriter` is the
same writer with a rewind. One `next_event` of `SequentialReader` is one action;
`got` is what its events have shown. After a failure only the state `Failed` matters.
The readers with the whole file at hand are functions (`Parse`, `Inspect`, `Validate`,
`Salvage`); of an error only its presence is kept. A `job` gives the limits of the
writer and of the reader and says what may happen to a finished file on its way; an
unfinished one arrives as the sink took it, which is a cut.
`Foreign` is what files of another implementation hold: records with right framing
(`Lawful`: identifier zero is a directory's and no other's) and distinct identifiers,
followed by the directory and the digest that belong to them. Nothing is asked of their
payloads, of the place of a directory record, or of what the footer names, so that a
manifest may be malformed and a directory may stand among the objects. Files whose
directory or digest is wrong come from the harm on the way. A foreign file that is
consistently wrong in its directory, its digest over it included, or that has an
identifier twice, is not among the inputs.
`Generous` limits let every file of the model through (`Fits`), also to a reader that
reads the metadata first and then the whole file.

### PagedHistory and TreeHistory

Both formats are modelled the same way. A file is a sequence of units: a header, the
header of a record, each piece of a payload, a page, a snapshot and a footer are one
unit each, and an offset counts units. A digest is what it was computed from, so that
it matches exactly when the content does; a unit that was damaged is one no parser
accepts, and a write that stops leaves whole units and perhaps the first bytes of the
next. A payload may hold a copy of a footer, which the recovery scans must see through.

The readers are functions of what they read. A bounded reader is a record of its
source, its position in the sequence of reads (`reads`), its budget and its result
(`st`: "ok", "format", "limit", "missing", "duplicate", "conditional", "changed", "io",
"output"). An operation is a chain of stages, each an operator of what the stage before
it left, with the stage that read something before the one that looks at it; a stage
passes on a reader that has failed. A source is a sequence of contents, each with the
read from which it is served; an operation that is under way is its source. In
`TreeHistory` the file changes once under an operation, and the change is placed before
any of the reads or looks at the version that the operation makes: every interleaving
of one operation with one change is covered without a state for every read. The lookup
of `PagedHistory` is resumable instead: `LookupNext` is a function of what was read so
far and gives the next read or the answer, `ReaderRead` is one `read_exact_at` with the
look at the version before it, `ReaderCheck` the look after it, and the file may change
between any two of them. What the application trusts and what an
operation reads do not touch, so operations begin while nothing is trusted. A strong version stands for its
content (the repository's definition of a strong validator), so damage, torn writes and
cuts happen only when no operation is under way. A file in memory never changes.

`TreeSinks`, `TreeTails` and `TreePaths` give what a sink holds after a writer ended.
How many units it takes before it fails is `room`; the size of a write request, which
decides only how units are grouped, is left out. Where a planner repeats the walk of a
streaming writer over a reader instead of a slice, the walk is one definition that is
given either reader, under both names: there `TailsAgree` compares the checks before the
walk, the bytes and the contents, and not two walks. The checks of a mixed batch are two
definitions, `MixedOrder` and `SourceMixedOrder`, each with its order of errors. Counters
of reused pages are left out.

`written` and `commits` in `TreeHistory` (`commits` in `PagedHistory`) are history
variables: what was meant to be stored and where its commits end. The exactness
properties say what each reader has to answer in terms of them (`Needs`: the units that
a commit depends on, old pages and old records among them), without the reader's code.

## Runs

| Run | Shows |
|---|---|
| `staged_publication` | two publishers, two inodes, one power loss: the destination is complete whenever it is visible, also after the power loss; a durable report is kept; reports are true; a cleanup without error is durable; the private name is not removed in doubt; the register is implemented |
| `staged_publication_link_error` | *violation*: an applied `hard_link` reported as an error when a metadata call fails |
| `versioned_copy` | only bytes of the pinned version in the sink; success is exact, also without version checks |
| `conditional_client` | one version; accounted attempts; one refresh per request; an operation with a deadline, or cancelled, returns |
| `conditional_client_backoff` | *violation*: the delay drops to 0 at retry index 62 for a base of 100 ms |
| `mixed_leaf_plan` | nothing lost, doubled or misplaced at any turn, and an untouched leaf is the one that was there |
| `root_selection` | recovery is the newest intact snapshot; the two walks agree; an interrupted append keeps the root, also when it leaves a truncated candidate; whatever is interrupted, cut and resumed, the last finished snapshot is found |
| `tree_update` | after any history of calls: what was asked for is in the tree and nothing else changed; no self-check of the code ever fails; one update through two writers gives one tree |
| `sequential_stream` | a file with a footer is exactly what the in-memory writer makes of the accepted calls; a commit event means that all records shown are genuine; the one-pass reader, the validator and the parser agree on whole, damaged and foreign files except where they are known not to (a malformed manifest, a directory among the objects, a required capability), and there they differ exactly as stated; salvage finds the complete records of a cut file and no other; every reading ends |
| `sequential_stream_roots` | *violation*: `finish` publishes a manifest whose roots do not exist |
| `paged_history` | EXP-0002: all readers accept exactly the files, lookups, candidates and chains whose units are as written, and agree; the limits on the units that candidates, scans and chains may read end in an error and never in a part of the answer; a version-pinned lookup answers from one version however the source changes |
| `tree_history` | immutable successor: the same for its synchronous, asynchronous and in-memory readers; a budget over many prefixes is kept and never changes an answer; rewrites into a sink equal those in memory, tails equal the commits of the in-memory writer and planned tails equal streamed ones; a failed sink is no file; an operation on a source that changes returns what one version holds; a checkpoint tells rollback, fork and advance apart |

### Bounds

- Staged publication: two publishers are enough for every race on one destination
  and on the shared staging directory; two inodes let both stage, or one of them twice;
  one power loss is followed by new attempts. The proofs cover all values.
- Versioned copy: a base of two ranges has a first, a next and a last range; five
  versions include the same content under a new token, a shared prefix, a shorter
  and an empty object; read limits of one too few and just enough.
- Conditional client: metadata and two ranges reset the refresh once; five attempts
  are fewer than retries and replays could use; the delay budget is met exactly and
  exceeded; one server minimum is above the cap.
- Mixed leaves: capacity 3 and minimum 2 make every case of splitting, borrowing,
  merging and balancing occur; the limits on objects, pages and actions are exceeded
  by some batches.
- Root selection: chains of three are just within the depth and chains of four exceed
  it; four candidates, two faults, truncated candidates and progress checkpoints give
  forks, damaged forks, gaps, orphans, duplicates, forward references and writers that
  resume twice. The limits on candidates and results are met and not exceeded; the
  theorems cover every limit.
- Tree: leaf capacity and fanout 3 with up to nine of ten objects give three levels, so
  that internal pages split, lend, merge and lose their root; every tree the writers can
  build over the identifiers is reached, and a batch is any operation, alone or with one
  of three objects, a run of puts or deletions, or a run deleted with a put. Limits on
  objects, pages and depth are exceeded by some batches. The capacities of the code, 185
  and 255, are covered by the proofs.
- Sequential stream: two identifiers, and the reserved zero, give an object and a
  manifest, or two manifests, in every order, before the directory; payloads of no,
  one and three units, read and written in chunks of two, have a whole and a partial
  chunk; every unit can be changed, lost or the last. Eight foreign files: the footer
  names a manifest or an object that is none; a manifest with a root that is zero, or one
  that is only bytes, is selected or not; a directory stands among the objects. Each set of limits stops the
  writer or the reader in another place; one has no chunk at all. With three
  identifiers the invariants hold as well (1.1 million states without the limits).

- Paged history: pages of two entries; three commits with two and three leaves, an empty
  payload and one that is a footer, four changes and one damaged unit; the limits of a
  recovery cut its window, its attempts and its results, and its totals (units read by
  candidates, by the scan and by a chain, and the depth of a chain) are exceeded by some
  files and not by others.
- Tree history: pages of two entries, three commits, three changes, one damaged unit, one
  change under an operation. The batches of `MCUpdates` make an insertion find room,
  split a leaf and grow the tree by a level, and a deletion lend from either side, merge
  and collapse the root; deletions that repair internal pages need trees of three levels,
  which are the subject of `tree_update`, whose writers share the algorithm. The
  window and the number of candidates of a recovery are too small for some files, and so
  are the two smaller read budgets.

### Fairness

- Sequential reader: weak fairness of `next_event` once reading has begun, for a
  caller that drains the reader. A read need not fail: an ending that needs an I/O
  error would not count.
- Client: weak fairness of the client's steps and of the deadline (a clock). The
  server and the application's refresh may hang for ever. `wait_for_control_failure`
  polls, so cancellation and deadline are seen while an await is pending.

Only these two specifications state fairness: the other runs check safety, and the
code they model waits for nobody and ends by construction (straight lines and bounded
loops over input).

`CHECK_DEADLOCK FALSE` is set where the modelled call returns and nothing follows.

## Proofs

`StagedPublicationProofs` proves for every set of publishers, inodes and number of
power losses, from `ConstantsAssumption` alone:
`TypeCorrect`, `DestinationAlwaysComplete`, `DurableForGood`, `CleanupAlwaysDurable`,
`StagingImplementsRegister`; and, when the metadata calls do not fail,
`ReportsAlwaysTrue` and `NeverDoubtfulRemoval`. The condition is the finding of
`staged_publication_link_error` turned into a hypothesis.

The inductive invariant `IInv` adds to the properties what they rest on: an inode
belongs to one publisher's attempt (`FilesAreOwn`), synced inodes are full
(`SyncedIsFull`), every value the destination may have on disk is synced
(`DestIsSynced`), what each place in the orchestrator implies about names and disk
(`LinkProgress`, `CleanupProgress`), and what an outcome says (`OutcomeIsRight`).
`DestinationComplete` alone is not inductive: a power loss brings up any value in
`destDisk`, so that all of them, not only the visible one, have to be synced files.
The proof has one case per action; the refinement maps the destination to the
register's value, a file that is not full to a value the register never has.

`ConditionalClientProofs` proves `BudgetKept`, `RefreshOnce` and `OneVersionOnly` for
every policy, number of ranges and versions, from `PolicyAssumption`. `Paid` makes
the attempt count exact at each stage (an attempt about to begin is already paid for
by a retry, a refresh or a new request); `Refreshed` relates the refresh count to the
authentication policy: under `OneRefreshPermitted` the current request has none yet.

`CanonicalGroupsProofs` proves, for every capacity and number of entries, that the
sizes are between half and full (`GroupsAreHalfFull`) and hold every entry
(`GroupsHoldEverything`), that the split of an insertion is the division of the batch
writer (`SplitIsGrouping`), and that siblings which cannot lend fit in one page
(`MergeFits`). They rest on the uniqueness of quotient and remainder (`DivUnique`) and
are what `OnlyCallersFail` and `WritersAgree` need of the arithmetic.

### Induction over numbers

The library's induction theorems have an operator as a parameter, which no installed
prover can instantiate. `NaturalsSets` states induction about a set instead
(`NatSetInduction`: a set that has 0 and with a number its successor has all of `Nat`),
derived from the well-founded order of the library. A claim about every number is made
the set of the numbers it holds for. This is how the proofs below reason about loops,
recursive functions and sequences of any length: first that the recursive function
exists (without which its `CHOOSE` says nothing), then what it computes.

### VersionedCopyProofs

`OneVersionCopied` and `CopyIsExact`, for any number of versions with any contents, any
identity, tail and read limit, with and without the version check, from
`SourceAssumption` (versions, identities and the tail are sequences of ranges). A
version that replaces another may come before each check, call and check.
`OneVersionInSink` is inductive only with `ReadIsRecent`: versions grow, and what was
read but not yet checked is of a version between the expected and the current one, so
that a check that still finds the expected one leaves no other. `SuccessIsExact` needs
`SinkFollowsDigest` (the digest is of what the sink holds) and `TailFollowsBase` (the
tail begins only behind a base whose digest was compared).

### MixedLeafPlanProofs

`PlanLosesNothing`, for every finite set of identifiers, every capacity and minimum,
all limits, inputs and batches, from `LimitsAssumption`. `Starts` is the running sum
of group sizes; `GroupSizesAddUp` shows that the sizes of `canonical_group_sizes` add up
and `PartitionHolds` that the groups cut at these places hold every identifier once, in
order. The inductive invariant keeps of the row of leaves (`RowOK`) that it is in order,
holds what is wanted, and that each leaf outside `touched` is the original one, with the
origins of each leaf; `NothingLost` alone does not say where an untouched leaf comes
from, and a merge next to it could not be shown to leave it alone.

### RootSelectionProofs

`RecoveryFindsNewest`, `EnumerationIsSelection`, `InterruptionsKeepRoot` and
`NothingPublishedIsLost`, for files of any length, all identities and all limits, from
`LimitsAssumption`. `WalkEnds` shows that the loop returns within its `MaxDepth + 1` turns.
`OkIsIntact` and `IntactIsOk` show that a walk succeeds exactly from the intact snapshots,
by induction over the turns. The loop of the enumeration is another one; `TurnsInStep` and
`WalksInStep` show by induction that both are at the same candidate after every turn, that
the set of one holds what the sequence of the other does, and that the depth of one is one
more than the length of the other until they return together (`ChainsAgree`).

With these the first two theorems hold of every file of the right type, and so does the
third: a truncated candidate at the end of any file, forked or damaged, makes no place
intact that was not and takes none away (`IntactAlike`). `NothingPublishedIsLost` is about
how a file comes to be and needs an inductive invariant, `OneLine`: without faults no
identity occurs twice, and as far as the depth limit lets recovery see, every finished
candidate has the last one finished before it as its parent. Unfinished candidates may lie
anywhere between them.

### SequentialStreamProofs

`StreamIsMemoryFile`, `CommitsAreGenuine`, `ReadersAlwaysAgree` and `SalvageAlwaysExact`,
for all identifiers, payloads and manifests, all limits and chunk sizes, sinks that fail
anywhere, every harm to a file, and all the files of another writer described above, from
`StreamAssumption`. Of it these parts matter: a manifest has finitely many roots; the
records of a foreign file are `Lawful` and `Distinct`; and `Generous` limits let
what any writer of the model may write through (`Fits`), with chunks that are not empty:
without the last, "an unharmed file is read" would be false, and so would the agreement
of readers that count different things against one limit.

`Laid(records, n)` is what the first n records put into a file. `LaidRecord` says where
each of them lies, `LaidIsUnique` that two lists of records that put down the same
units are the same list; this is what makes a digest name the records. The writer's
invariant `WriterInv`: while it is open, the sink, the running digest and the entries
are those of the accepted records and of nothing else; after a failure nothing is
claimed, since the writer can then only end. The reader's invariant `CommitInv` adds
that a footer in the file, however harmed the file is, carries the digest of the
records it was written for (`Content`: the accepted ones, or those of the foreign file;
`Signed`), and that what the reader hashed is the records it has
shown, the last of which may be incomplete (`Opened`). For the second half of
`CommitIsGenuine`, `IntactRead` says where the reader of an `Intact` file is whose
records are regular (`Regular`: no directory, and every manifest decodes): `Between` two
records, `Within` one, or `Behind` the directory, with the inventory and the manifests
it must have by then; each step is shown to pass its checks, and the footer's can fail
only for a manifest or a root that does not exist (`FooterGood`).

`ReadersAlwaysAgree` splits on `Intact`: the file ends with a footer, and before it lies
what the footer's digest was computed from. A file that is not is refused by all
readers, however it was harmed: the two that have it at hand compare the digest of all
that is before the footer (`HarmedIsRefused`), and `HashKept` says that the one-pass
reader, which hashes as it goes, has hashed the same units by then. This is why no
proof has to follow a lost or changed unit through a scan. Of an intact file all records
are known to lie where `LaidRecord` puts them, so the scan finds them (`ScanRecords`:
`Lie` implies `Finds`) and the inventory read through the directory is the same one.
`Validate` accepts it exactly when its records are objects, its footer names a manifest
that decodes, and the roots exist (`IntactValidate`); `Parse` does not ask for objects,
and asks for no required capability (`IntactParse`). For the one-pass reader there are two
cases: a regular file is read to its Commit exactly when `FooterGood` (`IntactRead`), and
of a file that is not regular it never comes to one, since its events show only records
that passed its own checks (`Shown`, `CommitIsRegular`). `IntactListed` says the same of
the directory, in whose terms `ReadersAgree` is stated.

`SalvageAlwaysExact` is about files without a footer, or with an end that is missing.
`ShapeKept` says what a failed call leaves in the sink: the records before it, and a part
of its own record or of the directory, perhaps with the first bytes of the next fixed
structure (`Laying`); `LayingShorter` that a cut of such a sink is again of this shape.
The last entry of the writer may be of a record that is not complete, which
`WriterInv` does not speak of. `SalvageOfShape` then shows that the scan finds the whole
records and stops where the part of one begins.

TLC checks these invariants (`IInv`, `WriterInv`, `CommitInv`, `GenuineInv`,
`AgreeInv`, `ShownInv`, `SalvageInv`) as well,
on the instances of the runs.

### Only model-checked

- The liveness properties: fairness is out of the prover's reach.
- The properties of whole trees and files in `TreeUpdate`, `PagedHistory` and
  `TreeHistory`: they are about RECURSIVE operators, in whose modules the prover has no
  arithmetic, and need induction over trees. `CanonicalGroupsProofs` has the part of them
  that does not.

## Findings

1. `publish_no_replace` returns an error, and the attempt is aborted, when a metadata
   call fails after a `hard_link` that took effect; the documentation promises an
   indeterminate outcome with the private state retained.
2. `plan_next_delay` shifts the base delay with `checked_shl`, which drops high bits:
   the delay of late retries is 0 instead of the cap.
3. `StreamingWriter::finish` checks that the selected record is a manifest, not that
   its roots were written; it publishes files that no reader accepts.

Noted while modelling, without a run of their own:

- `abort_private` called again after a failed directory sync succeeds through
  `NotFound` without any sync; `CleanupIsDurable` is about aborts at the first try.
- `plan_mixed_leaf_updates` borrows one identifier per leaf; a batch that takes
  several out of one leaf is refused as `InvalidPage` although a repair exists.
- A malformed manifest that the footer does not name makes `SequentialReader` refuse the
  file (`stream.rs:310-316`), while `ValidatedFile::parse` and `SourceValidator` look only
  at the one it names and accept it (`reader.rs:98-108`, `source.rs:220-240`).
  `ReadersAgree` states the difference.
- `ValidatedFile::parse` accepts a directory record among the objects if the last
  directory lists it (`reader.rs:274`, `reader.rs:345`); the framing proposal has exactly
  one directory, the last record, and the other readers refuse the file. `ReadersAgree`
  states this difference, too.
- `enumerate_previous_chain` of EXP-0002 validates each child again under the default
  limits (`current_parent_digest`, `exp0002_recovery.rs:161-173`), so that a caller's
  larger limits do not reach the files they are meant for.

## Plan

Done: staged publication, versioned copy, conditional client, mixed leaves, root
selection, tree writers, sequential core; then the files of both experimental formats
with their readers, rewrites, streamed outputs, tails and planners.

Next, in this order:

1. Proofs: the type invariant of `TreeUpdate` once its descent is written without
   RECURSIVE operators.
2. `DirectoryPinning` around `StagedPublication`, with directories that are replaced
   between two calls; the stages of `publication.rs`.
3. `mixed_tree_plan.rs` and `mixed_reference_plan.rs` above `MixedLeafPlan`.
4. The object graph of `compaction.rs` and `repair.rs`; the synchronous conditional
   client and the S3 adapter.

## Not modelled

- Byte encodings (CBOR, framing, page layouts): the repository's vectors and fuzz
  targets cover them, a model would restate them.
- The S3 adapter maps one provider's headers onto the modelled client. The synchronous
  conditional client differs from the modelled one in having no awaits to cancel.
- Publication stages, repair and compaction graphs, the mixed tree plan, directory
  pinning: in the plan.
- The in-memory prototypes of the EXP-0002 directory: the codecs that followed them are
  modelled.
- The command line and the inspection helpers keep no state.

Every part is listed as a component with its status in `PROJECT.json`.
