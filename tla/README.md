# A TLA+ development of Snacktacular's on-device store

The repository holds the `Pods/` directory of the iOS app *Snacktacular*: the
third-party libraries the app is built from. There is no source of the app
itself. Most pods are closed frameworks of which only headers are present, and
of those with source most are codecs, cryptography, user interface or build
input. The part with a logic of its own that every Firebase feature of the app
rests on is **`src/leveldb-library`**, the log-structured key-value store behind
Firestore's and the Realtime Database's local cache. It is concurrent (client
threads and one background thread share one mutex), it writes logs and tables
that have to survive a crash in any order of events, and it has background
errors that must stop the right things and nothing else. This development is
about leveldb.

## 1. Inventory

### 1.1 leveldb

| Component | State | Operations | Interacts with |
|---|---|---|---|
| `db/db_impl.cc` DBImpl | `mutex_`, `bg_cv_`, `writers_`, `mem_`, `imm_`, `log_`, `logfile_number_`, `manual_compaction_`, `bg_error_`, `bg_compaction_scheduled_`, `shutting_down_`, `pending_outputs_`, `snapshots_` | `Write`, `Get`, snapshots, `CompactRange`, `TEST_Compact*`, `BackgroundCall`, `~DBImpl` | everything below |
| `db/version_set.cc` VersionSet, Version | current version (files per level), `log_number_`, `last_sequence_`, `next_file_number_`, `compact_pointer_`, the MANIFEST | `LogAndApply`, `Recover`, `PickCompaction`, `CompactRange`, `Version::Get` | DBImpl (under `mutex_`, which `LogAndApply` releases while it writes) |
| recovery: `DB::Open`, `DBImpl::Recover`, `SetCurrentFile`, `DeleteObsoleteFiles`, `repair.cc` | the files of the database directory | replay of the MANIFEST and of the logs not older than `log_number_` | VersionSet, log format |
| `db/log_writer.cc`, `db/log_reader.cc` | `block_offset_` of the writer; buffer, resync state of the reader | `AddRecord`, `ReadRecord` | DBImpl, VersionSet (MANIFEST) |
| `db/memtable.cc`, `db/skiplist.h` | skip list nodes with atomic next pointers | `Insert` (one writer), lock-free reads | DBImpl |
| `db/db_iter.cc`, `table/merger.cc`, `two_level_iterator.cc` | direction, saved key | `Next`, `Prev`, `Seek*` | Version, memtables, snapshots |
| `util/cache.cc`, `db/table_cache.cc` | hash table, in-use and LRU lists, reference counts | `Insert`, `Lookup`, `Release`, `Erase`, `Prune` | tables, `DeleteObsoleteFiles` |
| `table/*`, `util/bloom.cc`, `db/builder.cc` | bytes of a table file | build and read blocks and filters | sequential code |
| `util/env_posix.cc`, `port/` | background queue and thread, files, locks | `Schedule`, `BGThread`, file I/O | the operating system |

**What is hard in it.** `Write` releases `mutex_` for the log and for the
memtable and relies on the head of a queue of condition variables to exclude
other loggers. `MakeRoomForWrite` sleeps on `bg_cv_`, and the background thread,
which must not be forgotten on any of its paths, is the only one who signals
it. `CompactMemTable` runs from two places, one of them inside a compaction.
`LogAndApply` releases `mutex_` in the middle of a state change. A failed sync, a
failed append, a failed table and a failed MANIFEST record have different
consequences. A log may be deleted only when all of it is in installed tables.
Compactions may drop an entry only when no snapshot and no deeper level needs it.

**What makes each component correct.**
DBImpl: one logger at a time; batches are atomic for readers; what is visible
stays; acknowledged writes are recoverable, synced ones durable; errors stop
writes; every call returns; the destructor returns.
VersionSet and compaction: files of a level below 0 do not overlap; a newer
entry of a key is never in a deeper level than an older one; reads at a live
snapshot do not change when a compaction is installed.
Recovery: whatever the point of the crash, the recovered state holds all that
was durable, and no state that never was; no live file is deleted.
Log format: what was written before a crash is read back up to the first damage,
and nothing else is. Skip list: a reader sees every key inserted before it began.
Cache: an entry lives exactly as long as it is in the cache or a handle is out.

### 1.2 Other pods with source and state

| Component | Hard behaviour | Status |
|---|---|---|
| Bolts `BFTask`, `BFCancellationToken*` | completion against registration of a continuation; cancellation against its timer and against disposal | not begun |
| SDWebImage downloader, cache, manager | callbacks of one URL share one operation, each may be cancelled | not begun |
| GTMSessionFetcherService | per-host running and delayed queues | not begun |
| gRPC-RxLibrary (`GRXConcurrentWriteable`, `GRXBufferedPipe`) | values and the end of a stream reach the writeable in order and once | not begun |
| gRPC-Core, BoringSSL | third-party build inputs, larger than the rest together | not modelled |
| Protobuf, nanopb | codecs without concurrency | not modelled |
| Firebase\*, Google\*, Twitter\* | headers of closed frameworks, resources | not modelled |
| FirebaseUI, FBSDK\*, Bolts app links, GTMOAuth2, GoogleToolboxForMac | user interface, request building, string utilities | not modelled |
| Target Support Files, Pods.xcodeproj, Manifest.lock | generated by CocoaPods | not modelled |

`PROJECT.json` lists the same components with their sources and, under
`hazards`, each thing that can go wrong with its line and the property that
would show it.

## 2. Plan

The order is by what the app would lose first if it were wrong.

| # | Module | Of | Composes / implements | State |
|---|---|---|---|---|
| 1 | `DBImpl` | the threads, the writers queue, `bg_cv_`, memtables, log, errors | | done |
| 2 | `DBImplProofs` | proofs about 1: threads and the writers queue; what is stored and logged | | done |
| 3 | `LSM` | levels, reads, choice of compactions, dropped entries | implements `KVStore` | done |
| 4 | `Recovery` | files of the database directory, `LogAndApply` step by step, `DB::Open` after crashes | implements `DurableStore` | done |
| 5 | `LogFormat` | fragments, block boundaries, torn tails, resynchronisation | | done |
| 6 | `LRUCache`, `TableCache` | reference counts, eviction, obsolete tables | `TableCache` extends `LRUCache` with its clients | done |
| 7 | `TableCacheProofs` | proofs about 6 | | done |
| 8 | `SkipList`, `DBIter` | lock-free readers beside one writer; the iterator of the database | `DBIter` extends `SkipList`, implements `MapIterator` | done |
| 9 | `FiniteOrders`, `LSMProofs` | proofs about 3, its refinement of `KVStore` included, under the conditions of section 4 | | done |
| 10 | `DBIterProofs` | proofs about 8: types, what a search may reach, the order of the list; its refinement of `MapIterator` | | done |
| 11 | `LogFormatProofs` | proofs about 5: where fragments lie, what the reader returns, and what damage costs | | done |
| 12 | `RecoveryProofs`, `RecoveryStore` | proofs about 4: types, tables on disk, a MANIFEST that can be read; its refinement of `DurableStore`; the order of tables | | done |
| 13 | `Merger` | direction changes of the merging and the two-level iterator | would implement the same cursor as `SkipList`'s iterator | open |
| 14 | `Cancellation`, `TaskCompletion` | Bolts | | open |
| 15 | `FetcherQueues`, `SharedDownload` | GTMSessionFetcherService, SDWebImage | | open |

`MCDBImpl`, `MCLSM`, `MCRecovery`, `MCLogFormat`, `MCTableCache` and `MCDBIter` only give
values to constants, and name symmetries. The abstract specifications `KVStore`,
`DurableStore` and `MapIterator` say in a few lines each what a user of
`include/leveldb/` may rely on. Runs are kept to one per question.

## 3. What is modelled

In every module, a definition that stands right before another one with the
same parameters and is used nowhere is a *faulty variant* of it (a dropped
condition, a missing signal, a number off by one). It documents a mistake that
a property excludes; `PROJECT.json` lists the pairs under `mutants`.

### 3.1 `DBImpl.tla`

A step is what one thread does between two points where another can see the
state: a critical section of `mutex_`, or one I/O call with `mutex_` released.
`mutex_` is a variable only for critical sections that the model cuts into several
steps (`MakeRoomForWrite`, `BuildBatchGroup`); a client that holds it there excludes
all others. The fields have their names in the code; the following do not.

| In the model | In the code |
|---|---|
| `pc[t]` | where a client thread is: `idle` outside a call, `queued` in `w.cv.Wait()`, `room` in the loop of `MakeRoomForWrite` with `mutex_`, `sleep` and `roomwait` in its two sleeps, `group` in `BuildBatchGroup`, `append` / `sync` / `insert` in the part of `Write` without `mutex_`, `failed` / `syncfailed` at the end of it, `flushcheck` and `manual` in the wait loops of `TEST_CompactMemTable` and `TEST_CompactRange` |
| `bg.pc` | `off` no call scheduled, `scheduled` in the queue of `Env::Schedule` or just started, `build` in `BuildTable`, `applymem` and `applytable` in `LogAndApply`, `work` in the loop of `DoCompactionWork`, `crashed` after a NULL dereference |
| `cv_waiting`, `bg_cv_waiting` | the threads asleep on `Writer::cv` and on `bg_cv_`; a signal takes them out |
| `wal`, `synced`, `torn` | which records recovery would read back, which are on stable storage, whether `log_` may disagree with the file about block boundaries |
| `flushed`, `l0` | contents of the tables of the current version; `NumLevelFiles(0)` |
| `acked`, `ackedSync`, `batches`, `goal` | history only: no guard reads them |

Entries are their sequence numbers, because the properties only ask which entry
is where. Sizes are numbers of operations. The choice of compaction inputs is a
free choice of how many level-0 files go. `Failures` says which I/O
calls may fail; each of them may then fail at any time, any number of times.

Details of the code that are easy to get wrong in a model, and are in it: the
leader publishes `last_sequence_` also when its write failed; a failed append is
not recorded in `bg_error_` while a failed sync is; `CompactMemTable` runs inside
`DoCompactionWork` (`CompactImmFirst`), which does not look at `bg_error_`, and so a
second error may be met after the first; the edit of `CompactMemTable` takes
`logfile_number_` before `LogAndApply` releases `mutex_`; a NULL batch may join a
group; `RecordBackgroundError` wakes sleepers; `ManualReturn` withdraws only its own
request; `DeleteObsoleteFiles` does nothing after an error.

### 3.2 `LSM.tla` and `KVStore.tla`

`LSM` leaves threads and errors to `DBImpl` and models where the entries are. The
background thread is the only one that changes `levels`. `StartWork` settles what
a compaction keeps and how it is cut, because `DoCompactionWork` fixes
`smallest_snapshot` and its inputs at its start; writes, reads, snapshots and one
memtable compaction come between it and `InstallCompactionResults`.
`GetOverlappingInputs`' restarts are modelled by the least closed range they reach.
The file an automatic compaction starts from (level scores, `compact_pointer_`,
`file_to_compact_` of seeks) is a free choice among all files, which
includes what the code would pick. `Cuts` are the places where an output may end:
at `max_file_size`, and where `ShouldStopBefore` allows for grandparents.

`KVStore` is a map from keys to values with snapshots. The refinement sends a key
of `LSM` to what `Get` returns for it, and flushes and compactions to stutters.

### 3.3 `Recovery.tla` and `DurableStore.tla`

`DBImpl` says in each state what recovery would have to find; `Recovery` has the
recovery. A file is the sequence of its records, of which a prefix, `synced[f]`, is on stable
storage. A write is one step here (`Put`); the background thread takes a step for each
file it creates, writes or syncs, and `LogAndApply` is cut at each of its calls
(`ApplyAppend`, `ApplySync`, `SetCurrentFile`, then one of the three installations,
by who called it). `DB::Open` goes through `NewDB`, `OpenManifest`, one `RecoverLogFile` for each log,
`NewLog` or `ReuseLog`, and its own `LogAndApply`.

Between any two steps the process may crash (memory is lost, files are not), the
machine may crash (each file keeps a prefix that contains what was synced, and the last
changes of names may be undone), or the call under way may fail. A failed MANIFEST
append or sync may have left its record in the file, and `CompactMemTable`, called again by
the loop of `DoCompactionWork`, may write it a second time. `DeleteObsoleteFiles` is part of
the steps after which the code calls it.

Assumed of the file system: names are created, renamed and unlinked in the order
of the calls, and `fdatasync` of any file also commits the names before it, as the
journal of ext3/ext4 does. `SyncDirIfManifest` is the code's own answer to systems that
need more. All keys overlap, so that a compaction takes all tables: which tables
go and what is dropped is `LSM`'s subject.

The refinement maps the `store` of `DurableStore` to memtables and tables while the
database is open and to what opening it *would* yield (`Recoverable`, a function of the
directory) while it is not. Every step of opening, and every flush and compaction,
has to be a stutter: opening neither loses nor invents anything, however often
it is interrupted.

### 3.4 `LogFormat.tla`

`Writer::AddRecord` writes fragments one at a time, so that a crash or a failed append may come
between them. A fragment is where it starts, its length, its type, which part of
which record it is, and whether its header or payload has been damaged or cut off.
The reader is the code's: `ReadPhysicalRecord` over a buffer of a block, the
resynchronisation, the reports. Where no intact header starts (a damaged length, an
initial offset in the middle of a fragment), what the reader parses is arbitrary: any
length, and a checksum that does not match. Events are crashes (a file cut at any
byte), a `Writer` made anew on a file of any length (`reuse_logs`), failed appends and damage.

### 3.5 `LRUCache.tla` and `TableCache.tla`

Handles are pieces of memory which are handed out again after they are freed, so that a dangling
handle shows up as one that refers to another entry. `LRUCache` has one shard's operations;
each runs under the shard's `mutex_`, so each is one step. `TableCache` has the clients: a reader
takes a `Version`, looks a table up (`Find`), or misses and opens it with no lock held, while others
may miss the same one (`Miss`, `Open`), and releases it. Meanwhile compactions take
files out of the current version, `DeleteObsoleteFiles` evicts and deletes those that
no version holds, and `Table::BlockReader` uses another shard the same way for blocks
(`caches` says which of the two), where entries have sizes, capacity 0 means that nothing is
cached, and the owner may prune.

### 3.6 `SkipList.tla`, `DBIter.tla` and `MapIterator.tla`

`SkipList` states what memory has to do: the stores of the writer form one sequence, and
the reader has a *view*, a prefix of it that it is certain of. A load may return the latest
value in the view or anything stored since; an acquire load which returns the value of a release
store moves the view up to that store. Memory nobody has stored to holds garbage. `Insert` is
a step for each store, a search is a step for each load. Readers do not affect
each other, so there is one.

`DBIter` puts `DBImpl`'s use of it on top: a writer adds entries and publishes their sequence
numbers with the mutex; a reader takes a snapshot with the mutex and makes an iterator, which seeks,
moves forward and back, and skips what is too new, deleted or hidden. An internal key
is a number which orders user keys up and sequence numbers down. `MapIterator` is an
iterator over a fixed map; the refinement maps its position to that of `DBIter` between
operations, and a whole operation, with the writes beside it, to one step.

## 4. Runs

Counts are of distinct states. Every disjunct of `Next` fires in the passing runs of
each module together.

| Run | Asks | Bounds, and why they are enough |
|---|---|---|
| `write` (372 000) | Are batches atomic, acknowledged writes recoverable, sync writes durable, is there one logger, does a memtable that is being flushed stay as it is? | Three threads: a leader, a member of its group, and one left behind to lead next. Four calls of sync batches of 1 and plain batches of 2: groups form and are refused for size and for sync, a batch is half inserted, a memtable fills and switches twice. Threads are interchangeable; no property is a liveness one |
| `errors` (226 000) | What do failures leave, if every I/O call may fail, the log append too? Does every call still return? | Two threads and three calls: a write after a failed one, a switch after it, an error inside a compaction that flushes, and `imm_` met twice within one compaction |
| `background` (168 000) | Is a wake-up or a piece of work ever lost? Does every call of every kind return, and the destructor? | Writes, flushes and manual compactions of up to two parts; write buffer 0, so that every second write switches; level-0 stop at 2, so that writers wait for both reasons. Three calls of two threads are enough for two manual requests and a writer to meet |
| `lsm_snapshots` (69 000) | Are reads right, now and at the snapshot, through every compaction? Are newer entries always above older ones? Is the store a map to its readers? | Three writes with deletions over four levels: a version above and below a snapshot, a deletion above what it hides, memtables that go to levels 0, 1 and 2, and flushes within a compaction. Two memtables never overlap in level 0 here: that a compaction takes all the tables its growing range leads to is left to the proof of `NewerAbove` |
| `recovery` (2 120 000) | Does the database open after faults at any steps, and hold what it must? Are the tables on disk that someone reads, and in the order of their writes? | Two writes and two faults: a crash of recovery after a crash of the database, a failed call and then a crash, a machine crash after a process crash. Twelve file numbers suffice for two reopenings with a flush and a compaction each |
| `log_format` (1 522 000) | What does a reader make of a log after crashes, failed appends, reopenings and damage? | Blocks of 18 bytes (headers have 7). Records of 0, 4, 5 and 26 bytes: they leave 7 or 6 bytes of a block (the two sides of the trailer's boundary), an empty fragment at its end, or span three blocks. Two records, two events, initial offsets in every kind of place |
| `table_cache` (1 082 000) | Does an entry live exactly as long as someone refers to it? Is a deleted table ever left open? | Three readers of three keys: two that miss the same one and a third that evicts. Six handles: three that are held and three that were released since the last `Insert` are the most that can be allocated, so memory never runs out. Readers are interchangeable; memory is handed out lowest first, since pieces of free memory do not differ |
| `iterator` (746 000) | What can a reader see of a list that is being written, and what does an iterator make of it? | Three entries of two user keys with puts and deletions, two levels: an entry between, before and after those the iterator has seen, inserted at each point of its search |
| `manual_withdrawn`, `lsm_boundary`, `new_db`, `repeated_flush` | violations, see 6 | the smallest that show them |

Bounds in guards: `MaxCalls` (calls made), `MaxKeys` (loop iterations of a
compaction that look at `imm_`), `MaxParts` (compactions of one manual range),
`MaxWrites`, `MaxFile` (file numbers: a step that would take one waits when none is left), `MaxFaults` (crashes and failed calls), `MaxRecords`
and `MaxEvents` (of a log). A behaviour that has used up `MaxCalls` is one whose clients call
nothing any more, which the code allows, so no bound stops work that is under way.

**Deadlock** is checked for `DBImpl` and `DBIter`. `LSM`, `Recovery` and `LogFormat` describe a
bounded history of a store, a directory and a file, which ends when the writes, the
faults or the file do; `TableCache` ends when every table is deleted.

**Why some properties are checked under some constants only.** Each is false otherwise, and
section 6 says why.

| Property | Condition | Where |
|---|---|---|
| `AckedRecoverable`, `SyncDurable` | no log append fails | `write` |
| `ManualRequestAlive`, `CallsReturn` of manual compactions | no background error is recorded | `background`, whose one failure is that of `NewWritableFile` for a log, which is returned and not recorded; the first is proved |
| `NewerAbove` | no two files of a sorted level share a user key (`KeysApart` of `LSMProofs`): so it is if there are no snapshots | `lsm_snapshots`, whose outputs are never cut; proved |
| `NoOverlap` | no manual range leaves a gap wide enough for a memtable: so it is if `ManualLevels` is empty | `lsm_snapshots`, which has too few keys for one; proved for no manual compactions |
| `ReadsRight`, `ReadsLikeAMap` | both of these conditions | `lsm_snapshots`, proved |
| `Openable` | no machine crash before the first MANIFEST is on disk (`CrashWhenNew`) | `recovery`, proved |
| `Openable`, `RecoversWhatWasWritten` | `reuse_logs` is set from the second fault on only (`ReuseFrom`) | `recovery`: one reopening that reuses a log and its MANIFEST; both proved for `ReuseFrom` not below `MaxFaults` |
| `ReadsEverything` | the log was not reopened, damaged, or left by a failed append | `log_format`, proved |
| `DamageIsLocal`, `LossIsReported` | no append failed; for the second, also no crash | `log_format`, proved |

## 5. Fairness

`DBImpl!FairSpec` has weak fairness for each client inside a call, for the background
thread and for the destructor's loop: each is a thread that the operating system
runs when it can run. Nothing says that a call is ever made, that the destructor
is called, that an I/O call succeeds, or that one of the ways a step can go is
taken. Weak fairness is enough although threads compete for `mutex_`:
the calls of a behaviour are bounded, so a competitor takes it finitely often
before it sleeps or returns, and sleepers do not take it. Unbounded callers could
starve a thread on an unfair mutex; the code promises nothing about that.

`DBIter!FairSpec` has weak fairness of `Iterate`: the reader's thread runs while an operation is
under way. It waits for nobody, so this is all it needs; the writer may stop
anywhere, in the middle of an `Insert` too. That an operation ends says that searches
do not go round in circles among half-linked nodes and that an iterator makes progress past
what it skips. With unboundedly many writes one could keep a search busy for ever by
inserting ahead of it; `MaxWrites` excludes that.

## 6. Findings

Four are runs whose one property TLC violates.

- `manual_withdrawn`: `TEST_CompactRange` returns at a background error and clears
  `manual_compaction_`, also when the background thread is inside that very
  compaction (`CompactMemTable` within `DoCompactionWork` records an error and
  signals). `BackgroundCompaction` then dereferences NULL.
- `lsm_boundary`: two versions of a user key, kept apart by a snapshot, can be split
  over two files of one level. A later compaction takes the file with the newer one
  only, and moves it below the older one: a read finds the older version.
- `new_db`: `NewDB` does not sync the MANIFEST that `CURRENT` then names. If the
  machine crashes before the first `LogAndApply` is through, `CURRENT` may name an empty file, and
  the database can neither be opened nor created.
- `repeated_flush`: the flush inside `DoCompactionWork` fails after its record, with the table and the new log
  number, is in the MANIFEST. The compaction goes on, and its own record puts the old log number back. The
  machine crashes, which cuts the old log, since it was never synced, and `DB::Open` reads what is left of it
  into a second table. That one has the greater number and only a part of the writes, so `Version::Get`, which looks into
  it first, finds an old value where the first table has a newer one; an iterator, or a
  `Get` after a compaction, finds the newer one. The run's constraint keeps to behaviours whose
  first fault is a background error, to stay small.

Further disagreements were met on the way. No run is spent on them; those about
`DBImpl` and `LSM` are why some properties need the conditions of section 4.

- *A forced flush may be absorbed* (`db_impl.cc:1291`). `db_impl.h:50` says of
  `TEST_CompactMemTable` "Force current memtable contents to be compacted". Its NULL batch may join the
  group of another writer (`BuildBatchGroup` skips batches, not writers), the leader
  sets its status to OK, and nobody has forced a memtable switch.
- *A torn log* (`db_impl.cc:1224`). After a failed append `bg_error_` stays clear and
  `Writer::block_offset_` may disagree with the file; a later sync write goes behind the
  damage, is acknowledged, and the reader may drop it.
- *A gap* (`version_set.cc:502`, `:765`). A manual compaction takes files of a level with a gap
  between them; a memtable flushed meanwhile is placed into that gap of the output level by
  `PickLevelForMemTableOutput`, and the output then overlaps it.
- *Reuse of an unsynced MANIFEST* (with `ReuseFrom = 1`). A process crash leaves a MANIFEST with an
  edit that was appended and never synced. `Recover` reads and reuses it, and `DeleteObsoleteFiles`
  takes its word: if it is a flush's, the old log is deleted, if it is a compaction's, the tables that went into it. A
  machine crash then takes the edit away: with the one a synced write is lost, with the other the database
  can no longer be opened (`Openable` is violated).
- *Reuse of a torn log.* With `reuse_logs`, records are appended behind a torn header or
  record; the reader takes it and the rest of its block for a truncated tail, without a report.
- *Reports of an offset reader.* With `initial_offset > 0` a drop that begins before the offset is not
  reported, and the first read after a skipped fragment may report a drop that is none;
  so `ReadsEverything` and `LossIsReported` speak of reports for offset 0 only.

## 7. Proofs

All theorems are for every value of the constants that satisfies the modules'
assumptions. About `DBImpl!Spec`: any number of threads, any requests, any
failures, any triggers with compaction not later than stop. About `TableCache!Spec`:
any finite set of readers, any keys and handles, any sizes and capacities (the table cache's positive).
About `LogFormat!Spec`: any
block longer than a header, any sizes of records, any initial offsets, any number of events.
About `LSM!Spec`: any keys in `Nat`, any number of levels and writes, any limits on sizes.
About `Recovery!Spec`: any numbers of files, writes and faults.
About `DBIter!Spec`: any keys, any `MaxHeight`, any number of writes, where `KeysAssumption` says
that `Keys` has an internal key for each user key and sequence number in use, and `NoneAssumption` that
`None` is no number and no pair of numbers.

| Module | Theorem | Says |
|---|---|---|
| `DBImplProofs` | `TypeCorrect` | `[]TypeOK` |
| | `OneLoggerAtATime` | `[]OneLogger` |
| | `NoLostWakeup` | `[]EveryoneIsWoken` |
| | `RequestKept` | `[]ManualRequestAlive`, as long as no background error is recorded |
| | `ReadsAreAtomic` | `[]BatchAtomic` |
| | `SequencesUsedOnce` | `[]SequencesDisjoint` |
| | `ReadsAreStable` | `SnapshotStable` |
| | `FailedSyncStopsWrites` | `FailStop` |
| | `ImmIsFrozen` | `ImmFrozen` |
| | `AckedIsRecoverable` | `[]AckedRecoverable`, if the log append does not fail |
| | `SyncIsDurable` | `[]SyncDurable`, if the log append does not fail |
| `TableCacheProofs` | `HandlesStayAlive` | `[]HandlesAlive` |
| | `ReferencesAreCounted` | `[]ReferencesCounted` |
| | `DeletedFilesStayClosed` | `[]DeletedFilesAreClosed` |
| | `TypeCorrect` | `[]TypeOK` |
| | `StructuresAgree` | `[]ListsAgree` |
| | `GrowthIsBounded` | `GrowsWithinCapacity` |
| `LSMProofs` | `TypeCorrect` | `[]TypeOK` |
| | `KeysStayApart` | `[]KeysApart`, if there are no snapshots |
| | `NewerStaysAbove` | `[]NewerAbove`, as long as `KeysApart` holds |
| | `NewerStaysAboveWithoutSnapshots` | `[]NewerAbove`, if there are no snapshots |
| | `FilesDoNotOverlap` | `[]NoOverlap`, if there are no manual compactions |
| | `ReadsAreRight` | `[]ReadsRight`, as long as `KeysApart` and `NoOverlap` hold |
| | `StoreIsAMap` | `ReadsLikeAMap` (the refinement of `KVStore`), as long as both hold |
| | `ReadsAreRightWithoutSnapshots`, `StoreIsAMapWithoutSnapshots` | the same two, if there are neither snapshots nor manual compactions |
| `DBIterProofs` | `ReachesOnlyInitialised` | `[]ReachesInitialised` |
| | `TypeCorrect` | `[]TypeOK` |
| | `IteratesOverTheSnapshot` | `MovesOverTheSnapshot` (the refinement of `MapIterator`) |
| `LogFormatProofs` | `FragmentsFitInBlocks` | `[]FitsInBlock` |
| | `OnlyWholeRecords` | `[]ReturnsWholeRecords` |
| | `TypeCorrect` | `[]TypeOK` |
| | `EverythingIsRead` | `[]ReadsEverything` |
| | `DamageStaysLocal` | `[]DamageIsLocal` |
| | `LossesAreReported` | `[]LossIsReported` |
| `RecoveryProofs` | `TypeCorrect` | `[]TypeOK` |
| | `TablesStay` | `[]TablesOnDisk`, if `reuse_logs` is not set while a fault may come, and no machine crash comes before the first MANIFEST is on disk |
| | `AlwaysOpens` | `[]Openable`, under the same two conditions |
| `RecoveryStore` | `NothingIsLost` | `RecoversWhatWasWritten` (the refinement of `DurableStore`), under the same two conditions |
| | `TablesComeInOrder` | `[]TablesInOrder`, under the same two conditions |

**DBImpl.** The argument is layered; each invariant uses those before it.

1. `TypeInv`. `TypeOK` is not inductive alone: `l0 - bg.inputs` is a natural number
   only because a compaction's inputs are among the level-0 files, which holds
   while flushes only add files and no other compaction runs.
2. `QueueInv`. `OneLogger` survives the release of `mutex_` because a writer that
   leads is the head of a queue without repetitions, because only the leader pops,
   and because a group's members stay where they are while others join at the tail.
   The invariant says for each `pc` whether the thread is in the queue, at its head, or
   holds `mutex_`.
3. `StoreInv`. Numbers handed out are exactly those up to `last_sequence_` plus those of
   the one group in progress; every stored, logged or acknowledged number is among
   them; of the group in progress, exactly the first `inserted` are in `mem_`. From
   this an unpublished batch is wholly invisible and a published one never changes:
   `BatchAtomic`, `SequencesDisjoint`, `SnapshotStable`. `FailStop` also needs that
   nobody is past `MakeRoomForWrite` when `bg_error_` becomes `sync`, which is
   `OneLogger` again.
4. `LogInv` and `SyncInv`. What recovery reads must cover memtables: entries of `mem_` are
   in the current log, those of `imm_` in logs from `log_number_` up, and the number that
   the pending edit captured is that of the log that `mem_` writes to, because no second
   switch can happen while `has_imm_`. A log is then deleted only when `flushed` has its
   entries.

**TableCache.** One invariant, `Inv`: the types; `TableAgrees` (the cached entries are those of
the hash table, each under its own key); `ListUnused` (an entry of the LRU list is cached, has
one reference, and is there once); `ReadersProtected` (who holds an entry wants its key, who
wants a key has it in the `Version` it holds, and files of a `Version` are on disk); and the three
properties. None of them is inductive alone. An entry that is evicted or pruned comes from
the LRU list, so its only reference is the cache's; because `refs` counts holders exactly (a
cardinality), it has none, and freeing it disturbs no handle. An entry that is replaced
or erased may be held: it only loses the cache's reference, and its memory stays until the count
says that nobody is left. A file is deleted only if no `Version` has it; a holder of an entry for
it would have it in its `Version`, so after `Evict` no entry for it is left, and nobody who could
insert one is on its way.

A second invariant, `ListInv`, on top of `Inv`: a cached entry with one reference is in the LRU
list, `in_use_` has the other cached ones, there are finitely many of them, and `usage_` is the
sum of their charges. It needs `Inv` (who is cached is in the table under its key, the list has no
entry twice) and gives `StructuresAgree`. For `GrowthIsBounded`: `Insert`
evicts from the list until `usage_` fits or the list is empty, and with an empty list each cached
entry has a second reference, which by `ReferencesCounted` is a client's.

**Wake-ups and requests.** `WakeInv` says that the destructor runs alone, that a thread asleep
in the queue is behind its head and not done, and that work for the background thread is
scheduled and sleepers on `bg_cv_` have a call under way that will signal. It needs `QueueInv`: the
signal a writer waits for is given by the head, and the head never sleeps. `RequestKept` adds
`RequestOpen` (a registered request is not done) and `RequestHeld` (while a manual compaction is under
way without an error, its request is registered): `TEST_CompactRange` leaves its loop only when
its request is done, shut down, or failed, and the first two do not happen inside a compaction.

**LSM.** Five invariants, each on top of those before it.

1. `TypeInv`: besides the types, the inputs of the compaction under way are still where they
   were found (a memtable compaction in between only adds files), and outputs hold entries of inputs.
2. `OrderInv`, for `NewerAbove`, while `KeysApart` holds. `NewerAbove` speaks of the version only; the
   invariant also says that memtables are newer than tables (`MemNewest`), that level-0 files hold disjoint
   intervals of numbers (`Stacked0`), and, of the compaction under way, that what has stayed in its level
   is above what it took (`CompOrder`) and that what is in the level it writes to shares no key with it
   (`CompApart`). That the choice of inputs establishes these is the work: `GetOverlappingInputs` takes in level 0 all
   that the range leads to, the files left behind in a sorted level share no key with those taken
   (here `KeysApart` is used), and a flush goes below level 0 only where nothing overlaps it.
3. `OutputsApart`, for `KeysApart` without snapshots: all entries of a key but the newest are hidden, so a cut never
   comes between two of them.
4. `RangesInv`, for `NoOverlap`. A memtable may become a table of the level that a compaction is
   writing to. Its range overlaps no file of the levels on its way, in particular no input, and the inputs of a compaction that
   was started from a file are `Solid`: a range that meets none of them lies on one side of all.
   So the new table is on one side of all outputs too (`CompSides`). The inputs of a manual range need not be solid,
   and TLC finds the overlap.
5. `DataInv`. `Retained`: the newest entry of a key at a live sequence number is still in a memtable or a
   table, or it is a deletion and no older entry of the key is left. `DropsRight`: what the compaction
   under way has read and will not write is hidden by an entry no newer than the `smallest_snapshot` of its
   start, or is a deletion with nothing below or in the outputs left to hide; both stay true while memtables are flushed
   and snapshots come (with later numbers) and go.

An iterator takes the newest of all entries it sees, so `Retained` is all it needs. A `Get` stops at the first
place that has one: `LookupIs` shows from `OrderInv` that this is the newest, and `HitsAre` that the binary
search of a sorted level misses none, from `KeysApart` and `NoOverlap`. In the refinement a write changes
one key, `GetSnapshot` copies the map, and every other step leaves what is written, and so what is read, as it was.

The hypotheses `[]KeysApart` and `[]NoOverlap` are properties of the behaviour, not of constants: they hold in all
behaviours under the conditions of section 4, and outside these the conclusions are false of the code (section 6).

**DBIter.** `ListInv` is about the sequence of stores: every link leads to a node whose key and whose links up to that
level were stored earlier; a link that makes a node reachable is a release store; a node under
insertion has exactly its levels below `inserting.level` linked. `ReaderInv`: the reader's view contains all of this for the
node it stands on, at the level of its search. A load that returns a link store which is a release takes
the view up to it, so the invariant holds for the next node; `max_height_`, which is relaxed, may be newer than the links of the head, which are
then NULL, as initialised.

That the iterator implements `MapIterator` needs to know which nodes a search finds, and what the two loops of `DBIter` have
passed over.

1. `ListOrder`. Of every prefix of the stores, not only of the whole sequence: the link of a node on level 0 leads to the
   next greater key among those that the prefix links there (`NextAt`). A new node is linked by two stores; after
   the first nothing leads to it (`NextLinked`). Links of higher levels lead to nodes that level 0 had before.
2. `ReachInv`. The reader stands on a node of the list as its view has it, and the node its search is at is below
   the target. The entries that were published before the iterator was made are in that list too: the unlock of
   the mutex comes after their links, the iterator's lock after the unlock. So a load on level 0, however stale, leads to the next node
   of some list that has all entries of the snapshot, `Vis`, and a search ends at the right one of them (`FindStepInOrder`).
3. `Ahead` and `Behind` say which entries `iter_` has in front of it and behind it, in the middle of a search as well. A step of a
   search changes neither (`SearchKeeps`), `IterNext` and `IterPrev` take out the entry that they leave.
4. `MapInv` says of each loop what it has to find still. `ForwardFrom(b)`: what `FindNextUserEntry` has passed is below `b`, or
   has a key it skips, and the key it skips is not shown. `BackwardFrom(B)`: `FindPrevUserEntry` has all of the greatest keys of `B`
   behind it, or holds in `saved_value_` the newest value it has passed of `saved_key_`, with no entry of the
   snapshot below that key passed yet. Between operations (`RestInv`) a forward iterator is at a shown entry, and a reverse one has exactly the
   entries of keys below `saved_key_` behind it, which is why `Next` may turn round with one step.

A shown entry is the newest one in `Vis` of its key, and a value (`Shown`); `ShownIs` says that the shown entries are the
map `Snapshot`. At each return of a loop the invariant makes the entry found the least one from `b` on, or the greatest in `B`; `b` and
`B` are what the operation asked for, by the target or by the position it began at. Every other step leaves map and
position as they were, those of the writer because what it adds is newer than the snapshot.

**LogFormat.** `FileInv` holds of every file, whatever has happened to it. `GoodFile`: fragments are in the order of
their writing, an intact one ends before the next begins, and each that is not the first of its record
goes on where its predecessor, which is still in the file, was written to end, up to a trailer. It survives cuts and
damage because both keep a fragment's place, and a cut keeps the predecessors of what it keeps (`GoodWithLess`).
`UnderWay`: the last fragment of the record being written is the end of the file. `ReaderInv` says of the reader that
`scratch` holds the beginning of one record without a gap, that its last fragment is intact and ends less than a header
before `pos`, and that the records returned lie in the file in their order, before what is in `scratch`. The
fragment at `pos`, if it continues a record, has a predecessor that ends in the same place; two intact
fragments cannot, so it is the last of `scratch` (`NothingBetween`). For `FitsInBlock`, `KnowsOffset`: until an append fails,
`block_offset_` is the length of the file less a multiple of the block's. `TypeCorrect` needs one fact
more, `Collected`: what is in `scratch` has no more bytes than were read, so a drop that is reported as
`end_of_buffer_offset_` less its length begins in the file (`Payload` is a fold, see below).

The last three theorems need to know that the reader finds a header wherever it looks for one. For a log that is
written once, and then perhaps cut (`ReadsEverything`), `PlainFile` says that fragments lie end to end, with trailers between them, and
that only the end of the file may be torn; `PlainReader` says that what the reader has passed is returned, or is
being collected. For a file that crashes have cut, Writers have gone on with, and the storage has damaged, `SoundFile` is weaker.
Each fragment begins where another ends, behind its trailer, or in the midst of one that is not all there (`Chained`); a record that is complete, and
the one under way, has all of its bytes, none of them shared (`Unharmed`), and its first fragment is where it starts
(`Dated`). With `Fits`, from the theorem on blocks, this is enough: when the reader drops the rest of a block, the fragment at `pos` is damaged
(`Lookahead`, `DropsDamaged`), so every record that has a fragment in what is dropped has one in that block; and if what was collected is
dropped with it, its next fragment was less than a header away (`NextOfScratch`), so that record has one there too. `SoundReader` keeps account of every
wanted record that the reader has met: returned, being collected, or near a damaged fragment (`Accounted(NearDamage)`), and,
where only payloads are damaged, in a block with a report (`Accounted(Told)`). A failed append is excluded because it is false with one: `block_offset_`
moves on, and a later fragment may cross the end of its block.

**Recovery.** Neither property is inductive: both speak of the tables of now, and a crash of the machine makes an
earlier directory the one that counts. `DiskInv` is about all of them, as long as a crash may still come
(`MayCrash`).

1. `DirsGood`. Take any directory that a crash may bring back and any length to which a crash may cut its MANIFEST, at
   least what was synced of it. Then what that many records yield can be opened (`RecoversAt`): each table it
   names is in that directory, complete and wholly synced, and has a number below the `next` of the last record.
2. `Horizon`, `NamesBelow`, `Fresh`, `Replay`. Numbers of new files are named by no MANIFEST of any of those
   directories: the last record's `next` is above all that the others name, `next_file_number_` is above it from
   `OpenManifest` on, and a table under construction is named nowhere until `LogAndApply` appends it. So writing a new file, and
   a file that an interrupted recovery left under the same number being truncated, disturbs no directory (`Touches`).
3. `Descriptor`, `EditInv`, `NewManifest`. What the MANIFEST yields with the record under way is the
   version that will be installed (`After`); without it, the present one. A new MANIFEST is synced before `CURRENT` names it.
4. `LiveOnDisk`, `LiveBelow`, `CompactionInv`, `FlushInv`. `DeleteObsoleteFiles` spares what the version, pinned
   versions and `pending_outputs_` hold. It makes one more directory, in which everything is that its MANIFEST, synced
   with the record of the version, names; the older ones come back, if they do, with the files that were in them.

`Openable` needs both conditions. Where `reuse_logs` is set after a process crash, `DirsGood` fails when
`DB::Open` deletes tables on the word of a record that is not synced (see 6); without the other, `new_db` has the
counterexample. `TablesOnDisk` has them from the shared invariant; TLC finds no violation of it without them, since a
database that cannot be opened has no reader.

**What a crash leaves.** `NothingIsLost` adds `HeldInv` to the above. `DurableStore` speaks of one set, the writes
that are held: of what the memory says while the database is open, of what the disk says while it is not. The proof
is that the two agree whenever a crash may turn the one into the other.

1. `Promise`. Take any directory that a crash may bring back and any record at which its MANIFEST may end.
   Opening it then finds nothing that was not held (`Most`), and all synced writes even if each log is cut to what was
   synced of it (`Least`): `Keeps`. This gives a crash of the machine; it is about all of them at once
   because crashes can follow each other, with an interrupted recovery in between.
2. `LogsDown`, `LogsBelow`, `NextInv`. A log in any of these directories has a number that is in use, so the new log of
   `SwitchMemTable` or `DB::Open` is read by no record of a MANIFEST as something older.
3. `OpenFinds`. While `DB::Open` runs, tables, memtable and the logs in `todo` make up what was recoverable when it began,
   the tables written by `WriteLevel0Table` before their edit included; logs are read in the order of their numbers, and
   with `reuse_logs` the last one is the memtable. What is read but not recorded is still in its log.
4. `UpLogs`. In an open database the two logs from `log_number_` on hold `mem_` and `imm_` entry for entry (`UpMem`), no
   directory has another log to be read (`UpDir`), and the last record of the MANIFEST, installed or not, covers the tables
   of the version (`UpTop`). A flush's record lets go of the log of `imm_` and names the table with its entries at
   once; a compaction's exchanges tables of the same entries (`TablesMade`). So what readers see is what a crash would
   recover, at each step of `LogAndApply`.

Both conditions are needed here too: with `reuse_logs` after a process crash a synced write is lost (see 6).

**What is newer.** `TablesComeInOrder` adds `OrderInv`. `TablesInOrder` speaks of an open database, and what is open was
found by `DB::Open` in some directory, so the order of what a crash would leave must be known all along.

1. `OrderDirs`. Take any directory that a crash may bring back and any record at which its MANIFEST may end
   (`OrderedAt`). The tables it yields are in order; the logs it reads are newer than they are, and each newer than the one
   before it; and no table has a sequence number above the record's `last`, from which `DB::Open` goes on counting. One
   exception is what the finding `repeated_flush` is about: a log may hold what a table has already. That is never the last log
   (`LogsInOrder`): behind it there is one of a later number. So it becomes a table, which repeats a part of
   another one, and not the memtable, whose entries must be newer than all tables.
2. `OpenOrder`. While `DB::Open` runs, the same is true of the tables of the version with those made so far, and the logs in
   `todo`. A log that is read becomes the table of the greatest number, and what is left is newer. `MaxSequence`, the greatest
   number met, covers all of them, and the edit that will be appended carries it.
3. `UpOrder`. In an open database tables are older than `imm_`, `imm_` than `mem_`, and no number is above
   `last_sequence_`, so a write is newer than everything. The inputs of a compaction are the oldest tables there are
   (`BaseIsOldest`); a flush that ends meanwhile adds newer ones, so the deep output may take the inputs' place.
4. `RecordedOrder`. After an error the MANIFEST may have a record whose edit was not installed, and the next
   record goes behind it. `Recorded` is what it comes to: the version, and perhaps tables that repeat `imm_`. They may repeat
   it only because the log that `mem_` writes to is in every directory by then (`NextLogThere`), which is
   what 1 asks for; the inputs of a compaction are the oldest of `Recorded` too, until its record is in.

The proof has one lemma per action, and two for what a record adds to a MANIFEST (`AppendOrdered`) and for what is left of
it after a crash of the machine (`CrashInOrder`). That a table does not change under the number it has, and that logs which lose
their ends stay in order, comes from `StoreInv`; this is where the two conditions are used.

**Finite sets.** `Max`, `Min`, `First` and `Last` are choices, so each use owes an existence proof.
`FiniteOrders` has it for all finite sets at once: strict inclusion is well founded on the finite
subsets of a set (a fact of the library), so a set of down-sets has a minimal one. The same fact
gives a minimal counterexample (`MinimalSet`), which stands in for induction over finite sets.
Sums of charges and of lengths are folds of the community modules: recursive functions over subsets in
which `CHOOSE` picks what comes next. That such a function exists, that its values are numbers,
and that one element or one part can be taken out of a sum in any order (`SumExists`, `TotalInNat`,
`TotalOne`, `TotalParts`) is proved for sums over any finite set; `TotalChargeIs` and `PayloadIs` say
that the folds are such sums.

**Only model-checked.** Every invariant and action property that a passing run checks, and every refinement, is the subject of a
theorem, some under hypotheses that the table names; where a run goes beyond them (`lsm_snapshots` has snapshots, within
which `KeysApart` may fail), it is TLC that says the property holds, within the run's bounds.
Out of the provers' reach, and so with TLC: liveness under fairness (`CallsReturn`, `CloseReturns`, `OperationsEnd`), anything with
`ENABLED`, and what a `RECURSIVE` operator computes for every input.

## 8. Not modelled, and why

- In `DBImpl`: keys and values; the bytes of files; seek-triggered compactions (they
  schedule the same `BackgroundCall`); `Get` as a step of its own, since it takes its
  snapshot of `mem_`, `imm_`, the version and `last_sequence_` in one critical section and
  reads only what `SnapshotStable` says does not change; crashes as steps, which are `Recovery`'s.
- In `LSM`: `UpdateStats`, level scores and `compact_pointer_` (a free choice instead),
  the splitting of reads over blocks and filters, failed compactions (they leave
  `levels` as it was; the files they leave behind are in `Recovery`).
- In `Recovery`: `RepairDB`, `DestroyDB`, `PrevLogNumber` (always 0 in databases of this version), the
  choice of a compaction's inputs, and torn records of logs and MANIFESTs. Those of logs are
  `LogFormat`'s. A torn MANIFEST append that is followed by a successful one makes `Recover`
  report a corruption, which is not in the model.
- In `LRUCache`: the buckets of the hash table, the choice of the shard, the destructors. With
  capacity 0 the code leaves `next` of an entry uninitialised, so that `key()`, called by
  a deleter, would read it; no deleter of the repository does.
- In `SkipList`: `MemTable::Get` (a `Seek` and a comparison), the reference counts of memtables, and
  the arena, which hands out memory under the writer's exclusion.
- The merging and the two-level iterator, the errors of internal iterators, `RecordReadSample`.
- The table format: blocks, filters and builders are sequential code on bytes. Their one
  protocol, that a table is installed only after `Finish`, `Sync` and `Close`, is in `DBImpl` and `Recovery`.
- The environment is modelled by the outcomes of its calls where they are used.
- The small concurrent components of other pods in 1.2 (Bolts, SDWebImage, GTMSessionFetcher, the Rx library) have not
  been begun: they come after the store in the plan.
- gRPC-Core, BoringSSL and the codecs are third-party inputs of the build of a size
  that would need projects of their own; closed frameworks have no source here.
