# CarinaDB in TLA+

CarinaDB is a key-value store with a vector index: an LSM engine in C++ (write-ahead
log, memtables in an arena, SSTables, a compaction thread, a separate log for
vectors and an HNSW graph) behind a small TCP server and a C API. This directory
models it component by component, checks the models with TLC and proves most of their safety with TLAPS.
Paths below are relative to `carina-engine/include/carina/engine/` unless they name
another directory.

## The system

| component | state | operations | interacts with | what makes it correct |
|---|---|---|---|---|
| `Wal` (`wal/wal.hpp`) | `queue_`, two mutexes, `fd_`, the file | `append` with group commit, `close`, `recover` | called by `MemTable::put`; calls the vLog's `sync` before its own fsync | acknowledged appends are durable and replayed; no request is lost; queue order; every append returns |
| `MemTable`, `Arena` (`memtable/`) | `isImmutable_`, arena offset, one `Wal` | `put`, `freeze`, `getRecord`, `forEach`, `restoreFromWal` | used by writers, queries and the flush | no insert after the flush has read the table; limits of the arena are reported |
| `OffHeapSkipList` | nodes in the arena, `next` offsets changed by CAS | `put`, `getRecord`, `forEach` | many writers and readers, no lock | level 0 sorted, newest version first, upper levels consistent |
| `CarinaEngine`, running (`carina_engine.hpp`) | `activeMemTable_`, `immutableMemTables_`, `ssTables_`, `sstFileIdGenerator_`, four mutexes | `put`, `remove`, `query`, `switchMemTable`, `flushMemTableToDisk`, `backgroundCompaction` | client threads, one detached thread per flush, the compaction thread | a query never misses or goes back; the directory always holds the newest versions; puts return |
| start-up, recovery, `close` | the directory: `.sst`, `wal_*.log`, `vlog-*` names | constructor, `recoverFromOldWals`, `loadSSTables`, `close` | everything above | a restart gives back what was acknowledged, in the right order |
| `SSTableBuilder/Reader/Scanner` (`sstable/`) | blocks, index, footer; lazily loaded caches | `add`, `finish`, `searchBinaryFullRecord`, `next` | flush, query, compaction | a search finds the newest version in the file |
| `Compactor` | heap of scanners | `executeCompaction` | compaction thread | newest version per key survives |
| `BlockCache` | LRU list and map | `get`, `put` | shared by all readers | capacity, and contents that belong to the file |
| vLog (`blob/`) | `currentOffset_`, file | `append`, `sync`, `readVector` | put, and the WAL's sync callback | a durable pointer points at durable floats |
| HNSW (`index/hnsw/`) | graph in memory | `insert`, `search` | put, `searchVector` | links lead to nodes that exist on their layer, lists are bounded, every call ends |
| `BloomFilter` (`carina-common`) | bits | `add`, `mightContain`, `serialize` | SSTable builder and reader | an added key is never denied |
| server (`carina-server/src/main.cpp`) | one thread and one frame per connection | `readFrame`, dispatch, `writeFrame` | clients over TCP, engine | answers match the requests that arrived whole |
| C API, Java glue | none | forward to the engine | engine | |

The hard parts are interleavings (writers against flush, flush against compaction,
flushes against each other), crashes (what is on disk at every step), faults that the code
swallows (fsync, the third attempt of `put`, a failed flush), and the boundaries
of blocks and arenas. `PROJECT.json` lists them as hazards, each at its line.

## Modules

| module | models | role |
|---|---|---|
| `Wal` | one log file: `append`, the leader, `close`, crash, `recover` | the core promise of durability |
| `MCWal` | instances of `Wal` | symmetry of the threads |
| `WalProofs` | theorems about `Wal` | proved by TLAPS for all constants |
| `Engine` | the running engine: writers, flush threads, compaction, queries, the directory | composition of memtables, WALs, files and readers |
| `MCEngine` | instances of `Engine` | symmetry of the writers |
| `EngineProofs` | theorems about `Engine` | proved by TLAPS for all constants, without the faults a theorem names |
| `SSTable` | one file: cutting blocks, the index, the binary search | the pure algorithm behind `query` on a file |
| `SearchProofs` | theorems about `SSTable` and `Hnsw` | proved by TLAPS for all constants |
| `VersionMap` | a map that keeps the versions of its keys, each operation one step | the abstract specification of a memtable |
| `SkipList` | the skip list: single loads and compare-and-swaps of `put`, `getRecord`, `forEach` | implements `VersionMap` |
| `SkipListProofs` | theorems about `SkipList`, with the steps of its refinement | proved by TLAPS for all constants |
| `KVStore` | a map from keys to values, each operation one step | the abstract specification of the engine for its clients |
| `Lifecycle` | the engine from one process to the next: constructor, replay, puts, flushes, compaction, `close`, crashes, all on one directory | implements `KVStore`, with exceptions |
| `LifecycleProofs` | theorems about `Lifecycle` | proved by TLAPS for all constants, without the faults a theorem names |
| `LifecycleStoreProofs` | that `Lifecycle` implements `KVStore`, step by step | the same, on top of `LifecycleProofs` |
| `Merge` | `Compactor::executeCompaction`: scanners and heap | what `Engine` and `Lifecycle` take for granted of a compaction |
| `BlockCache` | the LRU list and map, and the readers of several engines that miss and put | what is cached is what was used last |
| `VectorLog` | a put with a vector: vLog, WAL, `blobSync_`, crash | composes `blob/` with group commit |
| `VectorLogProofs` | theorems about `VectorLog` | proved by TLAPS for all constants |
| `Hnsw` | the loops of insertion and search in the graph, one turn a step; `put`, `remove` and `searchVector` on top | the vector index, one call after the other |
| `Server` | frames over TCP, the loop of a connection, the calls of the service | uses `KVStore` for the engine |
| `Bloom` | the filter: hash, bits, bytes, writing and reading back | the filter that `SSTable` assumes |
| `PartsProofs` | theorems about `Bloom`, `BlockCache`, `Server` and `Merge` | proved by TLAPS for all constants |
| `MCSearch` | `SSTable` and `Hnsw` side by side | one of them moves in each behaviour |
| `MCParts` | the small modules side by side (`SkipList` as an instance, the others extended) | one of them moves in each behaviour |

A definition named `<something>` with the comment "mutant" is not part of any
behaviour: it is a plausible bug of the definition it is a variant of, kept beside it to show that a
property would notice (see `mutants` in `PROJECT.json`).

### Wal

`append` is the locations `poll` (the condition of the while loop), `try` (`try_to_lock`),
`recheck`, and for the leader `drain`, `write`, `sync`, `notify`, until `drain` finds the
queue empty. A request is named by its place in `queue_`. The file is a sequence
of entries, whole or torn; `synced` is the durable prefix. The write loop is one
step that either writes the batch or, with the fault `"write"`, leaves a prefix
of it and possibly a torn record. The other faults are `"fsync"` (the call fails), `"close"` (the
thread that flushed the table closes the log meanwhile) and `"crash"`: the file becomes any
extension of its durable prefix by unsynced bytes, after which `recover` replays up to
the first torn record.

### Engine

`put` and `remove` are the same three attempts at `MemTable::put`; an attempt is `Load`
(read `activeMemTable_`), `CheckImmutable`, `AppendWal`, `InsertRecord`, `CheckMemoryUsage`,
each a step because other threads may act in between. The append is atomic here: what it
promises is what `Wal` establishes. `Retire` and `Renew` are `switchMemTable`, `LoadFileId`
... `DropWal` are the detached thread of one table, `ScanL0` ... `PublishL1` the compaction thread,
`BeginQuery` ... `EndQuery` a query that looks in three places under three different
guards. A record is named by table and position; for one key a greater name is a newer
version, provided that the calls did not overlap.

Files are inodes with a name that can be overwritten (`O_TRUNC`) or removed; open
readers and builders keep the inode. The two halves of `++sstFileIdGenerator_` are separate
steps; without the fault `"race"` nobody else counts in between, which separates the races on
the counter from the other questions.

Abstractions, all named in the module: the unlocked read of the `shared_ptr` gives the
old or the new table; a lookup in a file returns the newest version it holds (what `SSTable` is about);
listing the directory and opening the scanners is one step; closing and removing a WAL is
one step; records have equal size, so `Threshold` and `Capacity` count records; a write of a
compaction does not fail (the reading of its input may).

### SSTable

`Add` is `SSTableBuilder::add` with `BlockBuilder::add`: the record goes into the block,
or the block is written out and the record tried again. `Probe` is one turn of the loop with
`low`, `high` and `mid`; `ReadBlock` scans the block that was found. Offsets count records. The
Bloom filter answers yes for every added key and anything for the others.

### SkipList

A step is one load or one compare-and-swap of a shared pointer; what a thread does with the
value in its own variables belongs to the same step. `Forward` and `FindLevel` are `findPredecessors`,
`Forward`, `Descend` and `Return` are `getRecord` (both walk while the node ahead is smaller);
`LinkBottom`, `RetryBottom`, `LinkUpper`, `RetryUpper` are the four outcomes of the two
compare-and-swaps of `put`. `RetryUpper` leaves the tower of the node as it was, like the code.
`BeginWalk` and `Visit` are `forEach`, during which puts that saw the table mutable may still
insert. The loads are plain `memcpy`s of aligned words: formally a data race with the
compare-and-swap, here taken to return a value that was stored, in program order, as the
compilers of the build make of them. `order` and `due` are history variables.

`VersionMap` says what all this amounts to: `Insert` and `Answer` are one step each, and `Answer`
gives the newest version of its key. Under the mapping at the end of `SkipList` a put is its
compare-and-swap on level 0 and a lookup its last load. `Engine` uses the memtable in this form.

### Lifecycle

`Open`, `ReplayRecord`, `RemoveReplayedWal` are the constructor with `loadSSTables`, `loadMaxSSTableId` and
`recoverFromOldWals`; `OpenThrows` and `ReplayThrows` are the two ways in which it throws. `Put` and `PutInNewTable` are `put`
and `remove` with `switchMemTable` on the way; `FlushBegins`, `FlushFinishes`, `DropWal` are
`flushMemTableToDisk`, and `MergeBegins` ... `MergePublishes` the compaction, cut where the directory
changes, because a crash (`Crash`) may come there. `Close` and `Exit` are `close` and the end of `main`: the flush of the
active table is waited for, detached flushes are not. File names are level and number; the order of their texts (`NameGreater`, `TextGreater`) and the digits
that the generator is set to (`NumberOf`) are worked out as arithmetic on the numbers, with powers of ten.

`ImplementsStore` maps this to `KVStore`. `View` is what each key has in the places that a query asks, in the order of the code:
the active table, the immutable ones, the readers. While no process is up it is what a start-up that nothing interrupts
would lead to: the logs, the newest first, before the files in the order of `loadSSTables`; during a replay, the logs that are still to be read before what
is loaded. `Answers` leaves out deleted keys. Every step other than a put or remove leaves it alone, except for
those that `Disturbed` names. Each exception was found by TLC, and is a behaviour of the code:

- a process that ends in the middle of a replay: the new log holds a prefix of the old ones, has the
  younger name and is replayed last;
- a process that ends after a compaction: the next one puts L1 files before newer L0 files, and the tombstone
  that the compaction dropped no longer hides a value in a file or log left over;
- a flush that failed: its table stays in front of newer files, its log is replayed over them;
- a compaction in a process that started with L1 files: its new file goes in front of them, although what it
  has merged stood behind them;
- a file whose number was counted before (`restart_numbers`): it overwrites another or is taken for an older one.

`mishaps` remembers the first (`"cut"`) and the last (`"behind"`) of these. `NothingLost` is stronger in another way: it holds across
all of these but the first and the last.

### The smaller components

`Merge`: a step takes the record on top of the heap, skips or writes it, and puts the next one of its file in its place.

`BlockCache`: `Hit`, `Miss` and `Put` are the three parts of `get...Lazy`: `get` under the mutex, then, without
it, the reading of the file, then `put`. The caches are static, so readers of several engines meet here
(those of one engine are under its `ssTablesMutex_`).

`VectorLog`: `Reserve` is the `fetch_add`, `Pwrite` and `PwriteThrows` the write loop, `Drain`, `BlobSync`, `WalSync` the group commit.
A crash keeps any part of what was not synced, in both files.

`Hnsw`: a step is one turn of a loop of `HnswIndex`, and `pc` says which loop: `"search"` is `searchLayer` (`Expand` takes a candidate, `Visit` looks at
one of its neighbours), `"select"` and `"prune"` are `selectHeuristic` for the new node and for a node whose list has grown too long (`Select`
tries one candidate), `"link"` is the loop over `selectNeighbors` (`Link`, `EndPrune`). `Descend`, `NextLayer` are the loops over the layers, `PutVector`,
`EndInsert`, `BeginQuery`, `EndQuery` and `GiveAnswer` the ends of calls. No lock protects the graph and concurrent calls have no defined
outcome, so a call begins when none is under way. Keys are numbered in the order in which they are first put, which only saves states. A vector is a number: on a line, and without ties, the order in all priority queues is determined and
the right answer is known, and `FindsNearest` is not a matter of probability, as long as no more than `efConstruction_` + 1 vectors were put
(`AllCompared`, `Ef` being that limit and the one of a search). Beyond that an insertion no longer sees all other nodes, its links join nodes that are not next to
each other, and pruning may take the last link to a node, which no search finds again. In more dimensions the search is approximate from the start; `LinksSound` does not depend on the geometry.

`Server`: a stream is a number of units cut into frames; `Recv` takes any part of what has arrived. The engine is `KVStore`:
its answers are not the subject here.

`Bloom`: the hash of a key with a seed is computed from the length of the key and its hash with seed 0, modulo the width of an `int`.

## Runs

| run | bounds | shows |
|---|---|---|
| `wal` | 3 threads, 4 appends, batches of 2, faults write and crash | types; what was acknowledged is durable and is replayed after a crash, unless a failed write tore the file in front of it; the file keeps queue order |
| `wal_close` | 3 threads, 3 appends, faults write, fsync and close | no request is lost and every append returns |
| `engine` | 2 writers, 3 puts or removes of one key, a query, tables of 1-2 records, one flush at a time, a compaction in between, WAL appends fail | a query does not go back; the directory always holds the newest values |
| `engine_faults` | 2 writers, 3 puts, arenas of one record, failing flushes, a compaction that overlaps them | types; the newest version of a key always is where a query looks; puts return; each retired table is flushed or its flush has failed |
| `search` | `SSTable`: 6 records, 4 keys, 2 sizes, blocks of 4, two versions of a key. `Hnsw`: 4 vectors on 2 layers in every order, 2 keys, lists of 1 and 2, searches with 3 candidates | the search in a file stays in the index, ends and finds the newest version (`FindsNewest`, `SearchEnds`). Between calls on the vector index neighbours exist on their layer, lists are short and name nobody twice (`LinksSound`); a search on a line is exact while every vector could be compared with all the others (`FindsNearest`); asking for twice as many makes up for removed keys (`RemovedMadeUpFor`); every call ends (`CallsEnd`) |
| `skiplist` | 2 writers, a reader, a walk, 3 puts, 2 keys, towers of 1-2 | types; level 0 keeps every version in order; upper levels lead only to nodes of level 0 whose towers reach that level, and never back to a smaller key; the walk of the flush is sorted and complete; `VersionMap` is implemented |
| `lifecycle` | one key, 4 puts or removes, tables of 2 records, arenas of 4, 4 processes, two compactions of 2 files, one flush at a time; crashes also during replay, failing flushes | types; the newest value is always in a whole file or a log; no log is left behind; `KVStore` is implemented, `Disturbed` apart |
| `parts` | `Merge`: 3 files of up to 2 records, 2 keys. `BlockCache`: 2 engines, 4 names, capacity 2. `VectorLog`: 2 threads, 3 vectors of 2 units, a crash. `Server`: 2 frames of 4 units. `Bloom`: 5 sizes, 1 and 3 hashes, 6 keys, 8-bit numbers. `SkipList`: 2 writers, a reader, 2 puts | for each its properties (table below), and that every call of the skip list returns |

| property of `parts` | meaning |
|---|---|
| `MergedNewest`, `OutputSorted` | the merge keeps the newest version of each key that is not deleted, each once and in order |
| `ListAndMapAgree`, `KeepsMostRecent` | no iterator outlives its list node; the cache holds what was used last |
| `AckedVectorReads`, `PointersApart` | the floats of a put that returned are found after a crash; no put writes over another's |
| `AnswersInOrder`, `RequestsAnswered` | answers are those to the requests that arrived whole, in order; each of them is answered |
| `NoFalseNegative` | an added key is not denied, before or after the file |
| `CallsReturn` | calls of the skip list return |

The bounds are small but not idle: three threads give a leader, a follower that is
served and one that arrives between two batches; batches of two are filled and
left over; tables of one or two records make every other put switch tables, so
that two tables go through a flush and become competing versions for the merge
and for the query; an arena of one record overflows as soon as two writers meet in a table;
six records of one or two units in blocks of four give the search up to four
index entries, both branches and both ends. A query has its own floor, the newest
version when it began, so one reader is enough; keys do not interact in `Engine`
except through the tables and files they share. Three nodes give the skip list two puts that race and an older
version that one of them meets; two levels give the retry on an upper level, and two nodes suffice for that (the third place of `MaxNodes` is the head).
Four processes are a run, a crash, a start that crashes too and one that ends well; with four puts
and tables of two records there are two files for a compaction and a log, a second compaction, or a file and two logs. Four vectors fill a list of two
neighbours and have it pruned; three of them are close together and one far away, where pruning by distance alone would cut it off.
Two frames are enough for one to be torn and for one to be shifted by the other.

Runs that end in a violation show what the code does against what a comment, a test
or a document says; `findings` in `PROJECT.json` quotes each line.

| run | property | what happens |
|---|---|---|
| `wal_torn` | `AckedReplayed` | a failed write leaves a torn record; replay never gets past it |
| `engine_late` | `NoLateInsert` | a put that saw a mutable table inserts after the flush has read it |
| `sstable_hot` | `FindsNewest` | the versions of one key fill several blocks |
| `restart_numbers` | `NumbersGrow` | after a compaction every start sets the generator to the digits of the L1 file, so flushes of later processes overwrite files |

The passing runs hold under conditions, and those conditions are constants.
Each was found to be necessary, by TLC, with the same properties:

| condition of the passing run | without it |
|---|---|
| no `"fsync"` in `wal` | the result of `::fsync` is ignored; `AckedDurable` fails |
| `MaxFlushing = 1` | flushes end in any order and the older reader comes first; `ReadFresh` fails |
| no `"race"` | two flushes draw the same number and one truncates the file of the other; `NothingVanishes` fails |
| `CompactAlone` in `engine` | a compaction puts its L1 reader before the reader of a newer L0 file, `ReadFresh` fails; it merges an L0 file that is being written as an empty one and removes it, `DiskCovers` fails |
| no `"sst"` in `engine` | a table whose flush failed stays in front of newer files; `ReadFresh` fails |
| `DiskCovers` speaks of values | a tombstone's file may be removed before the file of the value it hid |
| `Sizes` up to half of `BlockSize`, `MaxVersions = 2` | larger records are dropped, more versions fill blocks (`sstable_hot`) |
| `MaxFlushing = 1` in `lifecycle` | the log of a table that was flushed, not yet dropped when the process ends, is replayed into a file with a greater number than that of a newer table; `NothingLost` fails after a compaction |
| at most one compaction, or no `"sst"`, in the theorem `NewestKept` | a compaction removes the unfinished file of a failed flush, whose log is then replayed over newer files, and a second compaction keeps the older record; `NothingLost` fails, with two keys and six puts (the bounds of `lifecycle` are below that) |
| no `"clock"` in `lifecycle` | two tables of one millisecond share a WAL, and the flush of the first removes it; `NothingLost` fails |
| `Disturbed`, `mishaps` | see Lifecycle above |
| only puts that returned, in `AckedVectorReads` | the pointer of another put may be replayed and lead to a hole, or to the floats of a later put |
| `AllCompared` in `FindsNearest` and `RemovedMadeUpFor` | a node loses its last link to pruning and is never found; `FindsNearest` fails with four vectors and `Ef = 2`, or with five and `Ef = 3` |
| no more removed vectors than answers wanted, in `RemovedMadeUpFor` | with more, a search answers less than it could |

`ReadFresh`, `NothingVanishes` and `DiskCovers` speak of the records that were in
their table when the flush read it; `engine_late` shows that others exist, and
those are lost. Start-up need not succeed: an unfinished `.sst` makes the
constructor throw on every start (`OpenThrows`), and so does a set of logs that exceeds the arena (`ReplayThrows`). That a put which returns has stored its record is not a property of this
code: the result of the third attempt is dropped.

`CHECK_DEADLOCK FALSE` is given where a bounded behaviour comes to an end: all puts
are used up, or the machine has crashed and recovered, the last process has ended. `SSTable`, `Hnsw` and `SkipList` have no such end
(searches and lookups go on) and are checked for deadlock.

### Fairness

Threads inside `append`, `put`, `remove` or a call of the skip list keep running (weak fairness of each thread's
next step), as do the flush and compaction threads: they are plain threads that wait for
nothing but mutexes. A call of the vector index is a loop that waits for nothing. The thread of a connection
runs on as well: `recv` returns once something has arrived. Nobody is obliged to call or send anything. The retries of the skip list end because the number of puts is bounded: a compare-and-swap only fails when another put has succeeded. A thread that waits for a mutex
gets it once it stays free; that is enough because the number of puts is bounded, and it
is all that `std::mutex` gives: with unbounded calls a waiter for `engineMutex_`, or a leader that
keeps draining, may wait for ever.

## Proofs

Each component's theorems are in a module of their own (those of `SSTable` and `Hnsw` share one, as do those of `Bloom`, `BlockCache`, `Server` and `Merge`; those of `Lifecycle` fill two), with
the inductive invariants they rest on. These were checked with TLC before they were proved. The constants are
arbitrary within the assumptions that the modules name. Where a
theorem excludes a fault or a degree of concurrency it says so as a hypothesis, and the table of conditions above names what happens without it.

`WalProofs`, for every set of threads, every bound and every batch size:

- `TypeCorrect`: `Spec => []TypeOK`.
- `NoneLost`: no request is lost, under every fault. The inductive invariant `Structure` says
  that only the owner of `leaderMutex_` is at a location of the leader or holds a batch, and that each pushed request is
  settled, queued or in the batch of the owner.
- `AppendIsDurable`: if fsync does not fail and nobody closes the log meanwhile,
  what was acknowledged is durable. `Durability` adds to `Structure` that between fsync and the
  last promise the whole batch lies in the durable part of the file, and between write and fsync in the file.
- `AckedSurvives`: under the same conditions what was acknowledged is replayed after a crash, or stands behind a torn
  record (`AckedRecovered`). `Replayed` says that recovery yields the file up to its first torn record.
- `QueueOrder`: the file, the batch of the leader and the queue form one increasing
  sequence (`Order`), so the file keeps queue order.

`EngineProofs`, for any number of writers, tables, records, queries and files:

- `TypeCorrect` and `InductiveTables`, under every fault. That the bound on the number of tables suffices is part of the invariant
  (`FewSwitches`: the switches that may still come are paid for by attempts not yet made); `TablesSound`
  says that each table is active, or immutable and listed once, or flushed, as the location of its thread tells.
- `NeverVanishes`: unless two threads count at the same time (`"race"`), the newest settled record of a key is
  where a query looks. `Counted` says that a number that was drawn is above all numbers of files, so that each file has an inode
  of its own; `FlushesSound` that the file of a table holds what was in it when it was read, and is in the list before the
  table is erased.
- `DirectoryCovers`: with one flush at a time, compactions between flushes and no `"race"` (`Orderly`), the directory and the logs
  hold the newest values, also when flushes fail. `MergesSound` says of each record in a file that was removed that an
  L1 file, or a tombstone as new as it, makes up for it, and `TableFiles` that file numbers grow with table numbers.
- `QueriesFresh`: if besides no flush fails, a query never misses what was stored when it began. `Ordered` says that the list of
  readers goes from new to old and that compactions take the files of the oldest tables; `QueriesSound` where the record may still
  be that a query must not miss, at each place the query has reached.

`SearchProofs`, of `SSTable`, for every set of keys, every number of records and versions and every block size:

- `TypeCorrect`: `Spec => []TypeOK`; the search never leaves the index.
- `SearchSound`: if no record is larger than a block (`RecordsFit`) and no two blocks end with the same key
  (`BlocksEndApart`), a search returns the newest version of its key or, if there is none, nothing. The second condition is what
  `sstable_hot` breaks. The inductive invariant `Seeking` has three parts: the records are sorted
  (`Sorted`); the file and the block in the making hold them in order, and the index cuts the
  file into consecutive blocks, each under the key of its last record (`Layout`, `Cuts`); and entries below `low`
  are too small, while `target` is the entry above `high` that made the search turn back (`Narrowing`, `RightBlock`).
- `OneVersionFound`: the same without `BlocksEndApart` for files with one version of each key (`MaxVersions = 1`), because
  then the last keys of the blocks grow strictly. Flushed files may have several versions; files of a compaction have one.

`SearchProofs`, of `Hnsw`, for every set of vectors on a line, all levels and all limits:

- `LinksStaySound`: for any vectors, levels and limits, between calls each neighbour exists on its layer (the code indexes its lists unchecked), no
  list is too long, none names a node twice or its owner, and the entry point is on the top layer (`LinksSound`). The invariant `Linked` (`InductiveLinks`)
  says what holds inside a call: lists are sound but for the one that is being pruned (`ListsSound`); a search meets only nodes
  that are on the layer and already linked, and its results are never empty, whose first element the code takes (`Searching`); below the layer that is being linked
  the new node has no links and nobody links to it (`NewAlone`), so that no list names it twice; and its own list has room
  for all that was selected (`Linking`), because the code prunes the other end only.
- `SearchIsExact`: a search finds the nearest vectors (`FindsNearest`), whatever was pruned and in whatever order they were put. `InductiveChain` says why: on the
  lowest layer each node is linked to those next to it on the line (`Chained`), where a node that is being linked counts but for
  the links it still has to get. A search that has gone on from every node it did not give up to those next to it has left out only
  nodes that are outdone by full results (`Tracked`, and `ChainIsSearched` from there). An insertion has thus seen everybody, and the heuristic selects the nodes next
  to its centre and no others (`Choosing`): any other has one of them nearer to it than the centre. As these are two at most, the limit on the list does not
  cut them off, and pruning takes away only links between nodes that are not next to each other. All this needs `AllCompared`.
- `RemovedAreMadeUpFor`: asking for twice as many makes up for removed and replaced vectors (`RemovedMadeUpFor`), by counting: among the first 2k of
  all are the first k of the others, if no more than k are removed.

`SkipListProofs`, for any number of writers, readers, keys and nodes and every height:

- `TypeCorrect`; `LevelZeroComplete`: level 0 keeps every version, in order; `UpperLevelsSound`: an upper level never leads
  astray, although a retry leaves in a tower what an earlier search has found. The inductive invariant `Lists` rests on `Structure` (every linked node is
  linked once, every put has a node of its own) and on `Searching`: what a search has stored of a level stays good enough as long as
  it is used, since nodes only ever come in between; that the two are still neighbours is what the compare-and-swap tests.
- `FlushWalk`: the walk of the flush delivers what was linked when it began, in order. `WalkSound` says that what is due is visited or lies ahead of the cursor.
- `ListImplementsMap`: `SkipList` implements `VersionMap`, step by step (without fairness).

`LifecycleProofs`, for every set of keys and any number of processes, puts and files:

- `NoLogLeft`: while the engine is up no log is left over, under every fault. `Sound` says what the phases of a process
  mean for its variables, that clock and logs go together (`Clocked`) and that each log has an owner (`Accounted`).
- `TypeCorrect`: unless two tables get the same millisecond (`"clock"`); `LogsHeld` says that each table has a log of its own.
- `NewestKept`: the newest value of a key is in a whole file or in a log that will be replayed (`NothingLost`), across crashes at any
  point, also during start-up and compaction. Hypothesis (`Benign`): no `"clock"`, one flush at a time, and no failing flushes or at most one compaction.
  The invariant `Stored` says that a table and its log hold the same; that of two logs the younger
  holds the newer records, also while they are replayed into a third (`LogsSorted`, `Replayed`); that in L0 files a greater number means newer
  data and that no log holds only older records of a key than a file (`FilesBelow`); and that a compaction
  has written the newest values before it removes a file (`Compacting`). It holds until the first of the `mishaps`.

`LifecycleStoreProofs`, under `Paced` alone: no `"clock"` and one flush at a time, but any number of failing flushes and compactions:

- `StoreImplemented`: `Lifecycle` implements `KVStore` (`ImplementsStore`). A put or remove changes the answer for its key and counts;
  every other step outside `Disturbed` leaves all answers as they are: a flush that moves a table into a file, a compaction
  that replaces readers, `close`, a crash, the opening of the next process and each record that it replays.
- `InductiveServed` is the invariant behind it, as long as no file got a number that was counted before (`Fresh`). `Writing` (of `LifecycleProofs`) and `Lined` say that
  what is asked first is newer; `Opened` that readers and files agree, `Rounds` and `MergedFound` that the file a compaction has written answers like the
  readers it replaces, `Flushed` and `Closed` what a log that is still to be removed has in front of it, so
  that its replay would change nothing.
- What replay does to the answers comes down to folds over logs, tables and files (`LastFound`, `FirstFound`); lemmas say which element
  such a fold picks, and so need no induction over the data.

`VectorLogProofs`, for any number of threads, vectors and crashes and all dimensions:

- `NoOverwriting`: no put writes over the floats of another (`PointersApart`).
- `AckedVectorSurvives`: what an acknowledged put has stored is still read after a crash, whatever part of the unsynced bytes
  of either file it leaves. `Placed` says for each call how far its floats are (`CallsSound`), that the records of a batch are written before
  `blobSync_` and their floats durable after it (`BatchSound`), and that acknowledged pointers lie in the durable part of both files (`AckedSound`).

`PartsProofs`:

- `AddedIsFound`: an added key is not denied, for every size of the filter, number of hash functions and width of an `int`. The powers in the
  hash are a recursive function; that they are numbers follows from a least counterexample, because the library's
  induction theorems cannot be instantiated here. `LifecycleProofs` does the same for powers of ten.
- `ListMatchesMap`, `MostRecentKept`: for any capacity and any number of engines, the list and the map of the cache describe each
  other, and it holds what was used last. `Cached` compares the list with the history of uses, entry by entry.
- `AnswersFollowRequests`: for any length of a frame and any cuts of the stream, the answers are those to the requests that arrived whole, in
  order. `Served` says that what a connection has taken is one frame for each answer and the part of the frame that is being read.
- `MergeCorrect`: for any number of files of any length and any keys, a finished merge holds the newest version of each key that is not deleted,
  and nothing else. The inductive invariant `Merging` says that what has left the heap is not above `lastProcessedKey` and what is to come not below
  (`Swept`), that the newest version of `lastProcessedKey` has left the heap (`LastSettled`), and that of what has left it the right
  records were written (`WrittenSoFar`). `OutputInOrder`: the builder gets each key once and in order (`Ascending`).

Only model-checked is liveness, which is out of the prover's reach: `AppendReturns`, `PutReturns`, `RetiredSettled`, `SearchEnds`, `CallsReturn`, `RequestsAnswered`, `CallsEnd`.

## Not modelled, and the plan

Done: all modules of the table above, with proofs for `Wal`, `Engine`, `SSTable`, `SkipList` (against `VersionMap`), `Lifecycle` (against `KVStore`), `Merge`, `VectorLog`, `BlockCache`,
`Server`, `Bloom` and `Hnsw`. Left, in this order:

1. Concurrent clients before a crash: the WAL and the skip list of one table may order two puts of a key differently, and replay
   then restores the other one.
2. The cache with file numbers that are used again (`restart_numbers` shows that they are).
3. The scanner's reading of blocks; writes of a compaction that fail.

Left out:

- record and byte coding and CRC: pure conversions; a CRC is taken to detect a torn record;
- the size of the Bloom filter and distances between vectors of more than one dimension: floating-point arithmetic;
- what has no defined outcome: concurrent calls of the index, a torn `shared_ptr`;
- frames that are not well formed, and exceptions of the engine that the service turns into refusals;
- the C API, which forwards to the engine (closing and destroying it in the right order is up to its caller), the Java glue, tests
  and benchmarks.
