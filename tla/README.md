# pebble-db in TLA+

TLA+ modules, TLC configurations and TLAPS proofs for pebble-db, a small
log-structured key-value store in Rust (`src/`). The modules are translated
from the code; `PROJECT.json` maps every definition to the lines it stands
for.

Run from this directory:

    tlc -workers 2 -config CrashRecovery.cfg MCPebbleDB.tla
    tlapm PebbleDB_proofs.tla

## The system

| Part | Code | State | Operations |
|---|---|---|---|
| Engine | `db.rs` | `DbInner`: the memtable (a `BTreeMap`), `levels` (a vector of vectors of loaded SSTables), `next_sst_id`, the log writer; all of it behind one `RwLock` | `open_with_options`, `set`, `get`, `delete`, `flush`, `compact`, `compact_full`, `range`, `keys`, `scan`, `close` |
| Planner | `compaction.rs` | none | `pick_compaction`: from sizes, ids and key ranges to the files to merge and the level to write |
| Directory | `db.rs` | `sstable_L<level>_<id>.sst`, their `.tmp` forms, `merge.pending`, `wal.log` | written by the engine, read by recovery |
| Write-ahead log | `wal.rs` | a `BufWriter` over a file opened for append | `append`, `truncate`, `recover` |
| SSTable, Bloom filter | `sstable.rs`, `bloom.rs` | an immutable file, held whole in memory | `write`, `load`, `get`, `key_range` |
| Iterators | `iter.rs` | a heap of sources, `RangeIterator` bounds, a snapshot of memtable and tables | `seek`, `next`, merge by priority |
| TTL cache | `cache.rs` | entries with an 8-byte expiry time under a key prefix | `set`, `get`, `delete`, `exists`, `clear` |
| Fault injection | `fault.rs` | point, hit counter, mode | `hit`: abort the process, or return an error |
| Statistics | `db.rs` | `Metrics`: counters beside the data | `record`, `stats` |
| Command line, harness | `cli.rs`, `bin/crash_child.rs` | none | one call of the engine each |

How they meet. A `set` appends a record to the log and syncs it, inserts into
the memtable and, when the memtable is full, flushes: it writes a level 0
table to a temporary file, renames it, truncates the log, pushes the table to
`levels[0]`, clears the memtable, and then runs compaction jobs until
`pick_compaction` returns `None`. A job merges its inputs into new tables of
the next level, lists outputs and inputs in `merge.pending`, deletes the
inputs one by one, swaps the tables in `levels` and removes `merge.pending`.
Opening a directory deletes `.tmp` files, completes a pending merge, loads
what tables there are, restores `next_sst_id` from their names and replays the
log. A write holds the write lock from its first step to its last, compaction
included; a `get` holds the read lock. The cache is a client of the engine
with several calls per operation and no lock of its own.

What is hard here, and hard to test:

- A crash between any two file operations, recovery's own included. The tests
  crash at 15 chosen points; sequences of several crashes and compactions are
  what leaves odd levels behind.
- Tombstones. A deletion may only be forgotten when nothing below could show
  through, and "nothing below" is a fact about files chosen by a planner that
  sees ranges and sizes, after crashes that may have left extra files.
- Order by id. Which of two tables is newer is decided by level and id alone,
  and ids are restored from file names.
- Errors the handle survives: a `set` that returned `Err` leaves log, memtable
  and levels in some state, and the next call goes on from there.
- A log torn at any byte, by a crash or by a failed write.
- The compaction loop under the write lock: if it did not end, everything
  would stop.
- A file that is found again only through offsets of 32 bits, a sparse index
  and a filter, each computed by one function and used by another.
- A range iterator that outlives the tables and the memtable it was made of.
- A second process on the directory, which nothing keeps out.
- Cache calls of several threads that interleave between the engine's calls,
  with a clock that moves in between.

What makes each part correct: the engine never loses or resurrects what it has
acknowledged (`Durable`, `ReadsAllowed`, `ImplementsDurableStore`); recovery
rebuilds exactly what an uninterrupted handle would hold and leaves no debris
(`HandleMirrorsDirectory`); ids are fresh (`IdsAreFresh`); the levels keep
what reads and the planner rely on (`DisjointUnlessTripped`, `LevelsCoherent`); loops
end (`Terminates`); the log presents whole records in order and never drops an
acknowledged one unnoticed (`AckedSurvive` and its neighbours); a table gives
back what was written to it (`ReadsBack`), and what `get`, `scan` and a
compaction make of the tables is one and the same map (`GetsLastWrite`,
`ScanIsComplete`, `CompactionReadsAll`); an iterator shows the database as it
was when it was made (`ImplementsCursor`); the statistics account for the
files (`StatsExplainLevels`); the cache returns no entry that was due and
`clear` clears.

## Modules

| Module | Models | Extends |
|---|---|---|
| `Lsm` | tables, search order, merge, log replay: pure definitions | |
| `Compaction` | `compaction.rs` and `plan_job`: the planner | `Lsm` |
| `PebbleDB` | one handle on one directory: writes, flush, jobs, crash, recovery | `Compaction` |
| `DurableStore` | the contract: a map that survives crashes | `Lsm` |
| `MCPebbleDB` | constants a configuration cannot write | `PebbleDB` |
| `ObservedDB` | `Metrics`, `stats` and `FaultInjector` beside the database | `PebbleDB` |
| `MCObservedDB` | the faults to inject | `ObservedDB` |
| `SharedDirectory` | a second process that opens the directory in use | `PebbleDB` |
| `SSTable` | the file format: blocks, index, filter, footer | `Lsm` |
| `Iterators` | the iterators, `get` and `scan` over `SSTable`s; flush and full compaction underneath | `SSTable` |
| `OrderedCursor` | the contract of `range`: a cursor over a snapshot | |
| `MCIterators` | lengths, hashes and values for `Iterators` | `Iterators` |
| `Wal` | the log below the level of records | |
| `Cache` | threads that share a `PebbleCache` | |
| `MCCache` | symmetry for `Cache` | `Cache` |
| `LsmTheorems` | lemmas about `Lsm`: types, least and greatest members; sums over finite sets | `Lsm` |
| `CompactionTheorems` | lemmas about what a flush, a plan and a merge do to the answers of a search and to key ranges | `Compaction`, `LsmTheorems` |
| `PebbleDB_proofs` | `TypeOK`, `IdsAreFresh` proved | `PebbleDB`, `CompactionTheorems` |
| `Durability_proofs` | `Durable`, `ReadsAllowed`, `LevelsCoherent`, `HandleMirrorsDirectory` and the refinement of `DurableStore` proved | `PebbleDB_proofs` |
| `ObservedDB_proofs` | `ObservedDB` implements `PebbleDB`; its contract under an injected fault, `ReopeningRecovers`, `DisjointUnlessTripped`, `StatsExplainLevels` proved | `ObservedDB`, `Durability_proofs` |
| `Iterators_proofs` | every property of `Iterators` proved, with the lemmas about `SSTable` they rest on | `Iterators`, `LsmTheorems` |
| `Wal_proofs` | every property of `Wal` proved | `Wal` |
| `Cache_proofs` | every invariant of `Cache` proved | `Cache` |

Three modules stand on another one's result. `PebbleDB` works with a log of
whole records and one flag for a torn tail; `Wal` shows why that is what
recovery sees, however a write is torn (`LogGrowsOrEmpties`). `PebbleDB` takes
a table for the map it stores and a job for `Lsm!Merge`; `ReadsBack` and
`CompactionReadsAll` show that of the file format and of the iterators, in
`RangeReads` and by proof. `CompactionReadsAll` also compares what a compaction
reads with what the client stored, so that a block both readers take for empty
is noticed. `ObservedDB` composes `PebbleDB` with the metrics and the injector,
and every step of it is a step of `PebbleDB` (proved, and why `Durable` can be
checked in it again). `PebbleDB` and `Iterators` each implement an abstract
specification, `DurableStore` and `OrderedCursor`, with a refinement mapping.

### Lsm and Compaction

A table is a record of an id, a level and its contents, a function from keys
to entries. The vector of a level is kept sorted by id in the code, so a level
is a set. `Lookup` is the search of `get`: shallow levels first, within a
level the largest id first. `Merge` is the merge iterator of a job reduced to
its result, and `Iterators` checks that the iterator computes it.
`PickCompaction` follows `pick_compaction` step by step: level 0 when it has
`l0_compaction_threshold` files, otherwise the oldest file of the first level
over its capacity, with everything the union range of the inputs meets one
level down. Sizes are counted in records instead of bytes. The saturation of
`level_capacity` at `u64::MAX` is left out.

### PebbleDB

The variables fall into the directory (`disk`, `tmp`, `marker`, `wal`,
`torn`), which a crash leaves, the handle (`memtable`, `levels`, `nextId`),
which it loses, and the running operation (`pc`, `op`, `file`, `job`).
`allowed` is history: for each key the answers the contract permits. It grows
by the new value when a write starts, is settled to that value when the write
returns `Ok`, and is settled to what recovery finds at a reopen.

The steps of an operation are those points between which the directory, or
what the handle does next, differs; they coincide with the fault points of
`fault.rs`:

    set, delete    append -> insert -> inserted -> (flush) -> done
    flush          create -> rename -> renamed -> truncated -> installed -> pick
    job            pick -> merge -> (create -> rename -> renamed -> merge)* ->
                   mark -> marking -> delete* -> deleted -> swapped -> pick
    open           down -> clean -> (finish) -> load -> replay -> idle

A read is not an action: at most one writer is under way and it excludes
readers, so a read happens at `idle` and is the operator `Visible`. Since an
SSTable is read into memory when it is loaded, deleting its file takes nothing
from a handle that lists it.

`Crash` may happen at every step of an operation or of recovery and loses the
handle; a record that is being appended may stay in part. `Close` is a drop of
the handle, or a crash, between two calls. The crash is that of a process:
what was given to the operating system stays. The engine's contract covers
that crash; the order in which a power failure would persist data and
directory entries is not modelled. `Fail` is a call that returns `Err` next to
one of the fault points in `ErrorPoints`, after which the handle is used on,
and `RemoveMayFail` lets `remove_file` fail, whose result the code ignores.

### DurableStore

A map and one request. A write is begun, applied at one moment, answered; or
it is cut short, applied or not. The map of the refinement is what a read
would find after a crash *now*, so every step of flush, compaction, crash and
recovery must leave the map as it is, and a write must change it at exactly
one step, the append to the log. The request carries the answer of `delete`,
so the refinement also checks that `delete` reports what the map held.

### SSTable and Iterators

`SSTable` has no state: `WriteTable` is `write_sstable_with_block_size`,
`LoadTable` is `load`, and the rest are the readers, each computed the way its
function does it (`FindBlock` stops at the first block that begins past the
key, `SearchBlock` at the first record past it). A file is a set of segments
at offsets; a block, the index and the filter are found again by offset and
size, stored modulo `Width` (2^32 in the code). Bytes read from where no
segment of that size begins are `Garbage`, taken not to decode: the record
format has lengths and a type byte but no checksum, so this is an assumption
about what happens to be there. `GarbageAssumption` says no more than that
`Garbage` is not a decoded filter, block, index or table, and
`FormatAssumption` that at most one key is empty, keys being strings. The sizes of records, blocks and the filter
are those of the encoding; the number of bits and hashes of a filter is the
code's formula in integers.

`Iterators` keeps the memtable, the loaded tables newest first, and one range
iterator. `HasEntry` ... `Forward` are one source, a table's or the copied
memtable's; `SmallestSource` is the heap's order (key, then position of the
source), `SkipKey` the loop of `advance` that moves every source past the key,
`Normalize` the loop that drops tombstones. `Flush` and `CompactFull` write
and load tables through `SSTable`; a table that does not load fails them and
leaves memory as it was. The directory is left out here: a loaded table does
not read its file again. Levels are left out too; the searches see the tables
as one list, as `get` and `range_iterator` do.

### OrderedCursor

A map, a snapshot of it and a position. A cursor is at a live key of the
snapshot or past the last, the start bound only says where it begins, the end
bound decides at any time whether it shows an item. `seek` behind the start
bound, or back from beyond the end, is therefore allowed and shows what is
there: the trait's `seek` says nothing of the start bound, and the code
forgets it.

### ObservedDB

Beside `PebbleDB`'s variables: the injector (`fault`, `hits`), the `metrics`,
and history (`loaded`, `tripped`). `FaultPoints`, in `PebbleDB`, names the
point a step passes; `Step` counts a hit when it is the fault's own,
`FireError` and `FireAbort` stop the operation there by `PebbleDB`'s `Fail`
and `Crash`. A fault fires at its hit and at every later one, as `hit` does.
The first handle may have a fault, the later ones have none, and a handle
whose fault has fired is only used on after points in `KeepUsing`, those at
which nothing has been renamed into place; the others are the subject of
`FailedTruncation`. `stats` is the operator `Stats`; sizes are numbers of
records.

### SharedDirectory

A command of the command line tool opens the directory, does one thing and
exits. The steps of `Other` are the phases of `open_with_options` as they
touch the directory: remove temporary files, finish a pending merge, scan the
log, ask for its length and cut it. The first process is `PebbleDB`'s, except
that a rename whose file the other has removed fails. A file that vanishes
under the second process makes it give up. `scanned` is in records of equal
length.

### Wal

The log is a sequence of cells; a cell knows its record, that record's length
and its place in it. A small record goes through the `BufWriter`'s buffer, one
of at least its capacity goes past it. A record that finds no room behind what
an earlier failure has left in the buffer waits until that is written
(`Waits`, `TakeRecord`); if writing it fails too, the record is never taken.
The operating system takes one cell at
a time, a crash or an error may stop it in between. The scan of recovery is
`Scan`: a prefix cut short, a length too small or one that runs past the end
is a torn tail; a whole record with a wrong checksum is corruption. A checksum
is taken to tell any two encodings apart. `ReadAll` is `read_all`, the reader
that does not tolerate a tear (it passes a length that is too short in
silence, as the code does). The disk may damage any cell; by the policy table
of the README a damaged length may be taken for the start of a tail, and
`Recover` gives up what stands behind it: `AckedSurvive` claims what is in
front.

### Cache

A call is a few steps, each one atomic call of the engine or a reading of the
clock. `Modulus` stands for 2^64: `now + ttl` wraps in a release build (a
debug build panics instead). The clock does not run backwards. The statistics
counters, failing engine calls and undecodable entries are left out.

## Runs

| Run | Checks | Instance |
|---|---|---|
| `CrashRecovery` | `TypeOK`, `Durable`, `HandleMirrorsDirectory`, `IdsAreFresh`, `LevelsCoherent`, `ImplementsDurableStore` | two keys, memtables of two records, files of one record, level 0 compacted at one file, five file ids, two crashes |
| `InjectedFaults` | `Durable`, `ReadsAllowed`, `StatsExplainLevels`, `ReopeningRecovers`, `DisjointUnlessTripped` | three keys, every write flushed, five file ids, an error at the second or an abort at the first hit of any of the 15 points |
| `Termination` | `Terminates` | removals that fail, one crash |
| `HarmlessErrors` | `Durable`, `ReadsAllowed` | errors at five points before a rename, again and again, one crash |
| `FailedTruncation` | finds `Durable` violated | the truncation of the log fails |
| `FailedRemove` | finds `Durable` violated | the removal of an input fails |
| `SharedDirectory` | finds `Durable` violated | one key, a second process that only reads |
| `RangeReads` | `TypeOK`, `ReadsBack`, `GetsLastWrite`, `ScanIsComplete`, `CompactionReadsAll`, `ImplementsCursor` | three keys, tables of one to three blocks, two flushes, three writes |
| `Wal` | `TypeOK`, `AckedSurvive`, `RefusedOnlyIfDamaged`, `RecordsInOrder`, `TearsAreMended`, `StrictReaderNoticesTears`, `LogGrowsOrEmpties` | three records, two through the buffer and one past it, a crash, failing writes, one damaged cell |
| `WalLargeError` | finds `AckedSurvive` violated | the write of a large record fails midway |
| `CacheThreads` | `TypeOK`, `NoExpiredHit`, `NotExpiredEarly`, `ClearLeavesOnlyNewer` | two threads, two keys, a clock to 4 |
| `CacheRace` | finds `LiveEntriesKept` violated | two threads, one key |

Bounds. `MaxId`, `MaxLog` and `MaxSets` only hold back the *start* of
operations; one that has started always runs to its end. `MaxCrashes` counts
deaths at work, drops of an idle handle are free. Why the instances are large
enough:

- Two keys give the planner's cases: tables that overlap, that do not, and a
  table that holds only one of two keys. `DisjointUnlessTripped` needs a third
  key, for an input range with a gap. One value is enough where a tombstone
  and a value are to be confused; which of two values is the newer one is the
  same question as which of value and tombstone is.
- In `CrashRecovery` level 0 is compacted at one file and the level target is
  one record, which drives data to level 2; memtables of two records leave
  records in the log across a crash, which the refinement needs, and give jobs
  of two outputs. In `InjectedFaults` three keys overflow level 2 too and
  reach level 3. A tombstone dropped one level too early is seen in both.
- In `InjectedFaults` a fault is an error at the second hit, so that one
  passage of the point goes well and the next ones fail, or an abort at the
  first; an abort at a later hit is a crash as `CrashRecovery` has at every
  step. `MaxHits` = 3 holds back requests to a handle that fails every call.
- Two crashes let recovery crash once and let a second operation start from
  what the first crash left.
- `RangeReads`: a block of 22 bytes holds one record or two, two short ones
  fill it exactly, so a table has one to three blocks. `Width` = 78 is between
  the sizes of small and large tables: the last offset of a small one fits its
  field, that of a large one wraps. Keys 1 and 3 have the same bits in every
  filter. One value per flush is enough: what could be confused is the same
  key in two tables or in table and memtable. Two flushes and three writes
  give two tables and a memtable with the same key in all three. Bounds at key
  2 have keys on either side; `seek` goes to all keys.
- Three records in the log let a record be torn, the next mend it, and a third
  be acknowledged behind it.

Deadlock is checked in every run.

Fairness. Only `Terminates` assumes any: `WF_vars(Continue)`, the operation
that holds the write lock goes on. One thread runs it and waits for nothing,
so only a crash or an error stops it, and both are actions that end the
operation. No fairness is assumed of the client, of `Open` or of `Crash`.

### What the violated runs show

- `FailedTruncation` (`db.rs:531`). `flush` renames the table into place, then
  fails to truncate the log and returns before the table is pushed to
  `levels[0]`. The handle keeps the memtable and goes on; the file on disk is
  unknown to it. Later flushes and compactions move newer data of the key to
  level 1, and the next open finds the old file on level 0, in front of it.
  The README (231-232) promises that what returned `Ok` survives.
- `FailedRemove` (`db.rs:659`). The job ignores that an input could not be
  removed, and then removes the marker that would have made recovery try
  again. The input is back at the next open; if the job dropped a tombstone,
  so is the deleted value.
- `WalLargeError` (`wal.rs:143`). A record that bypasses the buffer and is
  written in part has no rest anywhere. The next record is appended behind the
  fragment, acknowledged, and lost to recovery.
- `SharedDirectory` (`db.rs:232`). `open_with_options` scans the log, then
  asks for the length of the file and cuts off what is longer than the scan
  found. A record another process appends in between, syncs and acknowledges
  is cut off.
- `CacheRace` (`cache.rs:58`). `get` deletes the key after it has seen an
  expired entry, whatever another thread has stored since.

Some more things the models say which no run is kept for. The README (30, 72)
says files of a level below 0 never overlap; a crash in mid-job leaves outputs
beside inputs of the same level, and the next open lists both, so
`DisjointUnlessTripped` claims it only of a directory no fault has hit.
`LevelsCoherent` is what holds instead, and is enough for `Durable`. If
`write_pending_merge` fails (`db.rs:656`), the outputs stay in the directory
and a handle that is used on does not know them: the planner finds nothing
below a later tombstone of theirs and drops it, and the next open returns the
deleted value (TLC finds `Durable` violated with the constants of
`FailedTruncation` and `AfterCompactionOutputCreation` as the one error point).
The same happens when a job fails to write its second output and returns with
the first one renamed into place (`db.rs:643`). And a time to live within 2^64
ms of the end of the field wraps to an early expiry (`cache.rs:42`):
`NotExpiredEarly` is checked for times that fit. A table of 4 GiB or more
(`sstable.rs:303`; `compact_full` puts everything into one) is written and
renamed, and, if the wrapped offset leads to nothing that decodes, does not
load: the call fails, the file stays and fails every later open; `ReadsBack` is
checked for tables whose last offset fits. And `read_all` takes a length prefix
below 9 for the end of the log where every other damage is an error
(`wal.rs:216`): `StrictReaderNoticesTears` is checked for logs the disk has not
damaged.

The statistics drift when an operation fails between the two sides of an
account, and stay apart until the handle is dropped. A flush that fails at
`BeforeMetadataUpdate` has counted bytes (`db.rs:534`) of a table the levels
do not get; a job that fails at `AfterMetadataUpdate` has swapped its tables
and is not recorded; a flush that fails after it has emptied the log
(`db.rs:532`) keeps its memtable. `StatsExplainLevels` names these points
(`BytesApart`, `EntriesApart`) and claims the accounts of every other failed
operation, of those that fail at every call too; ids of files that were begun
and not listed are used up, and it claims no more than that.

## Proofs

TLAPS proves 31 theorems for every value of the constants: any finite set of
keys, any values, any options, any number of operations, crashes and reopens.
The bounds of the runs (`MaxId`, `MaxLog`, `MaxCrashes`, ...) are constants
too, and no proof uses that they are small.

| Theorem | Statement | Beyond the modules' own assumptions |
|---|---|---|
| `TypeCorrect` | `PebbleDB`: `[]TypeOK` | |
| `FreshIds` | `PebbleDB`: `[]IdsAreFresh` | |
| `ContractKept` | `PebbleDB`: `[]Durable` | removals succeed, errors at `WriteErrors` only |
| `ReadsKeepContract` | `PebbleDB`: `[]ReadsAllowed` | the same |
| `CoherentLevels` | `PebbleDB`: `[]LevelsCoherent` | the same |
| `HandleIsMirror` | `PebbleDB`: `[]HandleMirrorsDirectory` | removals succeed, errors at `CleanErrors` only |
| `PebbleDBIsDurableStore` | `PebbleDB` implements `DurableStore` | the same |
| `ObservedImplementsSpec` | `ObservedDB` implements `PebbleDB` | |
| `ObservedIdsAreFresh` | `ObservedDB`: `[]IdsAreFresh` | |
| `ObservedContractKept` | `ObservedDB`: `[]Durable` | removals succeed, the client goes on after `WriteErrors` only |
| `ObservedReadsKeepContract` | `ObservedDB`: `[]ReadsAllowed` | the same |
| `ReopenMends` | `ObservedDB`: `[]ReopeningRecovers` | the same |
| `LevelsStayDisjoint` | `ObservedDB`: `[]DisjointUnlessTripped` | removals succeed |
| `StatsExplain` | `ObservedDB`: `[]StatsExplainLevels` | |
| `TypeCorrect` | `Iterators`: `[]TypeOK` | `LargeTablesFail` |
| `TablesReadBack` | `Iterators`: `[]ReadsBack` | |
| `GetAnswersLastWrite` | `Iterators`: `[]GetsLastWrite` | `LargeTablesFail` |
| `CompactionReads` | `Iterators`: `[]CompactionReadsAll` | the same |
| `ScanListsAll` | `Iterators`: `[]ScanIsComplete` | the same |
| `RangeImplementsCursor` | `Iterators` implements `OrderedCursor` | the same |
| `WalTypes` | `Wal`: `[]TypeOK` | |
| `ReplayOnlyGrows` | `Wal`: `LogGrowsOrEmpties`, an action property | |
| `AckedRecordsSurvive` | `Wal`: `[]AckedSurvive` | `"direct" \notin FailingWrites` |
| `RefusalNeedsDamage` | `Wal`: `[]RefusedOnlyIfDamaged` | the same |
| `ReplayInOrder` | `Wal`: `[]RecordsInOrder` | the same |
| `TornAppendsAreMended` | `Wal`: `[]TearsAreMended` | the same |
| `StrictReadsAreWhole` | `Wal`: `[]StrictReaderNoticesTears` | the same |
| `CacheTypes` | `Cache`: `[]TypeOK` | |
| `HitsAreNotExpired` | `Cache`: `[]NoExpiredHit` | |
| `ClearIsComplete` | `Cache`: `[]ClearLeavesOnlyNewer` | |
| `ExpiryIsNotEarly` | `Cache`: `[]NotExpiredEarly` | `NoOverflow`: the clock and the times to live fit the field |

The assumptions name the failures the code survives, and each is there because
without it the property is false:

- *removals succeed* (`~RemoveMayFail`): `FailedRemove` is the counterexample.
- `WriteErrors` are the four points of a write up to its insert. An error
  after a rename leaves a table that the handle does not know
  (`FailedTruncation`, and `db.rs:656` above). Errors at `BeforeSstableCreation` and
  `BeforeAtomicRename` are harmless as long as a job has one output, which is
  what `HarmlessErrors` checks; an error at the second output leaves the first
  one behind, and TLC finds `Durable` violated (`TargetFileSize` 1, `MaxId` 5,
  no crash). The theorems therefore leave these two points out.
- `CleanErrors` = `BeforeWalAppend`, `AfterMemtableUpdate`: between the two an
  error leaves a record in the log that the memtable lacks. The contract
  allows that, the mirror and the refinement do not: the open handle and a
  reopened one would differ.
- the client *goes on* only after `WriteErrors`: what `KeepUsing` says. The
  fault itself may be any of the fifteen points, at any hit, an error or an
  abort.
- `"direct" \notin FailingWrites`: `WalLargeError` is the counterexample.
- `NoOverflow`: a time to live near 2^64 ms wraps.
- `LargeTablesFail`: a table whose offsets do not fit their 32 bits does not
  load. A wrapped offset leads somewhere into the file; that what begins there
  decodes neither as an index nor as a filter is likely and not certain, and
  if it did decode, reads could miss records. Where all tables fit, the
  hypothesis holds of itself; `MCIterators` has one that does not fit, and TLC
  evaluates the hypothesis there.

### PebbleDB: types and ids

`TypeCorrect` and `FreshIds` are proved together, from `IndInv`, because
each needs the other. `Newest` is a `CHOOSE`: the search finds an entry only
if the tables that hold the key are totally ordered, that is, if no two of a
level have the same id. And ids can only be said to be in order if everything
in the sets is a table. The strengthening has six parts:

- `TablesFinite`: the sets of tables are finite, so that there is a newest one
  and a largest id;
- `NoEmptyOutput`: no table under construction is empty, so that no table in
  place is, and each has a key range for the planner;
- `WriteUnderWay`, `JobHasLimit`: a running write has a key; a job's files
  have room for a record, so that a rest that is not empty gives a file that
  is not;
- `RecoveryStages`: temporary files and the marker are gone before the tables
  are loaded;
- `IdsIncrease`: no two tables the directory, the handle or the job refers to
  share an id, and `nextId` lies above every id in use, those of temporary
  files and of the pending merge included.

The step that carries the argument is recovery: `nextId` is computed from the
names in the directory alone, and it is above the ids of the pending merge
only because by then there is no pending merge.

### PebbleDB: the contract

`Durable` speaks of a crash *now*, in the middle of whatever is under way, so
its invariant has to say at each step what is where. `DurInv` is `IndInv` with
two more parts.

`DirInv` is about the directory alone and holds in every state: the files
recovery would load are `Coherent` (`LevelsCoherent` of any set of files), a
pending merge lists outputs that are there and lists no file as both, and
`Durable`. It has to be about the directory alone because it is all that is
known after a crash.

`HandleInv` holds while the database is open and says how handle, directory
and operation fit together: `JobPlanned` (the job is sound and its outputs
and its rest are together the merge of its inputs), `JobHidden` (until the
swap, the directory answers every search as the handle does), `JobStages`,
`NewestIds`, `DirectoryMatches` (`disk` at each step, from `levels` and the
job), `NoDebris`, `MemtableLogged`, `AnswersAllowed`, `WriteOutcome`.

What carries the argument are three facts of `CompactionTheorems`, free of
any state:

- `PlanIsSound`: `PickCompaction` gives a `SoundPlan`. It takes all of level 0
  or a file of a deeper level, with every file of the next level that shares a
  key with it, and drops tombstones only when nothing lies below the output.
  This needs only finite sets and unique ids, no disjoint levels: after a
  crash they need not be disjoint.
- `AddOutput`, `AddOutputCoherent`: an output beside its inputs changes no
  answer. A search meets a shallower record first, or one the output repeats.
- `ReplaceKeepsAnswers`, `ReplaceCoherent`: nor does the exchange of all the
  inputs for all the outputs, but for tombstones, which nothing hides behind.

`Coherent` is the invariant of the *levels* that these need and keep: two
files of a level below 0 may disagree on a key only while a shallower level
holds it. That is why a crash in mid-job, which leaves outputs beside inputs,
costs nothing.

`HandleIsMirror` and `PebbleDBIsDurableStore` use `LogInv` = `DurInv` and
`MemtableIsLog`. Each action of `PebbleDB` is one of `DurableStore` or leaves
its variables alone: the first step of a write is `Begin`, the append to the
log `Apply`, the return `Reply`, and a crash or an error `CutShort`.

### ObservedDB

`ObservedImplementsSpec` has one case per action of `ObservedDB`; each is
an action of `PebbleDB` with all its error points open and with conjuncts
about the observations. What `PebbleDB` proves with no hypothesis about errors
therefore carries over: `TypeCorrect` and `FreshIds`, and
`ObservedIdsAreFresh` follows with no argument repeated. The contract does
not, since a fault may be an error at *any* point, which `PebbleDB`'s theorems
about it exclude; it holds because the client drops the handle. `FaultInv` says so:
`DirInv` always, and `HandleInv` or `OutOfStep`, a handle that has ended its
last operation and only answers reads.

`LevelsStayDisjoint` needs `FreshInv`: until a fault fires, the files of a
level lie `SideBySide`, what a job leaves of the output level lies `Beside`
all its inputs, on one side of them, and `JobInOrder`, the outputs are cut
from the merge from the left to the right. The planner's part is
`PlanIsBeside`: a file of the next level that does not meet the union range of
the inputs does not meet the range of inputs and overlapping files together
either, *because* the files of that level are disjoint. The property is thus
its own induction hypothesis, and lost for good once a crash has broken it.

`StatsExplain` needs no assumption at all: it only counts. `StatsInv` is
`IndInv`, the types of the counters, and a `Ledger` of two numbers, the bytes
the sides of the account are apart by and the ids used up by files that were
never listed: while no fault has fired there are no such ids, and unless an
operation failed at a point of `BytesApart` no such bytes. A step leaves the
two numbers as they are, opening a directory sets them to 0, and an operation
that fails adds to them what it has begun (`FireErrorLedger`). `EntriesLogged`
holds unless one failed at a point of `EntriesApart`. The property speaks of
an idle handle; the ledger has to balance at every step between. It does not
balance with
`metrics`, because a flush is counted before its table is in the levels and a
job only when its files have been swapped: `Counters` are the metrics, or at
`"swapped"` the metrics with the job that is about to be recorded. Files are
counted with the outputs of the unfinished job, and with the file begun, whose
id has been taken while nothing lists it (`FileBegun`). That the sums move as
they should is `SumOfUnion`: the levels lose a job's inputs and gain its
outputs, the outputs are not among the levels (ids are fresh, so `IndInv` is
needed), and the bytes of the levels are the bytes of all files
(`BytesByLevel`), which is where an entry in the wrong level would show.

### SSTable and Iterators

Nothing in this part is a case analysis over `Next`; the work is in pure
functions, each a recursive one or a sum. `Iterators_proofs` goes up from
them:

- *sums and order*: the sum of a function over a finite set, as a recursive
  function, and that a finite set of keys can be listed in ascending order;
- *the cut into blocks*: `BlocksOf` gives blocks that are `Ordered` and hold
  every record once, and no block is empty;
- *the file*: two segments of a file begin at the same offset only if they are
  one, so an offset that fits its field leads back to what was written there
  (`Loads`). The index comes after the blocks and the filter after the index,
  so it is enough that the filter's offset fits, which is `Fits`;
- *finding a record*: the block `FindBlock` stops at is the one that has the
  key if any has, the filter does not reject it because lookup and insertion
  take the same bits, and the scan of the block finds it (`GetsRecord`);
- *one cursor*: `At(c, E, x)` says that it has passed the keys of `E` below
  `x` and no other. `seek` finds the block by the index and may have to go on
  to the next one; `advance` crosses the end of a block;
- *the merge*: sources at `x` show the least key of any of them from `x` on,
  with the entry of the first source that has it. So a stack of sources reads
  as one map, `Overlay`;
- *the loops* of `advance` and `normalize` are recursions that move at least
  one source at every step; they are followed to their end by the number of
  keys that are left.

`IInv` ties this to the state: the memtable over the contents of the tables
answers what the client stored (`DatabaseHolds`), and the children of the open
range show, from some `x` on, the layers of the database as they were when it
was opened (`RangeShows`). The contents of the tables are not in the state,
the invariant says that there are some. `TablesReadBack` needs only that the
memtable is one, and nothing of tables that do not fit. The refinement of
`OrderedCursor` follows from `RangeShows`: its snapshot is that `Overlay`, its
position the first live key from `x` on.

### Wal

`WalTypes` and `ReplayOnlyGrows` hold whatever fails. The others follow from
`WalInv`. While the log is open, the cells of the file, of the buffer and of a
write under way are, one after the other, whole records in the order of the
calls, with every acknowledged one whole in the file (`OpenInv`). While it is
closed, the file is a log of that kind, cut at some cell and damaged
(`Intact`, `Scarred`).

What the scan finds in such a file is a statement about a recursive function.
`Scan` is defined over positions; its value is characterised without recursion
(`IsScanFrom`), and that there is exactly one such sequence, and that `Scan`
is it, is proved from a least position at which it would fail (`Least`,
`FromTheEnd`, `SomeScan`, `OneScan`, `ScanIsScan`). The same device gives the
induction along the records (`UpTo`).

### Cache

`CacheTypes`, `HitsAreNotExpired` and `ClearIsComplete` follow from
`CacheInv`. A stored entry's expiry time is its due time unless the due time
does not fit the field (`Faithful`). An entry that is due on the clock has a
due time that fits, so `is_expired` sees it: overflow makes entries expire
early and never late. For `clear`, every key not, or no longer, on the list is
empty or holds something stored after the call began. With `NoOverflow` the
two times are equal (`ExactInv`), and nothing expires early either.

### How the invariants were found

The large ones were invariants of a TLC run before they were proved: `IndInv`
and `DurInv` of instances of `PebbleDB` (2 395 042 and 1 394 534 distinct
states in the two largest), `WalInv` (111 597), `FreshInv` (1 311 133), and `StatsInv` for a handle whose
fault has not fired (1 534 377). `IInv` quantifies over all stacks of contents
and was not one of them. The proofs have one lemma per action, and in it one step per conjunct the action
can disturb.

### Only model-checked

- `Terminates`: the prover has neither fairness nor `ENABLED`.
- The counterexamples of the violated runs, which are found and not proved.

Every other property of a passing run is the statement of a theorem. None of
the theorems uses a library theorem with an operator for a parameter: where a
recursive function is concerned, it is first shown to satisfy its equation at
every argument, from a least one at which it would not.

## Not modelled

- The bytes inside a log record or a table record, and lengths of 4 GiB in
  them (`wal.rs:54`): cells and sizes stand for them.
- What a misread block would decode to, if it did.
- Table files that are damaged or of another version: the checks of length,
  magic, version and checksum in `load` (`sstable.rs:49-66`, `93-96`) are left
  out, and a table in `SSTable` is read as it was written. A file the disk has
  changed makes `open` fail; no property speaks of it.
- The counters of `CacheStats`, cache calls that fail, and entries that do not
  decode.
- A second process that writes; one that reads is enough to lose a record.
- Power failure, the sync of directories, I/O errors other than those named.
- Parsing and printing of the command line and of fault names. A command is
  one call of the engine.
- The crash harness (`bin/crash_child.rs`): a fixed workload whose
  acknowledgements a test compares with what it recovers. `PebbleDB` allows
  its client any such workload.

## Plan

In the order of what matters most to the store:

1. Done: `Lsm`, `Compaction`, `PebbleDB`, `DurableStore`; `Wal`; `Cache`;
   their first theorems.
2. Done: `SSTable`, `Iterators`, `OrderedCursor`; `ObservedDB`;
   `SharedDirectory`; damaged lengths and the strict reader in `Wal`.
3. Done: the contract and the refinement of `DurableStore`, in `PebbleDB` and
   under injected faults; the order of the levels; everything about `Wal` and
   about `Cache`.
4. Done: the file format and the iterators, up to the refinement of
   `OrderedCursor`; the statistics.
5. If more is wanted: `PebbleDB`'s log as a refinement of `Wal`'s cells, the
   levels under `Iterators`' tables as a refinement of `PebbleDB`'s tables,
   and a writing second process.
