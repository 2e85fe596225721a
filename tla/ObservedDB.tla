----------------------------- MODULE ObservedDB -----------------------------
(***************************************************************************)
(* The database with what its handle keeps beside the data: the metrics    *)
(* stats() reports (db.rs) and the fault injector (fault.rs).  A handle is *)
(* opened with at most one fault, a point, a hit count and a mode; every   *)
(* step passes the fault points that lie on its way.  Once a fault has     *)
(* fired the client drops the handle and opens the directory again, as the *)
(* tests do, unless the point is one of those after which it may go on:    *)
(* then the fault fires at every later hit as well.                        *)
(***************************************************************************)
EXTENDS PebbleDB, Functions

CONSTANTS
    Faults,    \* DbOptions::fault: what the first handle may be opened with
    KeepUsing, \* points after whose error the client goes on with the handle
    MaxHits    \* bound: no request is made of a handle with more hits

NoFault == [point |-> "none", at |-> 0, mode |-> "none"]

\* FaultPoint::ALL.
AllPoints ==
    {"BeforeWalAppend", "AfterWalAppend", "AfterWalFsync",
     "AfterMemtableUpdate", "BeforeSstableCreation", "AfterSstableWrite",
     "BeforeAtomicRename", "AfterAtomicRename", "BeforeMetadataUpdate",
     "AfterMetadataUpdate", "BeforeObsoleteFileDelete",
     "AfterObsoleteFileDelete", "BeforeWalTruncation", "AfterWalTruncation",
     "AfterCompactionOutputCreation"}

ASSUME FaultAssumption ==
    /\ ErrorPoints = AllPoints
    /\ Faults \subseteq [point : AllPoints, at : Nat, mode : {"Error", "Abort"}]
    /\ MaxHits \in Nat

VARIABLES
    fault, hits,  \* FaultInjector
    metrics,      \* Metrics
    loaded,       \* history: the tables the handle was opened with
    tripped       \* history: whether a fault has ever fired

observations == <<fault, hits, metrics, loaded, tripped>>
allVars == <<vars, observations>>

-----------------------------------------------------------------------------
\* The metrics.

Size(f) == Cardinality(KeysOf(f.contents))
TotalSize(files) == SumFunction([f \in files |-> Size(f)])

NoMetrics ==
    [compactions |-> 0, full_compactions |-> 0, compactions_by_level |-> <<>>,
     bytes_read |-> 0, bytes_written |-> 0, input_files |-> 0,
     output_files |-> 0, bytes_flushed |-> 0]

\* compactions_by_level[n + 1] counts the jobs with inputs at level n.
CountLevel(counts, level) ==
    [i \in 1 .. Greatest({Len(counts), level + 1}) |->
        (IF i <= Len(counts) THEN counts[i] ELSE 0)
            + (IF i = level + 1 THEN 1 ELSE 0)]

\* record, with the outcome of the job.
RecordJob ==
    [metrics EXCEPT
        !.compactions   = @ + 1,
        !.bytes_read    = @ + TotalSize(job.inputs),
        !.bytes_written = @ + TotalSize(job.outputs),
        !.input_files   = @ + Cardinality(job.inputs),
        !.output_files  = @ + Cardinality(job.outputs),
        !.full_compactions = IF op.kind = "compact_full" THEN @ + 1 ELSE @,
        !.compactions_by_level =
            IF op.kind = "compact_full" THEN @ ELSE CountLevel(@, job.level - 1)]

\* The flush counts its bytes before the last fault point ahead of the
\* change to the levels.
Flushed == [metrics EXCEPT !.bytes_flushed = @ + Size(file)]

\* stats: what the levels hold, level by level, and the counters.
LevelStats ==
    [n \in {f.level : f \in levels} |->
        LET files == {f \in levels : f.level = n}
        IN  [files |-> Cardinality(files), bytes |-> TotalSize(files)]]

SstCount == Cardinality(levels)

Stats ==
    [memtable_entries      |-> Cardinality(KeysOf(memtable)),
     wal_size              |-> Len(wal),
     sst_count             |-> SstCount,
     total_sst_size        |-> TotalSize(levels),
     levels                |-> LevelStats,
     compactions_completed |-> metrics.compactions,
     full_compactions      |-> metrics.full_compactions,
     compactions_by_level  |-> [i \in {n \in DOMAIN metrics.compactions_by_level :
                                        metrics.compactions_by_level[n] > 0} |->
                                    metrics.compactions_by_level[i]],
     \* A rational, as <<numerator, denominator>>; None before any flush.
     write_amplification   |-> IF metrics.bytes_flushed = 0 THEN None
                              ELSE <<metrics.bytes_flushed + metrics.bytes_written,
                                     metrics.bytes_flushed>>]

-----------------------------------------------------------------------------
\* The injector.

\* hit at the fault's own point, for the n-th time of this handle.
OnTheWay == fault.point \in FaultPoints
Fires == OnTheWay /\ hits + 1 >= fault.at
Fired == fault # NoFault /\ hits >= Greatest({1, fault.at})

CountHit == hits' = IF OnTheWay THEN hits + 1 ELSE hits

FireErrorCounted ==    \* mutant: a flush counts its bytes one point too early
    /\ Fires
    /\ fault.mode = "Error"
    /\ Fail
    /\ CountHit
    /\ metrics' = IF pc = "truncated" THEN Flushed ELSE metrics
    /\ tripped' = TRUE
    /\ UNCHANGED <<fault, loaded>>

\* An error comes back and the operation ends with it.
FireError ==
    /\ Fires
    /\ fault.mode = "Error"
    /\ Fail
    /\ CountHit
    /\ metrics' = IF pc = "truncated" /\ fault.point = "BeforeMetadataUpdate"
                  THEN Flushed ELSE metrics
    /\ tripped' = TRUE
    /\ UNCHANGED <<fault, loaded>>

\* The process aborts.
FireAbort ==
    /\ Fires
    /\ fault.mode = "Abort"
    /\ Crash
    /\ torn' = torn
    /\ fault' = NoFault /\ hits' = 0 /\ metrics' = NoMetrics /\ loaded' = {}
    /\ tripped' = TRUE

-----------------------------------------------------------------------------
ObservedInit ==
    /\ Init
    /\ fault \in Faults \cup {NoFault}
    /\ hits = 0 /\ metrics = NoMetrics /\ loaded = {} /\ tripped = FALSE

Request ==
    /\ Fired => fault.point \in KeepUsing
    /\ hits <= MaxHits
    /\ Call
    /\ UNCHANGED observations

Step ==
    /\ ~Fires
    /\ Continue
    /\ CountHit
    /\ metrics' = CASE pc = "truncated" -> Flushed
                    [] pc = "swapped"   -> RecordJob
                    [] OTHER            -> metrics
    /\ loaded' = IF pc = "load" THEN disk ELSE loaded
    /\ UNCHANGED <<fault, tripped>>

Drop ==
    /\ Close
    /\ fault' = NoFault /\ hits' = 0 /\ metrics' = NoMetrics /\ loaded' = {}
    /\ UNCHANGED tripped

\* The handles after the first have no fault, as in the tests.
Reopen ==
    /\ Open
    /\ UNCHANGED observations

ObservedNext == Request \/ Step \/ FireError \/ FireAbort \/ Drop \/ Reopen

ObservedSpec == ObservedInit /\ [][ObservedNext]_allVars

-----------------------------------------------------------------------------
\* Properties.

\* The points at which a flush or a job has changed one side of an account and
\* not the other: the bytes of the levels, the entries of the memtable.
BytesApart == {"BeforeMetadataUpdate", "AfterMetadataUpdate"}
EntriesApart == {"AfterWalTruncation", "BeforeMetadataUpdate"}

FailedAt(points) == Fired /\ fault.point \in points

\* stats explains the files: between two operations what the handle was
\* opened with, plus what it flushed and merged, less what it merged away, is
\* what the levels hold, in files and in bytes; every job is of some level,
\* and the memtable never has more entries than the log has records.  So it is
\* after operations that failed, however often, except after those that failed
\* between the two sides of an account; only the ids of files that failed are
\* not those of a file the levels hold.
StatsExplainLevels ==
    pc = "idle" =>
        /\ FailedAt(BytesApart) \/
             SumFunction([n \in DOMAIN Stats.levels |-> Stats.levels[n].bytes])
               = TotalSize(loaded) + metrics.bytes_flushed
                   - metrics.bytes_read + metrics.bytes_written
        /\ LET listed == Stats.sst_count + metrics.input_files
               known  == Cardinality(loaded) + (nextId - IdAfter(loaded))
           IN  listed <= known /\ (~Fired => listed = known)
        /\ Stats.compactions_completed
             = Stats.full_compactions + SumFunction(Stats.compactions_by_level)
        /\ FailedAt(EntriesApart) \/ Stats.memtable_entries <= Stats.wal_size

\* Whatever fault stopped a handle, and whatever it left half done, opening
\* the directory again gives a handle that mirrors the directory.
ReopeningRecovers == ~Fired => HandleMirrorsDirectory

\* While no fault has fired in the life of the directory, the files of a
\* level below level 0 have disjoint key ranges.
DisjointUnlessTripped == ~tripped => LevelsDisjoint
=============================================================================
