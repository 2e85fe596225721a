------------------------------ MODULE PebbleDB ------------------------------
(***************************************************************************)
(* One handle on one database directory (db.rs): writes through the log    *)
(* and the memtable, flush, compaction and full compaction, a crash of the *)
(* process between any two file operations, and recovery, which may itself *)
(* crash.                                                                  *)
(*                                                                         *)
(* Every operation holds the write lock from its first step to its return, *)
(* so at most one is under way and reads happen between operations.  The   *)
(* steps of an operation are the points at which the directory, or what    *)
(* the handle would do next, differs: they are the code's fault points.    *)
(***************************************************************************)
EXTENDS Compaction

CONSTANTS
    FlushThreshold,  \* DbOptions::flush_threshold
    TargetFileSize,  \* DbOptions::target_file_size, in records
    ErrorPoints,     \* fault points at which a call fails and the handle lives on
    RemoveMayFail,   \* TRUE: remove_file may fail in execute_job
    MaxId,           \* bound: no operation starts with next_sst_id above this
    MaxLog,          \* bound: no write starts with this many records logged
    MaxCrashes       \* bound: how often the process dies at work

ASSUME OptionsAssumption ==
    /\ FlushThreshold \in Nat
    /\ TargetFileSize \in Nat
    /\ RemoveMayFail \in BOOLEAN
    /\ MaxId \in Nat
    /\ MaxLog \in Nat
    /\ MaxCrashes \in Nat

VARIABLES
    \* The directory.
    disk,      \* the sstable_L*_*.sst files
    tmp,       \* ids of the .tmp files, MarkerTmp for merge.pending.tmp
    marker,    \* the ids listed in merge.pending
    wal,       \* the complete records of wal.log
    torn,      \* whether a part of a record follows them
    \* The handle: DbInner.
    memtable, levels, nextId,
    \* Where the running operation, or recovery, has got to.
    pc,
    op,        \* the call under way
    file,      \* the table write_level_file is writing
    job,       \* the CompactionJob being executed
    \* History: what a read of each key may return, by the contract, and the
    \* number of crashes, which only the bound reads.
    allowed, crashes

directory == <<disk, tmp, marker, wal, torn>>
handle == <<memtable, levels, nextId>>
control == <<op, file, job>>
history == <<allowed, crashes>>
vars == <<disk, tmp, marker, wal, torn, memtable, levels, nextId,
          pc, op, file, job, allowed, crashes>>

-----------------------------------------------------------------------------
\* Values that stand for "nothing".

MarkerTmp == -1
NoKey == -1
NoMarker == [outputs |-> {}, inputs |-> {}]
NoOp == [kind |-> "none", key |-> NoKey, entry |-> Absent, existed |-> FALSE]
NoFile == [id |-> 0, level |-> 0, contents |-> NoContents]
NoJob == [inputs |-> {}, level |-> 0, limit |-> 0, rest |-> NoContents,
          outputs |-> {}, doomed |-> {}]

Ids(files) == {f.id : f \in files}

-----------------------------------------------------------------------------
\* What a reader would find.

\* get on the open handle.
Visible(k) == Answer(Find(memtable, levels, k))

\* The tables recovery would load from the directory as it stands.
RecoveredFiles ==
    IF marker.outputs \subseteq Ids(disk)
    THEN {f \in disk : f.id \notin marker.inputs}
    ELSE disk

\* get after a crash now and a reopen.
Recovered(k) == Answer(Find(Replay(wal), RecoveredFiles, k))

-----------------------------------------------------------------------------
Init ==
    /\ disk = {} /\ tmp = {} /\ marker = NoMarker /\ wal = <<>> /\ torn = FALSE
    /\ memtable = NoContents /\ levels = {} /\ nextId = 0
    /\ pc = "idle" /\ op = NoOp /\ file = NoFile /\ job = NoJob
    /\ allowed = [k \in Key |-> {None}] /\ crashes = 0

\* The call returns Ok: from here on a write is acknowledged.
Return ==
    /\ pc = "done"
    /\ pc' = "idle"
    /\ op' = NoOp
    /\ allowed' = IF op.kind \in {"set", "delete"}
                  THEN [allowed EXCEPT ![op.key] = {Answer(op.entry)}]
                  ELSE allowed
    /\ UNCHANGED <<directory, handle, file, job, crashes>>

-----------------------------------------------------------------------------
\* set and delete.

\* delete answers from a search it makes before it logs anything.
ExistedInMemtable(k) == Answer(memtable[k]) # None    \* mutant
Existed(k) == Visible(k) # None

BeginWrite(kind, k, entry) ==
    /\ pc = "idle"
    /\ nextId <= MaxId
    /\ Len(wal) < MaxLog
    /\ op' = [kind |-> kind, key |-> k, entry |-> entry,
              existed |-> kind = "delete" /\ Existed(k)]
    /\ allowed' = [allowed EXCEPT ![k] = @ \cup {Answer(entry)}]
    /\ pc' = "append"
    /\ UNCHANGED <<directory, handle, file, job, crashes>>

Set(k, v) == BeginWrite("set", k, v)
Delete(k) == BeginWrite("delete", k, Tombstone)

\* append_record hands the record to the operating system and sync waits for
\* the disk: a crash of the process keeps it from the first of the two on.
AppendRecord ==
    /\ pc = "append"
    /\ wal' = Append(wal, [key |-> op.key, entry |-> op.entry])
    /\ pc' = "insert"
    /\ UNCHANGED <<disk, tmp, marker, torn, handle, control, history>>

InsertMemtable ==
    /\ pc = "insert"
    /\ memtable' = [memtable EXCEPT ![op.key] = op.entry]
    /\ pc' = "inserted"
    /\ UNCHANGED <<directory, levels, nextId, control, history>>

-----------------------------------------------------------------------------
\* write_level_file: the id is taken first, then tmp file, rename, load.

StartFile(level, contents) ==
    /\ file' = [id |-> nextId, level |-> level, contents |-> contents]
    /\ nextId' = nextId + 1
    /\ pc' = "create"

WriteTmpTruncating ==    \* mutant: flush truncates the log too early
    /\ pc = "create"
    /\ tmp' = tmp \cup {file.id}
    /\ wal' = IF job = NoJob THEN <<>> ELSE wal
    /\ pc' = "rename"
    /\ UNCHANGED <<disk, marker, torn, handle, control, history>>

WriteTmp ==
    /\ pc = "create"
    /\ tmp' = tmp \cup {file.id}
    /\ pc' = "rename"
    /\ UNCHANGED <<disk, marker, wal, torn, handle, control, history>>

SameName(f, g) == f.id = g.id /\ f.level = g.level

Rename ==
    /\ pc = "rename"
    /\ disk' = {f \in disk : ~SameName(f, file)} \cup {file}
    /\ tmp' = tmp \ {file.id}
    /\ pc' = "renamed"
    /\ UNCHANGED <<marker, wal, torn, handle, control, history>>

-----------------------------------------------------------------------------
\* flush.

\* The threshold check at the end of set and delete.
MemtableFull == Cardinality(KeysOf(memtable)) >= FlushThreshold

AfterInsert ==
    /\ pc = "inserted"
    /\ IF MemtableFull
       THEN StartFile(0, memtable)
       ELSE pc' = "done" /\ UNCHANGED <<file, nextId>>
    /\ UNCHANGED <<directory, memtable, levels, op, job, history>>

FlushAlways ==    \* mutant: the empty memtable is not checked for
    /\ pc = "idle"
    /\ nextId <= MaxId
    /\ op' = [NoOp EXCEPT !.kind = "flush"]
    /\ StartFile(0, memtable)
    /\ UNCHANGED <<directory, memtable, levels, job, history>>

Flush ==
    /\ pc = "idle"
    /\ nextId <= MaxId
    /\ op' = [NoOp EXCEPT !.kind = "flush"]
    /\ IF memtable = NoContents
       THEN pc' = "done" /\ UNCHANGED <<file, nextId>>
       ELSE StartFile(0, memtable)
    /\ UNCHANGED <<directory, memtable, levels, job, history>>

TruncateWal ==
    /\ pc = "renamed"
    /\ job = NoJob
    /\ wal' = <<>>
    /\ torn' = FALSE
    /\ pc' = "truncated"
    /\ UNCHANGED <<disk, tmp, marker, handle, control, history>>

InstallFlushed ==
    /\ pc = "truncated"
    /\ levels' = levels \cup {file}
    /\ memtable' = NoContents
    /\ file' = NoFile
    /\ pc' = "installed"
    /\ UNCHANGED <<directory, nextId, op, job, history>>

-----------------------------------------------------------------------------
\* compact and compact_pending: jobs until the planner has no more.

Compact ==
    /\ pc = "idle"
    /\ nextId <= MaxId
    /\ op' = [NoOp EXCEPT !.kind = "compact"]
    /\ pc' = "pick"
    /\ UNCHANGED <<directory, handle, file, job, history>>

AfterFlush ==
    /\ pc = "installed"
    /\ pc' = "pick"
    /\ UNCHANGED <<directory, handle, control, history>>

StartJob(inputs, level, drop, limit) ==
    /\ job' = [inputs |-> inputs, level |-> level, limit |-> limit,
               rest |-> Merge(inputs, drop), outputs |-> {}, doomed |-> inputs]
    /\ pc' = "merge"

PickJob ==
    /\ pc = "pick"
    /\ IF CompactionDue(levels)
       THEN LET plan == PickCompaction(levels)
            IN  StartJob(plan.inputs, plan.outputLevel, plan.dropTombstones,
                         AtLeast(1, TargetFileSize))
       ELSE pc' = "done" /\ UNCHANGED job
    /\ UNCHANGED <<directory, handle, op, file, history>>

\* compact_full: every file into one at level 1 (target usize::MAX).
CompactFull ==
    /\ pc = "idle"
    /\ nextId <= MaxId
    /\ op' = [NoOp EXCEPT !.kind = "compact_full"]
    /\ IF Cardinality(levels) <= 1
       THEN pc' = "done" /\ UNCHANGED job
       ELSE StartJob(levels, 1, TRUE, Cardinality(Key) + 1)
    /\ UNCHANGED <<directory, handle, file, history>>

-----------------------------------------------------------------------------
\* execute_job.

WriteOutput ==
    /\ pc = "merge"
    /\ IF job.rest = NoContents
       THEN pc' = "mark" /\ UNCHANGED <<file, nextId>>
       ELSE StartFile(job.level,
                      Only(job.rest, FirstKeys(job.rest, job.limit)))
    /\ UNCHANGED <<directory, memtable, levels, op, job, history>>

KeepOutput ==
    /\ pc = "renamed"
    /\ job # NoJob
    /\ job' = [job EXCEPT !.outputs = @ \cup {file},
                          !.rest = Only(@, KeysOf(@) \ KeysOf(file.contents))]
    /\ file' = NoFile
    /\ pc' = "merge"
    /\ UNCHANGED <<directory, handle, op, history>>

\* write_pending_merge.
WriteMarkerTmp ==
    /\ pc = "mark"
    /\ tmp' = tmp \cup {MarkerTmp}
    /\ pc' = "marking"
    /\ UNCHANGED <<disk, marker, wal, torn, handle, control, history>>

RenameMarker ==
    /\ pc = "marking"
    /\ tmp' = tmp \ {MarkerTmp}
    /\ marker' = [outputs |-> Ids(job.outputs), inputs |-> Ids(job.inputs)]
    /\ pc' = "delete"
    /\ UNCHANGED <<disk, wal, torn, handle, control, history>>

\* The inputs go level by level, oldest first, and a failure is ignored.
DeleteInput ==
    /\ pc = "delete"
    /\ \E f \in job.doomed :
         /\ \A g \in job.doomed \ {f} :
              f.level < g.level \/ (f.level = g.level /\ f.id < g.id)
         /\ job' = [job EXCEPT !.doomed = @ \ {f}]
         /\ \/ disk' = {g \in disk : ~SameName(f, g)}
            \/ RemoveMayFail /\ disk' = disk
    /\ UNCHANGED <<tmp, marker, wal, torn, handle, pc, op, file, history>>

InputsDeleted ==
    /\ pc = "delete"
    /\ job.doomed = {}
    /\ pc' = "deleted"
    /\ UNCHANGED <<directory, handle, control, history>>

SwapKeepsInputs ==    \* mutant: retain is forgotten
    /\ pc = "deleted"
    /\ levels' = levels \cup job.outputs
    /\ pc' = "swapped"
    /\ UNCHANGED <<directory, memtable, nextId, control, history>>

SwapFiles ==
    /\ pc = "deleted"
    /\ levels' = {f \in levels : f.id \notin Ids(job.inputs)} \cup job.outputs
    /\ pc' = "swapped"
    /\ UNCHANGED <<directory, memtable, nextId, control, history>>

ClearMarker ==
    /\ pc = "swapped"
    /\ marker' = NoMarker
    /\ job' = NoJob
    /\ pc' = IF op.kind = "compact_full" THEN "done" ELSE "pick"
    /\ UNCHANGED <<disk, tmp, wal, torn, handle, op, file, history>>

-----------------------------------------------------------------------------
\* Failures.

FaultPoints ==
    CASE pc = "append"    -> {"BeforeWalAppend"}
      [] pc = "insert"    -> {"AfterWalAppend", "AfterWalFsync"}
      [] pc = "inserted"  -> {"AfterMemtableUpdate"}
      [] pc = "create"    -> {"BeforeSstableCreation"}
      [] pc = "rename"    -> {"AfterSstableWrite", "BeforeAtomicRename"}
      [] pc = "renamed"   -> {"AfterAtomicRename"} \cup
                             (IF job = NoJob THEN {"BeforeWalTruncation"} ELSE {})
      [] pc = "truncated" -> {"AfterWalTruncation", "BeforeMetadataUpdate"}
      [] pc = "installed" -> {"AfterMetadataUpdate"}
      [] pc = "mark"      -> {"AfterCompactionOutputCreation"}
      [] pc = "delete"    -> IF job.doomed = {} THEN {}
                             ELSE {"BeforeObsoleteFileDelete"}
      [] pc = "deleted"   -> {"AfterObsoleteFileDelete", "BeforeMetadataUpdate"}
      [] pc = "swapped"   -> {"AfterMetadataUpdate"}
      [] OTHER            -> {}

\* A call next to a fault point fails, the operation returns Err at once and
\* the handle stays in use.
Fail ==
    /\ FaultPoints \cap ErrorPoints # {}
    /\ pc' = "idle"
    /\ op' = NoOp /\ file' = NoFile /\ job' = NoJob
    /\ UNCHANGED <<directory, handle, history>>

LoseHandle ==
    /\ pc' = "down"
    /\ op' = NoOp /\ file' = NoFile /\ job' = NoJob
    /\ memtable' = NoContents /\ levels' = {} /\ nextId' = 0
    /\ UNCHANGED <<disk, tmp, marker, wal, allowed>>

\* The process dies in the middle of an operation or of a recovery; a record
\* that is being appended may be left on disk in part.
Crash ==
    /\ pc \notin {"idle", "down"}
    /\ crashes < MaxCrashes
    /\ crashes' = crashes + 1
    /\ torn' \in {torn, torn \/ pc = "append"}
    /\ LoseHandle

\* The handle is dropped, or the process dies, between two operations.
Close ==
    /\ pc = "idle"
    /\ LoseHandle
    /\ UNCHANGED <<torn, crashes>>

-----------------------------------------------------------------------------
\* open_with_options.

Open ==
    /\ pc = "down"
    /\ pc' = "clean"
    /\ UNCHANGED <<directory, handle, control, history>>

RemoveTmp ==
    /\ pc = "clean"
    /\ \E t \in tmp : tmp' = tmp \ {t}
    /\ UNCHANGED <<disk, marker, wal, torn, handle, pc, control, history>>

TmpRemovedUnmarked ==    \* mutant: open does not look for merge.pending
    /\ pc = "clean"
    /\ tmp = {}
    /\ pc' = "load"
    /\ UNCHANGED <<directory, handle, control, history>>

TmpRemoved ==
    /\ pc = "clean"
    /\ tmp = {}
    /\ pc' = IF marker = NoMarker THEN "load" ELSE "finish"
    /\ UNCHANGED <<directory, handle, control, history>>

\* finish_pending_merge: the listed inputs that are still there, if every
\* listed output is, in the order the directory lists them.
Obsolete == {f \in disk : f.id \in marker.inputs}
OutputsPresent == marker.outputs \subseteq Ids(disk)

FinishDelete ==
    /\ pc = "finish"
    /\ OutputsPresent
    /\ \E f \in Obsolete : disk' = disk \ {f}
    /\ UNCHANGED <<tmp, marker, wal, torn, handle, pc, control, history>>

FinishMerge ==
    /\ pc = "finish"
    /\ OutputsPresent => Obsolete = {}
    /\ marker' = NoMarker
    /\ pc' = "load"
    /\ UNCHANGED <<disk, tmp, wal, torn, handle, control, history>>

IdAfterCount(files) == Cardinality(files)    \* mutant
IdAfter(files) == IF files = {} THEN 0 ELSE Greatest(Ids(files)) + 1

\* discover_sstables and the loop over what it lists, sorted by id.
LoadTables ==
    /\ pc = "load"
    /\ levels' = disk
    /\ nextId' = IdAfter(disk)
    /\ pc' = "replay"
    /\ UNCHANGED <<directory, memtable, control, history>>

\* Replay the log and cut off a torn tail.  From here on the outcome of a
\* write the crash interrupted is settled.
ReplayWal ==
    /\ pc = "replay"
    /\ memtable' = Replay(wal)
    /\ torn' = FALSE
    /\ pc' = "idle"
    /\ allowed' = [k \in Key |->
                     allowed[k] \cap {Answer(Find(Replay(wal), levels, k))}]
    /\ UNCHANGED <<disk, tmp, marker, wal, levels, nextId, control, crashes>>

-----------------------------------------------------------------------------
\* What the client may ask for.
Call ==
    \/ \E k \in Key, v \in Value : Set(k, v)
    \/ \E k \in Key : Delete(k)
    \/ Flush
    \/ Compact
    \/ CompactFull

\* What the code does next on its own.
Continue ==
    \/ AppendRecord \/ InsertMemtable \/ AfterInsert
    \/ WriteTmp \/ Rename
    \/ TruncateWal \/ InstallFlushed \/ AfterFlush
    \/ PickJob \/ WriteOutput \/ KeepOutput
    \/ WriteMarkerTmp \/ RenameMarker \/ DeleteInput \/ InputsDeleted
    \/ SwapFiles \/ ClearMarker
    \/ RemoveTmp \/ TmpRemoved \/ FinishDelete \/ FinishMerge
    \/ LoadTables \/ ReplayWal
    \/ Return

Next == Call \/ Continue \/ Fail \/ Crash \/ Close \/ Open

Spec == Init /\ [][Next]_vars

\* One thread runs an operation: nothing but a crash or an error stops it.
FairSpec == Spec /\ WF_vars(Continue)

-----------------------------------------------------------------------------
\* Properties.

Points == {"idle", "append", "insert", "inserted", "create", "rename",
           "renamed", "truncated", "installed", "pick", "merge", "mark",
           "marking", "delete", "deleted", "swapped", "done",
           "down", "clean", "finish", "load", "replay"}

Recovering == {"down", "clean", "finish", "load", "replay"}

\* The types of op and job.
Op == [kind    : {"none", "set", "delete", "flush", "compact", "compact_full"},
       key     : Key \cup {NoKey},
       entry   : Entry \cup {Absent},
       existed : BOOLEAN]

Job == [inputs : SUBSET Table, level : Nat, limit : Nat, rest : Contents,
        outputs : SUBSET Table, doomed : SUBSET Table]

\* Each variable holds what its comment says: in particular no table in the
\* directory or in the handle is empty (an empty one has no key range and no
\* compaction would ever pick it up).
TypeOK ==
    /\ disk \subseteq Table /\ levels \subseteq Table
    /\ \A f \in disk \cup levels : KeysOf(f.contents) # {}
    /\ tmp \subseteq Nat \cup {MarkerTmp}
    /\ marker \in [outputs : SUBSET Nat, inputs : SUBSET Nat]
    /\ wal \in Seq(Record)
    /\ torn \in BOOLEAN
    /\ memtable \in Contents
    /\ nextId \in Nat
    /\ pc \in Points
    /\ op \in Op
    /\ file \in Table
    /\ job \in Job
    /\ allowed \in [Key -> SUBSET (Value \cup {None})]
    /\ crashes \in Nat

\* The durability contract: if the process died now and the directory were
\* reopened, every key would have a value the contract allows, which is the
\* last acknowledged one or that of a write whose outcome is not known.
Durable == \A k \in Key : Recovered(k) \in allowed[k]

\* Between operations the open handle answers within the contract too.
ReadsAllowed == pc = "idle" => \A k \in Key : Visible(k) \in allowed[k]

\* Between operations the handle is exactly what reopening the directory
\* would build, and nothing is left over: no file that levels does not list
\* or lists in vain, no temporary file, no pending merge, no torn tail.
HandleMirrorsDirectory ==
    pc = "idle" =>
        /\ levels = disk
        /\ memtable = Replay(wal)
        /\ tmp = {} /\ marker = NoMarker /\ ~torn

\* An id taken for a file is never that of another file: not of one in the
\* directory, which the rename would replace or the order by id misplace,
\* and not of one in a pending merge, which recovery would delete.
IdsAreFresh ==
    /\ \A f, g \in disk : f.id = g.id => f = g
    /\ pc \notin Recovering => \A i \in Ids(disk) \cup tmp : i < nextId
    /\ pc \in {"create", "rename"} =>
            file.id \notin Ids(disk) \cup marker.outputs \cup marker.inputs

\* Below level 0 a crash may leave two files of one level with different
\* records of a key, but only while a shallower level still holds the key:
\* such a pair is never what a read gets to see, nor what a compaction that
\* takes only one of the two could bring to light.
LevelsCoherent ==
    \A f, g \in RecoveredFiles, k \in Key :
        /\ f.level = g.level /\ f.level > 0
        /\ Absent \notin {f.contents[k], g.contents[k]}
        /\ f.contents[k] # g.contents[k]
        => \E h \in Holding(RecoveredFiles, k) : h.level < f.level

\* Below level 0 the key ranges of the files of a level are disjoint.
LevelsDisjoint ==
    \A f, g \in levels :
        f # g /\ f.level = g.level /\ f.level > 0
            => Largest(f) < Smallest(g) \/ Largest(g) < Smallest(f)

\* Every operation and every recovery comes to an end: the planner runs out
\* of work however the levels look, and so does the deletion of files.
Terminates == pc \notin {"idle", "down"} ~> pc \in {"idle", "down"}

\* The database implements the durable map.  A write takes effect when its
\* record is in the log.
Writing == op.kind \in {"set", "delete"}

PendingWrite ==
    [key |-> op.key, entry |-> op.entry, existed |-> op.existed,
     applied |-> Writing /\ pc # "append"]

Abstract == INSTANCE DurableStore WITH
    store   <- [k \in Key |-> Recovered(k)],
    request <- PendingWrite

ImplementsDurableStore == Abstract!Spec
=============================================================================
