--------------------------- MODULE PebbleDB_proofs ---------------------------
(***************************************************************************)
(* Proofs about PebbleDB, for every value of its constants: TypeOK and     *)
(* IdsAreFresh are invariants.  Neither is inductive, and neither can be   *)
(* proved without the other: the search order of the files is total, and   *)
(* so a search and a merge well defined, because ids are never used twice; *)
(* and ids stay in order because every table is one the code has built.    *)
(***************************************************************************)
EXTENDS PebbleDB, CompactionTheorems

\* The table that is in place on disk but not yet known to the handle or
\* the job.
InPlace == IF pc \in {"renamed", "truncated"} THEN {file} ELSE {}

\* Every table the directory, the handle or the running operation refers to.
Tables == disk \cup levels \cup job.inputs \cup job.outputs \cup InPlace

\* The sets of tables are finite.
TablesFinite ==
    /\ IsFiniteSet(disk) /\ IsFiniteSet(levels)
    /\ IsFiniteSet(job.inputs) /\ IsFiniteSet(job.outputs)

\* No table under construction is empty.
NoEmptyOutput ==
    /\ \A f \in job.outputs : KeysOf(f.contents) # {}
    /\ pc \in {"create", "rename", "renamed", "truncated"} =>
            KeysOf(file.contents) # {}

\* A running write has a key and a record, and once it is inserted the
\* memtable is not empty.
WriteUnderWay ==
    /\ Writing => op.key \in Key /\ op.entry \in Entry
    /\ pc \in {"append", "insert"} => Writing
    /\ pc = "inserted" => memtable # NoContents

\* The output files of a job have room for a record.
JobHasLimit ==
    /\ job # NoJob => job.limit >= 1
    /\ pc = "merge" => job.limit >= 1

\* How far recovery has got.
RecoveryStages ==
    /\ pc \in Recovering => job = NoJob
    /\ pc \in Recovering \ {"replay"} => levels = {}
    /\ pc = "replay" => levels = disk
    /\ pc \in {"finish", "load", "replay"} => tmp = {}
    /\ pc \in {"load", "replay"} => marker = NoMarker

\* Ids are handed out in increasing order and used once.
IdsInUse ==
    Ids(disk \cup levels \cup job.inputs \cup job.outputs)
        \cup tmp \cup marker.outputs \cup marker.inputs

IdsIncrease ==
    /\ UniqueIds(Tables)
    /\ pc \notin Recovering \ {"replay"} => \A i \in IdsInUse : i < nextId
    /\ pc \in {"create", "rename", "renamed", "truncated"} => file.id < nextId
    /\ pc \in {"create", "rename"} =>
            file.id \notin Ids(Tables) \cup marker.outputs \cup marker.inputs

\* The inductive invariant.
IndInv ==
    /\ TypeOK
    /\ TablesFinite
    /\ NoEmptyOutput
    /\ WriteUnderWay
    /\ JobHasLimit
    /\ RecoveryStages
    /\ IdsIncrease

\* The groups of variables that UNCHANGED names.
USE DEF directory, handle, control, history

-----------------------------------------------------------------------------
\* The values that stand for "nothing" are values of their kind.
LEMMA Nothing ==
    /\ NoContents \in Contents
    /\ KeysOf(NoContents) = {}
    /\ NoFile \in Table
    /\ NoJob \in Job
    /\ NoJob.inputs = {} /\ NoJob.outputs = {} /\ NoJob.doomed = {}
    /\ NoOp \in Op
    /\ NoOp.kind = "none"
    /\ NoMarker \in [outputs : SUBSET Nat, inputs : SUBSET Nat]
<1>1. NoContents \in Contents /\ KeysOf(NoContents) = {}
  BY DEF NoContents, Contents, KeysOf
<1> QED
  BY <1>1 DEF NoFile, NoJob, NoOp, NoMarker, Table, Job, Op

\* What write_level_file starts with is a table.
LEMMA StartFileType ==
    ASSUME IndInv, NEW n \in Nat, NEW c \in Contents, StartFile(n, c)
    PROVE  /\ file' \in Table /\ nextId' \in Nat /\ pc' \in Points
           /\ file'.id = nextId /\ file'.id < nextId'
           /\ file'.contents = c
BY DEF IndInv, TypeOK, StartFile, Table, Points

\* A memtable or a merge that is not NoContents holds a key.
LEMMA NotEmpty ==
    ASSUME NEW c \in Contents
    PROVE  c # NoContents <=> KeysOf(c) # {}
BY DEF Contents, NoContents, KeysOf

\* The id it takes is fresh.
LEMMA StartFileFresh ==
    ASSUME IndInv, NEW n \in Nat, NEW c \in Contents, StartFile(n, c),
           UNCHANGED <<directory, levels, job>>, pc \notin Recovering
    PROVE  IdsIncrease'
<1> DEFINE known == disk \cup levels \cup job.inputs \cup job.outputs
<1>1. Tables' = known /\ IdsInUse' = IdsInUse /\ known \subseteq Tables
  BY DEF StartFile, Tables, InPlace, IdsInUse
<1>2. \A i \in IdsInUse : i < nextId
  BY DEF IndInv, IdsIncrease
<1>3. UniqueIds(Tables')
  BY <1>1 DEF IndInv, IdsIncrease, UniqueIds
<1>4. nextId' = nextId + 1 /\ nextId \in Nat /\ file'.id = nextId
  BY DEF StartFile, IndInv, TypeOK
<1>5. IdsInUse \subseteq Nat \cup {MarkerTmp}
  <2>1. known \subseteq Table
    BY DEF IndInv, TypeOK, Job
  <2>2. Ids(known) \subseteq Nat
    BY <2>1 DEF Ids, Table
  <2> QED
    BY <2>2 DEF IdsInUse, IndInv, TypeOK
<1>6. \A i \in IdsInUse' : i < nextId'
  BY <1>1, <1>2, <1>4, <1>5 DEF MarkerTmp
<1>7. file'.id \notin IdsInUse
  BY <1>2, <1>4
<1>8. file'.id \notin Ids(Tables') \cup marker'.outputs \cup marker'.inputs
  BY <1>1, <1>7 DEF IdsInUse
<1> QED
  BY <1>3, <1>4, <1>6, <1>8 DEF IdsIncrease

\* What execute_job starts with: a job on files of the handle.
LEMMA StartJobType ==
    ASSUME IndInv, NEW inputs \in SUBSET levels, NEW n \in Nat,
           NEW drop \in BOOLEAN, NEW limit \in Nat,
           StartJob(inputs, n, drop, limit)
    PROVE  /\ job' \in Job
           /\ job'.inputs = inputs /\ job'.outputs = {} /\ job'.limit = limit
           /\ pc' = "merge"
<1>1. inputs \in SUBSET Table /\ IsFiniteSet(inputs) /\ UniqueIds(inputs)
  BY FS_Subset
     DEF IndInv, TypeOK, TablesFinite, IdsIncrease, Tables, UniqueIds
<1>2. Merge(inputs, drop) \in Contents
  BY <1>1, MergeType
<1> QED
  BY <1>1, <1>2 DEF StartJob, Job

\* It disturbs no id.
LEMMA StartJobIds ==
    ASSUME IndInv, job'.inputs \subseteq levels, job'.outputs = {},
           pc' = "merge", UNCHANGED <<directory, levels, nextId>>,
           pc \notin Recovering
    PROVE  IdsIncrease'
<1>1. Tables' \subseteq Tables /\ IdsInUse' \subseteq IdsInUse
  BY DEF Tables, InPlace, IdsInUse, Ids
<1> QED
  BY <1>1 DEF IndInv, IdsIncrease, UniqueIds

\* The id after those of the tables found is above them all.
LEMMA IdAfterType ==
    ASSUME NEW files \in SUBSET Table, IsFiniteSet(files)
    PROVE  /\ IdAfter(files) \in Nat
           /\ \A f \in files : f.id < IdAfter(files)
<1>1. CASE files = {}
  BY <1>1 DEF IdAfter
<1>2. CASE files # {}
  <2> DEFINE ids == Ids(files)
             F == [f \in files |-> f.id]
  <2>1. ids \in SUBSET Nat /\ ids # {}
    BY <1>2 DEF Ids, Table
  <2>2. IsFiniteSet(ids)
    <3>1. F \in Surjection(files, ids)
      BY DEF Surjection, Ids
    <3> HIDE DEF F, ids
    <3> QED
      BY <3>1, FS_Surjection
  <2>3. Greatest(ids) \in Nat /\ \A i \in ids : i <= Greatest(ids)
    <3> HIDE DEF ids
    <3> QED
      BY <2>1, <2>2, GreatestOfFinite
  <2>4. \A f \in files : f.id \in ids /\ f.id \in Nat
    BY DEF Ids, Table
  <2> QED
    BY <1>2, <2>3, <2>4 DEF IdAfter
<1> QED
  BY <1>1, <1>2

\* A write starts with a key and a record, and an answer for delete.
LEMMA BeginWriteStep ==
    ASSUME IndInv, NEW kind \in {"set", "delete"}, NEW k \in Key,
           NEW entry \in Entry, BeginWrite(kind, k, entry)
    PROVE  IndInv'
<1>1. TypeOK'
  <2>1. op' \in Op
    <3>1. (kind = "delete" /\ Existed(k)) \in BOOLEAN
      BY DEF Existed
    <3> QED
      BY <3>1 DEF BeginWrite, Op
  <2>2. allowed' \in [Key -> SUBSET (Value \cup {None})]
    <3>1. Answer(entry) \in Value \cup {None}
      BY DEF Answer
    <3> QED
      BY <3>1 DEF IndInv, TypeOK, BeginWrite
  <2> QED
    BY <2>1, <2>2 DEF IndInv, TypeOK, BeginWrite, Points
<1>2. WriteUnderWay'
  BY DEF BeginWrite, WriteUnderWay, Writing
<1>3. TablesFinite' /\ NoEmptyOutput' /\ JobHasLimit' /\ RecoveryStages'
  BY DEF IndInv, TablesFinite, NoEmptyOutput, JobHasLimit, RecoveryStages,
         Recovering, BeginWrite
<1>4. IdsIncrease'
  BY DEF IndInv, IdsIncrease, IdsInUse, Tables, InPlace, Recovering,
         BeginWrite
<1> QED
  BY <1>1, <1>2, <1>3, <1>4 DEF IndInv

\* The record of the write is appended.
LEMMA AppendRecordStep ==
    ASSUME IndInv, AppendRecord
    PROVE  IndInv'
<1>1. TypeOK'
  <2>1. [key |-> op.key, entry |-> op.entry] \in Record
    BY DEF IndInv, WriteUnderWay, AppendRecord, Record
  <2>2. wal' \in Seq(Record)
    BY <2>1 DEF IndInv, TypeOK, AppendRecord
  <2> QED
    BY <2>2 DEF IndInv, TypeOK, AppendRecord, Points
<1>2. TablesFinite' /\ NoEmptyOutput' /\ WriteUnderWay' /\ JobHasLimit' /\ RecoveryStages'
  BY DEF IndInv, TablesFinite, NoEmptyOutput, WriteUnderWay, Writing,
         JobHasLimit, RecoveryStages, Recovering, AppendRecord
<1>3. IdsIncrease'
  BY DEF IndInv, IdsIncrease, IdsInUse, Tables, InPlace, Recovering,
         AppendRecord
<1> QED
  BY <1>1, <1>2, <1>3 DEF IndInv

\* The inserted record makes the memtable not empty.
LEMMA InsertMemtableStep ==
    ASSUME IndInv, InsertMemtable
    PROVE  IndInv'
<1>1. TypeOK'
  <2>1. memtable' \in Contents
    BY DEF IndInv, TypeOK, WriteUnderWay, InsertMemtable, Contents
  <2> QED
    BY <2>1 DEF IndInv, TypeOK, InsertMemtable, Points
<1>2. WriteUnderWay'
  <2>1. op.key \in Key /\ op.entry \in Entry /\ memtable \in Contents
    BY DEF IndInv, TypeOK, WriteUnderWay, InsertMemtable
  <2>2. memtable'[op.key] # Absent
    BY <2>1, MarkerAssumption DEF InsertMemtable, Contents, Entry
  <2>3. memtable' # NoContents
    BY <2>1, <2>2 DEF NoContents
  <2> QED
    BY <2>1, <2>3 DEF InsertMemtable, WriteUnderWay, Writing
<1>3. TablesFinite' /\ NoEmptyOutput' /\ JobHasLimit' /\ RecoveryStages'
  BY DEF IndInv, TablesFinite, NoEmptyOutput, JobHasLimit, RecoveryStages,
         Recovering, InsertMemtable
<1>4. IdsIncrease'
  BY DEF IndInv, IdsIncrease, IdsInUse, Tables, InPlace, Recovering,
         InsertMemtable
<1> QED
  BY <1>1, <1>2, <1>3, <1>4 DEF IndInv

\* A full memtable is flushed: it is not empty and its id is fresh.
LEMMA AfterInsertStep ==
    ASSUME IndInv, AfterInsert
    PROVE  IndInv'
<1>1. TypeOK'
  <2>1. CASE MemtableFull
    BY <2>1, StartFileType DEF IndInv, TypeOK, AfterInsert, Points
  <2>2. CASE ~MemtableFull
    BY <2>2 DEF IndInv, TypeOK, AfterInsert, Points
  <2> QED
    BY <2>1, <2>2
<1>2. NoEmptyOutput'
  <2>1. CASE MemtableFull
    <3>1. KeysOf(file'.contents) # {}
      BY <2>1, NotEmpty
         DEF IndInv, TypeOK, WriteUnderWay, AfterInsert, StartFile
    <3> QED
      BY <3>1 DEF IndInv, NoEmptyOutput, AfterInsert
  <2>2. CASE ~MemtableFull
    BY <2>2 DEF IndInv, NoEmptyOutput, AfterInsert
  <2> QED
    BY <2>1, <2>2
<1>3. TablesFinite' /\ WriteUnderWay' /\ JobHasLimit' /\ RecoveryStages'
  BY DEF IndInv, TablesFinite, WriteUnderWay, Writing, JobHasLimit,
         RecoveryStages, Recovering, AfterInsert, StartFile
<1>4. IdsIncrease'
  <2>1. CASE MemtableFull
    <3>1. StartFile(0, memtable) /\ UNCHANGED <<directory, levels, job>>
      BY <2>1 DEF AfterInsert
    <3> QED
      BY <3>1, StartFileFresh DEF IndInv, TypeOK, AfterInsert, Recovering
  <2>2. CASE ~MemtableFull
    BY <2>2 DEF IndInv, IdsIncrease, IdsInUse, Tables, InPlace, Recovering,
                AfterInsert
  <2> QED
    BY <2>1, <2>2
<1> QED
  BY <1>1, <1>2, <1>3, <1>4 DEF IndInv

\* The temporary file has the id of the table being written.
LEMMA WriteTmpStep ==
    ASSUME IndInv, WriteTmp
    PROVE  IndInv'
<1>1. TypeOK'
  BY DEF IndInv, TypeOK, Table, WriteTmp, Points
<1>2. TablesFinite' /\ NoEmptyOutput' /\ WriteUnderWay' /\ JobHasLimit' /\ RecoveryStages'
  BY DEF IndInv, TablesFinite, NoEmptyOutput, WriteUnderWay, Writing,
         JobHasLimit, RecoveryStages, Recovering, WriteTmp
<1>3. IdsIncrease'
  BY DEF IndInv, IdsIncrease, IdsInUse, Tables, InPlace, Recovering, WriteTmp
<1> QED
  BY <1>1, <1>2, <1>3 DEF IndInv

\* Another table joins the directory, and none that was there is replaced.
LEMMA RenameStep ==
    ASSUME IndInv, Rename
    PROVE  IndInv'
<1>1. TypeOK'
  <2>1. disk' \subseteq Table /\ \A f \in disk' : KeysOf(f.contents) # {}
    BY DEF IndInv, TypeOK, NoEmptyOutput, Rename
  <2> QED
    BY <2>1 DEF IndInv, TypeOK, Rename, Points
<1>2. TablesFinite'
  <2>1. IsFiniteSet({f \in disk : ~SameName(f, file)})
    BY FS_Subset DEF IndInv, TablesFinite
  <2>2. IsFiniteSet(disk')
    BY <2>1, FS_AddElement DEF Rename
  <2> QED
    BY <2>2 DEF IndInv, TablesFinite, Rename
<1>3. NoEmptyOutput' /\ WriteUnderWay' /\ JobHasLimit' /\ RecoveryStages'
  BY DEF IndInv, NoEmptyOutput, WriteUnderWay, Writing, JobHasLimit,
         RecoveryStages, Recovering, Rename
<1>4. IdsIncrease'
  BY DEF IndInv, IdsIncrease, IdsInUse, Tables, InPlace, Ids, UniqueIds,
         Recovering, Rename
<1> QED
  BY <1>1, <1>2, <1>3, <1>4 DEF IndInv

\* An explicit flush, of a memtable that is not empty.
LEMMA FlushStep ==
    ASSUME IndInv, Flush
    PROVE  IndInv'
<1>1. TypeOK'
  <2>1. [NoOp EXCEPT !.kind = "flush"] \in Op
    BY DEF NoOp, Op
  <2>2. CASE memtable = NoContents
    BY <2>1, <2>2 DEF IndInv, TypeOK, Flush, Points
  <2>3. CASE memtable # NoContents
    BY <2>1, <2>3, StartFileType
       DEF IndInv, TypeOK, Flush, Points
  <2> QED
    BY <2>2, <2>3
<1>2. NoEmptyOutput'
  <2>1. CASE memtable = NoContents
    BY <2>1 DEF IndInv, NoEmptyOutput, Flush
  <2>2. CASE memtable # NoContents
    <3>1. KeysOf(file'.contents) # {}
      BY <2>2, NotEmpty DEF IndInv, TypeOK, Flush, StartFile
    <3> QED
      BY <3>1 DEF IndInv, NoEmptyOutput, Flush
  <2> QED
    BY <2>1, <2>2
<1>3. TablesFinite' /\ WriteUnderWay' /\ JobHasLimit' /\ RecoveryStages'
  BY DEF IndInv, TablesFinite, WriteUnderWay, Writing, JobHasLimit,
         RecoveryStages, Recovering, Flush, StartFile
<1>4. IdsIncrease'
  <2>1. CASE memtable = NoContents
    BY <2>1 DEF IndInv, IdsIncrease, IdsInUse, Tables, InPlace, Recovering,
                Flush
  <2>2. CASE memtable # NoContents
    <3>1. StartFile(0, memtable) /\ UNCHANGED <<directory, levels, job>>
      BY <2>2 DEF Flush
    <3> QED
      BY <3>1, StartFileFresh DEF IndInv, TypeOK, Flush, Recovering
  <2> QED
    BY <2>1, <2>2
<1> QED
  BY <1>1, <1>2, <1>3, <1>4 DEF IndInv

\* The log becomes empty.
LEMMA TruncateWalStep ==
    ASSUME IndInv, TruncateWal
    PROVE  IndInv'
<1>1. TypeOK'
  <2>1. wal' = <<>> /\ torn' = FALSE
    BY DEF TruncateWal
  <2>2. wal' \in Seq(Record)
    BY <2>1
  <2> QED
    BY <2>1, <2>2 DEF IndInv, TypeOK, TruncateWal, Points
<1>2. TablesFinite' /\ NoEmptyOutput' /\ WriteUnderWay' /\ JobHasLimit' /\ RecoveryStages'
  BY DEF IndInv, TablesFinite, NoEmptyOutput, WriteUnderWay, Writing,
         JobHasLimit, RecoveryStages, Recovering, TruncateWal
<1>3. IdsIncrease'
  BY DEF IndInv, IdsIncrease, IdsInUse, Tables, InPlace, Recovering,
         TruncateWal
<1> QED
  BY <1>1, <1>2, <1>3 DEF IndInv

\* The table that was put in place joins the handle.
LEMMA InstallFlushedStep ==
    ASSUME IndInv, InstallFlushed
    PROVE  IndInv'
<1>1. TypeOK'
  <2>1. levels' \subseteq Table /\ \A f \in levels' : KeysOf(f.contents) # {}
    BY DEF IndInv, TypeOK, NoEmptyOutput, InstallFlushed
  <2>2. file' \in Table /\ memtable' \in Contents
    BY Nothing DEF InstallFlushed
  <2> QED
    BY <2>1, <2>2 DEF IndInv, TypeOK, InstallFlushed, Points
<1>2. TablesFinite'
  BY FS_AddElement DEF IndInv, TablesFinite, InstallFlushed
<1>3. NoEmptyOutput' /\ WriteUnderWay' /\ JobHasLimit' /\ RecoveryStages'
  BY DEF IndInv, NoEmptyOutput, WriteUnderWay, Writing, JobHasLimit,
         RecoveryStages, Recovering, InstallFlushed
<1>4. IdsIncrease'
  BY DEF IndInv, IdsIncrease, IdsInUse, Tables, InPlace, Ids, UniqueIds,
         Recovering, InstallFlushed
<1> QED
  BY <1>1, <1>2, <1>3, <1>4 DEF IndInv

\* Compaction follows the flush.
LEMMA AfterFlushStep ==
    ASSUME IndInv, AfterFlush
    PROVE  IndInv'
<1>1. TypeOK'
  BY DEF IndInv, TypeOK, Points, AfterFlush
<1>2. TablesFinite' /\ NoEmptyOutput' /\ WriteUnderWay' /\ JobHasLimit' /\ RecoveryStages'
  BY DEF IndInv, TablesFinite, NoEmptyOutput, WriteUnderWay, Writing,
         JobHasLimit, RecoveryStages, Recovering, AfterFlush
<1>3. IdsIncrease'
  BY DEF IndInv, IdsIncrease, IdsInUse, Tables, InPlace, Recovering,
         AfterFlush
<1> QED
  BY <1>1, <1>2, <1>3 DEF IndInv

\* Compaction is asked for.
LEMMA CompactStep ==
    ASSUME IndInv, Compact
    PROVE  IndInv'
<1>1. TypeOK'
  BY Nothing DEF IndInv, TypeOK, Points, Op, Compact
<1>2. TablesFinite' /\ NoEmptyOutput' /\ WriteUnderWay' /\ JobHasLimit' /\ RecoveryStages'
  BY DEF IndInv, TablesFinite, NoEmptyOutput, WriteUnderWay, Writing,
         JobHasLimit, RecoveryStages, Recovering, Compact
<1>3. IdsIncrease'
  BY DEF IndInv, IdsIncrease, IdsInUse, Tables, InPlace, Recovering, Compact
<1> QED
  BY <1>1, <1>2, <1>3 DEF IndInv

\* The planner picks tables of the handle, and the merge of them is well formed.
LEMMA PickJobStep ==
    ASSUME IndInv, PickJob
    PROVE  IndInv'
<1> DEFINE plan == PickCompaction(levels)
           limit == AtLeast(1, TargetFileSize)
<1>0. ASSUME CompactionDue(levels)
      PROVE  /\ job' \in Job
             /\ job'.inputs \in SUBSET levels /\ job'.outputs = {}
             /\ job'.limit >= 1 /\ pc' = "merge"
  <2>1. /\ plan.inputs \in SUBSET levels /\ plan.outputLevel \in Nat
        /\ plan.dropTombstones \in BOOLEAN
    BY <1>0, PlanType DEF IndInv, TypeOK, TablesFinite
  <2>2. limit \in Nat /\ limit >= 1
    BY OptionsAssumption DEF AtLeast
  <2>3. StartJob(plan.inputs, plan.outputLevel, plan.dropTombstones, limit)
    BY <1>0 DEF PickJob
  <2> QED
    <3> HIDE DEF plan, limit
    <3>1. /\ job' \in Job
          /\ job'.inputs = plan.inputs /\ job'.outputs = {}
          /\ job'.limit = limit /\ pc' = "merge"
      BY <2>1, <2>2, <2>3, StartJobType
    <3> QED
      BY <2>1, <2>2, <3>1
<1>1. TypeOK'
  <2>1. CASE CompactionDue(levels)
    BY <1>0, <2>1
       DEF IndInv, TypeOK, PickJob, Points
  <2>2. CASE ~(CompactionDue(levels))
    BY <2>2 DEF IndInv, PickJob, TypeOK,
                history, Points
  <2> QED
    BY <2>1, <2>2
<1>2. TablesFinite'
  <2>1. CASE CompactionDue(levels)
    BY <1>0, <2>1, FS_Subset, FS_EmptySet
       DEF IndInv, TablesFinite, PickJob
  <2>2. CASE ~(CompactionDue(levels))
    BY <2>2 DEF IndInv, PickJob, TablesFinite
  <2> QED
    BY <2>1, <2>2
<1>3. NoEmptyOutput'
  <2>1. CASE CompactionDue(levels)
    BY <1>0, <2>1
       DEF NoEmptyOutput
  <2>2. CASE ~(CompactionDue(levels))
    BY <2>2 DEF IndInv, PickJob, NoEmptyOutput
  <2> QED
    BY <2>1, <2>2
<1>4. WriteUnderWay'
  <2>1. pc' \in {"done", "merge"}
    BY <1>0 DEF PickJob
  <2> QED
    BY <2>1 DEF IndInv, WriteUnderWay, Writing, PickJob
<1>5. JobHasLimit'
  <2>1. CASE CompactionDue(levels)
    BY <1>0, <2>1
       DEF JobHasLimit
  <2>2. CASE ~(CompactionDue(levels))
    BY <2>2 DEF IndInv, PickJob, JobHasLimit
  <2> QED
    BY <2>1, <2>2
<1>6. RecoveryStages'
  <2>1. pc' \in {"done", "merge"}
    BY <1>0 DEF PickJob
  <2> QED
    BY <2>1 DEF RecoveryStages, Recovering
<1>7. IdsIncrease'
  <2>1. CASE CompactionDue(levels)
    BY <1>0, <2>1, StartJobIds
       DEF PickJob, Recovering
  <2>2. CASE ~(CompactionDue(levels))
    BY <2>2 DEF IndInv, PickJob, IdsIncrease, IdsInUse, Tables,
                InPlace, Recovering
  <2> QED
    BY <2>1, <2>2
<1> QED
  BY <1>1, <1>2, <1>3, <1>4, <1>5, <1>6, <1>7 DEF IndInv

\* All tables of the handle are picked.
LEMMA CompactFullStep ==
    ASSUME IndInv, CompactFull
    PROVE  IndInv'
<1>0. ASSUME ~(Cardinality(levels) <= 1)
      PROVE  /\ job' \in Job
             /\ job'.inputs \in SUBSET levels /\ job'.outputs = {}
             /\ job'.limit >= 1 /\ pc' = "merge"
  <2>1. Cardinality(Key) + 1 \in Nat /\ Cardinality(Key) + 1 >= 1
    BY KeyAssumption, FS_CardinalityType
  <2>2. StartJob(levels, 1, TRUE, Cardinality(Key) + 1)
    BY <1>0 DEF CompactFull
  <2> QED
    BY <2>1, <2>2, StartJobType
<1>1. TypeOK'
  <2>1. CASE ~(Cardinality(levels) <= 1)
    BY <1>0, <2>1
       DEF IndInv, TypeOK, CompactFull, NoOp, Op, Points
  <2>2. CASE ~(~(Cardinality(levels) <= 1))
    BY <2>2 DEF IndInv, CompactFull, TypeOK,
                history, Points, NoOp, Op
  <2> QED
    BY <2>1, <2>2
<1>2. TablesFinite'
  <2>1. CASE ~(Cardinality(levels) <= 1)
    BY <1>0, <2>1, FS_Subset, FS_EmptySet
       DEF IndInv, TablesFinite, CompactFull, NoOp, Op
  <2>2. CASE ~(~(Cardinality(levels) <= 1))
    BY <2>2 DEF IndInv, CompactFull, TablesFinite
  <2> QED
    BY <2>1, <2>2
<1>3. NoEmptyOutput'
  <2>1. CASE ~(Cardinality(levels) <= 1)
    BY <1>0, <2>1
       DEF NoEmptyOutput
  <2>2. CASE ~(~(Cardinality(levels) <= 1))
    BY <2>2 DEF IndInv, CompactFull, NoEmptyOutput
  <2> QED
    BY <2>1, <2>2
<1>4. WriteUnderWay'
  <2>1. op'.kind = "compact_full" /\ pc' \in {"done", "merge"}
    BY <1>0 DEF CompactFull, NoOp
  <2> QED
    BY <2>1 DEF WriteUnderWay, Writing
<1>5. JobHasLimit'
  <2>1. CASE ~(Cardinality(levels) <= 1)
    BY <1>0, <2>1
       DEF JobHasLimit
  <2>2. CASE ~(~(Cardinality(levels) <= 1))
    BY <2>2 DEF IndInv, CompactFull, JobHasLimit
  <2> QED
    BY <2>1, <2>2
<1>6. RecoveryStages'
  <2>1. pc' \in {"done", "merge"}
    BY <1>0 DEF CompactFull
  <2> QED
    BY <2>1 DEF RecoveryStages, Recovering
<1>7. IdsIncrease'
  <2>1. CASE ~(Cardinality(levels) <= 1)
    BY <1>0, <2>1, StartJobIds
       DEF CompactFull, NoOp, Op, Recovering
  <2>2. CASE ~(~(Cardinality(levels) <= 1))
    BY <2>2 DEF IndInv, CompactFull, IdsIncrease, IdsInUse, Tables,
                InPlace, Recovering
  <2> QED
    BY <2>1, <2>2
<1> QED
  BY <1>1, <1>2, <1>3, <1>4, <1>5, <1>6, <1>7 DEF IndInv

\* An output gets at least one record and a fresh id.
LEMMA WriteOutputStep ==
    ASSUME IndInv, WriteOutput
    PROVE  IndInv'
<1> DEFINE part == Only(job.rest, FirstKeys(job.rest, job.limit))
<1>0. ASSUME job.rest # NoContents
      PROVE  /\ part \in Contents /\ KeysOf(part) # {}
             /\ job.level \in Nat /\ StartFile(job.level, part)
  <2>1. job.limit \in Nat /\ job.limit >= 1 /\ job.rest \in Contents
    BY DEF IndInv, TypeOK, Job, JobHasLimit, WriteOutput
  <2>2. part \in Contents /\ KeysOf(part) # {}
    BY <1>0, <2>1, OnlyType, FirstKeysNotEmpty
  <2> QED
    BY <1>0, <2>2 DEF WriteOutput, IndInv, TypeOK, Job
<1> HIDE DEF part
<1>1. TypeOK'
  <2>1. CASE job.rest # NoContents
    BY <1>0, <2>1, StartFileType
       DEF IndInv, TypeOK, WriteOutput
  <2>2. CASE ~(job.rest # NoContents)
    BY <2>2 DEF IndInv, TypeOK, WriteOutput, Points
  <2> QED
    BY <2>1, <2>2
<1>2. NoEmptyOutput'
  <2>1. CASE job.rest # NoContents
    BY <1>0, <2>1, StartFileType
       DEF IndInv, NoEmptyOutput, WriteOutput
  <2>2. CASE ~(job.rest # NoContents)
    BY <2>2 DEF IndInv, NoEmptyOutput, WriteOutput
  <2> QED
    BY <2>1, <2>2
<1>3. TablesFinite' /\ WriteUnderWay' /\ JobHasLimit' /\ RecoveryStages'
  BY DEF IndInv, TablesFinite, WriteUnderWay, Writing, JobHasLimit,
         RecoveryStages, Recovering, WriteOutput, StartFile
<1>4. IdsIncrease'
  <2>1. CASE job.rest # NoContents
    <3>1. UNCHANGED <<directory, levels, job>> /\ pc \notin Recovering
      BY DEF WriteOutput, Recovering
    <3> QED
      BY <1>0, <2>1, <3>1, StartFileFresh
  <2>2. CASE ~(job.rest # NoContents)
    BY <2>2 DEF IndInv, IdsIncrease, IdsInUse, Tables, InPlace, Recovering,
                WriteOutput
  <2> QED
    BY <2>1, <2>2
<1> QED
  BY <1>1, <1>2, <1>3, <1>4 DEF IndInv

\* The output joins the job, and its records leave the rest.
LEMMA KeepOutputStep ==
    ASSUME IndInv, KeepOutput
    PROVE  IndInv'
<1>1. TypeOK'
  <2>1. job' \in Job
    <3>1. Only(job.rest, KeysOf(job.rest) \ KeysOf(file.contents)) \in Contents
      BY OnlyType DEF IndInv, TypeOK, Job
    <3> QED
      BY <3>1 DEF IndInv, TypeOK, Job, KeepOutput
  <2> QED
    BY <2>1, Nothing
       DEF IndInv, TypeOK, KeepOutput, Points
<1>2. TablesFinite'
  <2>1. job'.inputs = job.inputs /\ job'.outputs = job.outputs \cup {file}
    BY DEF IndInv, TypeOK, Job, KeepOutput
  <2>2. IsFiniteSet(job'.outputs)
    BY <2>1, FS_AddElement DEF IndInv, TablesFinite
  <2> QED
    BY <2>1, <2>2 DEF IndInv, TablesFinite, KeepOutput
<1>3. NoEmptyOutput' /\ WriteUnderWay' /\ JobHasLimit' /\ RecoveryStages'
  BY DEF IndInv, NoEmptyOutput, WriteUnderWay, Writing, JobHasLimit,
         RecoveryStages, Recovering, KeepOutput
<1>4. IdsIncrease'
  BY DEF IndInv, IdsIncrease, IdsInUse, Tables, InPlace, Ids, UniqueIds,
         Recovering, KeepOutput
<1> QED
  BY <1>1, <1>2, <1>3, <1>4 DEF IndInv

\* The temporary marker is no table.
LEMMA WriteMarkerTmpStep ==
    ASSUME IndInv, WriteMarkerTmp
    PROVE  IndInv'
<1>1. TypeOK'
  BY DEF IndInv, TypeOK, Points, WriteMarkerTmp
<1>2. TablesFinite' /\ NoEmptyOutput' /\ WriteUnderWay' /\ JobHasLimit' /\ RecoveryStages'
  BY DEF IndInv, TablesFinite, NoEmptyOutput, WriteUnderWay, Writing,
         JobHasLimit, RecoveryStages, Recovering, WriteMarkerTmp
<1>3. IdsIncrease'
  <2>1. MarkerTmp < nextId
    BY DEF IndInv, TypeOK, MarkerTmp
  <2>2. Tables' = Tables /\ IdsInUse' = IdsInUse \cup {MarkerTmp}
    BY DEF WriteMarkerTmp, Tables, InPlace, IdsInUse
  <2> QED
    BY <2>1, <2>2 DEF IndInv, IdsIncrease, WriteMarkerTmp, Recovering
<1> QED
  BY <1>1, <1>2, <1>3 DEF IndInv

\* The marker lists ids of the job.
LEMMA RenameMarkerStep ==
    ASSUME IndInv, RenameMarker
    PROVE  IndInv'
<1>1. TypeOK'
  <2>1. Ids(job.outputs) \subseteq Nat /\ Ids(job.inputs) \subseteq Nat
    BY DEF IndInv, TypeOK, Job, Ids, Table
  <2>2. marker' \in [outputs : SUBSET Nat, inputs : SUBSET Nat]
    BY <2>1 DEF RenameMarker
  <2> QED
    BY <2>2 DEF IndInv, TypeOK, RenameMarker, Points
<1>2. TablesFinite' /\ NoEmptyOutput' /\ WriteUnderWay' /\ JobHasLimit' /\ RecoveryStages'
  BY DEF IndInv, TablesFinite, NoEmptyOutput, WriteUnderWay, Writing,
         JobHasLimit, RecoveryStages, Recovering, RenameMarker
<1>3. IdsIncrease'
  BY DEF IndInv, IdsIncrease, IdsInUse, Tables, InPlace, Ids, Recovering,
         RenameMarker
<1> QED
  BY <1>1, <1>2, <1>3 DEF IndInv

\* An input leaves the directory, or its removal fails.
LEMMA DeleteInputStep ==
    ASSUME IndInv, DeleteInput
    PROVE  IndInv'
<1>1. TypeOK'
  <2>1. job' \in Job
    <3>1. job \in Job
      BY DEF IndInv, TypeOK
    <3>2. PICK f \in job.doomed : job' = [job EXCEPT !.doomed = @ \ {f}]
      BY DEF DeleteInput
    <3> QED
      BY <3>1, <3>2 DEF Job
  <2>2. disk' \subseteq disk
    BY DEF DeleteInput
  <2> QED
    BY <2>1, <2>2 DEF IndInv, TypeOK, DeleteInput
<1>2. TablesFinite'
  <2>1. disk' \subseteq disk
    BY DEF DeleteInput
  <2>2. job'.inputs = job.inputs /\ job'.outputs = job.outputs
    BY DEF IndInv, TypeOK, Job, DeleteInput
  <2> QED
    BY <2>1, <2>2, FS_Subset DEF IndInv, TablesFinite, DeleteInput
<1>3. NoEmptyOutput' /\ WriteUnderWay' /\ JobHasLimit' /\ RecoveryStages'
  BY Nothing DEF IndInv, NoEmptyOutput, WriteUnderWay, Writing, JobHasLimit,
                 RecoveryStages, DeleteInput
<1>4. IdsIncrease'
  BY DEF IndInv, IdsIncrease, IdsInUse, Tables, InPlace, Ids, UniqueIds,
         DeleteInput
<1> QED
  BY <1>1, <1>2, <1>3, <1>4 DEF IndInv

\* All inputs have been tried.
LEMMA InputsDeletedStep ==
    ASSUME IndInv, InputsDeleted
    PROVE  IndInv'
<1>1. TypeOK'
  BY DEF IndInv, TypeOK, Points, InputsDeleted
<1>2. TablesFinite' /\ NoEmptyOutput' /\ WriteUnderWay' /\ JobHasLimit' /\ RecoveryStages'
  BY DEF IndInv, TablesFinite, NoEmptyOutput, WriteUnderWay, Writing,
         JobHasLimit, RecoveryStages, Recovering, InputsDeleted
<1>3. IdsIncrease'
  BY DEF IndInv, IdsIncrease, IdsInUse, Tables, InPlace, Recovering,
         InputsDeleted
<1> QED
  BY <1>1, <1>2, <1>3 DEF IndInv

\* The outputs replace the inputs in the handle.
LEMMA SwapFilesStep ==
    ASSUME IndInv, SwapFiles
    PROVE  IndInv'
<1>1. TypeOK'
  <2>1. levels' \subseteq Table /\ \A f \in levels' : KeysOf(f.contents) # {}
    BY DEF IndInv, TypeOK, Job, NoEmptyOutput, SwapFiles
  <2> QED
    BY <2>1 DEF IndInv, TypeOK, SwapFiles, Points
<1>2. TablesFinite'
  <2>1. IsFiniteSet({f \in levels : f.id \notin Ids(job.inputs)})
    BY FS_Subset DEF IndInv, TablesFinite
  <2>2. IsFiniteSet(levels')
    BY <2>1, FS_Union DEF SwapFiles, IndInv, TablesFinite
  <2> QED
    BY <2>2 DEF IndInv, TablesFinite, SwapFiles
<1>3. NoEmptyOutput' /\ WriteUnderWay' /\ JobHasLimit' /\ RecoveryStages'
  BY DEF IndInv, NoEmptyOutput, WriteUnderWay, Writing, JobHasLimit,
         RecoveryStages, Recovering, SwapFiles
<1>4. IdsIncrease'
  BY DEF IndInv, IdsIncrease, IdsInUse, Tables, InPlace, Ids, UniqueIds,
         Recovering, SwapFiles
<1> QED
  BY <1>1, <1>2, <1>3, <1>4 DEF IndInv

\* The job is over, and its ids are no longer in use.
LEMMA ClearMarkerStep ==
    ASSUME IndInv, ClearMarker
    PROVE  IndInv'
<1>1. TypeOK'
  BY Nothing DEF IndInv, TypeOK, Points, ClearMarker
<1>2. TablesFinite'
  BY Nothing, FS_EmptySet DEF IndInv, TablesFinite, ClearMarker, handle
<1>3. NoEmptyOutput' /\ WriteUnderWay' /\ JobHasLimit' /\ RecoveryStages'
  BY Nothing DEF IndInv, NoEmptyOutput, WriteUnderWay, Writing, JobHasLimit,
                 RecoveryStages, Recovering, ClearMarker
<1>4. IdsIncrease'
  <2>1. Tables' \subseteq Tables /\ IdsInUse' \subseteq IdsInUse
    BY Nothing DEF ClearMarker, Tables, InPlace, IdsInUse, Ids, NoMarker
  <2> QED
    BY <2>1 DEF IndInv, IdsIncrease, UniqueIds, ClearMarker, Recovering
<1> QED
  BY <1>1, <1>2, <1>3, <1>4 DEF IndInv

\* A temporary file goes.
LEMMA RemoveTmpStep ==
    ASSUME IndInv, RemoveTmp
    PROVE  IndInv'
<1>1. TypeOK'
  BY DEF IndInv, TypeOK, RemoveTmp
<1>2. TablesFinite' /\ NoEmptyOutput' /\ WriteUnderWay' /\ JobHasLimit' /\ RecoveryStages'
  BY DEF IndInv, TablesFinite, NoEmptyOutput, WriteUnderWay, Writing,
         JobHasLimit, RecoveryStages, RemoveTmp
<1>3. IdsIncrease'
  BY DEF IndInv, IdsIncrease, IdsInUse, Tables, InPlace, RemoveTmp
<1> QED
  BY <1>1, <1>2, <1>3 DEF IndInv

\* Recovery goes on without temporary files.
LEMMA TmpRemovedStep ==
    ASSUME IndInv, TmpRemoved
    PROVE  IndInv'
<1>1. TypeOK'
  BY DEF IndInv, TypeOK, Points, TmpRemoved
<1>2. TablesFinite' /\ NoEmptyOutput' /\ WriteUnderWay' /\ JobHasLimit' /\ RecoveryStages'
  BY DEF IndInv, TablesFinite, NoEmptyOutput, WriteUnderWay, Writing,
         JobHasLimit, RecoveryStages, Recovering, TmpRemoved
<1>3. IdsIncrease'
  BY DEF IndInv, IdsIncrease, Tables, InPlace, Recovering, TmpRemoved
<1> QED
  BY <1>1, <1>2, <1>3 DEF IndInv

\* Recovery deletes an input of the pending merge.
LEMMA FinishDeleteStep ==
    ASSUME IndInv, FinishDelete
    PROVE  IndInv'
<1>1. TypeOK'
  BY DEF IndInv, TypeOK, FinishDelete
<1>2. TablesFinite'
  <2>1. disk' \subseteq disk
    BY DEF FinishDelete
  <2> QED
    BY <2>1, FS_Subset DEF IndInv, TablesFinite, FinishDelete
<1>3. NoEmptyOutput' /\ WriteUnderWay' /\ JobHasLimit' /\ RecoveryStages'
  BY DEF IndInv, NoEmptyOutput, WriteUnderWay, Writing, JobHasLimit,
         RecoveryStages, FinishDelete
<1>4. IdsIncrease'
  BY DEF IndInv, IdsIncrease, IdsInUse, Tables, InPlace, Ids, UniqueIds,
         FinishDelete
<1> QED
  BY <1>1, <1>2, <1>3, <1>4 DEF IndInv

\* The pending merge is over.
LEMMA FinishMergeStep ==
    ASSUME IndInv, FinishMerge
    PROVE  IndInv'
<1>1. TypeOK'
  BY Nothing DEF IndInv, TypeOK, Points, FinishMerge
<1>2. TablesFinite' /\ NoEmptyOutput' /\ WriteUnderWay' /\ JobHasLimit' /\ RecoveryStages'
  BY DEF IndInv, TablesFinite, NoEmptyOutput, WriteUnderWay, Writing,
         JobHasLimit, RecoveryStages, Recovering, FinishMerge
<1>3. IdsIncrease'
  BY DEF IndInv, IdsIncrease, Tables, InPlace, Recovering, FinishMerge
<1> QED
  BY <1>1, <1>2, <1>3 DEF IndInv

\* The next id is above all that are left, for only tables have ids now.
LEMMA LoadTablesStep ==
    ASSUME IndInv, LoadTables
    PROVE  IndInv'
<1>0. nextId' \in Nat /\ \A f \in disk : f.id < nextId'
  <2>1. nextId' = IdAfter(disk) /\ disk \in SUBSET Table /\ IsFiniteSet(disk)
    BY DEF LoadTables, IndInv, TypeOK, TablesFinite
  <2> QED
    BY <2>1, IdAfterType
<1>1. TypeOK'
  BY <1>0 DEF IndInv, TypeOK, LoadTables, Points
<1>2. TablesFinite' /\ NoEmptyOutput' /\ WriteUnderWay' /\ JobHasLimit' /\ RecoveryStages'
  BY DEF IndInv, TablesFinite, NoEmptyOutput, WriteUnderWay, Writing,
         JobHasLimit, RecoveryStages, Recovering, LoadTables
<1>3. IdsIncrease'
  <2>1. tmp = {} /\ marker.outputs = {} /\ marker.inputs = {}
        /\ job.inputs = {} /\ job.outputs = {}
    BY Nothing DEF IndInv, RecoveryStages, LoadTables, Recovering, NoMarker
  <2>2. Tables' = disk /\ IdsInUse' = Ids(disk)
    BY <2>1 DEF LoadTables, Tables, InPlace, IdsInUse
  <2>3. UniqueIds(disk)
    BY DEF IndInv, IdsIncrease, Tables, UniqueIds
  <2> QED
    BY <1>0, <2>2, <2>3 DEF IdsIncrease, LoadTables, Ids
<1> QED
  BY <1>1, <1>2, <1>3 DEF IndInv

\* The memtable is rebuilt, and what a reader finds is a value or none.
LEMMA ReplayWalStep ==
    ASSUME IndInv, ReplayWal
    PROVE  IndInv'
<1>1. TypeOK'
  <2>1. memtable' \in Contents
    BY ReplayType DEF IndInv, TypeOK, ReplayWal
  <2>2. allowed' \in [Key -> SUBSET (Value \cup {None})]
    BY DEF IndInv, TypeOK, ReplayWal
  <2> QED
    BY <2>1, <2>2 DEF IndInv, TypeOK, ReplayWal, Points
<1>2. TablesFinite' /\ NoEmptyOutput' /\ WriteUnderWay' /\ JobHasLimit' /\ RecoveryStages'
  BY DEF IndInv, TablesFinite, NoEmptyOutput, WriteUnderWay, Writing,
         JobHasLimit, RecoveryStages, Recovering, ReplayWal
<1>3. IdsIncrease'
  BY DEF IndInv, IdsIncrease, IdsInUse, Tables, InPlace, ReplayWal
<1> QED
  BY <1>1, <1>2, <1>3 DEF IndInv

\* A write is answered.
LEMMA ReturnStep ==
    ASSUME IndInv, Return
    PROVE  IndInv'
<1>1. TypeOK'
  <2>1. allowed' \in [Key -> SUBSET (Value \cup {None})]
    <3>1. Answer(op.entry) \in Value \cup {None}
      BY DEF Answer
    <3> QED
      BY <3>1 DEF IndInv, TypeOK, Return
  <2> QED
    BY <2>1, Nothing DEF IndInv, TypeOK, Return, Points
<1>2. TablesFinite' /\ NoEmptyOutput' /\ WriteUnderWay' /\ JobHasLimit' /\ RecoveryStages'
  BY Nothing DEF IndInv, TablesFinite, NoEmptyOutput, WriteUnderWay, Writing,
                 JobHasLimit, RecoveryStages, Recovering, Return
<1>3. IdsIncrease'
  BY DEF IndInv, IdsIncrease, IdsInUse, Tables, InPlace, Recovering, Return
<1> QED
  BY <1>1, <1>2, <1>3 DEF IndInv

\* An error leaves files and handle, and forgets the job.
LEMMA FailStep ==
    ASSUME IndInv, Fail
    PROVE  IndInv'
<1>1. TypeOK'
  BY Nothing DEF IndInv, TypeOK, Points, Fail
<1>2. TablesFinite'
  BY Nothing, FS_EmptySet DEF IndInv, TablesFinite, Fail, directory
<1>3. NoEmptyOutput' /\ WriteUnderWay' /\ JobHasLimit' /\ RecoveryStages'
  BY Nothing DEF IndInv, NoEmptyOutput, WriteUnderWay, Writing, JobHasLimit,
                 RecoveryStages, Recovering, Fail
<1>4. IdsIncrease'
  <2>1. Tables' \subseteq Tables /\ IdsInUse' \subseteq IdsInUse
    BY Nothing DEF Fail, Tables, InPlace, IdsInUse, Ids
  <2>2. pc \notin Recovering
    BY DEF Fail, FaultPoints, Recovering
  <2> QED
    BY <2>1, <2>2
       DEF IndInv, IdsIncrease, UniqueIds, Fail
<1> QED
  BY <1>1, <1>2, <1>3, <1>4 DEF IndInv

\* A crash leaves the directory, and recovery starts with no handle.
LEMMA CrashStep ==
    ASSUME IndInv, Crash
    PROVE  IndInv'
<1>1. TypeOK'
  <2>1. torn' \in BOOLEAN
    BY DEF IndInv, TypeOK, Crash
  <2>2. crashes' \in Nat
    BY DEF IndInv, TypeOK, Crash
  <2> QED
    BY <2>1, <2>2, Nothing DEF IndInv, TypeOK, Crash, LoseHandle, Points
<1>2. TablesFinite'
  BY Nothing, FS_EmptySet DEF IndInv, TablesFinite, Crash, LoseHandle, handle
<1>3. NoEmptyOutput' /\ WriteUnderWay' /\ JobHasLimit' /\ RecoveryStages'
  BY Nothing DEF IndInv, NoEmptyOutput, WriteUnderWay, Writing, JobHasLimit,
                 RecoveryStages, Crash, LoseHandle
<1>4. IdsIncrease'
  BY Nothing DEF IndInv, IdsIncrease, Tables, InPlace, UniqueIds, Recovering,
                 Crash, LoseHandle
<1> QED
  BY <1>1, <1>2, <1>3, <1>4 DEF IndInv

\* So does the drop of the handle.
LEMMA CloseStep ==
    ASSUME IndInv, Close
    PROVE  IndInv'
<1>1. TypeOK'
  BY Nothing DEF IndInv, TypeOK, Points, Close, LoseHandle
<1>2. TablesFinite'
  BY Nothing, FS_EmptySet DEF IndInv, TablesFinite, Close, LoseHandle, handle
<1>3. NoEmptyOutput' /\ WriteUnderWay' /\ JobHasLimit' /\ RecoveryStages'
  BY Nothing DEF IndInv, NoEmptyOutput, WriteUnderWay, Writing, JobHasLimit,
                 RecoveryStages, Close, LoseHandle
<1>4. IdsIncrease'
  BY Nothing DEF IndInv, IdsIncrease, Tables, InPlace, UniqueIds, Recovering,
                 Close, LoseHandle
<1> QED
  BY <1>1, <1>2, <1>3, <1>4 DEF IndInv

\* Recovery begins.
LEMMA OpenStep ==
    ASSUME IndInv, Open
    PROVE  IndInv'
<1>1. TypeOK'
  BY DEF IndInv, TypeOK, Points, Open
<1>2. TablesFinite' /\ NoEmptyOutput' /\ WriteUnderWay' /\ JobHasLimit' /\ RecoveryStages'
  BY DEF IndInv, TablesFinite, NoEmptyOutput, WriteUnderWay, Writing,
         JobHasLimit, RecoveryStages, Recovering, Open
<1>3. IdsIncrease'
  BY DEF IndInv, IdsIncrease, Tables, InPlace, Recovering, Open
<1> QED
  BY <1>1, <1>2, <1>3 DEF IndInv

-----------------------------------------------------------------------------
\* The invariant holds of the empty directory.
LEMMA InitIndInv == Init => IndInv
<1> SUFFICES ASSUME Init PROVE IndInv
  OBVIOUS
<1>1. TypeOK
  <2>1. wal \in Seq(Record)
    BY DEF Init
  <2>2. allowed \in [Key -> SUBSET (Value \cup {None})]
    BY DEF Init
  <2> QED
    BY <2>1, <2>2, Nothing DEF Init, TypeOK, Points
<1>2. TablesFinite
  BY Nothing, FS_EmptySet DEF Init, TablesFinite
<1>3. NoEmptyOutput /\ WriteUnderWay /\ JobHasLimit /\ RecoveryStages
  BY Nothing DEF Init, NoEmptyOutput, WriteUnderWay, Writing, JobHasLimit,
                 RecoveryStages, Recovering
<1>4. IdsIncrease
  BY Nothing DEF Init, IdsIncrease, Tables, InPlace, IdsInUse, Ids, UniqueIds,
                 Recovering, NoMarker
<1> QED
  BY <1>1, <1>2, <1>3, <1>4 DEF IndInv

\* Every step keeps the invariant: one lemma per action.
LEMMA NextIndInv == IndInv /\ [Next]_vars => IndInv'
<1> SUFFICES ASSUME IndInv, [Next]_vars PROVE IndInv'
  OBVIOUS
<1>1. CASE Call
  <2>1. ASSUME NEW k \in Key, NEW v \in Value, Set(k, v) PROVE IndInv'
    BY <2>1, BeginWriteStep DEF Set, Entry
  <2>2. ASSUME NEW k \in Key, Delete(k) PROVE IndInv'
    BY <2>2, BeginWriteStep DEF Delete, Entry
  <2> QED
    BY <1>1, <2>1, <2>2, FlushStep, CompactStep, CompactFullStep DEF Call
<1>2. CASE Continue
  BY <1>2, AppendRecordStep, InsertMemtableStep, AfterInsertStep,
     WriteTmpStep, RenameStep, TruncateWalStep, InstallFlushedStep,
     AfterFlushStep, PickJobStep, WriteOutputStep, KeepOutputStep,
     WriteMarkerTmpStep, RenameMarkerStep, DeleteInputStep,
     InputsDeletedStep, SwapFilesStep, ClearMarkerStep, RemoveTmpStep,
     TmpRemovedStep, FinishDeleteStep, FinishMergeStep, LoadTablesStep,
     ReplayWalStep, ReturnStep
     DEF Continue
<1>3. CASE Fail \/ Crash \/ Close \/ Open
  BY <1>3, FailStep, CrashStep, CloseStep, OpenStep
<1>4. CASE UNCHANGED vars
  <2>1. TypeOK' /\ TablesFinite' /\ NoEmptyOutput' /\ JobHasLimit'
    BY <1>4 DEF vars, IndInv, TypeOK, TablesFinite, NoEmptyOutput, JobHasLimit
  <2>2. WriteUnderWay' /\ RecoveryStages'
    BY <1>4 DEF vars, IndInv, WriteUnderWay, Writing, RecoveryStages
  <2>3. IdsIncrease'
    BY <1>4 DEF vars, IndInv, IdsIncrease, Tables, InPlace, IdsInUse
  <2> QED
    BY <2>1, <2>2, <2>3 DEF IndInv
<1> QED
  BY <1>1, <1>2, <1>3, <1>4 DEF Next

\* What the file format, the planner and the search rely on: every variable
\* stays of its type and no table is ever empty, with any number of keys and
\* values, any options, and errors and crashes at any point.
THEOREM TypeCorrect == Spec => []TypeOK
<1>1. IndInv => TypeOK
  BY DEF IndInv
<1> QED
  BY <1>1, InitIndInv, NextIndInv, PTL DEF Spec

\* next_sst_id, which is restored from file names and never stored, never
\* hands out an id that a table, a temporary file or a pending merge still
\* has.
THEOREM FreshIds == Spec => []IdsAreFresh
<1>1. IndInv => IdsAreFresh
  <2> SUFFICES ASSUME IndInv PROVE IdsAreFresh
    OBVIOUS
  <2>1. \A f, g \in disk : f.id = g.id => f = g
    BY DEF IndInv, IdsIncrease, UniqueIds, Tables
  <2>2. pc \notin Recovering => \A i \in Ids(disk) \cup tmp : i < nextId
    BY DEF IndInv, IdsIncrease, IdsInUse, Ids
  <2>3. pc \in {"create", "rename"} =>
            file.id \notin Ids(disk) \cup marker.outputs \cup marker.inputs
    BY DEF IndInv, IdsIncrease, Tables, Ids
  <2> QED
    BY <2>1, <2>2, <2>3 DEF IdsAreFresh
<1> QED
  BY <1>1, InitIndInv, NextIndInv, PTL DEF Spec
=============================================================================
