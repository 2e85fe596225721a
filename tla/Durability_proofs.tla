-------------------------- MODULE Durability_proofs ---------------------------
(***************************************************************************)
(* The durability contract, proved: in every reachable state, whatever the *)
(* constants are, a crash and a reopen give every key a value the contract *)
(* allows, and so does the open handle between operations.                 *)
(*                                                                         *)
(* Two assumptions say which failures are survived, and the runs that      *)
(* expect a violation show that neither can be dropped: a file that a      *)
(* compaction cannot remove comes back, and an error between the rename of *)
(* a table and the update of the handle leaves the two apart.              *)
(***************************************************************************)
EXTENDS PebbleDB_proofs

\* Points at which an error leaves the files as the handle has them: those of
\* a write up to its insert.
WriteErrors ==
    {"BeforeWalAppend", "AfterWalAppend", "AfterWalFsync", "AfterMemtableUpdate"}

USE DEF directory, handle, control, history

-----------------------------------------------------------------------------
(***************************************************************************)
(* The invariant.  DirInv is about the directory and holds in every state; *)
(* HandleInv says how the directory, the handle and the running operation  *)
(* fit together, and holds while the process has the database open.        *)
(***************************************************************************)
Marking == {"delete", "deleted", "swapped"}

Flushing == pc \in {"create", "rename", "renamed", "truncated"} /\ job = NoJob

\* The outputs of a running job and what is left to write are, together, the
\* merge of its inputs, each key in one place.
JobSplits(merged) ==
    /\ \A o \in job.outputs : o.level = job.level
    /\ \A o, p \in job.outputs, k \in Key :
         o.contents[k] # Absent /\ p.contents[k] # Absent => o = p
    /\ \A o \in job.outputs, k \in Key :
         o.contents[k] # Absent => o.contents[k] = merged[k] /\ job.rest[k] = Absent
    /\ \A k \in Key : job.rest[k] # Absent => job.rest[k] = merged[k]
    /\ \A k \in Key : merged[k] # Absent /\ job.rest[k] = Absent =>
            \E o \in job.outputs : o.contents[k] # Absent
    /\ pc \in {"create", "rename", "renamed"} =>
         /\ file.level = job.level
         /\ \A k \in Key : file.contents[k] \in {Absent, job.rest[k]}

JobPlanned ==
    job # NoJob /\ pc \notin Marking =>
        \E drop \in BOOLEAN :
            /\ SoundPlan(levels, job.inputs, job.level, drop)
            /\ JobSplits(Merge(job.inputs, drop))

\* While a job is under way the directory answers as the handle's files do.
JobHidden ==
    job # NoJob => \A k \in Key :
        Answer(Lookup(RecoveredFiles, k)) = Answer(Lookup(levels, k))

\* When there is a job, and which of its inputs are still on disk.
JobStages ==
    /\ pc \in {"idle", "append", "insert", "inserted", "truncated",
               "installed", "pick", "done"} => job = NoJob
    /\ pc \in {"merge", "mark", "marking"} \cup Marking => job # NoJob
    /\ pc \in {"mark", "marking", "delete", "deleted"} => job.rest = NoContents
    /\ job.doomed \subseteq job.inputs
    /\ pc \notin Marking => job.doomed = job.inputs
    /\ pc \in {"deleted", "swapped"} => job.doomed = {}

\* A table that is written is newer than all that are there.
NewestIds ==
    /\ pc \in {"create", "rename", "renamed", "truncated"} =>
         \A f \in levels \cup job.outputs : f.id < file.id
    /\ pc # "swapped" => \A f \in levels, o \in job.outputs : f.id < o.id

\* The files of the directory are those of the handle and of the job, and
\* the pending merge is the job's.
DirectoryMatches ==
    /\ pc \in {"renamed", "truncated"} =>
         disk = levels \cup job.outputs \cup {file}
    /\ pc \in {"delete", "deleted"} =>
         disk = (levels \ job.inputs) \cup job.outputs \cup job.doomed
    /\ pc \notin {"renamed", "truncated", "delete", "deleted"} =>
         disk = levels \cup job.outputs
    /\ pc = "swapped" => job.outputs \subseteq levels
    /\ pc = "swapped" => Ids(levels) \cap Ids(job.inputs) = {}
    /\ marker = IF pc \in Marking
                THEN [outputs |-> Ids(job.outputs), inputs |-> Ids(job.inputs)]
                ELSE NoMarker

\* Nothing else lies in it.
NoDebris ==
    /\ tmp = IF pc = "rename" THEN {file.id}
             ELSE IF pc = "marking" THEN {MarkerTmp} ELSE {}
    /\ ~torn

\* The memtable is in the log or, between the truncation and the install, in
\* the table that was flushed.
MemtableLogged ==
    /\ Flushing => file.level = 0 /\ file.contents = memtable
    /\ pc = "truncated" => wal = <<>>
    /\ pc # "truncated" =>
         \A k \in Key : memtable[k] # Absent => Replay(wal)[k] # Absent
    /\ pc = "insert" => Replay(wal)[op.key] = op.entry

\* What the handle answers, now or when the operation fails, is allowed.
AnswersAllowed == \A k \in Key : Visible(k) \in allowed[k]

\* A write is allowed from its start, on disk from the append on and in the
\* memtable from the insert on.
WriteOutcome ==
    Writing =>
        /\ Answer(op.entry) \in allowed[op.key]
        /\ pc # "append" => Recovered(op.key) = Answer(op.entry)
        /\ pc \notin {"append", "insert"} => Visible(op.key) = Answer(op.entry)

HandleParts ==
    /\ JobPlanned /\ JobHidden /\ JobStages /\ NewestIds
    /\ DirectoryMatches /\ NoDebris
    /\ MemtableLogged /\ AnswersAllowed /\ WriteOutcome

HandleInv == pc \notin Recovering => HandleParts

\* A pending merge lists outputs that are there, and no table twice.
MarkerSound ==
    marker.outputs \subseteq Ids(disk) /\ marker.outputs \cap marker.inputs = {}

OpKnown ==
    /\ pc \in Recovering \cup {"idle"} => op = NoOp
    /\ ~Writing => op.key = NoKey /\ op.entry = Absent /\ op.existed = FALSE

DirInv ==
    /\ Coherent(RecoveredFiles)
    /\ MarkerSound
    /\ Durable
    /\ OpKnown

\* With no error between the append and the insert, the memtable is what the
\* log replays to.
MemtableIsLog ==
    /\ pc \notin Recovering \cup {"insert", "truncated"} => memtable = Replay(wal)
    /\ pc = "insert" => [memtable EXCEPT ![op.key] = op.entry] = Replay(wal)

-----------------------------------------------------------------------------
(***************************************************************************)
(* Facts about a state.                                                    *)
(***************************************************************************)

\* All the tables there are form a set as a search expects it.
LEMMA KnownTables ==
    ASSUME IndInv
    PROVE  FileSet(Tables)
<1>1. Tables \in SUBSET Table
  BY DEF IndInv, TypeOK, Tables, InPlace, Job
<1>2. IsFiniteSet(Tables)
  <2>1. IsFiniteSet(InPlace)
    BY FS_EmptySet, FS_Singleton DEF InPlace
  <2> QED
    BY <2>1, FS_Union DEF IndInv, TablesFinite, Tables
<1> QED
  BY <1>1, <1>2 DEF FileSet, IndInv, IdsIncrease

\* So do the parts of them that a search or a merge looks at.
LEMMA KnownParts ==
    ASSUME IndInv
    PROVE  /\ FileSet(disk) /\ FileSet(levels) /\ FileSet(job.inputs)
           /\ FileSet(RecoveredFiles)
           /\ FileSet(levels \cup job.outputs)
           /\ FileSet(levels \cup InPlace)
           /\ FileSet(levels \cup job.outputs \cup InPlace)
<1>1. /\ disk \subseteq Tables /\ levels \subseteq Tables
      /\ job.inputs \subseteq Tables
      /\ levels \cup job.outputs \subseteq Tables
      /\ levels \cup InPlace \subseteq Tables
      /\ levels \cup job.outputs \cup InPlace \subseteq Tables
      /\ RecoveredFiles \subseteq Tables
  BY DEF Tables, RecoveredFiles
<1> QED
  BY <1>1, KnownTables, PartOfFileSet

\* Without a pending merge, recovery loads what the directory has.
LEMMA UnmarkedFiles ==
    ASSUME marker = NoMarker
    PROVE  RecoveredFiles = disk
BY DEF RecoveredFiles, NoMarker

\* With one, it loads the outputs in place of the inputs.
LEMMA MarkedFiles ==
    ASSUME IndInv, MarkerSound, HandleParts, pc \in {"delete", "deleted"}
    PROVE  /\ RecoveredFiles = (levels \ job.inputs) \cup job.outputs
           /\ RecoveredFiles =
                {f \in levels : f.id \notin Ids(job.inputs)} \cup job.outputs
           /\ \A f \in RecoveredFiles : f.id \notin Ids(job.inputs)
<1>1. /\ disk = (levels \ job.inputs) \cup job.outputs \cup job.doomed
      /\ marker = [outputs |-> Ids(job.outputs), inputs |-> Ids(job.inputs)]
      /\ job.doomed \subseteq job.inputs
  BY DEF HandleParts, DirectoryMatches, JobStages, Marking
<1>2. RecoveredFiles = {f \in disk : f.id \notin Ids(job.inputs)}
  BY <1>1 DEF MarkerSound, RecoveredFiles
<1>3. \A f \in job.inputs : f.id \in Ids(job.inputs)
  BY DEF Ids
<1>4. \A f \in levels : f.id \in Ids(job.inputs) => f \in job.inputs
  BY KnownTables DEF FileSet, UniqueIds, Tables, Ids
<1>5. \A f \in job.outputs : f.id \notin Ids(job.inputs)
  BY <1>1 DEF MarkerSound, Ids
<1> QED
  BY <1>1, <1>2, <1>3, <1>4, <1>5

\* A table that the pending merge lists as an input may go.
LEMMA RemoveListed ==
    ASSUME MarkerSound, NEW f, f.id \in marker.inputs,
           disk' = disk \ {f}, marker' = marker
    PROVE  MarkerSound' /\ RecoveredFiles' = RecoveredFiles
<1>1. f.id \notin marker.outputs
  BY DEF MarkerSound
<1>2. marker.outputs \subseteq Ids(disk')
  BY <1>1 DEF MarkerSound, Ids
<1> QED
  BY <1>2 DEF MarkerSound, RecoveredFiles

\* The step leaves the answers of a reopen as they are.
StoreKept == \A k \in Key : Recovered(k)' = Recovered(k)

\* What a reopen finds depends on the log and the files only.
LEMMA SameRecovered ==
    ASSUME UNCHANGED <<disk, marker, wal>>
    PROVE  /\ RecoveredFiles' = RecoveredFiles
           /\ \A k \in Key : Recovered(k)' = Recovered(k)
BY DEF RecoveredFiles, Recovered

\* If the files give the same answers and the log is the same, so is what a
\* reopen finds.
LEMMA SameFiles ==
    ASSUME wal' = wal,
           \A k \in Key : Answer(Lookup(RecoveredFiles, k))'
                            = Answer(Lookup(RecoveredFiles, k))
    PROVE  \A k \in Key : Recovered(k)' = Recovered(k)
<1> SUFFICES ASSUME NEW k \in Key PROVE Recovered(k)' = Recovered(k)
  OBVIOUS
<1>1. CASE Replay(wal)[k] # Absent
  BY <1>1 DEF Recovered, Find
<1>2. CASE Replay(wal)[k] = Absent
  BY <1>2 DEF Recovered, Find
<1> QED
  BY <1>1, <1>2

\* What the handle answers depends on its memtable and its files only.
LEMMA SameVisible ==
    ASSUME UNCHANGED <<memtable, levels>>
    PROVE  \A k \in Key : Visible(k)' = Visible(k)
BY DEF Visible

\* The part of the invariant about the directory, kept by a step that keeps
\* what a reopen finds and takes nothing back that was allowed.
LEMMA DirKept ==
    ASSUME DirInv, Coherent(RecoveredFiles)', MarkerSound', OpKnown',
           \A k \in Key : Recovered(k)' = Recovered(k),
           \A k \in Key : allowed[k] \subseteq allowed'[k]
    PROVE  DirInv'
BY DEF DirInv, Durable

\* A step of an operation that leaves the files, the log, the memtable and
\* the outcome of the operation alone.
LEMMA StillStep ==
    ASSUME DirInv, HandleParts, OpKnown',
           UNCHANGED <<disk, marker, wal, memtable, levels, allowed>>,
           pc \notin {"append", "insert"}, pc' \notin {"append", "insert"},
           op' = op \/ ~Writing'
    PROVE  DirInv' /\ AnswersAllowed' /\ WriteOutcome'
<1>1. /\ RecoveredFiles' = RecoveredFiles
      /\ \A k \in Key : Recovered(k)' = Recovered(k)
      /\ \A k \in Key : Visible(k)' = Visible(k)
  BY SameRecovered, SameVisible
<1>2. DirInv'
  BY <1>1, DirKept DEF DirInv, MarkerSound
<1>3. AnswersAllowed'
  BY <1>1 DEF HandleParts, AnswersAllowed
<1>4. WriteOutcome'
  <2>1. CASE ~Writing'
    BY <2>1 DEF WriteOutcome
  <2>2. CASE op' = op /\ Writing'
    <3>1. Writing
      BY <2>2 DEF Writing
    <3>2. Recovered(op.key)' = Recovered(op.key) /\ Visible(op.key)' = Visible(op.key)
      BY <2>2, SameRecovered DEF Recovered, RecoveredFiles, Visible
    <3> QED
      BY <2>2, <3>1, <3>2 DEF HandleParts, WriteOutcome
  <2> QED
    BY <2>1, <2>2
<1> QED
  BY <1>2, <1>3, <1>4

\* The outcome of the write under way stays what a reopen finds and what the
\* handle answers.
LEMMA OutcomeKept ==
    ASSUME IndInv, WriteOutcome, op' = op, allowed' = allowed,
           pc \notin {"append", "insert"}, pc' \notin {"append", "insert"},
           \A k \in Key : Recovered(k)' = Recovered(k) /\ Visible(k)' = Visible(k)
    PROVE  WriteOutcome'
<1> SUFFICES ASSUME Writing'
             PROVE  /\ Answer(op.entry)' \in allowed'[op'.key]
                    /\ Recovered(op.key)' = Answer(op.entry)'
                    /\ Visible(op.key)' = Answer(op.entry)'
  BY DEF WriteOutcome
<1>1. Writing /\ op.key \in Key
  BY DEF Writing, IndInv, WriteUnderWay
<1>2. ASSUME NEW k \in Key, op.key = k
      PROVE  Recovered(op.key)' = Recovered(op.key) /\ Visible(op.key)' = Visible(op.key)
  <2>1. Recovered(k)' = Recovered(k) /\ Visible(k)' = Visible(k)
    OBVIOUS
  <2> QED
    BY <1>2, <2>1 DEF Recovered, Visible
<1> QED
  BY <1>1, <1>2 DEF WriteOutcome

\* With no job there is no plan to follow.
LEMMA NoJobParts ==
    ASSUME job = NoJob
    PROVE  JobPlanned /\ JobHidden
BY DEF JobPlanned, JobHidden

-----------------------------------------------------------------------------
(***************************************************************************)
(* The steps of a write and of a flush.                                    *)
(***************************************************************************)

\* A write starts by allowing its own outcome.
LEMMA BeginWriteDurable ==
    ASSUME IndInv, DirInv, HandleParts,
           NEW kind \in {"set", "delete"}, NEW k \in Key, NEW entry \in Entry,
           BeginWrite(kind, k, entry)
    PROVE  DirInv' /\ HandleParts'
<1>1. allowed \in [Key -> SUBSET (Value \cup {None})]
  BY DEF IndInv, TypeOK
<1>2. /\ \A j \in Key : allowed[j] \subseteq allowed'[j]
      /\ Answer(entry) \in allowed'[k]
  BY <1>1 DEF BeginWrite
<1>3. /\ RecoveredFiles' = RecoveredFiles
      /\ \A j \in Key : Recovered(j)' = Recovered(j)
      /\ \A j \in Key : Visible(j)' = Visible(j)
  BY SameRecovered, SameVisible DEF BeginWrite
<1>4. Writing' /\ op'.key = k /\ op'.entry = entry /\ pc' = "append" /\ pc = "idle"
  BY DEF BeginWrite, Writing
<1>5. OpKnown'
  BY <1>4 DEF OpKnown, Recovering
<1>6. DirInv'
  BY <1>2, <1>3, <1>5, DirKept DEF DirInv, MarkerSound, BeginWrite
<1>7. AnswersAllowed' /\ WriteOutcome'
  BY <1>2, <1>3, <1>4 DEF HandleParts, AnswersAllowed, WriteOutcome
<1>8. JobStages' /\ NewestIds' /\ DirectoryMatches' /\ NoDebris'
  BY DEF HandleParts, JobStages, NewestIds, DirectoryMatches, NoDebris,
         Marking, BeginWrite
<1>9. MemtableLogged'
  BY DEF HandleParts, MemtableLogged, Flushing, BeginWrite
<1>10. JobPlanned' /\ JobHidden'
  BY NoJobParts DEF HandleParts, JobStages, BeginWrite, JobPlanned, JobHidden
<1> QED
  BY <1>6, <1>7, <1>8, <1>9, <1>10 DEF HandleParts

\* The append makes the record the last of its key in the log.
LEMMA AppendAnswers ==
    ASSUME IndInv, AppendRecord
    PROVE  /\ Writing /\ op.key \in Key /\ op.entry \in Entry /\ op.entry # Absent
           /\ Replay(wal') = [Replay(wal) EXCEPT ![op.key] = op.entry]
           /\ Replay(wal')[op.key] = op.entry
           /\ \A k \in Key \ {op.key} : Replay(wal')[k] = Replay(wal)[k]
           /\ RecoveredFiles' = RecoveredFiles
           /\ Recovered(op.key)' = Answer(op.entry)
           /\ \A k \in Key \ {op.key} : Recovered(k)' = Recovered(k)
<1>1. /\ Writing /\ op.key \in Key /\ op.entry \in Entry /\ wal \in Seq(Record)
      /\ op.entry # Absent /\ op' = op
  BY MarkerAssumption
     DEF IndInv, TypeOK, WriteUnderWay, AppendRecord, Entry
<1>2. [key |-> op.key, entry |-> op.entry] \in Record
  BY <1>1 DEF Record
<1>3. Replay(wal') = [Replay(wal) EXCEPT ![op.key] = op.entry]
  BY <1>1, <1>2, ReplayAppend DEF AppendRecord
<1>4. Replay(wal) \in Contents
  BY <1>1, ReplayType
<1>5. /\ Replay(wal')[op.key] = op.entry
      /\ \A k \in Key \ {op.key} : Replay(wal')[k] = Replay(wal)[k]
  BY <1>1, <1>3, <1>4 DEF Contents
<1>6. RecoveredFiles' = RecoveredFiles
  BY DEF RecoveredFiles, AppendRecord
<1>7. /\ Recovered(op.key)' = Answer(op.entry)
      /\ \A k \in Key \ {op.key} : Recovered(k)' = Recovered(k)
  BY <1>1, <1>5, <1>6 DEF Recovered, Find
<1> QED
  BY <1>1, <1>3, <1>5, <1>6, <1>7

\* So the outcome of the write is what a reopen finds.
LEMMA AppendRecordDurable ==
    ASSUME IndInv, DirInv, HandleParts, AppendRecord
    PROVE  DirInv' /\ HandleParts'
<1>1. DirInv'
  <2>1. Durable'
    BY AppendAnswers DEF DirInv, Durable, HandleParts, WriteOutcome, AppendRecord
  <2>2. OpKnown'
    BY DEF DirInv, OpKnown, Writing, Recovering, AppendRecord
  <2> QED
    BY AppendAnswers, <2>1, <2>2 DEF DirInv, MarkerSound, AppendRecord
<1>2. AnswersAllowed'
  BY SameVisible DEF HandleParts, AnswersAllowed, AppendRecord
<1>3. WriteOutcome'
  BY AppendAnswers DEF HandleParts, WriteOutcome, AppendRecord
<1>4. JobStages' /\ NewestIds' /\ DirectoryMatches' /\ NoDebris'
  BY DEF HandleParts, JobStages, NewestIds, DirectoryMatches, NoDebris,
         Marking, AppendRecord
<1>5. MemtableLogged'
  BY AppendAnswers DEF HandleParts, MemtableLogged, Flushing, AppendRecord
<1>6. JobPlanned' /\ JobHidden'
  BY DEF HandleParts, JobStages, AppendRecord, JobPlanned, JobHidden
<1> QED
  BY <1>1, <1>2, <1>3, <1>4, <1>5, <1>6 DEF HandleParts

\* The insert makes it what the handle answers.
LEMMA InsertMemtableDurable ==
    ASSUME IndInv, DirInv, HandleParts, InsertMemtable
    PROVE  DirInv' /\ HandleParts'
<1>1. /\ Writing /\ op.key \in Key /\ op.entry \in Entry /\ memtable \in Contents
      /\ op.entry # Absent
  BY MarkerAssumption
     DEF IndInv, TypeOK, WriteUnderWay, InsertMemtable, Entry
<1>2. /\ memtable'[op.key] = op.entry
      /\ \A k \in Key \ {op.key} : memtable'[k] = memtable[k]
  BY <1>1 DEF InsertMemtable, Contents
<1>3. /\ RecoveredFiles' = RecoveredFiles
      /\ \A k \in Key : Recovered(k)' = Recovered(k)
  BY SameRecovered DEF InsertMemtable
<1>4. /\ Visible(op.key)' = Answer(op.entry)
      /\ \A k \in Key \ {op.key} : Visible(k)' = Visible(k)
  BY <1>1, <1>2 DEF Visible, Find, InsertMemtable
<1>5. DirInv'
  BY <1>3, DirKept
     DEF DirInv, MarkerSound, OpKnown, Writing, Recovering, InsertMemtable
<1>6. AnswersAllowed'
  BY <1>1, <1>4
     DEF HandleParts, AnswersAllowed, WriteOutcome, InsertMemtable
<1>7. WriteOutcome'
  <2>1. Recovered(op.key)' = Recovered(op.key)
    BY SameRecovered DEF InsertMemtable, Recovered, RecoveredFiles
  <2> QED
    BY <1>1, <1>4, <2>1 DEF HandleParts, WriteOutcome, InsertMemtable
<1>8. JobStages' /\ NewestIds' /\ DirectoryMatches' /\ NoDebris'
  BY DEF HandleParts, JobStages, NewestIds, DirectoryMatches, NoDebris,
         Marking, InsertMemtable
<1>9. MemtableLogged'
  BY <1>1, <1>2 DEF HandleParts, MemtableLogged, Flushing, InsertMemtable
<1>10. JobPlanned' /\ JobHidden'
  BY DEF HandleParts, JobStages, InsertMemtable, JobPlanned, JobHidden
<1> QED
  BY <1>5, <1>6, <1>7, <1>8, <1>9, <1>10 DEF HandleParts

\* A flush, or the end of a write, starts a table that is newer than all.
LEMMA StartFlush ==
    ASSUME IndInv, HandleParts, pc \in {"idle", "inserted"},
           StartFile(0, memtable),
           UNCHANGED <<directory, memtable, levels, job>>
    PROVE  /\ JobStages' /\ NewestIds' /\ DirectoryMatches' /\ NoDebris'
           /\ MemtableLogged' /\ JobPlanned' /\ JobHidden'
<1>1. job = NoJob
  BY DEF HandleParts, JobStages
<1>2. \A f \in levels \cup job.outputs : f.id < nextId
  BY DEF IndInv, IdsIncrease, IdsInUse, Ids, Recovering
<1>3. NewestIds'
  BY <1>2 DEF HandleParts, NewestIds, StartFile
<1>4. JobStages' /\ DirectoryMatches' /\ NoDebris'
  BY <1>1 DEF HandleParts, JobStages, DirectoryMatches, NoDebris, Marking,
              StartFile
<1>5. MemtableLogged'
  BY DEF HandleParts, MemtableLogged, Flushing, StartFile
<1> QED
  BY <1>1, <1>3, <1>4, <1>5 DEF JobPlanned, JobHidden

\* Returning from a write, or going on to the flush that a full memtable asks
\* for, changes neither side.
LEMMA AfterInsertDurable ==
    ASSUME IndInv, DirInv, HandleParts, AfterInsert
    PROVE  DirInv' /\ HandleParts'
<1>1. pc = "inserted" /\ pc' \in {"create", "done"}
  BY DEF AfterInsert, StartFile
<1>2. OpKnown'
  BY <1>1 DEF DirInv, OpKnown, Writing, Recovering, AfterInsert
<1>3. DirInv' /\ AnswersAllowed' /\ WriteOutcome'
  BY <1>1, <1>2, StillStep DEF AfterInsert
<1>4. CASE MemtableFull
  BY <1>1, <1>3, <1>4, StartFlush DEF HandleParts, AfterInsert
<1>5. CASE ~MemtableFull
  <2>1. JobStages' /\ NewestIds' /\ DirectoryMatches' /\ NoDebris'
    BY <1>5 DEF HandleParts, JobStages, NewestIds, DirectoryMatches, NoDebris,
                Marking, AfterInsert
  <2>2. MemtableLogged'
    BY <1>5 DEF HandleParts, MemtableLogged, Flushing, AfterInsert
  <2>3. JobPlanned' /\ JobHidden'
    BY DEF HandleParts, JobStages, AfterInsert, JobPlanned, JobHidden
  <2> QED
    BY <1>3, <2>1, <2>2, <2>3 DEF HandleParts
<1> QED
  BY <1>4, <1>5

\* Starting a flush, or finding nothing to flush, changes neither side.
LEMMA FlushDurable ==
    ASSUME IndInv, DirInv, HandleParts, Flush
    PROVE  DirInv' /\ HandleParts'
<1>1. pc = "idle" /\ pc' \in {"create", "done"}
  BY DEF Flush, StartFile
<1>2. ~Writing' /\ OpKnown'
  BY <1>1 DEF OpKnown, Writing, Recovering, Flush, NoOp
<1>3. DirInv' /\ AnswersAllowed' /\ WriteOutcome'
  BY <1>1, <1>2, StillStep DEF Flush
<1>4. CASE memtable # NoContents
  BY <1>1, <1>3, <1>4, StartFlush DEF HandleParts, Flush
<1>5. CASE memtable = NoContents
  <2>1. JobStages' /\ NewestIds' /\ DirectoryMatches' /\ NoDebris'
    BY <1>5 DEF HandleParts, JobStages, NewestIds, DirectoryMatches, NoDebris,
                Marking, Flush
  <2>2. MemtableLogged'
    BY <1>5 DEF HandleParts, MemtableLogged, Flushing, Flush
  <2>3. JobPlanned' /\ JobHidden'
    BY DEF HandleParts, JobStages, Flush, JobPlanned, JobHidden
  <2> QED
    BY <1>3, <2>1, <2>2, <2>3 DEF HandleParts
<1> QED
  BY <1>4, <1>5

\* The temporary file is no table yet.
LEMMA WriteTmpDurable ==
    ASSUME IndInv, DirInv, HandleParts, WriteTmp
    PROVE  DirInv' /\ HandleParts'
<1>1. pc = "create" /\ pc' = "rename" /\ op' = op /\ job' = job /\ file' = file
  BY DEF WriteTmp
<1>2. OpKnown'
  BY <1>1 DEF DirInv, OpKnown, Writing, Recovering
<1>3. DirInv' /\ AnswersAllowed' /\ WriteOutcome'
  BY <1>1, <1>2, StillStep DEF WriteTmp
<1>4. JobStages' /\ NewestIds' /\ DirectoryMatches' /\ NoDebris'
  BY DEF HandleParts, JobStages, NewestIds, DirectoryMatches, NoDebris,
         Marking, WriteTmp
<1>5. MemtableLogged'
  BY DEF HandleParts, MemtableLogged, Flushing, WriteTmp
<1>6. JobPlanned'
  BY DEF HandleParts, JobPlanned, JobSplits, Marking, WriteTmp
<1>7. JobHidden'
  BY DEF HandleParts, JobHidden, RecoveredFiles, WriteTmp
<1> QED
  BY <1>3, <1>4, <1>5, <1>6, <1>7 DEF HandleParts

\* The table being written is one more of the set.
LEMMA NextTable ==
    ASSUME IndInv, pc = "rename"
    PROVE  /\ FileSet(Tables \cup {file})
           /\ FileSet(levels \cup {file})
           /\ FileSet(levels \cup job.outputs \cup {file})
           /\ FileSet(disk \cup {file})
           /\ \A f \in disk : ~SameName(f, file)
<1>1. Tables \cup {file} \in SUBSET Table
  BY KnownTables DEF FileSet, IndInv, TypeOK
<1>2. IsFiniteSet(Tables \cup {file})
  BY KnownTables, FS_AddElement DEF FileSet
<1>3. \A f \in Tables : f.id # file.id
  BY DEF IndInv, IdsIncrease, Ids
<1>4. UniqueIds(Tables \cup {file})
  BY <1>3, KnownTables DEF FileSet, UniqueIds
<1>5. FileSet(Tables \cup {file})
  BY <1>1, <1>2, <1>4 DEF FileSet
<1>6. /\ levels \cup {file} \subseteq Tables \cup {file}
      /\ levels \cup job.outputs \cup {file} \subseteq Tables \cup {file}
      /\ disk \cup {file} \subseteq Tables \cup {file}
  BY DEF Tables
<1>7. \A f \in disk : ~SameName(f, file)
  BY <1>3 DEF SameName, Tables
<1> QED
  BY <1>5, <1>6, <1>7, PartOfFileSet

\* The file a job is about to put in place continues the merge.
LEMMA FileFits ==
    ASSUME IndInv, HandleParts, pc = "rename", job # NoJob
    PROVE  \E drop \in BOOLEAN :
             OutputFits(levels, job.inputs, job.level, drop, job.outputs, file)
<1>1. PICK drop \in BOOLEAN :
        /\ SoundPlan(levels, job.inputs, job.level, drop)
        /\ JobSplits(Merge(job.inputs, drop))
  BY DEF HandleParts, JobPlanned, Marking
<1>2. FileSet(levels \cup job.outputs \cup {file})
  BY NextTable
<1>3. \A g \in levels \cup job.outputs : g.id < file.id
  BY DEF HandleParts, NewestIds
<1>4. /\ file.level = job.level
      /\ \A o \in job.outputs, k \in Key :
           o.contents[k] # Absent => file.contents[k] = Absent
      /\ \A k \in Key :
           file.contents[k] \in {Absent, Merge(job.inputs, drop)[k]}
  BY <1>1 DEF JobSplits
<1> QED
  BY <1>1, <1>2, <1>3, <1>4 DEF OutputFits

\* The rename changes no answer: what a flush puts in place is in the log
\* still, and what a job puts in place repeats its inputs.
LEMMA RenameKeepsAnswers ==
    ASSUME IndInv, DirInv, HandleParts, Rename
    PROVE  /\ RecoveredFiles' = levels \cup job.outputs \cup {file}
           /\ Coherent(RecoveredFiles)'
           /\ \A k \in Key : Recovered(k)' = Recovered(k)
           /\ job # NoJob => \A k \in Key :
                Lookup(RecoveredFiles, k)' = Lookup(RecoveredFiles, k)
<1>1. RecoveredFiles = levels \cup job.outputs /\ disk = levels \cup job.outputs
  BY UnmarkedFiles DEF HandleParts, DirectoryMatches, Marking, Rename
<1>2. disk' = levels \cup job.outputs \cup {file}
  BY <1>1, NextTable DEF Rename
<1>3. RecoveredFiles' = disk'
  BY DEF RecoveredFiles, NoMarker, Rename, HandleParts, DirectoryMatches, Marking
<1>4. Coherent(levels \cup job.outputs)
  BY <1>1 DEF DirInv
<1>5. CASE job = NoJob
  <2>1. /\ file.level = 0 /\ file.contents = memtable
        /\ \A k \in Key : memtable[k] # Absent => Replay(wal)[k] # Absent
    BY <1>5 DEF HandleParts, MemtableLogged, Flushing, Rename
  <2>2. levels \cup job.outputs = levels
    BY <1>5, Nothing
  <2>3. \A f \in levels : f.id < file.id
    BY DEF HandleParts, NewestIds, Rename
  <2>4. FileSet(levels \cup {file})
    BY NextTable DEF Rename
  <2>5. Coherent(RecoveredFiles')
    BY <1>2, <1>3, <1>4, <2>1, <2>2, AddFlushedCoherent
  <2>6. ASSUME NEW k \in Key PROVE Recovered(k)' = Recovered(k)
    <3>1. Lookup(levels \cup {file}, k) =
            IF memtable[k] # Absent THEN memtable[k] ELSE Lookup(levels, k)
      <4>1. file.level = 0 /\ file.contents = memtable
        BY <2>1
      <4>2. Lookup(levels \cup {file}, k) =
              IF file.contents[k] # Absent THEN file.contents[k] ELSE Lookup(levels, k)
        BY <2>3, <2>4, <4>1, AddFlushed
      <4> QED
        BY <4>1, <4>2
    <3>2. CASE Replay(wal)[k] # Absent
      BY <3>2 DEF Recovered, Find, Rename
    <3>3. CASE Replay(wal)[k] = Absent
      <4>1. Lookup(RecoveredFiles', k) = Lookup(RecoveredFiles, k)
        BY <1>1, <1>2, <1>3, <2>1, <2>2, <3>1, <3>3
      <4> QED
        BY <3>3, <4>1 DEF Recovered, Find, Rename
    <3> QED
      BY <3>2, <3>3
  <2> QED
    BY <1>2, <1>3, <1>5, <2>5, <2>6
<1>6. CASE job # NoJob
  <2>1. PICK drop \in BOOLEAN :
          OutputFits(levels, job.inputs, job.level, drop, job.outputs, file)
    BY <1>6, FileFits DEF Rename
  <2>2. Coherent(RecoveredFiles')
    BY <1>2, <1>3, <1>4, <2>1, AddOutputCoherent
  <2>3. \A k \in Key : Lookup(RecoveredFiles', k) = Lookup(RecoveredFiles, k)
    <3>1. \A k \in Key : Lookup(levels \cup job.outputs \cup {file}, k)
                            = Lookup(levels \cup job.outputs, k)
      BY <1>4, <2>1, AddOutput
    <3> QED
      BY <1>1, <1>2, <1>3, <3>1
  <2>4. \A k \in Key : Recovered(k)' = Recovered(k)
    BY <2>3, SameFiles DEF Rename
  <2> QED
    BY <1>2, <1>3, <2>2, <2>3, <2>4
<1> QED
  BY <1>5, <1>6

\* The rename of a table keeps the two sides together: a reopen finds one table
\* more and answers as before.
LEMMA RenameDurable ==
    ASSUME IndInv, DirInv, HandleParts, Rename
    PROVE  DirInv' /\ HandleParts' /\ StoreKept
<1>1. /\ pc = "rename" /\ pc' = "renamed" /\ marker' = marker /\ marker = NoMarker
      /\ disk' = levels \cup job.outputs \cup {file}
  <2>1. disk = levels \cup job.outputs /\ marker = NoMarker /\ pc = "rename"
    BY DEF HandleParts, DirectoryMatches, Marking, Rename
  <2> QED
    BY <2>1, NextTable DEF Rename
<1>2. DirInv'
  <2>1. MarkerSound'
    BY <1>1 DEF MarkerSound, NoMarker
  <2>2. OpKnown'
    BY DEF DirInv, OpKnown, Writing, Recovering, Rename
  <2> QED
    BY <2>1, <2>2, RenameKeepsAnswers, DirKept DEF Rename
<1>3. AnswersAllowed'
  BY SameVisible DEF HandleParts, AnswersAllowed, Rename
<1>4. WriteOutcome'
  <2>1. \A k \in Key : Recovered(k)' = Recovered(k) /\ Visible(k)' = Visible(k)
    BY RenameKeepsAnswers, SameVisible DEF Rename
  <2> QED
    BY <2>1, OutcomeKept DEF HandleParts, Rename
<1>5. JobStages' /\ NewestIds' /\ NoDebris'
  BY DEF HandleParts, JobStages, NewestIds, NoDebris, Marking, Rename
<1>6. DirectoryMatches'
  BY <1>1 DEF DirectoryMatches, Marking, Rename
<1>7. MemtableLogged'
  BY DEF HandleParts, MemtableLogged, Flushing, Rename
<1>8. JobPlanned'
  BY DEF HandleParts, JobPlanned, JobSplits, Marking, Rename
<1>9. JobHidden'
  BY RenameKeepsAnswers DEF HandleParts, JobHidden, Rename
<1> QED
  BY <1>2, <1>3, <1>4, <1>5, <1>6, <1>7, <1>8, <1>9, RenameKeepsAnswers
     DEF HandleParts, StoreKept

\* Once the flushed table is in place, the files alone answer as the handle.
LEMMA FlushedAnswers ==
    ASSUME IndInv, HandleParts, pc \in {"renamed", "truncated"}, job = NoJob,
           NEW k \in Key
    PROVE  Answer(Lookup(levels \cup {file}, k)) = Visible(k)
<1>1. file.level = 0 /\ file.contents = memtable
  BY DEF HandleParts, MemtableLogged, Flushing
<1>2. \A f \in levels : f.id < file.id
  BY DEF HandleParts, NewestIds
<1>3. FileSet(levels \cup {file})
  BY KnownParts DEF InPlace
<1>4. Lookup(levels \cup {file}, k) =
        IF memtable[k] # Absent THEN memtable[k] ELSE Lookup(levels, k)
  BY <1>1, <1>2, <1>3, AddFlushed
<1> QED
  BY <1>4 DEF Visible, Find

\* So the log may go: a reopen then finds what the handle answers.
LEMMA TruncateAnswers ==
    ASSUME IndInv, HandleParts, TruncateWal
    PROVE  /\ job = NoJob /\ RecoveredFiles = levels \cup {file}
           /\ RecoveredFiles' = RecoveredFiles
           /\ \A k \in Key : Recovered(k)' = Visible(k) /\ Visible(k)' = Visible(k)
<1>1. /\ job = NoJob /\ RecoveredFiles = levels \cup {file}
      /\ RecoveredFiles' = RecoveredFiles
  BY UnmarkedFiles, Nothing
     DEF HandleParts, DirectoryMatches, Marking, RecoveredFiles, TruncateWal
<1>2. ASSUME NEW k \in Key
      PROVE  Recovered(k)' = Visible(k) /\ Visible(k)' = Visible(k)
  <2>1. Replay(wal')[k] = Absent
    BY ReplayNothing DEF NoContents, TruncateWal
  <2>2. Recovered(k)' = Answer(Lookup(levels \cup {file}, k))
    BY <1>1, <2>1 DEF Recovered, Find
  <2> QED
    BY <1>1, <2>2, FlushedAnswers, SameVisible DEF TruncateWal
<1> QED
  BY <1>1, <1>2

\* The log is emptied only when the newest file has all of its records.
LEMMA TruncateWalDurable ==
    ASSUME IndInv, DirInv, HandleParts, TruncateWal
    PROVE  DirInv' /\ HandleParts'
<1>1. job = NoJob /\ RecoveredFiles' = RecoveredFiles
  BY TruncateAnswers
<1>2. \A k \in Key : Recovered(k)' = Visible(k) /\ Visible(k)' = Visible(k)
  BY TruncateAnswers
<1>3. DirInv'
  <2>1. Durable'
    BY <1>2 DEF HandleParts, AnswersAllowed, Durable, TruncateWal
  <2>2. OpKnown'
    BY DEF DirInv, OpKnown, Writing, Recovering, TruncateWal
  <2> QED
    BY <1>1, <2>1, <2>2 DEF DirInv, MarkerSound, TruncateWal
<1>4. AnswersAllowed'
  BY <1>2 DEF HandleParts, AnswersAllowed, TruncateWal
<1>5. WriteOutcome'
  <2> SUFFICES ASSUME Writing'
               PROVE  /\ Answer(op.entry)' \in allowed'[op'.key]
                      /\ Recovered(op.key)' = Answer(op.entry)'
                      /\ Visible(op.key)' = Answer(op.entry)'
    BY DEF WriteOutcome
  <2>1. Writing /\ op.key \in Key /\ op' = op
    BY DEF Writing, IndInv, WriteUnderWay, TruncateWal
  <2>2. ASSUME NEW k \in Key, op.key = k
        PROVE  Recovered(op.key)' = Visible(op.key) /\ Visible(op.key)' = Visible(op.key)
    <3>1. Recovered(k)' = Visible(k) /\ Visible(k)' = Visible(k)
      BY <1>2
    <3> QED
      BY <2>1, <2>2, <3>1 DEF Recovered, Visible
  <2> QED
    BY <2>1, <2>2 DEF HandleParts, WriteOutcome, TruncateWal
<1>6. JobStages' /\ NewestIds' /\ DirectoryMatches' /\ NoDebris'
  BY DEF HandleParts, JobStages, NewestIds, DirectoryMatches, NoDebris,
         Marking, TruncateWal
<1>7. MemtableLogged'
  BY DEF HandleParts, MemtableLogged, Flushing, TruncateWal
<1>8. JobPlanned' /\ JobHidden'
  BY <1>1 DEF TruncateWal, JobPlanned, JobHidden
<1> QED
  BY <1>3, <1>4, <1>5, <1>6, <1>7, <1>8 DEF HandleParts

\* The handle takes the table for its memtable.
LEMMA InstallFlushedDurable ==
    ASSUME IndInv, DirInv, HandleParts, InstallFlushed
    PROVE  DirInv' /\ HandleParts'
<1>1. job = NoJob /\ disk = levels'
  BY Nothing DEF HandleParts, JobStages, DirectoryMatches, InstallFlushed
<1>2. /\ RecoveredFiles' = RecoveredFiles
      /\ \A k \in Key : Recovered(k)' = Recovered(k)
  BY SameRecovered DEF InstallFlushed
<1>3. \A k \in Key : Visible(k)' = Visible(k)
  <2> SUFFICES ASSUME NEW k \in Key PROVE Visible(k)' = Visible(k)
    OBVIOUS
  <2>1. memtable'[k] = Absent
    BY DEF InstallFlushed, NoContents
  <2>2. Visible(k)' = Answer(Lookup(levels \cup {file}, k))
    BY <2>1 DEF Visible, Find, InstallFlushed
  <2> QED
    BY <1>1, <2>2, FlushedAnswers DEF InstallFlushed
<1>4. DirInv'
  BY <1>2, DirKept
     DEF DirInv, MarkerSound, OpKnown, Writing, Recovering, InstallFlushed
<1>5. AnswersAllowed' /\ WriteOutcome'
  <2>1. WriteOutcome'
    BY <1>2, <1>3, OutcomeKept DEF HandleParts, InstallFlushed
  <2> QED
    BY <1>3, <2>1 DEF HandleParts, AnswersAllowed, InstallFlushed
<1>6. JobStages' /\ NewestIds' /\ NoDebris'
  BY <1>1, Nothing
     DEF HandleParts, JobStages, NewestIds, NoDebris, Marking, InstallFlushed
<1>7. DirectoryMatches'
  BY <1>1, Nothing
     DEF HandleParts, DirectoryMatches, Marking, InstallFlushed
<1>8. MemtableLogged'
  BY DEF MemtableLogged, Flushing, InstallFlushed, NoContents
<1>9. JobPlanned' /\ JobHidden'
  BY <1>1 DEF InstallFlushed, JobPlanned, JobHidden
<1> QED
  BY <1>4, <1>5, <1>6, <1>7, <1>8, <1>9 DEF HandleParts

-----------------------------------------------------------------------------
(***************************************************************************)
(* The steps of a compaction.                                              *)
(***************************************************************************)

\* Starting a compaction changes neither side.
LEMMA CompactDurable ==
    ASSUME IndInv, DirInv, HandleParts, Compact
    PROVE  DirInv' /\ HandleParts'
<1>1. pc = "idle" /\ pc' = "pick" /\ ~Writing'
  BY DEF Compact, NoOp, Writing
<1>2. OpKnown'
  BY <1>1 DEF OpKnown, Recovering, Compact, NoOp
<1>3. DirInv' /\ AnswersAllowed' /\ WriteOutcome'
  BY <1>1, <1>2, StillStep DEF Compact
<1>4. JobStages' /\ NewestIds' /\ DirectoryMatches' /\ NoDebris'
  BY DEF HandleParts, JobStages, NewestIds, DirectoryMatches, NoDebris,
         Marking, Compact
<1>5. MemtableLogged'
  BY DEF HandleParts, MemtableLogged, Flushing, Compact
<1>6. JobPlanned' /\ JobHidden'
  BY DEF HandleParts, JobStages, Compact, JobPlanned, JobHidden
<1> QED
  BY <1>3, <1>4, <1>5, <1>6 DEF HandleParts

\* Going on from a flush to the compaction it may need changes neither side.
LEMMA AfterFlushDurable ==
    ASSUME IndInv, DirInv, HandleParts, AfterFlush
    PROVE  DirInv' /\ HandleParts'
<1>1. pc = "installed" /\ pc' = "pick" /\ op' = op
  BY DEF AfterFlush
<1>2. OpKnown'
  BY <1>1 DEF DirInv, OpKnown, Writing, Recovering
<1>3. DirInv' /\ AnswersAllowed' /\ WriteOutcome'
  BY <1>1, <1>2, StillStep DEF AfterFlush
<1>4. JobStages' /\ NewestIds' /\ DirectoryMatches' /\ NoDebris'
  BY DEF HandleParts, JobStages, NewestIds, DirectoryMatches, NoDebris,
         Marking, AfterFlush
<1>5. MemtableLogged'
  BY DEF HandleParts, MemtableLogged, Flushing, AfterFlush
<1>6. JobPlanned' /\ JobHidden'
  BY DEF HandleParts, JobStages, AfterFlush, JobPlanned, JobHidden
<1> QED
  BY <1>3, <1>4, <1>5, <1>6 DEF HandleParts

\* A job starts with a sound plan and all of the merge left to write.
LEMMA StartJobParts ==
    ASSUME IndInv, HandleParts, pc \in {"idle", "pick"},
           NEW inputs \in SUBSET levels, NEW level, NEW drop, NEW limit,
           SoundPlan(levels, inputs, level, drop),
           StartJob(inputs, level, drop, limit),
           UNCHANGED <<directory, handle, file>>
    PROVE  /\ JobPlanned' /\ JobHidden' /\ JobStages' /\ NewestIds'
           /\ DirectoryMatches' /\ NoDebris' /\ MemtableLogged'
<1>1. /\ job'.inputs = inputs /\ job'.level = level /\ job'.outputs = {}
      /\ job'.doomed = inputs /\ job'.rest = Merge(inputs, drop)
      /\ pc' = "merge"
  BY DEF StartJob
<1>2. job = NoJob /\ job.outputs = {}
  BY Nothing DEF HandleParts, JobStages
<1>3. drop \in BOOLEAN /\ level >= 1
  BY DEF SoundPlan
<1>4. job' # NoJob
  <2>1. NoJob.level = 0
    BY DEF NoJob
  <2> QED
    BY <1>1, <1>3, <2>1
<1>5. JobPlanned'
  <2>1. JobSplits(Merge(inputs, drop))'
    BY <1>1 DEF JobSplits
  <2> QED
    BY <1>1, <1>3, <2>1 DEF JobPlanned
<1>6. JobHidden'
  <2>1. RecoveredFiles' = levels
    BY <1>2 DEF HandleParts, DirectoryMatches, Marking, RecoveredFiles, NoMarker
  <2> QED
    BY <2>1 DEF JobHidden
<1>7. JobStages' /\ NewestIds'
  BY <1>1, <1>4 DEF JobStages, NewestIds, Marking
<1>8. DirectoryMatches' /\ NoDebris'
  BY <1>1, <1>2 DEF HandleParts, DirectoryMatches, NoDebris, Marking
<1>9. MemtableLogged'
  BY <1>1 DEF HandleParts, MemtableLogged, Flushing
<1> QED
  BY <1>5, <1>6, <1>7, <1>8, <1>9

\* Choosing the inputs of a job, or finding none, changes neither side: the plan
\* is sound for the files there are.
LEMMA PickJobDurable ==
    ASSUME IndInv, DirInv, HandleParts, PickJob
    PROVE  DirInv' /\ HandleParts'
<1>1. pc = "pick" /\ pc' \in {"merge", "done"} /\ op' = op
  BY DEF PickJob, StartJob
<1>2. OpKnown'
  BY <1>1 DEF DirInv, OpKnown, Writing, Recovering
<1>3. DirInv' /\ AnswersAllowed' /\ WriteOutcome'
  BY <1>1, <1>2, StillStep DEF PickJob
<1>4. CASE CompactionDue(levels)
  <2> DEFINE plan == PickCompaction(levels)
  <2>1. SoundPlan(levels, plan.inputs, plan.outputLevel, plan.dropTombstones)
    BY <1>4, KnownParts, PlanIsSound DEF IndInv, TypeOK
  <2>2. plan.inputs \in SUBSET levels
    BY <2>1 DEF SoundPlan
  <2> HIDE DEF plan
  <2>3. StartJob(plan.inputs, plan.outputLevel, plan.dropTombstones,
                 AtLeast(1, TargetFileSize))
    BY <1>4 DEF PickJob, plan
  <2> QED
    BY <1>1, <1>3, <2>1, <2>2, <2>3, StartJobParts DEF HandleParts, PickJob
<1>5. CASE ~CompactionDue(levels)
  <2>1. JobStages' /\ NewestIds' /\ DirectoryMatches' /\ NoDebris'
    BY <1>5 DEF HandleParts, JobStages, NewestIds, DirectoryMatches, NoDebris,
                Marking, PickJob
  <2>2. MemtableLogged'
    BY <1>5 DEF HandleParts, MemtableLogged, Flushing, PickJob
  <2>3. JobPlanned' /\ JobHidden'
    BY <1>5 DEF HandleParts, JobStages, PickJob, JobPlanned, JobHidden
  <2> QED
    BY <1>3, <2>1, <2>2, <2>3 DEF HandleParts
<1> QED
  BY <1>4, <1>5

\* Nor does starting a full compaction, whose inputs are all files, change them.
LEMMA CompactFullDurable ==
    ASSUME IndInv, DirInv, HandleParts, CompactFull
    PROVE  DirInv' /\ HandleParts'
<1>1. pc = "idle" /\ pc' \in {"merge", "done"} /\ ~Writing'
  BY DEF CompactFull, StartJob, NoOp, Writing
<1>2. OpKnown'
  BY <1>1 DEF OpKnown, Recovering, CompactFull, NoOp
<1>3. DirInv' /\ AnswersAllowed' /\ WriteOutcome'
  BY <1>1, <1>2, StillStep DEF CompactFull
<1>4. CASE ~(Cardinality(levels) <= 1)
  <2>1. StartJob(levels, 1, TRUE, Cardinality(Key) + 1)
    BY <1>4 DEF CompactFull
  <2>2. SoundPlan(levels, levels, 1, TRUE)
    BY FullPlanIsSound
  <2> QED
    BY <1>1, <1>3, <2>1, <2>2, StartJobParts DEF HandleParts, CompactFull
<1>5. CASE Cardinality(levels) <= 1
  <2>1. pc' = "done" /\ job' = job
    BY <1>5 DEF CompactFull
  <2>2. JobStages' /\ NewestIds' /\ DirectoryMatches' /\ NoDebris'
    BY <2>1 DEF HandleParts, JobStages, NewestIds, DirectoryMatches, NoDebris,
                Marking, CompactFull
  <2>3. MemtableLogged'
    BY <2>1 DEF HandleParts, MemtableLogged, Flushing, CompactFull
  <2>4. JobPlanned' /\ JobHidden'
    BY <2>1 DEF HandleParts, JobStages, CompactFull, JobPlanned, JobHidden
  <2> QED
    BY <1>3, <2>2, <2>3, <2>4 DEF HandleParts
<1> QED
  BY <1>4, <1>5

\* The next output is cut from what is left of the merge.
LEMMA WriteOutputDurable ==
    ASSUME IndInv, DirInv, HandleParts, WriteOutput
    PROVE  DirInv' /\ HandleParts'
<1>1. pc = "merge" /\ pc' \in {"create", "mark"} /\ op' = op /\ job' = job
  BY DEF WriteOutput, StartFile
<1>2. OpKnown'
  BY <1>1 DEF DirInv, OpKnown, Writing, Recovering
<1>3. DirInv' /\ AnswersAllowed' /\ WriteOutcome'
  BY <1>1, <1>2, StillStep DEF WriteOutput
<1>4. job # NoJob
  BY <1>1 DEF HandleParts, JobStages
<1>5. JobStages' /\ DirectoryMatches' /\ NoDebris'
  BY <1>1, <1>4
     DEF HandleParts, JobStages, DirectoryMatches, NoDebris, Marking,
         WriteOutput, StartFile
<1>6. NewestIds'
  <2>1. \A f \in levels \cup job.outputs : f.id < nextId
    BY <1>1 DEF IndInv, IdsIncrease, IdsInUse, Ids, Recovering
  <2> QED
    BY <1>1, <2>1 DEF HandleParts, NewestIds, WriteOutput, StartFile
<1>7. MemtableLogged'
  BY <1>1, <1>4 DEF HandleParts, MemtableLogged, Flushing, WriteOutput
<1>8. JobPlanned'
  <2>1. PICK drop \in BOOLEAN :
          /\ SoundPlan(levels, job.inputs, job.level, drop)
          /\ JobSplits(Merge(job.inputs, drop))
    BY <1>1, <1>4 DEF HandleParts, JobPlanned, Marking
  <2> DEFINE merged == Merge(job.inputs, drop)
  <2>2. pc' = "create" =>
          /\ file'.level = job.level
          /\ \A k \in Key : file'.contents[k] \in {Absent, job.rest[k]}
    BY <1>1 DEF WriteOutput, StartFile, Only
  <2>3. merged' = merged
    BY <1>1
  <2> HIDE DEF merged
  <2>4. JobSplits(merged)'
    BY <1>1, <2>1, <2>2, <2>3 DEF JobSplits, merged
  <2> QED
    BY <1>1, <2>1, <2>4 DEF JobPlanned, merged, WriteOutput
<1>9. JobHidden'
  BY <1>1, SameRecovered DEF HandleParts, JobHidden, WriteOutput
<1> QED
  BY <1>3, <1>5, <1>6, <1>7, <1>8, <1>9 DEF HandleParts

\* An output that is in place takes its keys out of what is left.
LEMMA KeepOutputSplits ==
    ASSUME IndInv, KeepOutput, NEW merged, JobSplits(merged)
    PROVE  /\ JobSplits(merged)'
           /\ job'.inputs = job.inputs /\ job'.level = job.level
           /\ job'.doomed = job.doomed
           /\ job'.outputs = job.outputs \cup {file}
<1>1. job \in Job
  BY DEF IndInv, TypeOK
<1>2. /\ job'.outputs = job.outputs \cup {file}
      /\ job'.rest = Only(job.rest, KeysOf(job.rest) \ KeysOf(file.contents))
      /\ job'.inputs = job.inputs /\ job'.level = job.level
      /\ job'.doomed = job.doomed
      /\ pc = "renamed" /\ pc' = "merge"
  BY <1>1 DEF KeepOutput, Job
<1>3. \A k \in Key :
        job'.rest[k] = IF job.rest[k] # Absent /\ file.contents[k] = Absent
                       THEN job.rest[k] ELSE Absent
  BY <1>2 DEF Only, KeysOf
<1>4. /\ file.level = job.level
      /\ \A k \in Key : file.contents[k] \in {Absent, job.rest[k]}
  BY <1>2 DEF JobSplits
<1>5. \A o \in job'.outputs : o.level = job'.level
  BY <1>2, <1>4 DEF JobSplits
<1>6. \A o, p \in job'.outputs, k \in Key :
        o.contents[k] # Absent /\ p.contents[k] # Absent => o = p
  BY <1>2, <1>4 DEF JobSplits
<1>7. \A o \in job'.outputs, k \in Key :
        o.contents[k] # Absent => o.contents[k] = merged[k] /\ job'.rest[k] = Absent
  BY <1>2, <1>3, <1>4 DEF JobSplits
<1>8. \A k \in Key : job'.rest[k] # Absent => job'.rest[k] = merged[k]
  BY <1>3 DEF JobSplits
<1>9. \A k \in Key : merged[k] # Absent /\ job'.rest[k] = Absent =>
        \E o \in job'.outputs : o.contents[k] # Absent
  BY <1>2, <1>3, <1>4 DEF JobSplits
<1> QED
  BY <1>2, <1>5, <1>6, <1>7, <1>8, <1>9 DEF JobSplits

\* An output that is kept has the records that the job need no longer write.
LEMMA KeepOutputDurable ==
    ASSUME IndInv, DirInv, HandleParts, KeepOutput
    PROVE  DirInv' /\ HandleParts'
<1>1. pc = "renamed" /\ pc' = "merge" /\ op' = op /\ job # NoJob
  BY DEF KeepOutput
<1>2. OpKnown'
  BY <1>1 DEF DirInv, OpKnown, Writing, Recovering
<1>3. DirInv' /\ AnswersAllowed' /\ WriteOutcome'
  BY <1>1, <1>2, StillStep DEF KeepOutput
<1>4. PICK drop \in BOOLEAN :
        /\ SoundPlan(levels, job.inputs, job.level, drop)
        /\ JobSplits(Merge(job.inputs, drop))
  BY <1>1 DEF HandleParts, JobPlanned, Marking
<1>5. /\ job'.inputs = job.inputs /\ job'.level = job.level
      /\ job'.doomed = job.doomed
      /\ job'.outputs = job.outputs \cup {file}
  BY <1>4, KeepOutputSplits
<1>6. job' # NoJob
  BY <1>5, Nothing
<1>7. JobPlanned'
  <2>1. ASSUME NEW merged, merged = Merge(job.inputs, drop)
        PROVE  JobSplits(merged)'
    BY <1>4, <2>1, KeepOutputSplits
  <2>2. JobSplits(Merge(job.inputs, drop))'
    BY <1>5, <2>1 DEF JobSplits
  <2> QED
    BY <1>4, <1>5, <2>2 DEF JobPlanned, KeepOutput
<1>8. JobHidden'
  BY <1>1, SameRecovered DEF HandleParts, JobHidden, KeepOutput
<1>9. JobStages'
  BY <1>1, <1>5, <1>6 DEF HandleParts, JobStages, Marking
<1>10. NewestIds'
  BY <1>1, <1>5 DEF HandleParts, NewestIds, KeepOutput
<1>11. DirectoryMatches' /\ NoDebris'
  BY <1>1, <1>5 DEF HandleParts, DirectoryMatches, NoDebris, Marking, KeepOutput
<1>12. MemtableLogged'
  BY <1>1 DEF HandleParts, MemtableLogged, Flushing, KeepOutput
<1> QED
  BY <1>3, <1>7, <1>8, <1>9, <1>10, <1>11, <1>12 DEF HandleParts

\* The pending merge under its temporary name is nothing a reopen reads.
LEMMA WriteMarkerTmpDurable ==
    ASSUME IndInv, DirInv, HandleParts, WriteMarkerTmp
    PROVE  DirInv' /\ HandleParts'
<1>1. pc = "mark" /\ pc' = "marking" /\ op' = op /\ job' = job
  BY DEF WriteMarkerTmp
<1>2. OpKnown'
  BY <1>1 DEF DirInv, OpKnown, Writing, Recovering
<1>3. DirInv' /\ AnswersAllowed' /\ WriteOutcome'
  BY <1>1, <1>2, StillStep DEF WriteMarkerTmp
<1>4. JobStages' /\ NewestIds' /\ DirectoryMatches' /\ NoDebris'
  BY DEF HandleParts, JobStages, NewestIds, DirectoryMatches, NoDebris,
         Marking, WriteMarkerTmp
<1>5. MemtableLogged'
  BY DEF HandleParts, MemtableLogged, Flushing, WriteMarkerTmp
<1>6. JobPlanned'
  BY DEF HandleParts, JobPlanned, JobSplits, Marking, WriteMarkerTmp
<1>7. JobHidden'
  BY <1>1, SameRecovered DEF HandleParts, JobHidden, WriteMarkerTmp
<1> QED
  BY <1>3, <1>4, <1>5, <1>6, <1>7 DEF HandleParts

\* The marker exchanges inputs for outputs, all at once: this is where the
\* compaction takes effect for a reopen, and it changes no answer.
LEMMA RenameMarkerKeepsAnswers ==
    ASSUME IndInv, DirInv, HandleParts, RenameMarker
    PROVE  /\ Coherent(RecoveredFiles)'
           /\ \A k \in Key : Answer(Lookup(RecoveredFiles, k))'
                               = Answer(Lookup(RecoveredFiles, k))
<1>1. job # NoJob /\ job.rest = NoContents /\ disk = levels \cup job.outputs
      /\ marker = NoMarker
  BY DEF HandleParts, JobStages, DirectoryMatches, Marking, RenameMarker
<1>2. PICK drop \in BOOLEAN :
        /\ SoundPlan(levels, job.inputs, job.level, drop)
        /\ JobSplits(Merge(job.inputs, drop))
  BY <1>1 DEF HandleParts, JobPlanned, Marking, RenameMarker
<1>3. \A f \in levels, o \in job.outputs : f.id < o.id
  BY DEF HandleParts, NewestIds, RenameMarker
<1>4. ReadyToReplace(levels, job.inputs, job.level, drop, job.outputs)
  <2>1. \A k \in Key : job.rest[k] = Absent
    BY <1>1 DEF NoContents
  <2>2. FileSet(levels \cup job.outputs)
    BY KnownParts
  <2>3. \A k \in Key : Merge(job.inputs, drop)[k] # Absent =>
          Holding(job.outputs, k) # {}
    BY <1>2, <2>1 DEF JobSplits, Holding
  <2>4. /\ \A o \in job.outputs : o.level = job.level
        /\ \A o, p \in job.outputs, k \in Key :
             o.contents[k] # Absent /\ p.contents[k] # Absent => o = p
        /\ \A o \in job.outputs, k \in Key :
             o.contents[k] \in {Absent, Merge(job.inputs, drop)[k]}
    BY <1>2 DEF JobSplits
  <2> QED
    BY <1>2, <1>3, <2>2, <2>3, <2>4 DEF ReadyToReplace
<1>5. RecoveredFiles = levels \cup job.outputs
  BY <1>1, UnmarkedFiles
<1>6. RecoveredFiles' = Replaced(levels, job.inputs, job.outputs)
  <2>1. FileSet(levels \cup job.outputs)
    BY KnownParts
  <2>2. job.inputs \subseteq levels
    BY <1>2 DEF SoundPlan
  <2>3. /\ disk' = disk /\ job' = job
        /\ marker' = [outputs |-> Ids(job.outputs), inputs |-> Ids(job.inputs)]
    BY DEF RenameMarker
  <2>4. \A f \in levels : f.id \notin Ids(job.inputs) <=> f \notin job.inputs
    BY <2>1, <2>2 DEF FileSet, UniqueIds, Ids
  <2>5. \A o \in job.outputs : o.id \notin Ids(job.inputs)
    <3>1. \A f \in levels \cup job.outputs : f.id \in Nat
      BY <2>1 DEF FileSet, Table
    <3> QED
      BY <1>3, <2>2, <3>1 DEF Ids
  <2>6. RecoveredFiles' = {f \in disk : f.id \notin Ids(job.inputs)}
    BY <1>1, <2>3 DEF RecoveredFiles, Ids
  <2> QED
    BY <1>1, <2>2, <2>4, <2>5, <2>6 DEF Replaced
<1>7. Coherent(levels \cup job.outputs)
  BY <1>5 DEF DirInv
<1>8. Coherent(RecoveredFiles')
  BY <1>4, <1>6, <1>7, ReplaceCoherent
<1>9. \A k \in Key : Answer(Lookup(RecoveredFiles', k))
                       = Answer(Lookup(RecoveredFiles, k))
  <2>1. \A k \in Key :
          Answer(Lookup(Replaced(levels, job.inputs, job.outputs), k))
            = Answer(Lookup(levels \cup job.outputs, k))
    BY <1>4, <1>7, ReplaceKeepsAnswers
  <2> QED
    BY <1>5, <1>6, <2>1
<1> QED
  BY <1>8, <1>9

\* The rename of the pending merge turns a reopen from the inputs to the
\* outputs, and it answers as before.
LEMMA RenameMarkerDurable ==
    ASSUME IndInv, DirInv, HandleParts, RenameMarker
    PROVE  DirInv' /\ HandleParts' /\ StoreKept
<1>1. /\ pc = "marking" /\ pc' = "delete" /\ op' = op /\ job' = job
      /\ disk' = disk /\ disk = levels \cup job.outputs
      /\ marker' = [outputs |-> Ids(job.outputs), inputs |-> Ids(job.inputs)]
      /\ job # NoJob /\ job.doomed = job.inputs
  BY DEF HandleParts, JobStages, DirectoryMatches, Marking, RenameMarker
<1>2. job.inputs \subseteq levels
  BY <1>1 DEF HandleParts, JobPlanned, Marking, SoundPlan
<1>3. OpKnown'
  BY <1>1 DEF DirInv, OpKnown, Writing, Recovering
<1>4. MarkerSound'
  <2>1. Ids(job.outputs) \subseteq Ids(disk)
    BY <1>1 DEF Ids
  <2>2. \A f \in job.inputs, o \in job.outputs : f.id < o.id
    BY <1>1, <1>2 DEF HandleParts, NewestIds
  <2>3. \A f \in levels \cup job.outputs : f.id \in Nat
    BY KnownParts DEF FileSet, Table
  <2>4. Ids(job.outputs) \cap Ids(job.inputs) = {}
    BY <1>2, <2>2, <2>3 DEF Ids
  <2> QED
    BY <1>1, <2>1, <2>4 DEF MarkerSound
<1>5. \A k \in Key : Recovered(k)' = Recovered(k) /\ Visible(k)' = Visible(k)
  BY RenameMarkerKeepsAnswers, SameFiles, SameVisible DEF RenameMarker
<1>6. DirInv'
  BY <1>3, <1>4, <1>5, RenameMarkerKeepsAnswers, DirKept DEF RenameMarker
<1>7. AnswersAllowed' /\ WriteOutcome'
  <2>1. WriteOutcome'
    BY <1>1, <1>5, OutcomeKept DEF HandleParts, RenameMarker
  <2> QED
    BY <1>5, <2>1 DEF HandleParts, AnswersAllowed, RenameMarker
<1>8. JobPlanned'
  BY <1>1 DEF JobPlanned, Marking
<1>9. JobHidden'
  BY <1>1, RenameMarkerKeepsAnswers DEF HandleParts, JobHidden, RenameMarker
<1>10. JobStages' /\ NewestIds' /\ NoDebris'
  BY <1>1 DEF HandleParts, JobStages, NewestIds, NoDebris, Marking, RenameMarker
<1>11. DirectoryMatches'
  BY <1>1, <1>2 DEF DirectoryMatches, Marking, RenameMarker
<1>12. MemtableLogged'
  BY DEF HandleParts, MemtableLogged, Flushing, RenameMarker
<1> QED
  BY <1>5, <1>6, <1>7, <1>8, <1>9, <1>10, <1>11, <1>12 DEF HandleParts, StoreKept

\* Each input goes from the directory once the marker lists it.
LEMMA DeleteInputDurable ==
    ASSUME IndInv, DirInv, HandleParts, DeleteInput, ~RemoveMayFail
    PROVE  DirInv' /\ HandleParts' /\ StoreKept
<1>1. PICK f \in job.doomed :
        /\ job' = [job EXCEPT !.doomed = @ \ {f}]
        /\ disk' = {g \in disk : ~SameName(f, g)}
  BY DEF DeleteInput
<1>2. /\ pc = "delete" /\ pc' = "delete" /\ op' = op /\ marker' = marker
      /\ disk = (levels \ job.inputs) \cup job.outputs \cup job.doomed
      /\ marker = [outputs |-> Ids(job.outputs), inputs |-> Ids(job.inputs)]
      /\ job # NoJob /\ job.rest = NoContents /\ f \in job.inputs
      /\ job.doomed \subseteq job.inputs
  BY DEF HandleParts, JobStages, DirectoryMatches, Marking, DeleteInput
<1>3. /\ job'.inputs = job.inputs /\ job'.outputs = job.outputs
      /\ job'.rest = job.rest /\ job'.doomed = job.doomed \ {f}
      /\ job'.level = job.level
  BY <1>1 DEF IndInv, TypeOK, Job
<1>4. disk' = disk \ {f}
  <2>1. \A g \in disk : SameName(f, g) => f = g
    BY <1>2, KnownTables DEF FileSet, UniqueIds, Tables, SameName
  <2>2. SameName(f, f)
    BY DEF SameName
  <2> QED
    BY <1>1, <2>1, <2>2
<1>5. f.id \in marker.inputs
  BY <1>2 DEF Ids
<1>6. MarkerSound' /\ RecoveredFiles' = RecoveredFiles
  BY <1>2, <1>4, <1>5, RemoveListed DEF DirInv
<1>7. \A k \in Key : Recovered(k)' = Recovered(k) /\ Visible(k)' = Visible(k)
  BY <1>6, SameFiles, SameVisible DEF DeleteInput
<1>8. OpKnown'
  BY <1>2 DEF DirInv, OpKnown, Writing, Recovering
<1>9. DirInv'
  BY <1>6, <1>7, <1>8, DirKept DEF DirInv, DeleteInput
<1>10. AnswersAllowed' /\ WriteOutcome'
  <2>1. WriteOutcome'
    BY <1>2, <1>7, OutcomeKept DEF HandleParts, DeleteInput
  <2> QED
    BY <1>7, <2>1 DEF HandleParts, AnswersAllowed, DeleteInput
<1>11. job' # NoJob
  <2>1. job.inputs # {} /\ NoJob.inputs = {}
    BY <1>2, Nothing
  <2> QED
    BY <1>3, <2>1
<1>12. JobPlanned'
  BY <1>2 DEF JobPlanned, Marking
<1>13. JobHidden'
  BY <1>2, <1>6 DEF HandleParts, JobHidden, DeleteInput
<1>14. JobStages' /\ NewestIds' /\ NoDebris'
  BY <1>2, <1>3, <1>11
     DEF HandleParts, JobStages, NewestIds, NoDebris, Marking, DeleteInput
<1>15. DirectoryMatches'
  <2>1. f \notin job.outputs
    BY <1>2 DEF DirInv, MarkerSound, Ids
  <2>2. disk' = (levels \ job.inputs) \cup job.outputs \cup job'.doomed
    BY <1>2, <1>3, <1>4, <2>1
  <2> QED
    BY <1>2, <1>3, <2>2 DEF DirectoryMatches, Marking, DeleteInput
<1>16. MemtableLogged'
  BY <1>2 DEF HandleParts, MemtableLogged, Flushing, DeleteInput
<1> QED
  BY <1>7, <1>9, <1>10, <1>12, <1>13, <1>14, <1>15, <1>16 DEF HandleParts, StoreKept

\* Finding no input left to delete changes neither side.
LEMMA InputsDeletedDurable ==
    ASSUME IndInv, DirInv, HandleParts, InputsDeleted
    PROVE  DirInv' /\ HandleParts'
<1>1. pc = "delete" /\ pc' = "deleted" /\ op' = op /\ job' = job
  BY DEF InputsDeleted
<1>2. OpKnown'
  BY <1>1 DEF DirInv, OpKnown, Writing, Recovering
<1>3. DirInv' /\ AnswersAllowed' /\ WriteOutcome'
  BY <1>1, <1>2, StillStep DEF InputsDeleted
<1>4. JobStages' /\ NewestIds' /\ DirectoryMatches' /\ NoDebris'
  BY DEF HandleParts, JobStages, NewestIds, DirectoryMatches, NoDebris,
         Marking, InputsDeleted
<1>5. MemtableLogged'
  BY DEF HandleParts, MemtableLogged, Flushing, InputsDeleted
<1>6. JobPlanned'
  BY <1>1 DEF JobPlanned, Marking
<1>7. JobHidden'
  BY <1>1, SameRecovered DEF HandleParts, JobHidden, InputsDeleted
<1> QED
  BY <1>3, <1>4, <1>5, <1>6, <1>7 DEF HandleParts

\* The handle follows the directory.
LEMMA SwapFilesDurable ==
    ASSUME IndInv, DirInv, HandleParts, SwapFiles
    PROVE  DirInv' /\ HandleParts'
<1>1. /\ pc = "deleted" /\ pc' = "swapped" /\ op' = op /\ job' = job
      /\ job # NoJob /\ job.doomed = {}
      /\ disk = (levels \ job.inputs) \cup job.outputs
      /\ marker = [outputs |-> Ids(job.outputs), inputs |-> Ids(job.inputs)]
  BY DEF HandleParts, JobStages, DirectoryMatches, Marking, SwapFiles
<1>2. /\ levels' = RecoveredFiles /\ disk = RecoveredFiles
      /\ RecoveredFiles' = RecoveredFiles
      /\ \A f \in levels' : f.id \notin Ids(job.inputs)
  <2>1. levels' = RecoveredFiles /\ disk = RecoveredFiles
        /\ \A f \in RecoveredFiles : f.id \notin Ids(job.inputs)
    BY <1>1, MarkedFiles DEF DirInv, SwapFiles
  <2> QED
    BY <2>1, SameRecovered DEF SwapFiles
<1>3. \A k \in Key : Recovered(k)' = Recovered(k)
  BY SameRecovered DEF SwapFiles
<1>4. \A k \in Key : Visible(k)' = Visible(k)
  <2> SUFFICES ASSUME NEW k \in Key PROVE Visible(k)' = Visible(k)
    OBVIOUS
  <2>1. Answer(Lookup(levels', k)) = Answer(Lookup(levels, k))
    BY <1>1, <1>2 DEF HandleParts, JobHidden
  <2> QED
    BY <2>1 DEF Visible, Find, SwapFiles
<1>5. OpKnown'
  BY <1>1 DEF DirInv, OpKnown, Writing, Recovering
<1>6. DirInv'
  BY <1>2, <1>3, <1>5, DirKept DEF DirInv, MarkerSound, SwapFiles
<1>7. AnswersAllowed' /\ WriteOutcome'
  <2>1. WriteOutcome'
    BY <1>1, <1>3, <1>4, OutcomeKept DEF HandleParts, SwapFiles
  <2> QED
    BY <1>4, <2>1 DEF HandleParts, AnswersAllowed, SwapFiles
<1>8. JobPlanned' /\ JobHidden'
  BY <1>1, <1>2 DEF JobPlanned, JobHidden, Marking
<1>9. JobStages' /\ NewestIds' /\ NoDebris'
  BY <1>1 DEF HandleParts, JobStages, NewestIds, NoDebris, Marking, SwapFiles
<1>10. DirectoryMatches'
  <2>1. job.outputs \subseteq levels' /\ disk = levels' \cup job.outputs
    BY <1>1, <1>2
  <2>2. Ids(levels') \cap Ids(job.inputs) = {}
    BY <1>2 DEF Ids
  <2> QED
    BY <1>1, <2>1, <2>2 DEF DirectoryMatches, Marking, SwapFiles
<1>11. MemtableLogged'
  BY DEF HandleParts, MemtableLogged, Flushing, SwapFiles
<1> QED
  BY <1>6, <1>7, <1>8, <1>9, <1>10, <1>11 DEF HandleParts

\* The marker goes when it says nothing any more.
LEMMA ClearMarkerDurable ==
    ASSUME IndInv, DirInv, HandleParts, ClearMarker
    PROVE  DirInv' /\ HandleParts' /\ StoreKept
<1>1. /\ pc = "swapped" /\ pc' \in {"done", "pick"} /\ op' = op /\ job' = NoJob
      /\ disk = levels /\ marker' = NoMarker
      /\ marker = [outputs |-> Ids(job.outputs), inputs |-> Ids(job.inputs)]
      /\ Ids(levels) \cap Ids(job.inputs) = {}
  BY DEF HandleParts, DirectoryMatches, Marking, ClearMarker
<1>2. RecoveredFiles = disk /\ RecoveredFiles' = RecoveredFiles
  <2>1. \A f \in disk : f.id \notin marker.inputs
    BY <1>1 DEF Ids
  <2>2. RecoveredFiles = disk
    BY <2>1 DEF RecoveredFiles
  <2>3. RecoveredFiles' = disk' /\ disk' = disk
    BY <1>1 DEF RecoveredFiles, NoMarker, ClearMarker
  <2> QED
    BY <2>2, <2>3
<1>3. \A k \in Key : Recovered(k)' = Recovered(k) /\ Visible(k)' = Visible(k)
  BY <1>2, SameFiles, SameVisible DEF ClearMarker
<1>4. OpKnown' /\ MarkerSound'
  BY <1>1 DEF DirInv, OpKnown, Writing, Recovering, MarkerSound, NoMarker
<1>5. DirInv'
  BY <1>2, <1>3, <1>4, DirKept DEF DirInv, ClearMarker
<1>6. AnswersAllowed' /\ WriteOutcome'
  <2>1. WriteOutcome'
    BY <1>1, <1>3, OutcomeKept DEF HandleParts, ClearMarker
  <2> QED
    BY <1>3, <2>1 DEF HandleParts, AnswersAllowed, ClearMarker
<1>7. JobPlanned' /\ JobHidden'
  BY <1>1 DEF JobPlanned, JobHidden
<1>8. JobStages' /\ NewestIds' /\ NoDebris'
  BY <1>1, Nothing
     DEF HandleParts, JobStages, NewestIds, NoDebris, Marking, ClearMarker
<1>9. DirectoryMatches'
  BY <1>1, Nothing DEF DirectoryMatches, Marking, ClearMarker
<1>10. MemtableLogged'
  BY <1>1 DEF HandleParts, MemtableLogged, Flushing, ClearMarker
<1> QED
  BY <1>3, <1>5, <1>6, <1>7, <1>8, <1>9, <1>10 DEF HandleParts, StoreKept

-----------------------------------------------------------------------------
(***************************************************************************)
(* The return, errors and crashes.                                         *)
(***************************************************************************)

\* From the return on only the written value is allowed: it is what both the
\* handle and a reopen have.
LEMMA ReturnDurable ==
    ASSUME IndInv, DirInv, HandleParts, Return
    PROVE  DirInv' /\ HandleParts'
<1>1. pc = "done" /\ pc' = "idle" /\ op' = NoOp /\ job' = job /\ job = NoJob
  BY DEF HandleParts, JobStages, Return
<1>2. /\ RecoveredFiles' = RecoveredFiles
      /\ \A k \in Key : Recovered(k)' = Recovered(k) /\ Visible(k)' = Visible(k)
  BY SameRecovered, SameVisible DEF Return
<1>3. ~Writing' /\ OpKnown'
  BY <1>1 DEF Writing, OpKnown, NoOp
<1>4. ASSUME NEW k \in Key
      PROVE  Recovered(k) \in allowed'[k] /\ Visible(k) \in allowed'[k]
  <2>1. Recovered(k) \in allowed[k] /\ Visible(k) \in allowed[k]
    BY DEF DirInv, Durable, HandleParts, AnswersAllowed
  <2>2. CASE Writing /\ op.key = k
    <3>1. allowed' = [allowed EXCEPT ![op.key] = {Answer(op.entry)}]
      BY <2>2 DEF Return, Writing
    <3>2. allowed'[k] = {Answer(op.entry)}
      BY <2>2, <3>1 DEF IndInv, TypeOK
    <3>3. Recovered(op.key) = Answer(op.entry) /\ Visible(op.key) = Answer(op.entry)
      BY <1>1, <2>2 DEF HandleParts, WriteOutcome
    <3> QED
      BY <2>2, <3>2, <3>3
  <2>3. CASE ~(Writing /\ op.key = k)
    <3>1. allowed'[k] = allowed[k]
      BY <2>3 DEF Return, Writing, IndInv, TypeOK
    <3> QED
      BY <2>1, <3>1
  <2> QED
    BY <2>2, <2>3
<1>5. DirInv'
  BY <1>2, <1>3, <1>4 DEF DirInv, Durable, MarkerSound, Return
<1>6. AnswersAllowed' /\ WriteOutcome'
  BY <1>2, <1>3, <1>4 DEF AnswersAllowed, WriteOutcome
<1>7. JobStages' /\ NewestIds' /\ DirectoryMatches' /\ NoDebris'
  BY <1>1 DEF HandleParts, JobStages, NewestIds, DirectoryMatches, NoDebris,
              Marking, Return
<1>8. MemtableLogged'
  BY <1>1 DEF HandleParts, MemtableLogged, Flushing, Return
<1>9. JobPlanned' /\ JobHidden'
  BY <1>1 DEF JobPlanned, JobHidden
<1> QED
  BY <1>5, <1>6, <1>7, <1>8, <1>9 DEF HandleParts

\* An error leaves the directory within the contract, whatever its point.
LEMMA FailDir ==
    ASSUME DirInv, Fail
    PROVE  DirInv'
<1>1. OpKnown'
  BY DEF OpKnown, Writing, NoOp, Fail
<1> QED
  BY <1>1, SameRecovered, DirKept DEF DirInv, MarkerSound, Fail

\* At a point of a write up to its insert it leaves the handle in step too.
LEMMA FailHandle ==
    ASSUME HandleParts, Fail, FaultPoints \cap WriteErrors # {}
    PROVE  HandleParts'
<1>1. pc \in {"append", "insert", "inserted"} /\ pc' = "idle"
      /\ job = NoJob /\ job' = NoJob /\ ~Writing'
  <2>1. pc \in {"append", "insert", "inserted"}
    BY DEF FaultPoints, WriteErrors
  <2> QED
    BY <2>1 DEF HandleParts, JobStages, Fail, Writing, NoOp
<1>2. JobPlanned' /\ JobHidden' /\ WriteOutcome'
  BY <1>1 DEF JobPlanned, JobHidden, WriteOutcome
<1>3. JobStages' /\ NewestIds' /\ DirectoryMatches' /\ NoDebris'
  BY <1>1 DEF HandleParts, JobStages, NewestIds, DirectoryMatches, NoDebris,
              Marking, Fail
<1>4. MemtableLogged'
  BY <1>1 DEF HandleParts, MemtableLogged, Flushing, Fail
<1>5. AnswersAllowed'
  BY SameVisible DEF HandleParts, AnswersAllowed, Fail
<1> QED
  BY <1>2, <1>3, <1>4, <1>5 DEF HandleParts

\* A crash, or a drop of the handle, leaves the directory as it is.
LEMMA LoseHandleDir ==
    ASSUME DirInv, LoseHandle
    PROVE  DirInv' /\ pc' \in Recovering
<1>1. OpKnown'
  BY DEF OpKnown, Writing, NoOp, LoseHandle
<1> QED
  BY <1>1, SameRecovered, DirKept
     DEF DirInv, MarkerSound, LoseHandle, Recovering

-----------------------------------------------------------------------------
(***************************************************************************)
(* Recovery.                                                               *)
(***************************************************************************)

\* Its first steps leave the tables, the marker and the log alone.
LEMMA QuietRecovery ==
    ASSUME DirInv, Open \/ RemoveTmp \/ TmpRemoved \/ LoadTables
    PROVE  DirInv' /\ pc' \in Recovering
<1>1. UNCHANGED <<disk, marker, wal, allowed, op>>
  BY DEF Open, RemoveTmp, TmpRemoved, LoadTables
<1>2. pc \in Recovering /\ pc' \in Recovering
  BY DEF Open, RemoveTmp, TmpRemoved, LoadTables, Recovering
<1>3. OpKnown'
  BY <1>1, <1>2 DEF DirInv, OpKnown, Writing
<1> QED
  BY <1>1, <1>2, <1>3, SameRecovered, DirKept DEF DirInv, MarkerSound

\* finish_pending_merge deletes what no reopen reads any more, in any order
\* and in as many attempts as crashes make of it.
LEMMA FinishDeleteDir ==
    ASSUME DirInv, FinishDelete
    PROVE  DirInv' /\ pc' \in Recovering /\ StoreKept
<1>1. PICK f \in Obsolete : disk' = disk \ {f}
  BY DEF FinishDelete
<1>2. f.id \in marker.inputs
  BY DEF Obsolete
<1>3. MarkerSound' /\ RecoveredFiles' = RecoveredFiles
  BY <1>1, <1>2, RemoveListed DEF DirInv, FinishDelete
<1>4. \A k \in Key : Recovered(k)' = Recovered(k)
  BY <1>3, SameFiles DEF FinishDelete
<1>5. OpKnown' /\ pc' \in Recovering
  BY DEF DirInv, OpKnown, Writing, Recovering, FinishDelete
<1> QED
  BY <1>3, <1>4, <1>5, DirKept DEF DirInv, FinishDelete, StoreKept

\* It forgets the merge when the inputs are gone: the outputs are there.
LEMMA FinishMergeDir ==
    ASSUME DirInv, FinishMerge
    PROVE  DirInv' /\ pc' \in Recovering /\ StoreKept
<1>1. OutputsPresent
  BY DEF DirInv, MarkerSound, OutputsPresent
<1>2. \A f \in disk : f.id \notin marker.inputs
  BY <1>1 DEF FinishMerge, Obsolete
<1>3. RecoveredFiles = disk
  BY <1>2 DEF RecoveredFiles
<1>4. RecoveredFiles' = disk' /\ disk' = disk
  BY DEF RecoveredFiles, NoMarker, FinishMerge
<1>5. \A k \in Key : Recovered(k)' = Recovered(k)
  BY <1>3, <1>4, SameFiles DEF FinishMerge
<1>6. MarkerSound' /\ OpKnown' /\ pc' \in Recovering
  BY DEF DirInv, MarkerSound, OpKnown, Writing, Recovering, NoMarker, FinishMerge
<1> QED
  BY <1>3, <1>4, <1>5, <1>6, DirKept DEF DirInv, FinishMerge, StoreKept

\* The handle recovery builds is in step with the directory.
LEMMA ReplayWalDurable ==
    ASSUME IndInv, DirInv, ReplayWal
    PROVE  DirInv' /\ HandleParts'
<1>1. /\ pc = "replay" /\ pc' = "idle" /\ job' = job /\ job = NoJob
      /\ op' = op /\ op = NoOp /\ levels = disk /\ levels' = levels
      /\ disk' = disk /\ tmp' = {} /\ marker = NoMarker /\ marker' = marker
      /\ wal' = wal /\ memtable' = Replay(wal)
  BY DEF IndInv, RecoveryStages, Recovering, DirInv, OpKnown, ReplayWal
<1>2. RecoveredFiles = levels /\ RecoveredFiles' = RecoveredFiles
  BY <1>1, UnmarkedFiles, SameRecovered
<1>3. ASSUME NEW k \in Key
      PROVE  /\ Recovered(k)' = Recovered(k) /\ Visible(k)' = Recovered(k)
             /\ Recovered(k) \in allowed'[k]
  <2>1. Recovered(k)' = Recovered(k)
    BY <1>1, SameRecovered
  <2>2. Recovered(k) = Answer(Find(Replay(wal), levels, k))
    BY <1>2 DEF Recovered
  <2>3. Visible(k)' = Recovered(k)
    BY <1>1, <2>2 DEF Visible
  <2>4. allowed'[k] = allowed[k] \cap {Recovered(k)}
    BY <2>2 DEF ReplayWal
  <2> QED
    BY <2>1, <2>3, <2>4 DEF DirInv, Durable
<1>4. ~Writing' /\ OpKnown'
  BY <1>1 DEF Writing, OpKnown, NoOp
<1>5. DirInv'
  BY <1>1, <1>2, <1>3, <1>4 DEF DirInv, MarkerSound, Durable
<1>6. AnswersAllowed' /\ WriteOutcome'
  BY <1>3, <1>4 DEF AnswersAllowed, WriteOutcome
<1>7. JobPlanned' /\ JobHidden'
  BY <1>1 DEF JobPlanned, JobHidden
<1>8. JobStages' /\ NewestIds' /\ DirectoryMatches' /\ NoDebris'
  BY <1>1, Nothing
     DEF JobStages, NewestIds, DirectoryMatches, NoDebris, Marking, ReplayWal
<1>9. MemtableLogged'
  BY <1>1 DEF MemtableLogged, Flushing
<1> QED
  BY <1>5, <1>6, <1>7, <1>8, <1>9 DEF HandleParts

-----------------------------------------------------------------------------
(***************************************************************************)
(* The theorems.                                                           *)
(***************************************************************************)

\* An empty directory is read the same by both sides.
LEMMA InitDurable == Init => DirInv /\ HandleInv
<1> SUFFICES ASSUME Init PROVE DirInv /\ HandleInv
  OBVIOUS
<1>1. RecoveredFiles = {}
  BY DEF Init, RecoveredFiles, NoMarker
<1>2. ASSUME NEW k \in Key
      PROVE  Recovered(k) = None /\ Visible(k) = None /\ allowed[k] = {None}
  <2>1. Lookup({}, k) = Absent
    BY DEF Lookup, Holding
  <2>2. Answer(Absent) = None
    BY MarkerAssumption DEF Answer
  <2>3. Replay(wal)[k] = Absent /\ memtable[k] = Absent /\ levels = {}
    BY ReplayNothing DEF Init, NoContents
  <2> QED
    BY <1>1, <2>1, <2>2, <2>3 DEF Init, Recovered, Visible, Find
<1>3. pc = "idle" /\ op = NoOp /\ job = NoJob /\ ~Writing
  BY DEF Init, NoOp, Writing
<1>4. DirInv
  BY <1>1, <1>2, <1>3
     DEF DirInv, Coherent, MarkerSound, Durable, OpKnown, Init, NoMarker, NoOp
<1>5. JobPlanned /\ JobHidden /\ AnswersAllowed /\ WriteOutcome
  BY <1>2, <1>3 DEF JobPlanned, JobHidden, AnswersAllowed, WriteOutcome
<1>6. JobStages /\ NewestIds /\ DirectoryMatches /\ NoDebris
  BY <1>3, Nothing
     DEF Init, JobStages, NewestIds, DirectoryMatches, NoDebris, Marking
<1>7. MemtableLogged
  BY <1>3 DEF Init, MemtableLogged, Flushing, NoContents
<1> QED
  BY <1>4, <1>5, <1>6, <1>7 DEF HandleInv, HandleParts

\* Every step but an error keeps the directory and the handle in step.
LEMMA StepDurable ==
    ASSUME IndInv, DirInv, HandleInv, Call \/ Continue \/ Crash \/ Close \/ Open,
           ~RemoveMayFail
    PROVE  DirInv' /\ HandleInv'
<1>1. ASSUME pc \notin Recovering PROVE HandleParts
  BY <1>1 DEF HandleInv
<1>2. ASSUME DirInv' /\ HandleParts' PROVE DirInv' /\ HandleInv'
  BY <1>2 DEF HandleInv
<1>3. ASSUME DirInv' /\ pc' \in Recovering PROVE DirInv' /\ HandleInv'
  BY <1>3 DEF HandleInv
<1>4. CASE Call
  <2>1. HandleParts
    BY <1>1, <1>4
       DEF Call, Set, Delete, BeginWrite, Flush, Compact, CompactFull, Recovering
  <2>2. ASSUME NEW k \in Key, NEW v \in Value, Set(k, v)
        PROVE  DirInv' /\ HandleInv'
    BY <1>2, <2>1, <2>2, BeginWriteDurable DEF Set, Entry
  <2>3. ASSUME NEW k \in Key, Delete(k) PROVE DirInv' /\ HandleInv'
    BY <1>2, <2>1, <2>3, BeginWriteDurable DEF Delete, Entry
  <2> QED
    BY <1>2, <1>4, <2>1, <2>2, <2>3, FlushDurable, CompactDurable,
       CompactFullDurable
       DEF Call
<1>5. ASSUME \/ AppendRecord \/ InsertMemtable \/ AfterInsert \/ WriteTmp
             \/ Rename \/ TruncateWal \/ InstallFlushed \/ AfterFlush
             \/ PickJob \/ WriteOutput \/ KeepOutput \/ WriteMarkerTmp
             \/ RenameMarker \/ DeleteInput \/ InputsDeleted \/ SwapFiles
             \/ ClearMarker \/ Return
      PROVE  DirInv' /\ HandleInv'
  <2>1. HandleParts
    BY <1>1, <1>5
       DEF AppendRecord, InsertMemtable, AfterInsert, WriteTmp, Rename,
           TruncateWal, InstallFlushed, AfterFlush, PickJob, WriteOutput,
           KeepOutput, WriteMarkerTmp, RenameMarker, DeleteInput,
           InputsDeleted, SwapFiles, ClearMarker, Return, Recovering
  <2> QED
    BY <1>2, <1>5, <2>1, AppendRecordDurable, InsertMemtableDurable,
       AfterInsertDurable, WriteTmpDurable, RenameDurable, TruncateWalDurable,
       InstallFlushedDurable, AfterFlushDurable, PickJobDurable,
       WriteOutputDurable, KeepOutputDurable, WriteMarkerTmpDurable,
       RenameMarkerDurable, DeleteInputDurable, InputsDeletedDurable,
       SwapFilesDurable, ClearMarkerDurable, ReturnDurable
<1>6. ASSUME \/ Open \/ RemoveTmp \/ TmpRemoved \/ LoadTables
             \/ FinishDelete \/ FinishMerge \/ ReplayWal
      PROVE  DirInv' /\ HandleInv'
  BY <1>2, <1>3, <1>6, QuietRecovery, FinishDeleteDir, FinishMergeDir,
     ReplayWalDurable
<1>7. CASE Continue
  BY <1>5, <1>6, <1>7 DEF Continue
<1>8. CASE Crash \/ Close
  BY <1>3, <1>8, LoseHandleDir DEF Crash, Close
<1> QED
  BY <1>4, <1>6, <1>7, <1>8

\* A step that changes nothing.
LEMMA StutterDir ==
    ASSUME DirInv, UNCHANGED vars
    PROVE  DirInv'
BY SameRecovered, DirKept DEF DirInv, MarkerSound, OpKnown, Writing, vars

\* A step that changes no variable changes neither side.
LEMMA StutterDurable ==
    ASSUME DirInv, HandleInv, UNCHANGED vars
    PROVE  DirInv' /\ HandleInv'
<1> USE DEF vars
<1>1. DirInv'
  BY StutterDir
<1>2. RecoveredFiles' = RecoveredFiles
  BY SameRecovered
<1>3. ASSUME HandleParts PROVE HandleParts'
  <2>1. JobPlanned' /\ JobHidden'
    BY <1>2, <1>3 DEF HandleParts, JobPlanned, JobSplits, JobHidden
  <2>2. JobStages' /\ NewestIds' /\ DirectoryMatches' /\ NoDebris'
    BY <1>3 DEF HandleParts, JobStages, NewestIds, DirectoryMatches, NoDebris
  <2>3. MemtableLogged' /\ AnswersAllowed'
    BY <1>3, SameVisible
       DEF HandleParts, MemtableLogged, Flushing, AnswersAllowed
  <2>4. WriteOutcome'
    BY <1>3 DEF HandleParts, WriteOutcome, Writing, Recovered, Visible,
                RecoveredFiles
  <2> QED
    BY <2>1, <2>2, <2>3, <2>4 DEF HandleParts
<1> QED
  BY <1>1, <1>3 DEF HandleInv

\* All steps, with the errors that the contract survives.
LEMMA NextDurable ==
    ASSUME ~RemoveMayFail, ErrorPoints \subseteq WriteErrors,
           IndInv, DirInv, HandleInv, [Next]_vars
    PROVE  DirInv' /\ HandleInv'
<1>1. CASE Call \/ Continue \/ Crash \/ Close \/ Open
  BY <1>1, StepDurable
<1>2. CASE Fail
  <2>1. FaultPoints \cap WriteErrors # {}
    BY <1>2 DEF Fail
  <2>2. pc \notin Recovering
    BY <1>2 DEF Fail, FaultPoints, Recovering
  <2> QED
    BY <1>2, <2>1, <2>2, FailDir, FailHandle DEF HandleInv
<1>3. CASE UNCHANGED vars
  BY <1>3, StutterDurable
<1> QED
  BY <1>1, <1>2, <1>3 DEF Next

\* The inductive invariant as a whole.
DurInv == IndInv /\ DirInv /\ HandleInv

\* The three parts hold together in every state.
LEMMA DurInvHolds ==
    ASSUME ~RemoveMayFail, ErrorPoints \subseteq WriteErrors
    PROVE  Spec => []DurInv
<1>1. Init => DurInv
  BY InitIndInv, InitDurable DEF DurInv
<1>2. DurInv /\ [Next]_vars => DurInv'
  BY NextIndInv, NextDurable DEF DurInv
<1> QED
  BY <1>1, <1>2, PTL DEF Spec

\* The durability contract (README, "crash safety"): with any keys, values and
\* options, and any number of crashes at any point of an operation or of a
\* recovery, a reopen gives each key its last acknowledged value or that of a
\* write whose outcome is not known.  Errors may come at the points of a write
\* up to its insert.
THEOREM ContractKept ==
    ASSUME ~RemoveMayFail, ErrorPoints \subseteq WriteErrors
    PROVE  Spec => []Durable
<1>1. DurInv => Durable
  BY DEF DurInv, DirInv
<1> QED
  BY <1>1, DurInvHolds, PTL

\* The open handle answers within the contract too: no read between two
\* operations sees a value that a flush or a compaction lost or brought back.
THEOREM ReadsKeepContract ==
    ASSUME ~RemoveMayFail, ErrorPoints \subseteq WriteErrors
    PROVE  Spec => []ReadsAllowed
<1>1. DurInv => ReadsAllowed
  BY DEF DurInv, HandleInv, HandleParts, AnswersAllowed, ReadsAllowed, Recovering
<1> QED
  BY <1>1, DurInvHolds, PTL

\* Two files of a level that disagree on a key are hidden by a shallower one,
\* whatever files a crash leaves and however the planner chose its inputs.
THEOREM CoherentLevels ==
    ASSUME ~RemoveMayFail, ErrorPoints \subseteq WriteErrors
    PROVE  Spec => []LevelsCoherent
<1>1. DurInv => LevelsCoherent
  BY DEF DurInv, DirInv, Coherent, LevelsCoherent
<1> QED
  BY <1>1, DurInvHolds, PTL

-----------------------------------------------------------------------------
(***************************************************************************)
(* The durable map.  PebbleDB implements it, and between operations its    *)
(* handle is what reopening the directory would build.  Both ask for more  *)
(* than the contract does: what is logged must also be in the memtable     *)
(* when the call returns, so an error may come before the append or after  *)
(* the insert, but not between them.                                       *)
(***************************************************************************)

\* Points of a write at which the log and the memtable hold the same.
CleanErrors == {"BeforeWalAppend", "AfterMemtableUpdate"}

(***************************************************************************)
(* The memtable is what the log replays to.                                *)
(***************************************************************************)

\* A step away from the two points of an operation where it is not.
LEMMA LogKept ==
    ASSUME MemtableIsLog, UNCHANGED <<memtable, wal>>,
           pc \notin Recovering \cup {"insert", "truncated"}, pc' # "insert"
    PROVE  MemtableIsLog'
BY DEF MemtableIsLog

\* An error leaves them the same where they are the same.
LEMMA FailLog ==
    ASSUME MemtableIsLog, Fail, FaultPoints \cap CleanErrors # {}
    PROVE  MemtableIsLog'
<1>1. pc \in {"append", "inserted"} /\ pc' = "idle"
  BY DEF FaultPoints, CleanErrors, Fail
<1> QED
  BY <1>1, LogKept DEF Fail, Recovering

\* No other step sets them apart when it ends.
LEMMA StepLog ==
    ASSUME IndInv, HandleInv, MemtableIsLog,
           Call \/ Continue \/ Crash \/ Close \/ Open
    PROVE  MemtableIsLog'
<1>1. CASE \/ Call \/ AfterInsert \/ WriteTmp \/ Rename \/ AfterFlush \/ PickJob
           \/ WriteOutput \/ KeepOutput \/ WriteMarkerTmp \/ RenameMarker
           \/ DeleteInput \/ InputsDeleted \/ SwapFiles \/ ClearMarker \/ Return
  <2>1. /\ UNCHANGED <<memtable, wal>> /\ pc' # "insert"
        /\ pc \notin Recovering \cup {"insert", "truncated"}
    BY <1>1
       DEF Call, Set, Delete, BeginWrite, Flush, Compact, CompactFull,
           AfterInsert, WriteTmp, Rename, AfterFlush, PickJob, WriteOutput,
           KeepOutput, WriteMarkerTmp, RenameMarker, DeleteInput,
           InputsDeleted, SwapFiles, ClearMarker, Return, StartFile, StartJob,
           Recovering
  <2> QED
    BY <2>1, LogKept
<1>2. CASE AppendRecord
  <2>1. Replay(wal') = [Replay(wal) EXCEPT ![op.key] = op.entry]
    BY <1>2, AppendAnswers
  <2>2. memtable = Replay(wal)
    BY <1>2 DEF MemtableIsLog, AppendRecord, Recovering
  <2> QED
    BY <1>2, <2>1, <2>2 DEF MemtableIsLog, AppendRecord
<1>3. CASE InsertMemtable
  BY <1>3 DEF MemtableIsLog, InsertMemtable
<1>4. CASE TruncateWal
  BY <1>4 DEF MemtableIsLog, TruncateWal
<1>5. CASE InstallFlushed
  <2>1. wal = <<>>
    BY <1>5 DEF HandleInv, HandleParts, MemtableLogged, Recovering,
                InstallFlushed
  <2> QED
    BY <1>5, <2>1, ReplayNothing DEF MemtableIsLog, InstallFlushed
<1>6. CASE \/ Open \/ RemoveTmp \/ TmpRemoved \/ FinishDelete \/ FinishMerge
           \/ LoadTables \/ Crash \/ Close
  BY <1>6 DEF MemtableIsLog, Open, RemoveTmp, TmpRemoved, FinishDelete,
              FinishMerge, LoadTables, Crash, Close, LoseHandle, Recovering
<1>7. CASE ReplayWal
  BY <1>7 DEF MemtableIsLog, ReplayWal
<1> QED
  BY <1>1, <1>2, <1>3, <1>4, <1>5, <1>6, <1>7 DEF Continue

\* The inductive invariant.
LogInv == DurInv /\ MemtableIsLog

\* With no other errors it holds in every state.
LEMMA LogInvHolds ==
    ASSUME ~RemoveMayFail, ErrorPoints \subseteq CleanErrors
    PROVE  Spec => []LogInv
<1>1. ErrorPoints \subseteq WriteErrors
  BY DEF CleanErrors, WriteErrors
<1>2. Spec => []DurInv
  BY <1>1, DurInvHolds
<1>3. Init => MemtableIsLog
  BY ReplayNothing DEF Init, MemtableIsLog
<1>4. ASSUME DurInv, MemtableIsLog, [Next]_vars PROVE MemtableIsLog'
  <2>1. CASE Call \/ Continue \/ Crash \/ Close \/ Open
    BY <1>4, <2>1, StepLog DEF DurInv
  <2>2. CASE Fail
    BY <1>4, <2>2, FailLog DEF Fail
  <2>3. CASE UNCHANGED vars
    BY <1>4, <2>3 DEF MemtableIsLog, vars
  <2> QED
    BY <1>4, <2>1, <2>2, <2>3 DEF Next
<1> QED
  BY <1>2, <1>3, <1>4, PTL DEF Spec, LogInv

\* Between two operations the files, the marker and the memtable are then in
\* step, with nothing left over.
LEMMA InStep ==
    ASSUME HandleInv, MemtableIsLog
    PROVE  HandleMirrorsDirectory
<1> SUFFICES ASSUME pc = "idle"
             PROVE  /\ levels = disk /\ memtable = Replay(wal)
                    /\ tmp = {} /\ marker = NoMarker /\ ~torn
  BY DEF HandleMirrorsDirectory
<1>1. HandleParts /\ job = NoJob
  BY DEF HandleInv, HandleParts, JobStages, Recovering
<1>2. levels = disk /\ marker = NoMarker
  BY <1>1, Nothing DEF HandleParts, DirectoryMatches, Marking
<1>3. tmp = {} /\ ~torn
  BY <1>1 DEF HandleParts, NoDebris
<1>4. memtable = Replay(wal)
  BY DEF MemtableIsLog, Recovering
<1> QED
  BY <1>2, <1>3, <1>4

\* Between two operations the handle is exactly what a reopen would build: it
\* lists the files of the directory, its memtable is what the log replays to,
\* and no temporary file, pending merge or torn record is left over.
THEOREM HandleIsMirror ==
    ASSUME ~RemoveMayFail, ErrorPoints \subseteq CleanErrors
    PROVE  Spec => []HandleMirrorsDirectory
<1>1. LogInv => HandleMirrorsDirectory
  BY InStep DEF LogInv, DurInv
<1> QED
  BY <1>1, LogInvHolds, PTL

-----------------------------------------------------------------------------
(***************************************************************************)
(* Which steps are seen from outside: the start of a write, the append, the*)
(* return, and what cuts a write short.                                    *)
(***************************************************************************)

\* No write under way is no request.
LEMMA NoWriteNoRequest ==
    ASSUME OpKnown, ~Writing
    PROVE  PendingWrite = Abstract!NoRequest
BY DEF OpKnown, PendingWrite, NoKey, Abstract!NoRequest

\* A write under way is one.
LEMMA WriteIsRequest ==
    ASSUME IndInv, Writing
    PROVE  PendingWrite # Abstract!NoRequest
<1>1. op.key \in Key /\ PendingWrite.key = op.key
  BY DEF IndInv, WriteUnderWay, PendingWrite
<1>2. Abstract!NoRequest.key = -1
  BY DEF Abstract!NoRequest
<1> QED
  BY <1>1, <1>2, KeyAssumption

\* A step that keeps the operation, away from the append.
LEMMA RequestKept ==
    ASSUME op' = op, pc # "append", pc' # "append"
    PROVE  PendingWrite' = PendingWrite
BY DEF PendingWrite, Writing

\* A step outside a write.
LEMMA NoRequestKept ==
    ASSUME OpKnown, OpKnown', ~Writing, ~Writing'
    PROVE  PendingWrite' = PendingWrite
BY DEF OpKnown, PendingWrite, Writing

\* A step that changes neither the log nor the tables.
LEMMA QuietStep ==
    ASSUME UNCHANGED <<disk, marker, wal>>
    PROVE  StoreKept
BY SameRecovered DEF StoreKept

\* Between operations the handle answers what a reopen would find.
LEMMA VisibleIsRecovered ==
    ASSUME LogInv, pc = "idle", NEW k \in Key
    PROVE  Visible(k) = Recovered(k)
<1>1. HandleMirrorsDirectory
  BY InStep DEF LogInv, DurInv
<1>2. levels = disk /\ marker = NoMarker /\ memtable = Replay(wal)
  BY <1>1 DEF HandleMirrorsDirectory
<1>3. RecoveredFiles = levels
  BY <1>2, UnmarkedFiles
<1> QED
  BY <1>2, <1>3 DEF Visible, Recovered

\* The truncation changes no answer: the table holds what the log did.
LEMMA TruncateKeeps ==
    ASSUME LogInv, TruncateWal
    PROVE  StoreKept
<1>1. IndInv /\ HandleParts /\ memtable = Replay(wal)
  BY DEF LogInv, DurInv, HandleInv, MemtableIsLog, Recovering, TruncateWal
<1>2. /\ job = NoJob /\ RecoveredFiles = levels \cup {file}
      /\ \A k \in Key : Recovered(k)' = Visible(k)
  BY <1>1, TruncateAnswers
<1>3. ASSUME NEW k \in Key PROVE Recovered(k) = Visible(k)
  <2>1. CASE memtable[k] # Absent
    BY <1>1, <2>1 DEF Recovered, Visible, Find
  <2>2. CASE memtable[k] = Absent
    <3>1. Recovered(k) = Answer(Lookup(levels \cup {file}, k))
      BY <1>1, <1>2, <2>2 DEF Recovered, Find
    <3> QED
      BY <1>1, <1>2, <3>1, FlushedAnswers DEF TruncateWal
  <2> QED
    BY <2>1, <2>2
<1> QED
  BY <1>2, <1>3 DEF StoreKept
-----------------------------------------------------------------------------
(***************************************************************************)
(* The refinement, step by step.                                           *)
(***************************************************************************)

\* What the durable map shows of a state.
Store == [k \in Key |-> Recovered(k)]
Seen == <<Store, PendingWrite>>

\* Nothing happens to the map.
LEMMA Hidden ==
    ASSUME StoreKept, PendingWrite' = PendingWrite
    PROVE  UNCHANGED Seen
BY DEF StoreKept, Store, Seen

\* The call: delete looks for the key in the handle, the map in the store.
LEMMA BeginWriteRefines ==
    ASSUME LogInv, NEW kind \in {"set", "delete"}, NEW k \in Key,
           NEW entry \in Entry, kind = "delete" <=> entry = Tombstone,
           BeginWrite(kind, k, entry)
    PROVE  Abstract!Next
<1>1. PendingWrite = Abstract!NoRequest
  <2>1. OpKnown
    BY DEF LogInv, DurInv, DirInv
  <2>2. op = NoOp
    BY <2>1 DEF OpKnown, BeginWrite, Recovering
  <2> QED
    BY <2>1, <2>2, NoWriteNoRequest DEF Writing, NoOp
<1>2. Visible(k) = Recovered(k)
  BY VisibleIsRecovered DEF BeginWrite
<1>3. PendingWrite' = [key |-> k, entry |-> entry, applied |-> FALSE,
                       existed |-> entry = Tombstone /\ Store[k] # None]
  BY <1>2 DEF PendingWrite, Writing, BeginWrite, Existed, Store
<1>4. Store' = Store
  BY QuietStep DEF BeginWrite, StoreKept, Store
<1>5. Abstract!Begin(k, entry)
  BY <1>1, <1>3, <1>4 DEF Abstract!Begin, Store
<1> QED
  BY <1>5 DEF Abstract!Next, Abstract!Entry, Entry

\* The append is the moment a write takes effect.
LEMMA AppendRecordRefines ==
    ASSUME LogInv, AppendRecord
    PROVE  Abstract!Next
<1>1. IndInv /\ Writing
  BY AppendAnswers DEF LogInv, DurInv
<1>2. PendingWrite # Abstract!NoRequest /\ ~PendingWrite.applied
  <2>1. PendingWrite # Abstract!NoRequest
    BY <1>1, WriteIsRequest
  <2>2. ~PendingWrite.applied
    BY DEF PendingWrite, AppendRecord
  <2> QED
    BY <2>1, <2>2
<1>3. PendingWrite' = [PendingWrite EXCEPT !.applied = TRUE]
  <2>1. op' = op /\ pc = "append" /\ pc' = "insert" /\ Writing'
    BY <1>1 DEF Writing, AppendRecord
  <2>2. PICK no, yes : no = FALSE /\ yes = TRUE
    OBVIOUS
  <2>3. PendingWrite = [key |-> op.key, entry |-> op.entry,
                        existed |-> op.existed, applied |-> no]
    BY <2>1, <2>2 DEF PendingWrite
  <2>4. PendingWrite' = [key |-> op.key, entry |-> op.entry,
                         existed |-> op.existed, applied |-> yes]
    BY <2>1, <2>2 DEF PendingWrite
  <2>5. PendingWrite' = [PendingWrite EXCEPT !.applied = yes]
    BY <2>3, <2>4
  <2> QED
    BY <2>2, <2>5
<1>4. Store' = [Store EXCEPT ![PendingWrite.key] = Answer(PendingWrite.entry)]
  <2>1. /\ op.key \in Key /\ Recovered(op.key)' = Answer(op.entry)
        /\ \A k \in Key \ {op.key} : Recovered(k)' = Recovered(k)
    BY <1>1, AppendAnswers
  <2>2. Store' = [k \in Key |-> Recovered(k)'] /\ Store = [k \in Key |-> Recovered(k)]
    BY DEF Store
  <2>3. ASSUME NEW k \in Key
        PROVE  Recovered(k)' = [Store EXCEPT ![op.key] = Answer(op.entry)][k]
    <3>1. CASE k = op.key
      <4>1. op.key' = op.key
        BY DEF AppendRecord
      <4> QED
        BY <2>1, <2>2, <3>1, <4>1 DEF Recovered
    <3>2. CASE k # op.key
      BY <2>1, <2>2, <3>2
    <3> QED
      BY <3>1, <3>2
  <2>4. PendingWrite.key = op.key /\ PendingWrite.entry = op.entry
    BY DEF PendingWrite
  <2> QED
    BY <2>2, <2>3, <2>4
<1>5. Abstract!Apply
  BY <1>2, <1>3, <1>4 DEF Abstract!Apply, Abstract!Answer, Answer, Store
<1> QED
  BY <1>5 DEF Abstract!Next

\* The return of a write is the reply; a flush or a compaction has none.
LEMMA ReturnRefines ==
    ASSUME LogInv, Return, OpKnown'
    PROVE  Abstract!Next \/ UNCHANGED Seen
<1>1. Store' = Store /\ StoreKept /\ ~Writing'
  BY QuietStep DEF Return, StoreKept, Store, Writing, NoOp
<1>2. CASE Writing
  <2>1. PendingWrite.applied
    BY <1>2 DEF PendingWrite, Return
  <2>2. PendingWrite' = Abstract!NoRequest
    BY <1>1 DEF PendingWrite, Writing, Abstract!NoRequest, Return, NoOp, NoKey
  <2>3. Abstract!Reply
    BY <1>1, <2>1, <2>2 DEF Abstract!Reply, Store
  <2> QED
    BY <2>3 DEF Abstract!Next
<1>3. CASE ~Writing
  BY <1>1, <1>3, NoRequestKept, Hidden DEF LogInv, DurInv, DirInv
<1> QED
  BY <1>2, <1>3

\* An error, a crash or a drop of the handle may cut a write short, and
\* changes nothing else.
LEMMA CutShortRefines ==
    ASSUME LogInv, OpKnown', op' = NoOp, UNCHANGED <<disk, marker, wal>>
    PROVE  Abstract!Next \/ UNCHANGED Seen
<1>1. Store' = Store /\ StoreKept /\ ~Writing'
  BY QuietStep DEF StoreKept, Store, Writing, NoOp
<1>2. CASE Writing
  <2>1. PendingWrite # Abstract!NoRequest
    BY <1>2, WriteIsRequest DEF LogInv, DurInv
  <2>2. PendingWrite' = Abstract!NoRequest
    BY <1>1 DEF PendingWrite, Writing, Abstract!NoRequest, NoOp, NoKey
  <2>3. Abstract!CutShort
    BY <1>1, <2>1, <2>2 DEF Abstract!CutShort, Store
  <2> QED
    BY <2>3 DEF Abstract!Next
<1>3. CASE ~Writing
  BY <1>1, <1>3, NoRequestKept, Hidden DEF LogInv, DurInv, DirInv
<1> QED
  BY <1>2, <1>3

\* Every other step of an operation is hidden: the files it adds, replaces
\* and removes, and the log it truncates, change no answer.
LEMMA OperationHidden ==
    ASSUME LogInv, ~RemoveMayFail,
           \/ InsertMemtable \/ AfterInsert \/ WriteTmp \/ Rename
           \/ TruncateWal \/ InstallFlushed \/ AfterFlush \/ PickJob
           \/ WriteOutput \/ KeepOutput \/ WriteMarkerTmp \/ RenameMarker
           \/ DeleteInput \/ InputsDeleted \/ SwapFiles \/ ClearMarker
    PROVE  UNCHANGED Seen
<1>1. op' = op /\ pc # "append" /\ pc' # "append" /\ pc \notin Recovering
  BY DEF InsertMemtable, AfterInsert, WriteTmp, Rename, TruncateWal,
         InstallFlushed, AfterFlush, PickJob, WriteOutput, KeepOutput,
         WriteMarkerTmp, RenameMarker, DeleteInput, InputsDeleted, SwapFiles,
         ClearMarker, StartFile, StartJob, Recovering
<1>2. IndInv /\ DirInv /\ HandleParts
  BY <1>1 DEF LogInv, DurInv, HandleInv
<1>3. CASE \/ InsertMemtable \/ AfterInsert \/ WriteTmp \/ InstallFlushed
           \/ AfterFlush \/ PickJob \/ WriteOutput \/ KeepOutput
           \/ WriteMarkerTmp \/ InputsDeleted \/ SwapFiles
  <2>1. UNCHANGED <<disk, marker, wal>>
    BY <1>3
       DEF InsertMemtable, AfterInsert, WriteTmp, InstallFlushed, AfterFlush,
           PickJob, WriteOutput, KeepOutput, WriteMarkerTmp, InputsDeleted,
           SwapFiles
  <2> QED
    BY <1>1, <2>1, QuietStep, RequestKept, Hidden
<1>4. StoreKept
  BY <1>2, <1>3, QuietStep, RenameDurable, TruncateKeeps, RenameMarkerDurable,
     DeleteInputDurable, ClearMarkerDurable
     DEF InsertMemtable, AfterInsert, WriteTmp, InstallFlushed, AfterFlush,
         PickJob, WriteOutput, KeepOutput, WriteMarkerTmp, InputsDeleted,
         SwapFiles
<1> QED
  BY <1>1, <1>4, RequestKept, Hidden

\* So is every step of a recovery.
LEMMA RecoveryHidden ==
    ASSUME LogInv,
           \/ Open \/ RemoveTmp \/ TmpRemoved \/ FinishDelete \/ FinishMerge
           \/ LoadTables \/ ReplayWal
    PROVE  UNCHANGED Seen
<1>1. op' = op /\ pc # "append" /\ pc' # "append"
  BY DEF Open, RemoveTmp, TmpRemoved, FinishDelete, FinishMerge, LoadTables,
         ReplayWal
<1>2. CASE Open \/ RemoveTmp \/ TmpRemoved \/ LoadTables \/ ReplayWal
  <2>1. UNCHANGED <<disk, marker, wal>>
    BY <1>2 DEF Open, RemoveTmp, TmpRemoved, LoadTables, ReplayWal
  <2> QED
    BY <1>1, <2>1, QuietStep, RequestKept, Hidden
<1>3. CASE FinishDelete \/ FinishMerge
  BY <1>1, <1>3, FinishDeleteDir, FinishMergeDir, RequestKept, Hidden
     DEF LogInv, DurInv
<1> QED
  BY <1>2, <1>3
-----------------------------------------------------------------------------
(***************************************************************************)
(* The theorem.                                                            *)
(***************************************************************************)

\* At the start the map is empty and nobody writes.
LEMMA InitRefines == Init => Abstract!Init
<1> SUFFICES ASSUME Init PROVE Abstract!Init
  OBVIOUS
<1>1. ASSUME NEW k \in Key PROVE Recovered(k) = None
  <2>1. RecoveredFiles = {} /\ wal = <<>>
    BY DEF Init, RecoveredFiles, NoMarker
  <2>2. Lookup({}, k) = Absent
    BY DEF Lookup, Holding
  <2>3. Answer(Absent) = None
    BY MarkerAssumption DEF Answer
  <2>4. Replay(<<>>)[k] = Absent
    BY ReplayNothing DEF NoContents
  <2> QED
    BY <2>1, <2>2, <2>3, <2>4 DEF Recovered, Find
<1>2. PendingWrite = Abstract!NoRequest
  BY DEF Init, PendingWrite, Writing, NoOp, NoKey, Abstract!NoRequest
<1> QED
  BY <1>1, <1>2 DEF Abstract!Init

\* Every step is a step of the map or none.
LEMMA NextRefines ==
    ASSUME ~RemoveMayFail, LogInv, LogInv', [Next]_vars
    PROVE  Abstract!Next \/ UNCHANGED Seen
<1>1. OpKnown /\ OpKnown'
  BY DEF LogInv, DurInv, DirInv
<1>2. CASE Call
  <2>1. ASSUME NEW k \in Key, NEW v \in Value, Set(k, v) PROVE Abstract!Next
    <3>1. v \in Entry /\ v # Tombstone
      BY MarkerAssumption DEF Entry
    <3> QED
      BY <2>1, <3>1, BeginWriteRefines DEF Set
  <2>2. ASSUME NEW k \in Key, Delete(k) PROVE Abstract!Next
    BY <2>2, BeginWriteRefines DEF Delete, Entry
  <2>3. CASE Flush \/ Compact \/ CompactFull
    <3>1. UNCHANGED <<disk, marker, wal>> /\ pc = "idle"
      BY <2>3 DEF Flush, Compact, CompactFull
    <3>2. op = NoOp
      BY <1>1, <3>1 DEF OpKnown, Recovering
    <3>3. op'.kind \in {"flush", "compact", "compact_full"}
      BY <2>3 DEF Flush, Compact, CompactFull, NoOp
    <3>4. ~Writing /\ ~Writing'
      BY <3>2, <3>3 DEF Writing, NoOp
    <3> QED
      BY <1>1, <3>1, <3>4, QuietStep, NoRequestKept, Hidden
  <2> QED
    BY <1>2, <2>1, <2>2, <2>3 DEF Call
<1>3. CASE Continue
  BY <1>1, <1>3, AppendRecordRefines, ReturnRefines, OperationHidden,
     RecoveryHidden
     DEF Continue
<1>4. CASE Fail \/ Crash \/ Close
  <2>1. op' = NoOp /\ UNCHANGED <<disk, marker, wal>>
    BY <1>4 DEF Fail, Crash, Close, LoseHandle
  <2> QED
    BY <1>1, <2>1, CutShortRefines
<1>5. CASE Open
  BY <1>5, RecoveryHidden
<1>6. CASE UNCHANGED vars
  <2>1. UNCHANGED <<disk, marker, wal>> /\ PendingWrite' = PendingWrite
    BY <1>6 DEF vars, PendingWrite, Writing
  <2> QED
    BY <2>1, QuietStep, Hidden
<1> QED
  BY <1>2, <1>3, <1>4, <1>5, <1>6 DEF Next

\* The database is a durable map: each write takes effect at one moment, the
\* append of its record, delete answers from the map as it was then called,
\* a crash or an error only ends the call under way, and no flush, compaction,
\* crash or recovery changes what a reader finds.
THEOREM PebbleDBIsDurableStore ==
    ASSUME ~RemoveMayFail, ErrorPoints \subseteq CleanErrors
    PROVE  Spec => ImplementsDurableStore
<1>1. LogInv /\ LogInv' /\ [Next]_vars
        => [Abstract!Next]_<<[k \in Key |-> Recovered(k)], PendingWrite>>
  BY NextRefines DEF Seen, Store
<1> QED
  BY <1>1, InitRefines, LogInvHolds, PTL
     DEF Spec, ImplementsDurableStore, Abstract!Spec
=============================================================================
