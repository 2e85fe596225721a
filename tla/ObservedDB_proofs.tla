--------------------------- MODULE ObservedDB_proofs ---------------------------
(***************************************************************************)
(* The statistics and the fault injector only watch and stop the database: *)
(* whatever the handle was opened with, every step is one of PebbleDB, and *)
(* what is proved of PebbleDB holds here too.  What is proved of it only   *)
(* for some errors holds for every fault, if the client drops the handle   *)
(* that met it; and what only a fault can break holds until one fires.     *)
(***************************************************************************)
EXTENDS ObservedDB, Durability_proofs

USE DEF directory, handle, control, history

\* A fault that fires is an error or a crash PebbleDB allows; the metrics
\* and the hit counter are no part of its state.
LEMMA ObservedStep == [ObservedNext]_allVars => [Next]_vars
<1> SUFFICES ASSUME [ObservedNext]_allVars
             PROVE  [Next]_vars
    OBVIOUS
<1>1. CASE Request
    BY <1>1 DEF Request, Next
<1>2. CASE Step
    BY <1>2 DEF Step, Next
<1>3. CASE FireError
    BY <1>3 DEF FireError, Next
<1>4. CASE FireAbort
    BY <1>4 DEF FireAbort, Next
<1>5. CASE Drop
    BY <1>5 DEF Drop, Next
<1>6. CASE Reopen
    BY <1>6 DEF Reopen, Next
<1>7. CASE UNCHANGED allVars
    BY <1>7 DEF allVars
<1> QED
    BY <1>1, <1>2, <1>3, <1>4, <1>5, <1>6, <1>7 DEF ObservedNext

\* The database with its statistics and any injected fault implements the
\* database without them.
THEOREM ObservedImplementsSpec == ObservedSpec => Spec
<1>1. ObservedInit => Init
    BY DEF ObservedInit
<1> QED
    BY <1>1, ObservedStep, PTL DEF ObservedSpec, Spec

\* Whatever fault fires, at whatever hit, an error or an abort: no id is given
\* out that a table, a temporary file or a pending merge still has.
THEOREM ObservedIdsAreFresh == ObservedSpec => []IdsAreFresh
BY ObservedImplementsSpec, FreshIds, PTL

-----------------------------------------------------------------------------
(***************************************************************************)
(* The contract with an injected fault.  An error between a rename and the *)
(* update of the handle leaves the two apart, and then nothing but dropping*)
(* the handle is safe; so the client may go on only after errors of a      *)
(* write, as KeepUsing says it does.                                       *)
(***************************************************************************)

\* The fault has fired, is not one to go on after, and the operation it ended
\* is over: the handle still answers within the contract, but is out of step.
OutOfStep ==
    /\ pc = "idle"
    /\ Fired
    /\ fault.point \notin KeepUsing
    /\ AnswersAllowed

\* The injector's own state.
InjectorOK == hits \in Nat /\ fault.at \in Nat

\* The inductive invariant.
FaultInv ==
    /\ IndInv
    /\ DirInv
    /\ HandleInv \/ OutOfStep
    /\ Fired \/ MemtableIsLog
    /\ InjectorOK

\* The first hit counts even when the fault is due at hit 0.
LEMMA DueAt ==
    ASSUME NEW n \in Nat
    PROVE  /\ Greatest({1, n}) = IF n = 0 THEN 1 ELSE n
BY DEF Greatest

\* A fault that fires has fired from then on.
LEMMA FiresThenFired ==
    ASSUME InjectorOK, Fires, CountHit, fault' = fault
    PROVE  Fired' /\ InjectorOK'
<1>1. fault # NoFault
  BY DEF Fires, OnTheWay, FaultPoints, NoFault
<1>2. hits' = hits + 1 /\ hits + 1 >= fault.at
  BY DEF Fires, CountHit
<1> QED
  BY <1>1, <1>2, DueAt DEF Fired, InjectorOK

\* A hit that does not fire does not make it fired, and it is never unfired.
LEMMA QuietHit ==
    ASSUME InjectorOK, ~Fires, CountHit, fault' = fault
    PROVE  (Fired' <=> Fired) /\ InjectorOK'
<1>1. CASE OnTheWay
  <2>1. hits' = hits + 1 /\ hits + 1 < fault.at
    BY <1>1 DEF Fires, CountHit, InjectorOK
  <2> QED
    BY <2>1, DueAt DEF Fired, InjectorOK
<1>2. CASE ~OnTheWay
  BY <1>2 DEF CountHit, Fired, InjectorOK
<1> QED
  BY <1>1, <1>2

\* The client asks only a handle that is in step.
LEMMA RequestSafe ==
    ASSUME ~RemoveMayFail, FaultInv, Request
    PROVE  FaultInv'
<1>1. HandleInv /\ Call
  BY DEF FaultInv, OutOfStep, Request
<1>2. [Next]_vars
  BY <1>1 DEF Next
<1>3. IndInv' /\ DirInv' /\ HandleInv'
  BY <1>1, <1>2, NextIndInv, StepDurable DEF FaultInv
<1>4. (Fired \/ MemtableIsLog)' /\ InjectorOK'
  <2>1. MemtableIsLog => MemtableIsLog'
    BY <1>1, StepLog DEF FaultInv
  <2>2. Fired' <=> Fired
    BY DEF Request, observations, Fired
  <2> QED
    BY <2>1, <2>2 DEF FaultInv, InjectorOK, Request, observations
<1> QED
  BY <1>3, <1>4 DEF FaultInv

\* Only a handle in step has an operation under way.
LEMMA StepSafe ==
    ASSUME ~RemoveMayFail, FaultInv, Step
    PROVE  FaultInv'
<1>1. pc # "idle"
  BY DEF Step, Continue, AppendRecord, InsertMemtable, AfterInsert, WriteTmp,
         Rename, TruncateWal, InstallFlushed, AfterFlush, PickJob, WriteOutput,
         KeepOutput, WriteMarkerTmp, RenameMarker, DeleteInput, InputsDeleted,
         SwapFiles, ClearMarker, RemoveTmp, TmpRemoved, FinishDelete,
         FinishMerge, LoadTables, ReplayWal, Return
<1>2. HandleInv /\ Continue
  BY <1>1 DEF FaultInv, OutOfStep, Step
<1>3. [Next]_vars
  BY <1>2 DEF Next
<1>4. IndInv' /\ DirInv' /\ HandleInv'
  BY <1>2, <1>3, NextIndInv, StepDurable DEF FaultInv
<1>5. (Fired \/ MemtableIsLog)' /\ InjectorOK'
  <2>1. MemtableIsLog => MemtableIsLog'
    BY <1>2, StepLog DEF FaultInv
  <2>2. (Fired' <=> Fired) /\ InjectorOK'
    BY QuietHit DEF FaultInv, Step
  <2> QED
    BY <2>1, <2>2 DEF FaultInv
<1> QED
  BY <1>4, <1>5 DEF FaultInv

\* The fault that fires as an error ends the operation, and leaves the handle
\* in step or the client without it.
LEMMA FireErrorSafe ==
    ASSUME KeepUsing \subseteq WriteErrors, FaultInv, FireError
    PROVE  FaultInv'
<1>1. Fail /\ fault.point \in FaultPoints /\ pc' = "idle"
  BY DEF FireError, Fires, OnTheWay, Fail
<1>2. pc \notin Recovering \cup {"idle"}
  BY <1>1 DEF FaultPoints, Recovering
<1>3. HandleInv /\ HandleParts
  BY <1>2 DEF FaultInv, OutOfStep, HandleInv
<1>4. IndInv' /\ DirInv'
  <2>1. [Next]_vars
    BY <1>1 DEF Next
  <2> QED
    BY <1>1, <2>1, NextIndInv, FailDir DEF FaultInv
<1>5. Fired' /\ InjectorOK'
  BY FiresThenFired DEF FaultInv, FireError
<1>6. CASE fault.point \in KeepUsing
  <2>1. FaultPoints \cap WriteErrors # {}
    BY <1>1, <1>6
  <2>2. HandleParts'
    BY <1>1, <1>3, <2>1, FailHandle
  <2> QED
    BY <1>4, <1>5, <2>2 DEF FaultInv, HandleInv
<1>7. CASE fault.point \notin KeepUsing
  <2>1. AnswersAllowed'
    BY <1>1, <1>3, SameVisible DEF HandleParts, AnswersAllowed, Fail
  <2>2. fault' = fault
    BY DEF FireError
  <2> QED
    BY <1>1, <1>4, <1>5, <1>7, <2>1, <2>2 DEF FaultInv, OutOfStep
<1> QED
  BY <1>6, <1>7

\* What ends the handle leaves nothing of it, and the next one has no fault.
LEMMA HandleLostSafe ==
    ASSUME FaultInv, LoseHandle, Crash \/ Close, fault' = NoFault, hits' = 0
    PROVE  FaultInv'
<1>1. IndInv' /\ DirInv' /\ pc' = "down"
  <2>1. [Next]_vars
    BY DEF Next
  <2> QED
    BY <2>1, NextIndInv, LoseHandleDir DEF FaultInv, LoseHandle
<1>2. HandleInv' /\ MemtableIsLog'
  BY <1>1 DEF HandleInv, MemtableIsLog, Recovering
<1>3. InjectorOK'
  BY DEF InjectorOK, NoFault
<1> QED
  BY <1>1, <1>2, <1>3 DEF FaultInv

\* All steps.
LEMMA NextFaultInv ==
    ASSUME ~RemoveMayFail, KeepUsing \subseteq WriteErrors,
           FaultInv, [ObservedNext]_allVars
    PROVE  FaultInv'
<1>1. CASE FireAbort
  BY <1>1, HandleLostSafe DEF FireAbort, Crash
<1>2. CASE Drop
  BY <1>2, HandleLostSafe DEF Drop, Close
<1>3. CASE Reopen
  <2>1. HandleInv /\ Open
    BY <1>3 DEF Reopen, Open, HandleInv, Recovering
  <2>2. [Next]_vars
    BY <2>1 DEF Next
  <2>3. IndInv' /\ DirInv' /\ HandleInv'
    BY <2>1, <2>2, NextIndInv, StepDurable DEF FaultInv
  <2>4. MemtableIsLog' /\ InjectorOK'
    BY <1>3 DEF FaultInv, Reopen, Open, observations, MemtableIsLog, Recovering,
                InjectorOK
  <2> QED
    BY <2>3, <2>4 DEF FaultInv
<1>4. CASE UNCHANGED allVars
  <2>1. UNCHANGED vars /\ UNCHANGED <<fault, hits>>
    BY <1>4 DEF allVars, observations
  <2>2. IndInv' /\ DirInv'
    BY <2>1, NextIndInv, StutterDir DEF FaultInv
  <2>3. HandleInv => HandleInv'
    BY <2>1, StutterDurable DEF FaultInv
  <2>4. OutOfStep => OutOfStep'
    BY <2>1, SameVisible DEF OutOfStep, AnswersAllowed, Fired, vars
  <2>5. (Fired \/ MemtableIsLog)' /\ InjectorOK'
    BY <2>1 DEF FaultInv, Fired, MemtableIsLog, InjectorOK, vars
  <2> QED
    BY <2>2, <2>3, <2>4, <2>5 DEF FaultInv
<1> QED
  BY <1>1, <1>2, <1>3, <1>4, RequestSafe, StepSafe, FireErrorSafe DEF ObservedNext

\* A handle opened with any fault starts in step.
LEMMA FaultInvHolds ==
    ASSUME ~RemoveMayFail, KeepUsing \subseteq WriteErrors
    PROVE  ObservedSpec => []FaultInv
<1>1. ObservedInit => FaultInv
  <2> SUFFICES ASSUME ObservedInit PROVE FaultInv
    OBVIOUS
  <2>1. IndInv /\ DirInv /\ HandleInv
    BY InitIndInv, InitDurable DEF ObservedInit
  <2>2. MemtableIsLog
    BY ReplayNothing DEF ObservedInit, Init, MemtableIsLog
  <2>3. InjectorOK
    BY FaultAssumption DEF ObservedInit, InjectorOK, NoFault
  <2> QED
    BY <2>1, <2>2, <2>3 DEF FaultInv
<1>2. FaultInv /\ [ObservedNext]_allVars => FaultInv'
  BY NextFaultInv
<1> QED
  BY <1>1, <1>2, PTL DEF ObservedSpec

\* Whatever fault is injected, at whatever hit, an error or an abort: a reopen
\* gives every key a value the contract allows (tests/crash_recovery.rs).
THEOREM ObservedContractKept ==
    ASSUME ~RemoveMayFail, KeepUsing \subseteq WriteErrors
    PROVE  ObservedSpec => []Durable
<1>1. FaultInv => Durable
  BY DEF FaultInv, DirInv
<1> QED
  BY <1>1, FaultInvHolds, PTL

\* So does the open handle, even the one a fault has left out of step.
THEOREM ObservedReadsKeepContract ==
    ASSUME ~RemoveMayFail, KeepUsing \subseteq WriteErrors
    PROVE  ObservedSpec => []ReadsAllowed
<1>1. FaultInv => ReadsAllowed
  BY DEF FaultInv, OutOfStep, HandleInv, HandleParts, AnswersAllowed,
         ReadsAllowed, Recovering
<1> QED
  BY <1>1, FaultInvHolds, PTL

\* Whatever a fault left half done, the handle a reopen gives mirrors the
\* directory between any two operations, until its own fault fires.
THEOREM ReopenMends ==
    ASSUME ~RemoveMayFail, KeepUsing \subseteq WriteErrors
    PROVE  ObservedSpec => []ReopeningRecovers
<1>1. FaultInv => ReopeningRecovers
  BY InStep DEF FaultInv, OutOfStep, ReopeningRecovers
<1> QED
  BY <1>1, FaultInvHolds, PTL

-----------------------------------------------------------------------------
(***************************************************************************)
(* The order of the files below level 0, as long as no fault has fired.    *)
(* A fault in the middle of a compaction may leave outputs among inputs,   *)
(* and nothing ever puts those in order again.                             *)
(***************************************************************************)
BeingWritten == pc \in {"create", "rename", "renamed"}

\* The outputs of the running job lie side by side, before the records that
\* are left, and hold keys of the inputs only; the table being written takes
\* the first of the records left.
JobInOrder ==
    /\ \A o \in job.outputs :
         /\ o.level = job.level
         /\ \A k \in KeysOf(o.contents) : Held(job.inputs, k)
         /\ \A k \in KeysOf(o.contents), j \in KeysOf(job.rest) : k < j
    /\ \A o, p \in job.outputs : o # p => Apart(o, p)
    /\ \A k \in KeysOf(job.rest) : Held(job.inputs, k)
    /\ BeingWritten =>
         /\ file.level = job.level
         /\ KeysOf(file.contents) \subseteq KeysOf(job.rest)
         /\ \A j \in KeysOf(file.contents),
               k \in KeysOf(job.rest) \ KeysOf(file.contents) : j < k

OrderInv ==
    /\ pc \in Recovering => SideBySide(disk)
    /\ pc \notin Recovering => SideBySide(levels)
    /\ pc \notin Recovering \cup {"swapped"} /\ job # NoJob =>
         Beside(levels, job.inputs, job.level) /\ JobInOrder

\* Steps that move neither a file of the handle nor the job's inputs,
\* outputs and rest.
LEMMA OrderKept ==
    ASSUME OrderInv, pc \notin Recovering, pc' \notin Recovering,
           levels' = levels,
           \/ job' = NoJob
           \/ /\ job # NoJob /\ pc # "swapped"
              /\ job'.inputs = job.inputs /\ job'.level = job.level
              /\ job'.outputs = job.outputs /\ job'.rest = job.rest
              /\ BeingWritten' => BeingWritten /\ file' = file
    PROVE  OrderInv'
<1>1. SideBySide(levels')
  BY DEF OrderInv
<1>2. CASE job' = NoJob
  BY <1>1, <1>2 DEF OrderInv
<1>3. CASE job' # NoJob
  <2>1. Beside(levels, job.inputs, job.level) /\ JobInOrder
    BY <1>3 DEF OrderInv
  <2>2. JobInOrder'
    BY <1>3, <2>1 DEF JobInOrder
  <2> QED
    BY <1>1, <1>3, <2>1, <2>2 DEF OrderInv
<1> QED
  BY <1>2, <1>3

\* The flushed file goes to level 0.
LEMMA InstallFlushedOrder ==
    ASSUME HandleParts, OrderInv, InstallFlushed
    PROVE  OrderInv'
<1>1. job' = NoJob /\ file.level = 0
  BY DEF HandleParts, JobStages, MemtableLogged, Flushing, InstallFlushed
<1>2. SideBySide(levels')
  BY <1>1 DEF OrderInv, SideBySide, InstallFlushed, Recovering
<1> QED
  BY <1>1, <1>2 DEF OrderInv, InstallFlushed, Recovering

\* A job starts with nothing but keys of its inputs to write.
LEMMA StartJobOrder ==
    ASSUME OrderInv, pc \notin Recovering,
           NEW inputs, NEW level, NEW drop \in BOOLEAN, NEW limit,
           StartJob(inputs, level, drop, limit), levels' = levels,
           Beside(levels, inputs, level)
    PROVE  OrderInv'
<1>1. /\ job'.inputs = inputs /\ job'.level = level /\ job'.outputs = {}
      /\ job'.rest = Merge(inputs, drop) /\ pc' = "merge"
  BY DEF StartJob
<1>2. ASSUME NEW k \in KeysOf(Merge(inputs, drop)) PROVE Held(inputs, k)
  <2>1. k \in Key /\ Lookup(inputs, k) # Absent
    BY Merged DEF KeysOf
  <2> QED
    BY <2>1 DEF Lookup, Holding, Held
<1>3. JobInOrder'
  BY <1>1, <1>2 DEF JobInOrder, BeingWritten
<1>4. SideBySide(levels')
  BY DEF OrderInv
<1> QED
  BY <1>1, <1>3, <1>4 DEF OrderInv, Recovering

\* The planner's job takes every file that its outputs could meet.
LEMMA PickJobOrder ==
    ASSUME IndInv, HandleParts, OrderInv, PickJob
    PROVE  OrderInv'
<1>1. pc \notin Recovering /\ pc' \notin Recovering /\ levels' = levels /\ job = NoJob
  BY DEF HandleParts, JobStages, PickJob, StartJob, Recovering
<1>2. CASE CompactionDue(levels)
  <2> DEFINE plan == PickCompaction(levels)
  <2>1. FileSet(levels) /\ \A f \in levels : KeysOf(f.contents) # {}
    BY KnownParts DEF IndInv, TypeOK
  <2>2. Beside(levels, plan.inputs, plan.outputLevel)
    BY <1>1, <1>2, <2>1, PlanIsBeside DEF OrderInv
  <2>3. plan.dropTombstones \in BOOLEAN
    BY DEF PickCompaction, DropsTombstones
  <2>4. StartJob(plan.inputs, plan.outputLevel, plan.dropTombstones,
                 AtLeast(1, TargetFileSize))
    BY <1>2 DEF PickJob
  <2> HIDE DEF plan
  <2> QED
    BY <1>1, <2>2, <2>3, <2>4, StartJobOrder
<1>3. CASE ~CompactionDue(levels)
  <2>1. job' = NoJob
    BY <1>1, <1>3 DEF PickJob
  <2> QED
    BY <1>1, <2>1, OrderKept
<1> QED
  BY <1>2, <1>3

\* A full compaction leaves no file out.
LEMMA CompactFullOrder ==
    ASSUME HandleParts, OrderInv, CompactFull
    PROVE  OrderInv'
<1>1. pc \notin Recovering /\ pc' \notin Recovering /\ levels' = levels /\ job = NoJob
  BY DEF HandleParts, JobStages, CompactFull, StartJob, Recovering
<1>2. CASE Cardinality(levels) <= 1
  <2>1. job' = NoJob
    BY <1>1, <1>2 DEF CompactFull
  <2> QED
    BY <1>1, <2>1, OrderKept
<1>3. CASE ~(Cardinality(levels) <= 1)
  <2>1. StartJob(levels, 1, TRUE, Cardinality(Key) + 1)
    BY <1>3 DEF CompactFull
  <2>2. Beside(levels, levels, 1)
    BY DEF Beside
  <2> QED
    BY <1>1, <2>1, <2>2, StartJobOrder
<1> QED
  BY <1>2, <1>3

\* The next output takes the first of the records that are left.
LEMMA WriteOutputOrder ==
    ASSUME IndInv, HandleParts, OrderInv, WriteOutput
    PROVE  OrderInv'
<1>1. /\ pc = "merge" /\ pc \notin Recovering /\ pc' \notin Recovering
      /\ levels' = levels /\ job' = job /\ job # NoJob
  BY DEF HandleParts, JobStages, WriteOutput, StartFile, Recovering
<1>2. CASE job.rest = NoContents
  BY <1>1, <1>2, OrderKept DEF WriteOutput, BeingWritten
<1>3. CASE job.rest # NoContents
  <2> DEFINE first == FirstKeys(job.rest, job.limit)
  <2>1. job.rest \in Contents /\ job.limit \in Nat
    BY DEF IndInv, TypeOK, Job
  <2>2. file'.level = job.level /\ file'.contents = Only(job.rest, first)
    BY <1>3 DEF WriteOutput, StartFile
  <2>3. KeysOf(file'.contents) = first /\ first \subseteq KeysOf(job.rest)
    BY <2>2 DEF KeysOf, Only, FirstKeys
  <2>4. \A j \in first, k \in KeysOf(job.rest) \ first : j < k
    BY <2>1, CutInOrder
  <2> HIDE DEF first
  <2>5. Beside(levels, job.inputs, job.level) /\ JobInOrder /\ SideBySide(levels)
    BY <1>1 DEF OrderInv
  <2>6. JobInOrder'
    BY <1>1, <2>2, <2>3, <2>4, <2>5 DEF JobInOrder
  <2> QED
    BY <1>1, <2>5, <2>6 DEF OrderInv
<1> QED
  BY <1>2, <1>3

\* The file that is kept lies after the earlier outputs and before the rest.
LEMMA KeepOutputOrder ==
    ASSUME IndInv, OrderInv, KeepOutput
    PROVE  OrderInv'
<1>1. /\ pc \notin Recovering \cup {"swapped"} /\ pc' = "merge" /\ levels' = levels
      /\ BeingWritten /\ ~BeingWritten' /\ job # NoJob
      /\ SideBySide(levels) /\ Beside(levels, job.inputs, job.level) /\ JobInOrder
  BY DEF KeepOutput, BeingWritten, OrderInv, Recovering
<1>2. /\ job'.inputs = job.inputs /\ job'.level = job.level
      /\ job'.outputs = job.outputs \cup {file}
      /\ job'.rest = Only(job.rest, KeysOf(job.rest) \ KeysOf(file.contents))
  BY DEF KeepOutput, IndInv, TypeOK, Job
<1>3. KeysOf(job'.rest) = KeysOf(job.rest) \ KeysOf(file.contents)
  BY <1>2 DEF KeysOf, Only
<1>4. /\ file.level = job.level
      /\ KeysOf(file.contents) \subseteq KeysOf(job.rest)
      /\ \A j \in KeysOf(file.contents), k \in KeysOf(job'.rest) : j < k
  BY <1>1, <1>3 DEF JobInOrder
<1>5. \A o \in job.outputs : Apart(o, file) /\ Apart(file, o)
  BY <1>1, <1>4 DEF JobInOrder, Apart, Below
<1>6. \A o \in job'.outputs :
        /\ o.level = job.level
        /\ \A k \in KeysOf(o.contents) : Held(job.inputs, k)
        /\ \A k \in KeysOf(o.contents), j \in KeysOf(job'.rest) : k < j
  BY <1>1, <1>2, <1>3, <1>4 DEF JobInOrder
<1>7. \A o, p \in job'.outputs : o # p => Apart(o, p)
  BY <1>1, <1>2, <1>5 DEF JobInOrder
<1>8. \A k \in KeysOf(job'.rest) : Held(job.inputs, k)
  BY <1>1, <1>3 DEF JobInOrder
<1>9. JobInOrder'
  BY <1>1, <1>2, <1>6, <1>7, <1>8 DEF JobInOrder
<1> QED
  BY <1>1, <1>2, <1>9 DEF OrderInv, Recovering

\* The outputs take the place of the inputs.
LEMMA SwapFilesOrder ==
    ASSUME HandleParts, OrderInv, SwapFiles
    PROVE  OrderInv'
<1> DEFINE kept == {f \in levels : f.id \notin Ids(job.inputs)}
<1>1. /\ levels' = kept \cup job.outputs /\ pc = "deleted" /\ pc' = "swapped"
      /\ job # NoJob
  BY DEF HandleParts, JobStages, Marking, SwapFiles
<1>2. SideBySide(levels) /\ Beside(levels, job.inputs, job.level) /\ JobInOrder
  BY <1>1 DEF OrderInv, Recovering
<1>3. kept \subseteq levels \ job.inputs
  BY DEF Ids
<1> HIDE DEF kept
<1>4. SideBySide(kept \cup job.outputs)
  BY <1>2, <1>3, SwapSideBySide DEF JobInOrder
<1> QED
  BY <1>1, <1>4 DEF OrderInv, Recovering

\* Recovery takes files away, and loads those that are left.
LEMMA RecoveryOrder ==
    ASSUME IndInv, OrderInv,
           \/ Open \/ RemoveTmp \/ TmpRemoved \/ FinishDelete \/ FinishMerge
           \/ LoadTables \/ ReplayWal
    PROVE  OrderInv'
<1>1. /\ pc \in Recovering /\ job = NoJob /\ job' = NoJob /\ SideBySide(disk)
      /\ disk' \subseteq disk
  BY DEF IndInv, RecoveryStages, OrderInv, Recovering, Open, RemoveTmp,
         TmpRemoved, FinishDelete, FinishMerge, LoadTables, ReplayWal
<1>2. SideBySide(disk')
  BY <1>1 DEF SideBySide
<1>3. pc' \notin Recovering => levels' = disk
  BY DEF IndInv, RecoveryStages, Recovering, Open, RemoveTmp, TmpRemoved,
         FinishDelete, FinishMerge, LoadTables, ReplayWal
<1> QED
  BY <1>1, <1>2, <1>3 DEF OrderInv

\* Between two operations the directory has the files of the handle.
LEMMA CloseOrder ==
    ASSUME HandleParts, OrderInv, Close
    PROVE  OrderInv'
<1>1. disk' = levels /\ SideBySide(levels)
  BY Nothing DEF HandleParts, JobStages, DirectoryMatches, OrderInv, Recovering,
                 Close, LoseHandle
<1> QED
  BY <1>1 DEF OrderInv, Close, LoseHandle, Recovering

\* Every step but an error or a crash keeps the order.
LEMMA StepOrder ==
    ASSUME IndInv, HandleInv, OrderInv, Call \/ Continue \/ Close \/ Open
    PROVE  OrderInv'
<1>1. CASE Call
  <2>1. /\ pc = "idle" /\ HandleParts /\ job = NoJob /\ levels' = levels
        /\ pc' \notin Recovering
    BY <1>1 DEF Call, Set, Delete, BeginWrite, Flush, Compact, CompactFull,
                StartFile, StartJob, HandleInv, HandleParts, JobStages, Recovering
  <2>2. CASE CompactFull
    BY <2>1, <2>2, CompactFullOrder
  <2>3. CASE ~CompactFull
    <3>1. job' = NoJob
      BY <1>1, <2>1, <2>3 DEF Call, Set, Delete, BeginWrite, Flush, Compact
    <3> QED
      BY <2>1, <3>1, OrderKept DEF Recovering
  <2> QED
    BY <2>2, <2>3
<1>2. ASSUME AppendRecord \/ InsertMemtable \/ AfterInsert \/ TruncateWal
             \/ AfterFlush \/ Return \/ ClearMarker
      PROVE  OrderInv'
  <2>1. HandleParts /\ pc \notin Recovering
    BY <1>2 DEF AppendRecord, InsertMemtable, AfterInsert, TruncateWal,
                AfterFlush, Return, ClearMarker, HandleInv, Recovering
  <2>2. /\ levels' = levels /\ job' = NoJob /\ pc' \notin Recovering
    BY <1>2, <2>1 DEF AppendRecord, InsertMemtable, AfterInsert, StartFile,
                TruncateWal, AfterFlush, Return, ClearMarker, HandleParts,
                JobStages, Recovering
  <2> QED
    BY <2>1, <2>2, OrderKept
<1>3. ASSUME WriteTmp \/ Rename \/ WriteMarkerTmp \/ RenameMarker
             \/ DeleteInput \/ InputsDeleted
      PROVE  OrderInv'
  <2>1. /\ pc \notin Recovering \cup {"swapped"} /\ pc' \notin Recovering
        /\ levels' = levels
        /\ BeingWritten' => BeingWritten /\ file' = file
    BY <1>3 DEF WriteTmp, Rename, WriteMarkerTmp, RenameMarker, DeleteInput,
                InputsDeleted, Recovering, BeingWritten
  <2>2. /\ job'.inputs = job.inputs /\ job'.level = job.level
        /\ job'.outputs = job.outputs /\ job'.rest = job.rest
    BY <1>3 DEF WriteTmp, Rename, WriteMarkerTmp, RenameMarker, DeleteInput,
                InputsDeleted, IndInv, TypeOK, Job
  <2>3. job = NoJob => job' = NoJob
    BY <1>3 DEF WriteTmp, Rename, WriteMarkerTmp, RenameMarker, DeleteInput,
                InputsDeleted, NoJob
  <2> QED
    BY <2>1, <2>2, <2>3, OrderKept
<1>4. ASSUME InstallFlushed \/ PickJob \/ WriteOutput \/ KeepOutput \/ SwapFiles
      PROVE  OrderInv'
  <2>1. HandleParts
    BY <1>4 DEF InstallFlushed, PickJob, WriteOutput, KeepOutput, SwapFiles,
                HandleInv, Recovering
  <2> QED
    BY <1>4, <2>1, InstallFlushedOrder, PickJobOrder, WriteOutputOrder,
       KeepOutputOrder, SwapFilesOrder
<1>5. CASE Continue
  BY <1>2, <1>3, <1>4, <1>5, RecoveryOrder DEF Continue
<1>6. CASE Close
  BY <1>6, CloseOrder DEF Close, HandleInv, Recovering
<1> QED
  BY <1>1, <1>5, <1>6, RecoveryOrder

\* The invariant of a directory that has seen no fault.
FreshInv ==
    /\ IndInv
    /\ InjectorOK
    /\ ~tripped => DirInv /\ HandleInv /\ OrderInv /\ ~Fired

\* A new handle's fault has not fired.
LEMMA NotYetFired ==
    ASSUME hits = 0, fault \in Faults \cup {NoFault}
    PROVE  InjectorOK /\ ~Fired
<1>1. fault.at \in Nat
  BY FaultAssumption DEF NoFault
<1> QED
  BY <1>1, DueAt DEF InjectorOK, Fired

\* Whatever the step is, the fault goes on unfired, or it is the step that
\* fires it.
LEMMA FaultsCounted ==
    ASSUME InjectorOK, [ObservedNext]_allVars
    PROVE  InjectorOK' /\ (~tripped' => ~tripped /\ (~Fired => ~Fired'))
<1>1. CASE UNCHANGED <<fault, hits, tripped>>
  BY <1>1 DEF InjectorOK, Fired
<1>2. CASE Step
  BY <1>2, QuietHit DEF Step
<1>3. CASE FireError
  BY <1>3, FiresThenFired DEF FireError
<1>4. CASE FireAbort \/ Drop
  <2>1. hits' = 0 /\ fault' = NoFault /\ (tripped' \/ tripped' = tripped)
    BY <1>4 DEF FireAbort, Drop
  <2> QED
    BY <2>1 DEF InjectorOK, Fired, NoFault
<1> QED
  BY <1>1, <1>2, <1>3, <1>4 DEF ObservedNext, Request, Reopen, observations, allVars

\* All steps.
LEMMA NextFresh ==
    ASSUME ~RemoveMayFail, FreshInv, [ObservedNext]_allVars
    PROVE  FreshInv'
<1>1. IndInv' /\ InjectorOK'
  BY ObservedStep, NextIndInv, FaultsCounted DEF FreshInv
<1>2. ASSUME ~tripped'
      PROVE  DirInv' /\ HandleInv' /\ OrderInv' /\ ~Fired'
  <2>1. DirInv /\ HandleInv /\ OrderInv /\ ~Fired'
    BY <1>2, FaultsCounted DEF FreshInv
  <2>2. CASE UNCHANGED allVars
    <3>1. UNCHANGED vars
      BY <2>2 DEF allVars
    <3>2. DirInv' /\ HandleInv'
      BY <2>1, <3>1, StutterDir, StutterDurable DEF FreshInv
    <3>3. OrderInv'
      BY <2>1, <3>1 DEF OrderInv, JobInOrder, BeingWritten, vars
    <3> QED
      BY <2>1, <3>2, <3>3
  <2>3. CASE ~UNCHANGED allVars
    <3>1. Call \/ Continue \/ Close \/ Open
      BY <1>2, <2>3 DEF ObservedNext, Request, Step, FireError, FireAbort, Drop,
                        Reopen
    <3>2. DirInv' /\ HandleInv'
      BY <2>1, <3>1, StepDurable DEF FreshInv
    <3>3. OrderInv'
      BY <2>1, <3>1, StepOrder DEF FreshInv
    <3> QED
      BY <2>1, <3>2, <3>3
  <2> QED
    BY <2>2, <2>3
<1> QED
  BY <1>1, <1>2 DEF FreshInv

\* A new directory has no files.
LEMMA FreshInvHolds ==
    ASSUME ~RemoveMayFail
    PROVE  ObservedSpec => []FreshInv
<1>1. ObservedInit => FreshInv
  <2> SUFFICES ASSUME ObservedInit PROVE FreshInv
    OBVIOUS
  <2>1. IndInv /\ DirInv /\ HandleInv
    BY InitIndInv, InitDurable DEF ObservedInit
  <2>2. OrderInv
    BY DEF ObservedInit, Init, OrderInv, SideBySide, Recovering
  <2>3. InjectorOK /\ ~Fired
    BY NotYetFired DEF ObservedInit
  <2> QED
    BY <2>1, <2>2, <2>3 DEF FreshInv
<1>2. FreshInv /\ [ObservedNext]_allVars => FreshInv'
  BY NextFresh
<1> QED
  BY <1>1, <1>2, PTL DEF ObservedSpec

\* Files that lie side by side have disjoint key ranges.
LEMMA SideBySideIsDisjoint ==
    ASSUME IndInv, SideBySide(levels)
    PROVE  LevelsDisjoint
<1>1. \A f \in levels : f \in Table /\ KeysOf(f.contents) # {}
  BY DEF IndInv, TypeOK
<1>2. \A f, g \in levels : Below(f, g) <=> Largest(f) < Smallest(g)
  BY <1>1, BelowByRange
<1> QED
  BY <1>2 DEF SideBySide, Apart, LevelsDisjoint

\* As long as no fault has fired in the life of a directory, the key ranges
\* of the files of a level below 0 are disjoint, whatever the options, the
\* number of operations and the number of reopens (compaction.rs).
THEOREM LevelsStayDisjoint ==
    ASSUME ~RemoveMayFail
    PROVE  ObservedSpec => []DisjointUnlessTripped
<1>1. ASSUME FreshInv, ~tripped PROVE LevelsDisjoint
  <2>1. CASE pc \notin Recovering
    BY <1>1, <2>1, SideBySideIsDisjoint DEF FreshInv, OrderInv
  <2>2. CASE pc \in Recovering
    <3>1. SideBySide(levels)
      BY <1>1, <2>2 DEF FreshInv, OrderInv, IndInv, RecoveryStages, SideBySide
    <3> QED
      BY <1>1, <3>1, SideBySideIsDisjoint DEF FreshInv
  <2> QED
    BY <2>1, <2>2
<1>2. FreshInv => DisjointUnlessTripped
  BY <1>1 DEF DisjointUnlessTripped
<1> QED
  BY <1>2, FreshInvHolds, PTL

-----------------------------------------------------------------------------
(***************************************************************************)
(* The statistics account for the files.  In the middle of an operation    *)
(* they lag behind: an id is taken before its file is listed, and a job    *)
(* counts after its files have been swapped.  An operation that fails      *)
(* leaves them as far behind as they are then: the bytes they are apart by,*)
(* and the ids of the files it did not list, stay what they are until the  *)
(* handle is dropped.                                                      *)
(***************************************************************************)

\* The number of entries of contents is a number.
LEMMA EntriesCount ==
    ASSUME NEW contents
    PROVE  IsFiniteSet(KeysOf(contents)) /\ Cardinality(KeysOf(contents)) \in Nat
BY KeyAssumption, FS_Subset, FS_CardinalityType DEF KeysOf

\* The total is a sum of the sizes, over whatever set they are given.
LEMMA TotalSizeIs ==
    ASSUME NEW all, NEW files \in SUBSET all, IsFiniteSet(files)
    PROVE  /\ TotalSize(files) = SumFunctionOnSet([f \in all |-> Size(f)], files)
           /\ TotalSize(files) \in Nat
<1> DEFINE F == [f \in files |-> Size(f)]
           G == [f \in all |-> Size(f)]
<1>1. \A f \in files : F[f] \in Nat /\ F[f] \in Int /\ F[f] = G[f]
  BY EntriesCount DEF Size
<1>2. TotalSize(files) = SumFunctionOnSet(F, files)
  BY DEF TotalSize, SumFunction
<1> HIDE DEF F, G
<1>3. SumFunctionOnSet(F, files) = SumFunctionOnSet(G, files)
  BY <1>1, SumOfSet
<1>4. SumFunctionOnSet(F, files) \in Nat
  BY <1>1, SumOfNaturals
<1> QED
  BY <1>2, <1>3, <1>4 DEF G

\* The total of two sets of files that share none.
LEMMA TotalSizeOfUnion ==
    ASSUME NEW A, IsFiniteSet(A), NEW B, IsFiniteSet(B), A \cap B = {}
    PROVE  TotalSize(A \cup B) = TotalSize(A) + TotalSize(B)
<1> DEFINE G == [f \in A \cup B |-> Size(f)]
<1>1. \A f \in A \cup B : G[f] \in Int
  BY EntriesCount DEF Size
<1>2. /\ TotalSize(A) = SumFunctionOnSet(G, A)
      /\ TotalSize(B) = SumFunctionOnSet(G, B)
      /\ TotalSize(A \cup B) = SumFunctionOnSet(G, A \cup B)
  BY TotalSizeIs, FS_Union
<1> HIDE DEF G
<1> QED
  BY <1>1, <1>2, SumOfUnion

\* The total of one file.
LEMMA TotalSizeOfOne ==
    ASSUME NEW f
    PROVE  TotalSize({f}) = Size(f) /\ Size(f) \in Nat
<1> DEFINE G == [g \in {f} |-> Size(g)]
<1>1. \A g \in {f} : G[g] \in Int
  BY EntriesCount DEF Size
<1>2. TotalSize({f}) = SumFunctionOnSet(G, {f}) /\ G[f] = Size(f) /\ Size(f) \in Nat
  BY TotalSizeIs, FS_Singleton, EntriesCount DEF Size
<1> HIDE DEF G
<1>3. SumFunctionOnSet(G, {f}) = G[f] + SumFunctionOnSet(G, {f} \ {f})
  BY <1>1, FS_Singleton, SumOfSet
<1>4. SumFunctionOnSet(G, {f} \ {f}) = 0
  <2>1. {f} \ {f} = {} /\ IsFiniteSet({}) /\ \A g \in {} : G[g] \in Int
    BY FS_EmptySet
  <2> QED
    BY <2>1, SumOfSet
<1> QED
  BY <1>2, <1>3, <1>4

\* The total of no file.
LEMMA TotalSizeOfNone == TotalSize({}) = 0
<1> DEFINE G == [g \in {} |-> Size(g)]
<1>1. TotalSize({}) = SumFunctionOnSet(G, {})
  BY TotalSizeIs, FS_EmptySet
<1>2. IsFiniteSet({}) /\ \A g \in {} : G[g] \in Int
  BY FS_EmptySet
<1> HIDE DEF G
<1> QED
  BY <1>1, <1>2, SumOfSet

\* Level by level or all at once: the bytes are the same.
LEMMA BytesByLevel ==
    ASSUME NEW files, IsFiniteSet(files)
    PROVE  SumFunction([n \in {f.level : f \in files} |->
                          TotalSize({f \in files : f.level = n})])
             = TotalSize(files)
<1> DEFINE N == {f.level : f \in files}
           Those(s) == {f \in files : f.level \in s}
           G == [n \in N |-> TotalSize({f \in files : f.level = n})]
           T == {s \in SUBSET N : SumFunctionOnSet(G, s) = TotalSize(Those(s))}
<1>1. IsFiniteSet(N)
  <2> DEFINE L == [f \in files |-> f.level]
  <2>1. L \in Surjection(files, N)
    BY DEF Surjection
  <2> HIDE DEF L, N
  <2> QED
    BY <2>1, FS_Surjection
<1>2. \A s \in SUBSET N : IsFiniteSet(s) /\ IsFiniteSet(Those(s))
  <2> HIDE DEF N
  <2> QED
    BY <1>1, FS_Subset
<1>3. \A n \in N : G[n] = TotalSize(Those({n})) /\ G[n] \in Int
  <2> SUFFICES ASSUME NEW n \in N PROVE G[n] = TotalSize(Those({n})) /\ G[n] \in Int
    OBVIOUS
  <2>1. {f \in files : f.level = n} = Those({n}) /\ IsFiniteSet(Those({n}))
    BY FS_Subset
  <2>2. TotalSize(Those({n})) \in Nat
    BY <2>1, TotalSizeIs
  <2> QED
    BY <2>1, <2>2
<1>4. \A s \in SUBSET N : \A n \in s : G[n] \in Int
  <2> HIDE DEF G, N
  <2> QED
    BY <1>3
<1>5. {} \in T
  <2>1. Those({}) = {}
    OBVIOUS
  <2>2. SumFunctionOnSet(G, {}) = 0
    <3> HIDE DEF G, N, Those
    <3> QED
      BY <1>2, <1>4, SumOfSet
  <2> QED
    BY <2>1, <2>2, TotalSizeOfNone
<1>6. ASSUME NEW s \in SUBSET N, s # {}, \A n \in s : s \ {n} \in T
      PROVE  s \in T
  <2>1. PICK n \in s : SumFunctionOnSet(G, s) = G[n] + SumFunctionOnSet(G, s \ {n})
    <3> HIDE DEF G, N, Those, T
    <3> QED
      BY <1>2, <1>4, <1>6, SumOfSet
  <2>2. /\ Those(s) = Those({n}) \cup Those(s \ {n})
        /\ Those({n}) \cap Those(s \ {n}) = {}
    OBVIOUS
  <2>3. G[n] = TotalSize(Those({n}))
    <3> HIDE DEF G, N, Those
    <3> QED
      BY <1>3
  <2>4. SumFunctionOnSet(G, s \ {n}) = TotalSize(Those(s \ {n}))
    BY <1>6
  <2>5. s \ {n} \in SUBSET N /\ {n} \in SUBSET N
    OBVIOUS
  <2> HIDE DEF G, N, Those
  <2>6. TotalSize(Those(s)) = TotalSize(Those({n})) + TotalSize(Those(s \ {n}))
    BY <1>2, <2>2, <2>5, TotalSizeOfUnion
  <2> QED
    BY <2>1, <2>3, <2>4, <2>6
<1>7. N \in T
  <2> HIDE DEF T, N
  <2> QED
    BY <1>1, <1>5, <1>6, SetInduction
<1>8. Those(N) = files
  OBVIOUS
<1>9. SumFunction(G) = SumFunctionOnSet(G, N)
  BY DEF SumFunction
<1> QED
  BY <1>7, <1>8, <1>9

\* The greater of two numbers.
LEMMA GreaterOfTwo ==
    ASSUME NEW m \in Nat, NEW n \in Nat
    PROVE  /\ Greatest({m, n}) \in {m, n}
           /\ m <= Greatest({m, n}) /\ n <= Greatest({m, n})
<1>1. \E x \in {m, n} : \A y \in {m, n} : y <= x
  BY m <= n \/ n <= m
<1> QED
  BY <1>1 DEF Greatest

\* Two sets with no element in common.
LEMMA CountOfUnion ==
    ASSUME NEW A, IsFiniteSet(A), NEW B, IsFiniteSet(B), A \cap B = {}
    PROVE  Cardinality(A \cup B) = Cardinality(A) + Cardinality(B)
<1>1. Cardinality(A \cup B) = Cardinality(A) + Cardinality(B) - Cardinality({})
  BY FS_Union
<1>2. Cardinality({}) = 0 /\ Cardinality(A) \in Nat /\ Cardinality(B) \in Nat
  BY FS_EmptySet, FS_CardinalityType
<1> QED
  BY <1>1, <1>2

\* The numbers from 1 to n.
LEMMA FirstNumbers ==
    ASSUME NEW n \in Nat
    PROVE  IsFiniteSet(1 .. n) /\ Cardinality(1 .. n) = n
<1>1. /\ IsFiniteSet(1 .. n)
      /\ Cardinality(1 .. n) = IF 1 > n THEN 0 ELSE n - 1 + 1
  BY FS_Interval
<1> QED
  BY <1>1

\* A sequence of counters adds up to the same when it is extended with zeros,
\* or when the zeros are left out.
LEMMA ZerosDoNotCount ==
    ASSUME NEW S, IsFiniteSet(S), NEW f, \A x \in S : f[x] \in Nat,
           NEW P \in SUBSET S, \A x \in S \ P : f[x] = 0
    PROVE  SumFunctionOnSet(f, S) = SumFunctionOnSet(f, P)
<1>1. /\ IsFiniteSet(P) /\ IsFiniteSet(S \ P)
      /\ P \cap (S \ P) = {} /\ S = P \cup (S \ P)
  BY FS_Subset
<1>2. SumFunctionOnSet(f, S \ P) = 0
  BY <1>1, SumOfZeros
<1>3. PICK R : R = S \ P
  OBVIOUS
<1>4. \A x \in P \cup R : f[x] \in Int
  BY <1>1, <1>3
<1>5. SumFunctionOnSet(f, P \cup R) = SumFunctionOnSet(f, P) + SumFunctionOnSet(f, R)
  BY <1>1, <1>3, <1>4, SumOfUnion
<1>6. SumFunctionOnSet(f, P) \in Int
  BY <1>1, <1>4, SumOfSet
<1> QED
  <2>1. SumFunctionOnSet(f, S) = SumFunctionOnSet(f, P) + 0
    BY <1>1, <1>2, <1>3, <1>5
  <2> QED
    BY <1>6, <2>1

\* The counters of all levels add up to a number.
LEMMA CountsAddUp ==
    ASSUME NEW counts \in Seq(Nat)
    PROVE  SumFunction(counts) \in Nat
<1>1. IsFiniteSet(DOMAIN counts) /\ \A i \in DOMAIN counts : counts[i] \in Nat
  BY FirstNumbers
<1> QED
  BY <1>1, SumOfNaturals DEF SumFunction

\* A job adds one to the count of its level, however long the vector is.
LEMMA OneMoreJob ==
    ASSUME NEW counts \in Seq(Nat), NEW level \in Nat
    PROVE  /\ CountLevel(counts, level) \in Seq(Nat)
           /\ SumFunction(CountLevel(counts, level)) = SumFunction(counts) + 1
<1> DEFINE m == Greatest({Len(counts), level + 1})
           old == [i \in 1 .. m |-> IF i <= Len(counts) THEN counts[i] ELSE 0]
           new == [i \in 1 .. m |->
                     (IF i <= Len(counts) THEN counts[i] ELSE 0)
                        + (IF i = level + 1 THEN 1 ELSE 0)]
           l == level + 1
<1>1. m \in Nat /\ Len(counts) <= m /\ l <= m /\ l \in 1 .. m
  <2>1. Len(counts) \in Nat /\ l \in Nat /\ l >= 1
    OBVIOUS
  <2>2. m \in {Len(counts), l} /\ Len(counts) <= m /\ l <= m
    BY <2>1, GreaterOfTwo
  <2> HIDE DEF m
  <2> QED
    BY <2>1, <2>2
<1>2. CountLevel(counts, level) = new
  BY DEF CountLevel
<1> HIDE DEF m
<1>3. /\ \A i \in 1 .. m : old[i] \in Nat /\ new[i] \in Nat
      /\ \A i \in 1 .. m \ {l} : new[i] = old[i]
      /\ new[l] = old[l] + 1
      /\ \A i \in 1 .. Len(counts) : old[i] = counts[i] /\ counts[i] \in Int
      /\ \A i \in 1 .. m \ 1 .. Len(counts) : old[i] = 0
  BY <1>1
<1>4. new \in Seq(Nat) /\ DOMAIN new = 1 .. m
  BY <1>1, <1>3
<1>5. /\ IsFiniteSet(1 .. m) /\ IsFiniteSet(1 .. m \ {l})
      /\ IsFiniteSet(1 .. Len(counts)) /\ 1 .. Len(counts) \subseteq 1 .. m
  <2>1. Len(counts) \in Nat
    OBVIOUS
  <2>2. IsFiniteSet(1 .. m) /\ IsFiniteSet(1 .. Len(counts))
    BY <1>1, <2>1, FirstNumbers
  <2>3. 1 .. Len(counts) \subseteq 1 .. m
    BY <1>1, <2>1
  <2> QED
    BY <2>2, <2>3, FS_RemoveElement
<1> HIDE DEF old, new, l
<1>6. SumFunctionOnSet(new, 1 .. m) = new[l] + SumFunctionOnSet(new, 1 .. m \ {l})
  <2>1. \A i \in 1 .. m : new[i] \in Int
    BY <1>3
  <2> QED
    BY <1>1, <1>5, <2>1, SumOfSet
<1>7. SumFunctionOnSet(old, 1 .. m) = old[l] + SumFunctionOnSet(old, 1 .. m \ {l})
  <2>1. \A i \in 1 .. m : old[i] \in Int
    BY <1>3
  <2> QED
    BY <1>1, <1>5, <2>1, SumOfSet
<1>8. /\ SumFunctionOnSet(new, 1 .. m \ {l}) = SumFunctionOnSet(old, 1 .. m \ {l})
      /\ SumFunctionOnSet(old, 1 .. m \ {l}) \in Int
  <2>1. \A i \in 1 .. m \ {l} : new[i] \in Int /\ old[i] \in Int /\ new[i] = old[i]
    BY <1>3
  <2> QED
    BY <1>5, <2>1, SumOfSet
<1>9. SumFunctionOnSet(old, 1 .. m) = SumFunctionOnSet(old, 1 .. Len(counts))
  BY <1>3, <1>5, ZerosDoNotCount
<1>10. SumFunctionOnSet(old, 1 .. Len(counts)) = SumFunctionOnSet(counts, 1 .. Len(counts))
  <2>1. \A i \in 1 .. Len(counts) : old[i] \in Int /\ old[i] = counts[i]
    BY <1>3
  <2> QED
    BY <1>5, <2>1, SumOfSet
<1>11. SumFunction(counts) = SumFunctionOnSet(counts, 1 .. Len(counts))
  BY DEF SumFunction
<1>12. SumFunction(new) = SumFunctionOnSet(new, 1 .. m)
  BY <1>4 DEF SumFunction
<1>13. old[l] \in Int
  BY <1>1, <1>3
<1> QED
  BY <1>2, <1>3, <1>4, <1>6, <1>7, <1>8, <1>9, <1>10, <1>11, <1>12, <1>13

\* The levels no job was counted for may be left out.
LEMMA CountsShown ==
    ASSUME NEW counts \in Seq(Nat)
    PROVE  SumFunction([i \in {n \in DOMAIN counts : counts[n] > 0} |-> counts[i]])
             = SumFunction(counts)
<1> DEFINE D == DOMAIN counts
           P == {n \in D : counts[n] > 0}
           F == [i \in P |-> counts[i]]
<1>1. IsFiniteSet(D) /\ IsFiniteSet(P) /\ P \in SUBSET D
  BY FirstNumbers, FS_Subset
<1>2. (\A i \in D : counts[i] \in Nat) /\ (\A i \in D \ P : counts[i] = 0)
  OBVIOUS
<1>3. \A i \in P : F[i] = counts[i] /\ F[i] \in Int
  BY <1>2
<1>4. SumFunction(F) = SumFunctionOnSet(F, P) /\ SumFunction(counts) = SumFunctionOnSet(counts, D)
  BY DEF SumFunction
<1> HIDE DEF F, P, D
<1>5. SumFunctionOnSet(F, P) = SumFunctionOnSet(counts, P)
  BY <1>1, <1>3, SumOfSet
<1>6. SumFunctionOnSet(counts, D) = SumFunctionOnSet(counts, P)
  BY <1>1, <1>2, ZerosDoNotCount
<1>7. SumFunction(F) = SumFunction(counts)
  BY <1>4, <1>5, <1>6
<1> QED
  BY <1>7 DEF F, P, D

\* A write adds at most one key to the memtable.
LEMMA OneMoreEntry ==
    ASSUME NEW contents, NEW k \in Key, NEW entry
    PROVE  Cardinality(KeysOf([contents EXCEPT ![k] = entry]))
             <= Cardinality(KeysOf(contents)) + 1
<1> DEFINE after == [contents EXCEPT ![k] = entry]
<1>1. IsFiniteSet(KeysOf(contents)) /\ Cardinality(KeysOf(contents)) \in Nat
  BY EntriesCount
<1>2. IsFiniteSet(KeysOf(after)) /\ Cardinality(KeysOf(after)) \in Nat
  BY EntriesCount
<1>3. KeysOf(after) \subseteq KeysOf(contents) \cup {k}
  BY DEF KeysOf
<1> HIDE DEF after
<1>4. /\ IsFiniteSet(KeysOf(contents) \cup {k})
      /\ Cardinality(KeysOf(contents) \cup {k}) <= Cardinality(KeysOf(contents)) + 1
  BY <1>1, FS_AddElement
<1>5. /\ Cardinality(KeysOf(contents) \cup {k}) \in Nat
      /\ Cardinality(KeysOf(after)) <= Cardinality(KeysOf(contents) \cup {k})
  BY <1>3, <1>4, FS_Subset, FS_CardinalityType
<1> QED
  BY <1>1, <1>2, <1>4, <1>5 DEF after

\* Replaying a log gives at most an entry for each record.
LEMMA ReplayEntries ==
    ASSUME NEW log \in Seq(Record)
    PROVE  Cardinality(KeysOf(Replay(log))) <= Len(log)
<1> DEFINE K == {log[i].key : i \in 1 .. Len(log)}
           F == [i \in 1 .. Len(log) |-> log[i].key]
<1>1. F \in Surjection(1 .. Len(log), K)
  BY DEF Surjection
<1>2. KeysOf(Replay(log)) \subseteq K
  BY DEF KeysOf, Replay
<1>3. Len(log) \in Nat /\ IsFiniteSet(1 .. Len(log)) /\ Cardinality(1 .. Len(log)) = Len(log)
  BY FirstNumbers
<1> HIDE DEF F, K
<1>4. IsFiniteSet(K) /\ Cardinality(K) <= Len(log)
  BY <1>1, <1>3, FS_Surjection
<1>5. Cardinality(KeysOf(Replay(log))) <= Cardinality(K)
  BY <1>2, <1>4, FS_Subset
<1> QED
  BY <1>3, <1>4, <1>5, EntriesCount, FS_CardinalityType

Metrics ==
    [compactions : Nat, full_compactions : Nat, compactions_by_level : Seq(Nat),
     bytes_read : Nat, bytes_written : Nat, input_files : Nat,
     output_files : Nat, bytes_flushed : Nat]

\* An id has been taken for a file that neither the handle nor the job lists.
FileBegun == pc \in {"create", "rename", "renamed", "truncated"}

\* The counters, with the job whose files have been swapped.
Counters == IF pc = "swapped" THEN RecordJob ELSE metrics

\* The bytes of the levels are apart from the counters by bytes.
BytesAccounted(bytes) ==
    TotalSize(levels) + bytes
      = TotalSize(loaded) + Counters.bytes_flushed
          - Counters.bytes_read + Counters.bytes_written

\* As many ids as ids went to files that were never listed.
FilesAccounted(ids) ==
    Cardinality(levels \cup job.outputs) + (IF FileBegun THEN 1 ELSE 0) + ids
      = Cardinality(loaded) + (nextId - IdAfter(loaded)) - Counters.input_files

JobsAccounted ==
    metrics.compactions
      = metrics.full_compactions + SumFunction(metrics.compactions_by_level)

Ledger(bytes, ids) ==
    BytesAccounted(bytes) /\ FilesAccounted(ids) /\ JobsAccounted

\* A record is logged before it is inserted, and a flush empties the log
\* before the memtable.
EntriesLogged ==
    pc \notin Recovering \cup {"truncated"} =>
        Cardinality(KeysOf(memtable)) + (IF pc = "insert" THEN 1 ELSE 0) <= Len(wal)

\* When there is a job, and how its files and those of the handle lie.
JobListed ==
    /\ pc \in {"idle", "append", "insert", "inserted", "truncated",
               "installed", "pick", "done"} \cup Recovering => job = NoJob
    /\ pc \in {"merge", "mark", "marking", "delete", "deleted", "swapped"} =>
            job # NoJob
    /\ job # NoJob => job.level >= 1
    /\ pc # "swapped" => job.inputs \subseteq levels /\ job.outputs \cap levels = {}
    /\ pc = "swapped" => job.outputs \subseteq levels
    /\ pc \in {"renamed", "truncated"} => file \notin levels \cup job.outputs

\* What the statistics are made of.
StatsKnown ==
    /\ metrics \in Metrics
    /\ loaded \in SUBSET Table /\ IsFiniteSet(loaded)
    /\ pc \in Recovering \ {"replay"} => metrics = NoMetrics
    /\ JobListed

\* The inductive invariant.
StatsInv ==
    /\ IndInv
    /\ InjectorOK
    /\ StatsKnown
    /\ \E b \in Int, i \in Nat :
           /\ Ledger(b, i)
           /\ ~Fired => i = 0
           /\ ~FailedAt(BytesApart) => b = 0
    /\ ~FailedAt(EntriesApart) => EntriesLogged

\* The outcome of a job, and of a flush, keeps the counters numbers.
LEMMA RecordType ==
    ASSUME IndInv, StatsKnown
    PROVE  /\ pc = "truncated" => Flushed \in Metrics
           /\ pc = "swapped" => RecordJob \in Metrics
<1>1. /\ TotalSize(job.inputs) \in Nat /\ TotalSize(job.outputs) \in Nat
      /\ Cardinality(job.inputs) \in Nat /\ Cardinality(job.outputs) \in Nat
  BY TotalSizeIs, FS_CardinalityType DEF IndInv, TablesFinite
<1>2. Size(file) \in Nat
  BY TotalSizeOfOne
<1>3. Flushed \in Metrics
  <2>1. metrics.bytes_flushed \in Nat
    BY DEF StatsKnown, Metrics
  <2>2. PICK bytes \in Nat : bytes = metrics.bytes_flushed + Size(file)
    BY <1>2, <2>1
  <2>3. Flushed = [metrics EXCEPT !.bytes_flushed = bytes]
    BY <2>2 DEF Flushed
  <2> QED
    BY <2>3 DEF StatsKnown, Metrics
<1>4. ASSUME pc = "swapped" PROVE RecordJob \in Metrics
  <2>1. job.level - 1 \in Nat
    BY <1>4 DEF IndInv, TypeOK, Job, StatsKnown, JobListed
  <2>2. metrics.compactions_by_level \in Seq(Nat)
    BY DEF StatsKnown, Metrics
  <2>3. PICK counts \in Seq(Nat) :
            counts = CountLevel(metrics.compactions_by_level, job.level - 1)
    BY <2>1, <2>2, OneMoreJob
  <2>4. /\ metrics.compactions \in Nat /\ metrics.full_compactions \in Nat
        /\ metrics.bytes_read \in Nat /\ metrics.bytes_written \in Nat
        /\ metrics.input_files \in Nat /\ metrics.output_files \in Nat
    BY DEF StatsKnown, Metrics
  <2>5. /\ metrics.compactions + 1 \in Nat /\ metrics.full_compactions + 1 \in Nat
        /\ metrics.bytes_read + TotalSize(job.inputs) \in Nat
        /\ metrics.bytes_written + TotalSize(job.outputs) \in Nat
        /\ metrics.input_files + Cardinality(job.inputs) \in Nat
        /\ metrics.output_files + Cardinality(job.outputs) \in Nat
    <3>1. \A m, n \in Nat : m + n \in Nat
      OBVIOUS
    <3>2. 1 \in Nat
      OBVIOUS
    <3> QED
      BY <1>1, <2>4, <3>1, <3>2, Zenon
  <2>6. PICK byLevel \in Seq(Nat) :
            byLevel = IF op.kind = "compact_full"
                      THEN metrics.compactions_by_level ELSE counts
    BY <2>2
  <2>7. RecordJob =
          [metrics EXCEPT
            !.compactions = metrics.compactions + 1,
            !.bytes_read = metrics.bytes_read + TotalSize(job.inputs),
            !.bytes_written = metrics.bytes_written + TotalSize(job.outputs),
            !.input_files = metrics.input_files + Cardinality(job.inputs),
            !.output_files = metrics.output_files + Cardinality(job.outputs),
            !.full_compactions = IF op.kind = "compact_full"
                                 THEN metrics.full_compactions + 1
                                 ELSE metrics.full_compactions,
            !.compactions_by_level = byLevel]
    BY <2>3, <2>6 DEF RecordJob
  <2> QED
    BY <2>4, <2>5, <2>7 DEF StatsKnown, Metrics
<1> QED
  BY <1>3, <1>4

\* What the new counters are.
LEMMA RecordedJob ==
    ASSUME StatsKnown
    PROVE  /\ RecordJob.compactions = metrics.compactions + 1
           /\ RecordJob.bytes_read = metrics.bytes_read + TotalSize(job.inputs)
           /\ RecordJob.bytes_written = metrics.bytes_written + TotalSize(job.outputs)
           /\ RecordJob.input_files = metrics.input_files + Cardinality(job.inputs)
           /\ RecordJob.bytes_flushed = metrics.bytes_flushed
           /\ op.kind = "compact_full" =>
                /\ RecordJob.full_compactions = metrics.full_compactions + 1
                /\ RecordJob.compactions_by_level = metrics.compactions_by_level
           /\ op.kind # "compact_full" =>
                /\ RecordJob.full_compactions = metrics.full_compactions
                /\ RecordJob.compactions_by_level
                     = CountLevel(metrics.compactions_by_level, job.level - 1)
BY DEF StatsKnown, Metrics, RecordJob

\* Steps that give out no id and list no file.
LEMMA LedgerKept ==
    ASSUME NEW b \in Int, NEW i \in Nat, Ledger(b, i),
           pc # "swapped", pc' # "swapped", metrics' = metrics,
           UNCHANGED <<levels, nextId, loaded>>, job'.outputs = job.outputs,
           FileBegun' <=> FileBegun
    PROVE  Ledger(b, i)'
BY DEF Ledger, BytesAccounted, FilesAccounted, JobsAccounted, Counters

\* The id a new file takes is counted before the file is.
LEMMA StartFileLedger ==
    ASSUME IndInv, StatsKnown, NEW b \in Int, NEW i \in Nat, Ledger(b, i),
           pc # "swapped", ~FileBegun,
           NEW level, NEW contents, StartFile(level, contents),
           metrics' = metrics, UNCHANGED <<levels, job, loaded>>
    PROVE  Ledger(b, i)'
<1>1. BytesAccounted(b)' /\ JobsAccounted'
  BY DEF Ledger, BytesAccounted, JobsAccounted, Counters, StartFile
<1>2. FilesAccounted(i)'
  <2>1. /\ Cardinality(levels \cup job.outputs) \in Nat /\ nextId \in Nat
        /\ IdAfter(loaded) \in Nat /\ Cardinality(loaded) \in Nat
        /\ metrics.input_files \in Nat
    BY IdAfterType, FS_Union, FS_CardinalityType
       DEF IndInv, TablesFinite, TypeOK, StatsKnown, Metrics
  <2>2. nextId' = nextId + 1 /\ FileBegun' /\ Counters' = metrics /\ Counters = metrics
    BY DEF StartFile, FileBegun, Counters
  <2> QED
    BY <2>1, <2>2 DEF Ledger, FilesAccounted
<1> QED
  BY <1>1, <1>2 DEF Ledger

\* A flushed file is listed, and its bytes counted.
LEMMA InstallFlushedLedger ==
    ASSUME IndInv, StatsKnown, NEW b \in Int, NEW i \in Nat, Ledger(b, i), InstallFlushed, metrics' = Flushed,
           loaded' = loaded
    PROVE  Ledger(b, i)'
<1>1. /\ pc = "truncated" /\ levels' = levels \cup {file} /\ job = NoJob
      /\ job' = NoJob /\ nextId' = nextId /\ file \notin levels
      /\ FileBegun /\ ~FileBegun' /\ Counters = metrics /\ Counters' = Flushed
  BY DEF InstallFlushed, StatsKnown, JobListed, FileBegun, Counters
<1>2. IsFiniteSet(levels) /\ job.outputs = {} /\ job'.outputs = {}
  BY <1>1 DEF IndInv, TablesFinite, NoJob
<1>3. /\ Flushed.bytes_flushed = metrics.bytes_flushed + Size(file)
      /\ Flushed.bytes_read = metrics.bytes_read
      /\ Flushed.bytes_written = metrics.bytes_written
      /\ Flushed.input_files = metrics.input_files
      /\ Flushed.compactions = metrics.compactions
      /\ Flushed.full_compactions = metrics.full_compactions
      /\ Flushed.compactions_by_level = metrics.compactions_by_level
  BY DEF StatsKnown, Metrics, Flushed
<1>4. BytesAccounted(b)'
  <2>1. /\ TotalSize(levels \cup {file}) = TotalSize(levels) + TotalSize({file})
        /\ TotalSize({file}) = Size(file) /\ Size(file) \in Nat
    <3>1. IsFiniteSet({file}) /\ levels \cap {file} = {}
      BY <1>1, FS_Singleton
    <3> QED
      BY <1>2, <3>1, TotalSizeOfUnion, TotalSizeOfOne
  <2>2. TotalSize(levels) \in Nat /\ TotalSize(loaded) \in Nat
    BY <1>2, TotalSizeIs DEF StatsKnown
  <2>3. /\ metrics.bytes_flushed \in Nat /\ metrics.bytes_read \in Nat
        /\ metrics.bytes_written \in Nat
    BY DEF StatsKnown, Metrics
  <2>4. TotalSize(levels) + b = TotalSize(loaded) + metrics.bytes_flushed
                                  - metrics.bytes_read + metrics.bytes_written
    BY <1>1 DEF Ledger, BytesAccounted
  <2>5. TotalSize(levels') = TotalSize(levels) + Size(file)
    BY <1>1, <2>1
  <2>6. TotalSize(loaded') = TotalSize(loaded)
    OBVIOUS
  <2> QED
    BY <1>1, <1>3, <2>1, <2>2, <2>3, <2>4, <2>5, <2>6 DEF BytesAccounted
<1>5. FilesAccounted(i)'
  <2>1. Cardinality(levels \cup {file}) = Cardinality(levels) + 1
    BY <1>1, <1>2, FS_AddElement
  <2>2. Cardinality(levels) \in Nat
    BY <1>2, FS_CardinalityType
  <2>5. levels \cup job.outputs = levels
    BY <1>2
  <2>3. Cardinality(levels) + 1 + i
          = Cardinality(loaded) + (nextId - IdAfter(loaded)) - metrics.input_files
    BY <1>1, <2>5 DEF Ledger, FilesAccounted
  <2>4. levels' \cup job'.outputs = levels \cup {file}
    BY <1>1, <1>2
  <2>6. Counters'.input_files = metrics.input_files
    BY <1>1, <1>3
  <2>7. Cardinality(levels \cup {file}) + 0 + i
          = Cardinality(loaded) + (nextId - IdAfter(loaded)) - metrics.input_files
    BY <2>1, <2>2, <2>3
  <2>8. IdAfter(loaded') = IdAfter(loaded) /\ Cardinality(loaded') = Cardinality(loaded)
    OBVIOUS
  <2> QED
    BY <1>1, <2>4, <2>6, <2>7, <2>8 DEF FilesAccounted
<1>6. JobsAccounted'
  BY <1>1, <1>3 DEF Ledger, JobsAccounted
<1> QED
  BY <1>4, <1>5, <1>6 DEF Ledger

\* An output that is in place is one of the job's files.
LEMMA KeepOutputLedger ==
    ASSUME IndInv, StatsKnown, NEW b \in Int, NEW i \in Nat, Ledger(b, i), KeepOutput, metrics' = metrics,
           loaded' = loaded
    PROVE  Ledger(b, i)'
<1>1. /\ pc = "renamed" /\ pc' = "merge" /\ UNCHANGED <<levels, nextId>>
      /\ job'.outputs = job.outputs \cup {file}
      /\ file \notin levels \cup job.outputs
      /\ FileBegun /\ ~FileBegun' /\ Counters = metrics /\ Counters' = metrics
  BY DEF KeepOutput, StatsKnown, JobListed, FileBegun, Counters, IndInv, TypeOK, Job
<1>2. BytesAccounted(b)' /\ JobsAccounted'
  BY <1>1 DEF Ledger, BytesAccounted, JobsAccounted
<1>3. FilesAccounted(i)'
  <2>1. IsFiniteSet(levels \cup job.outputs)
    BY FS_Union DEF IndInv, TablesFinite
  <2>2. Cardinality((levels \cup job.outputs) \cup {file})
          = Cardinality(levels \cup job.outputs) + 1
    BY <1>1, <2>1, FS_AddElement
  <2>3. Cardinality(levels \cup job.outputs) \in Nat
    BY <2>1, FS_CardinalityType
  <2>4. levels' \cup job'.outputs = (levels \cup job.outputs) \cup {file}
    BY <1>1
  <2>5. Cardinality(levels \cup job.outputs) + 1 + i
          = Cardinality(loaded) + (nextId - IdAfter(loaded)) - metrics.input_files
    BY <1>1 DEF Ledger, FilesAccounted
  <2>6. Cardinality((levels \cup job.outputs) \cup {file}) + 0 + i
          = Cardinality(loaded) + (nextId - IdAfter(loaded)) - metrics.input_files
    BY <2>2, <2>3, <2>5
  <2>7. IdAfter(loaded') = IdAfter(loaded) /\ Cardinality(loaded') = Cardinality(loaded)
    OBVIOUS
  <2> QED
    BY <1>1, <2>4, <2>6, <2>7 DEF FilesAccounted
<1> QED
  BY <1>2, <1>3 DEF Ledger

\* The files of the outputs take the place of those of the inputs: the job
\* that is not recorded yet makes up for both.
LEMMA SwapFilesLedger ==
    ASSUME IndInv, StatsKnown, NEW b \in Int, NEW i \in Nat, Ledger(b, i), SwapFiles, metrics' = metrics,
           loaded' = loaded
    PROVE  Ledger(b, i)'
<1> DEFINE kept == levels \ job.inputs
<1>1. /\ pc = "deleted" /\ pc' = "swapped" /\ UNCHANGED <<nextId, job, op>>
      /\ job.inputs \subseteq levels /\ job.outputs \cap levels = {}
      /\ job # NoJob /\ job.level >= 1
      /\ ~FileBegun /\ ~FileBegun' /\ Counters = metrics
  BY DEF SwapFiles, StatsKnown, JobListed, FileBegun, Counters
<1>2. {f \in levels : f.id \notin Ids(job.inputs)} = kept
  BY <1>1 DEF IndInv, IdsIncrease, UniqueIds, Tables, Ids
<1>3. levels' = kept \cup job.outputs /\ levels' \cup job'.outputs = kept \cup job.outputs
  BY <1>1, <1>2 DEF SwapFiles
<1>4. Counters' = RecordJob
  BY <1>1 DEF Counters, RecordJob
<1>5. /\ levels = kept \cup job.inputs /\ kept \cap job.inputs = {}
      /\ kept \cap job.outputs = {}
  BY <1>1
<1>6. /\ IsFiniteSet(levels) /\ IsFiniteSet(kept)
      /\ IsFiniteSet(job.inputs) /\ IsFiniteSet(job.outputs)
  BY FS_Difference DEF IndInv, TablesFinite
<1> HIDE DEF kept
<1>7. BytesAccounted(b)'
  <2>1. /\ TotalSize(kept \cup job.inputs) = TotalSize(kept) + TotalSize(job.inputs)
        /\ TotalSize(kept \cup job.outputs) = TotalSize(kept) + TotalSize(job.outputs)
    BY <1>5, <1>6, TotalSizeOfUnion
  <2>2. /\ TotalSize(kept) \in Nat /\ TotalSize(job.inputs) \in Nat
        /\ TotalSize(job.outputs) \in Nat /\ TotalSize(loaded) \in Nat
    BY <1>6, TotalSizeIs DEF StatsKnown
  <2>3. /\ metrics.bytes_flushed \in Nat /\ metrics.bytes_read \in Nat
        /\ metrics.bytes_written \in Nat
    BY DEF StatsKnown, Metrics
  <2>4. TotalSize(kept) + TotalSize(job.inputs) + b
          = TotalSize(loaded) + metrics.bytes_flushed
              - metrics.bytes_read + metrics.bytes_written
    BY <1>1, <1>5, <2>1 DEF Ledger, BytesAccounted
  <2>5. TotalSize(levels') = TotalSize(kept) + TotalSize(job.outputs)
    BY <1>3, <2>1
  <2>6. /\ Counters'.bytes_flushed = metrics.bytes_flushed
        /\ Counters'.bytes_read = metrics.bytes_read + TotalSize(job.inputs)
        /\ Counters'.bytes_written = metrics.bytes_written + TotalSize(job.outputs)
    BY <1>4, RecordedJob
  <2>7. TotalSize(loaded') = TotalSize(loaded)
    OBVIOUS
  <2> QED
    BY <2>2, <2>3, <2>4, <2>5, <2>6, <2>7 DEF BytesAccounted
<1>8. FilesAccounted(i)'
  <2>1. Cardinality(kept \cup job.outputs) = Cardinality(kept) + Cardinality(job.outputs)
    BY <1>5, <1>6, CountOfUnion
  <2>2. Cardinality(levels) = Cardinality(kept) + Cardinality(job.inputs)
    <3>1. Cardinality(kept \cup job.inputs) = Cardinality(kept) + Cardinality(job.inputs)
      BY <1>5, <1>6, CountOfUnion
    <3> QED
      BY <1>5, <3>1
  <2>3. Cardinality(levels \cup job.outputs) = Cardinality(levels) + Cardinality(job.outputs)
    <3>1. levels \cap job.outputs = {}
      BY <1>1
    <3> QED
      BY <1>6, <3>1, CountOfUnion
  <2>4. /\ Cardinality(kept) \in Nat /\ Cardinality(job.inputs) \in Nat
        /\ Cardinality(job.outputs) \in Nat /\ Cardinality(loaded) \in Nat
        /\ nextId \in Nat /\ IdAfter(loaded) \in Nat /\ metrics.input_files \in Nat
    BY <1>6, FS_CardinalityType, IdAfterType
       DEF StatsKnown, Metrics, IndInv, TypeOK
  <2>5. Cardinality(levels \cup job.outputs) + 0 + i
          = Cardinality(loaded) + (nextId - IdAfter(loaded)) - metrics.input_files
    BY <1>1 DEF Ledger, FilesAccounted
  <2>6. Cardinality(kept \cup job.outputs) + 0 + i
          = Cardinality(loaded) + (nextId - IdAfter(loaded))
              - (metrics.input_files + Cardinality(job.inputs))
    BY <2>1, <2>2, <2>3, <2>4, <2>5
  <2>7. /\ Counters'.input_files = metrics.input_files + Cardinality(job.inputs)
        /\ IdAfter(loaded') = IdAfter(loaded)
        /\ Cardinality(loaded') = Cardinality(loaded) /\ nextId' = nextId
    BY <1>1, <1>4, RecordedJob
  <2> QED
    BY <1>1, <1>3, <2>6, <2>7 DEF FilesAccounted
<1>9. JobsAccounted'
  BY DEF Ledger, JobsAccounted
<1> QED
  BY <1>7, <1>8, <1>9 DEF Ledger

\* Then the job is recorded.
LEMMA ClearMarkerLedger ==
    ASSUME IndInv, StatsKnown, NEW b \in Int, NEW i \in Nat, Ledger(b, i), ClearMarker, metrics' = RecordJob,
           loaded' = loaded
    PROVE  Ledger(b, i)'
<1>1. /\ pc = "swapped" /\ pc' # "swapped" /\ UNCHANGED <<levels, nextId>>
      /\ job' = NoJob /\ job.outputs \subseteq levels
      /\ ~FileBegun /\ ~FileBegun' /\ job # NoJob /\ job.level >= 1
  BY DEF ClearMarker, StatsKnown, JobListed, FileBegun
<1>2. Counters' = Counters
  BY <1>1 DEF Counters
<1>3. levels' \cup job'.outputs = levels \cup job.outputs
  BY <1>1 DEF NoJob
<1>4. IdAfter(loaded') = IdAfter(loaded) /\ TotalSize(loaded') = TotalSize(loaded)
  OBVIOUS
<1>5. TotalSize(levels') = TotalSize(levels)
  BY <1>1
<1>6. JobsAccounted'
  <2>1. /\ metrics.compactions \in Nat /\ metrics.full_compactions \in Nat
        /\ metrics.compactions_by_level \in Seq(Nat)
    BY DEF StatsKnown, Metrics
  <2>2. metrics.compactions = metrics.full_compactions
                                + SumFunction(metrics.compactions_by_level)
    BY DEF Ledger, JobsAccounted
  <2>3. SumFunction(metrics.compactions_by_level) \in Nat
    BY <2>1, CountsAddUp
  <2>4. SumFunction(CountLevel(metrics.compactions_by_level, job.level - 1))
          = SumFunction(metrics.compactions_by_level) + 1
    <3>1. job.level - 1 \in Nat
      BY <1>1 DEF IndInv, TypeOK, Job
    <3> QED
      BY <2>1, <3>1, OneMoreJob
  <2>5. RecordJob.compactions
          = RecordJob.full_compactions + SumFunction(RecordJob.compactions_by_level)
    <3>1. CASE op.kind = "compact_full"
      BY <2>1, <2>2, <2>3, <3>1, RecordedJob
    <3>2. CASE op.kind # "compact_full"
      <4>1. SumFunction(RecordJob.compactions_by_level)
              = SumFunction(metrics.compactions_by_level) + 1
        BY <2>4, <3>2, RecordedJob
      <4>2. /\ RecordJob.compactions = metrics.compactions + 1
            /\ RecordJob.full_compactions = metrics.full_compactions
        BY <3>2, RecordedJob
      <4> QED
        BY <2>1, <2>2, <2>3, <4>1, <4>2
    <3> QED
      BY <3>1, <3>2
  <2> QED
    BY <2>5 DEF JobsAccounted
<1> QED
  BY <1>1, <1>2, <1>3, <1>4, <1>5, <1>6
     DEF Ledger, BytesAccounted, FilesAccounted

\* A handle with no history holds what it was opened with.
LEMMA NewLedger ==
    ASSUME NEW files \in SUBSET Table, IsFiniteSet(files)
    PROVE  /\ TotalSize(files) + 0 = TotalSize(files) + NoMetrics.bytes_flushed
                - NoMetrics.bytes_read + NoMetrics.bytes_written
           /\ Cardinality(files) + 0 + 0 = Cardinality(files)
                + (IdAfter(files) - IdAfter(files)) - NoMetrics.input_files
           /\ NoMetrics.compactions = NoMetrics.full_compactions
                + SumFunction(NoMetrics.compactions_by_level)
           /\ NoMetrics \in Metrics
<1>1. TotalSize(files) \in Nat /\ Cardinality(files) \in Nat /\ IdAfter(files) \in Nat
  BY TotalSizeIs, FS_CardinalityType, IdAfterType
<1>2. SumFunction(<<>>) = 0
  <2>1. SumFunction(<<>>) = SumFunctionOnSet(<<>>, {})
    BY DEF SumFunction
  <2>2. SumFunctionOnSet(<<>>, {}) = 0
    BY FS_EmptySet, SumOfZeros
  <2> QED
    BY <2>1, <2>2
<1>3. NoMetrics.compactions_by_level = <<>>
  BY DEF NoMetrics
<1>4. NoMetrics \in Metrics
  BY DEF NoMetrics, Metrics
<1> QED
  BY <1>1, <1>2, <1>3, <1>4 DEF NoMetrics

\* What open loads is what the handle starts from.
LEMMA LoadTablesLedger ==
    ASSUME IndInv, StatsKnown, LoadTables, metrics' = metrics, loaded' = disk
    PROVE  Ledger(0, 0)'
<1>1. /\ pc = "load" /\ pc' = "replay" /\ levels' = disk /\ nextId' = IdAfter(disk)
      /\ job = NoJob /\ job' = NoJob /\ metrics = NoMetrics
      /\ metrics' = NoMetrics /\ Counters' = NoMetrics /\ ~FileBegun'
  BY DEF LoadTables, StatsKnown, JobListed, Recovering, Counters, FileBegun
<1>2. disk \in SUBSET Table /\ IsFiniteSet(disk)
  BY DEF IndInv, TypeOK, TablesFinite
<1>3. levels' \cup job'.outputs = disk
  BY <1>1 DEF NoJob
<1>4. BytesAccounted(0)' /\ FilesAccounted(0)' /\ JobsAccounted'
  BY <1>1, <1>2, <1>3, NewLedger DEF BytesAccounted, FilesAccounted, JobsAccounted
<1> QED
  BY <1>4 DEF Ledger

\* A handle that is lost leaves an empty ledger.
LEMMA LoseHandleLedger ==
    ASSUME LoseHandle, metrics' = NoMetrics, loaded' = {}
    PROVE  Ledger(0, 0)'
<1>1. /\ levels' = {} /\ nextId' = 0 /\ job' = NoJob /\ metrics' = NoMetrics
      /\ Counters' = NoMetrics /\ ~FileBegun'
  BY DEF LoseHandle, Counters, FileBegun
<1>2. levels' \cup job'.outputs = {} /\ IdAfter({}) = 0
  BY <1>1 DEF NoJob, IdAfter
<1>3. {} \in SUBSET Table /\ IsFiniteSet({})
  BY FS_EmptySet
<1>4. BytesAccounted(0)' /\ FilesAccounted(0)' /\ JobsAccounted'
  BY <1>1, <1>2, <1>3, NewLedger DEF BytesAccounted, FilesAccounted, JobsAccounted
<1> QED
  BY <1>4 DEF Ledger

\* Where no job is left, nothing is.
LEMMA NoJobListed ==
    ASSUME job' = NoJob,
           pc' \notin {"merge", "mark", "marking", "delete", "deleted", "swapped"},
           pc' \in {"renamed", "truncated"} => file' \notin levels'
    PROVE  JobListed'
BY DEF JobListed, NoJob

\* A job starts with no outputs and with files of the handle.
LEMMA StartJobListed ==
    ASSUME NEW inputs, NEW level \in Nat, NEW drop, NEW limit,
           StartJob(inputs, level, drop, limit),
           inputs \subseteq levels, levels' = levels, level >= 1, limit >= 1
    PROVE  JobListed'
<1>1. /\ pc' = "merge" /\ job'.inputs = inputs /\ job'.outputs = {}
      /\ job'.level = level /\ job'.limit = limit
  BY DEF StartJob
<1>2. job' # NoJob
  BY <1>1 DEF NoJob
<1> QED
  BY <1>1, <1>2 DEF JobListed, Recovering

\* Steps of a job that move neither its inputs nor its outputs.
LEMMA JobGoesOn ==
    ASSUME JobListed, job # NoJob, pc # "swapped",
           pc' \in {"merge", "mark", "marking", "delete", "deleted", "create",
                    "rename", "renamed"},
           job'.inputs = job.inputs, job'.outputs = job.outputs,
           job'.level = job.level, levels' = levels,
           pc' = "renamed" => file' \notin levels \cup job.outputs
    PROVE  JobListed'
<1>1. job.level >= 1 /\ job.inputs \subseteq levels /\ job.outputs \cap levels = {}
  BY DEF JobListed
<1>2. job' # NoJob
  BY <1>1 DEF NoJob
<1> QED
  BY <1>1, <1>2 DEF JobListed, Recovering

\* A new table is listed nowhere until it is in place.
LEMMA RenameListed ==
    ASSUME IndInv, JobListed, Rename
    PROVE  JobListed'
<1>1. file \notin levels \cup job.outputs
  BY DEF IndInv, IdsIncrease, Tables, Ids, Rename
<1>2. /\ pc = "rename" /\ pc' = "renamed"
      /\ job' = job /\ levels' = levels /\ file' = file
  BY DEF Rename
<1> QED
  BY <1>1, <1>2, NoJobListed, JobGoesOn

\* Every step.
LEMMA NextJobListed ==
    ASSUME IndInv, JobListed, [Next]_vars
    PROVE  JobListed'
<1>1. CASE \/ AppendRecord \/ InsertMemtable \/ AfterInsert \/ AfterFlush
           \/ Return \/ TruncateWal \/ InstallFlushed \/ ClearMarker \/ Open
           \/ RemoveTmp \/ TmpRemoved \/ FinishDelete \/ FinishMerge
           \/ LoadTables \/ ReplayWal
  <2>1. /\ job' = NoJob
        /\ pc' \notin {"merge", "mark", "marking", "delete", "deleted", "swapped"}
        /\ pc' \in {"renamed", "truncated"} => file' \notin levels'
    BY <1>1 DEF JobListed, AppendRecord, InsertMemtable, AfterInsert,
         StartFile, AfterFlush, Return, TruncateWal, InstallFlushed, ClearMarker,
         Open, RemoveTmp, TmpRemoved, FinishDelete, FinishMerge, LoadTables,
         ReplayWal, Recovering
  <2> QED
    BY <2>1, NoJobListed
<1>2. CASE Fail \/ Crash \/ Close
  BY <1>2, NoJobListed DEF Fail, Crash, Close, LoseHandle
<1>3. CASE Call
  <2>1. pc = "idle" /\ job = NoJob /\ levels' = levels
    BY <1>3 DEF Call, Set, Delete, BeginWrite, Flush, Compact, CompactFull,
                JobListed
  <2>2. CASE CompactFull /\ ~(Cardinality(levels) <= 1)
    <3>1. PICK limit, level \in Nat : limit = Cardinality(Key) + 1 /\ level = 1
      BY KeyAssumption, FS_CardinalityType
    <3>2. limit >= 1 /\ level >= 1
      BY <3>1, KeyAssumption, FS_CardinalityType
    <3>3. StartJob(levels, level, TRUE, limit)
      BY <2>2, <3>1 DEF CompactFull
    <3> QED
      BY <2>1, <3>1, <3>2, <3>3, StartJobListed
  <2>3. CASE ~(CompactFull /\ ~(Cardinality(levels) <= 1))
    <3>1. job' = NoJob /\ pc' \in {"append", "create", "pick", "done"}
      BY <1>3, <2>1, <2>3 DEF Call, Set, Delete, BeginWrite, Flush, Compact,
                              CompactFull, StartFile
    <3> QED
      BY <3>1, NoJobListed
  <2> QED
    BY <2>2, <2>3
<1>4. CASE PickJob
  <2>1. pc = "pick" /\ job = NoJob /\ levels' = levels
    BY <1>4 DEF PickJob, JobListed
  <2>2. CASE CompactionDue(levels)
    <3>1. PICK plan : plan = PickCompaction(levels)
      OBVIOUS
    <3>2. /\ plan.inputs \subseteq levels /\ plan.outputLevel \in Nat
          /\ plan.outputLevel >= 1
      <4>1. /\ PlanLevel(levels) \in Nat
            /\ PickCompaction(levels).inputs \subseteq levels
        BY <2>2, PlanType DEF IndInv, TypeOK, TablesFinite
      <4> QED
        BY <3>1, <4>1 DEF PickCompaction
    <3>3. StartJob(plan.inputs, plan.outputLevel, plan.dropTombstones,
                   AtLeast(1, TargetFileSize))
      BY <1>4, <2>2, <3>1 DEF PickJob
    <3>4. AtLeast(1, TargetFileSize) >= 1
      BY OptionsAssumption DEF AtLeast
    <3> QED
      BY <2>1, <3>2, <3>3, <3>4, StartJobListed
  <2>3. CASE ~CompactionDue(levels)
    BY <1>4, <2>1, <2>3, NoJobListed DEF PickJob
  <2> QED
    BY <2>2, <2>3
<1>5. CASE WriteTmp
  <2>1. /\ pc = "create" /\ pc' = "rename"
        /\ job' = job /\ levels' = levels
    BY <1>5 DEF WriteTmp
  <2> QED
    BY <2>1, NoJobListed, JobGoesOn
<1>6. CASE \/ WriteOutput \/ WriteMarkerTmp \/ RenameMarker \/ DeleteInput
           \/ InputsDeleted
  <2>1. /\ pc \in {"merge", "mark", "marking", "delete"}
        /\ pc' \in {"merge", "mark", "marking", "delete", "deleted", "create"}
        /\ levels' = levels
    BY <1>6 DEF WriteOutput, StartFile, WriteMarkerTmp, RenameMarker, DeleteInput,
                InputsDeleted
  <2>2. /\ job'.inputs = job.inputs /\ job'.outputs = job.outputs
        /\ job'.level = job.level
    BY <1>6 DEF WriteOutput, WriteMarkerTmp, RenameMarker, DeleteInput,
                InputsDeleted, IndInv, TypeOK, Job
  <2>3. job # NoJob
    BY <2>1 DEF JobListed
  <2> QED
    BY <2>1, <2>2, <2>3, JobGoesOn
<1>7. CASE KeepOutput
  <2>1. /\ pc = "renamed" /\ pc' = "merge" /\ job # NoJob /\ levels' = levels
        /\ job'.inputs = job.inputs /\ job'.level = job.level
        /\ job'.outputs = job.outputs \cup {file}
    BY <1>7 DEF KeepOutput, IndInv, TypeOK, Job
  <2>2. /\ job.level >= 1 /\ job.inputs \subseteq levels
        /\ job'.outputs \cap levels = {}
    BY <2>1 DEF JobListed
  <2>3. job' # NoJob
    BY <2>1, <2>2 DEF NoJob
  <2> QED
    BY <2>1, <2>2, <2>3 DEF JobListed, Recovering
<1>8. CASE SwapFiles
  BY <1>8 DEF JobListed, SwapFiles, Recovering
<1>9. CASE UNCHANGED vars
  BY <1>9 DEF JobListed, vars
<1> QED
  BY <1>1, <1>2, <1>3, <1>4, <1>5, <1>6, <1>7, <1>8, <1>9, RenameListed
     DEF Next, Continue

\* A write logs its record before it inserts it, a flush empties the memtable
\* whose log it has emptied, and recovery replays no more than the log.
LEMMA StepEntriesLogged ==
    ASSUME IndInv, EntriesLogged, Call \/ Continue \/ Crash \/ Close \/ Open
    PROVE  EntriesLogged'
<1>1. CASE \/ Call \/ AfterInsert \/ WriteTmp \/ Rename \/ AfterFlush \/ PickJob
           \/ WriteOutput \/ KeepOutput \/ WriteMarkerTmp \/ RenameMarker
           \/ DeleteInput \/ InputsDeleted \/ SwapFiles \/ ClearMarker \/ Return
  <2>1. /\ UNCHANGED <<memtable, wal>> /\ pc' # "insert"
        /\ pc \notin Recovering \cup {"insert", "truncated"}
    BY <1>1
       DEF Call, Set, Delete, BeginWrite, Flush, Compact, CompactFull,
           AfterInsert, WriteTmp, Rename, AfterFlush, PickJob, WriteOutput,
           KeepOutput, WriteMarkerTmp, RenameMarker, DeleteInput,
           InputsDeleted, SwapFiles, ClearMarker, Return, StartFile, StartJob,
           Recovering
  <2> QED
    BY <2>1 DEF EntriesLogged
<1>2. CASE AppendRecord
  <2>1. Len(wal') = Len(wal) + 1 /\ Len(wal) \in Nat
    BY <1>2 DEF AppendRecord, IndInv, TypeOK
  <2>2. pc = "append" /\ pc' = "insert" /\ memtable' = memtable
    BY <1>2 DEF AppendRecord
  <2> QED
    BY <2>1, <2>2, EntriesCount DEF EntriesLogged, Recovering
<1>3. CASE InsertMemtable
  <2>1. op.key \in Key
    BY <1>3 DEF InsertMemtable, IndInv, WriteUnderWay
  <2>2. /\ pc = "insert" /\ pc' = "inserted" /\ wal' = wal
        /\ memtable' = [memtable EXCEPT ![op.key] = op.entry]
    BY <1>3 DEF InsertMemtable
  <2>3. Cardinality(KeysOf(memtable')) <= Cardinality(KeysOf(memtable)) + 1
    BY <2>1, <2>2, OneMoreEntry
  <2>4. /\ Cardinality(KeysOf(memtable)) \in Nat
        /\ Cardinality(KeysOf(memtable')) \in Nat
        /\ Len(wal) \in Nat
    BY EntriesCount DEF IndInv, TypeOK
  <2> QED
    BY <2>2, <2>3, <2>4 DEF EntriesLogged, Recovering
<1>4. CASE InstallFlushed
  <2>1. KeysOf(memtable') = {} /\ wal' = wal /\ pc' = "installed"
    BY <1>4, Nothing DEF InstallFlushed
  <2>2. Len(wal) \in Nat
    BY DEF IndInv, TypeOK
  <2> QED
    BY <2>1, <2>2, FS_EmptySet DEF EntriesLogged
<1>5. CASE ReplayWal
  <2>1. pc' = "idle" /\ wal' = wal /\ memtable' = Replay(wal)
    BY <1>5 DEF ReplayWal
  <2>2. Cardinality(KeysOf(Replay(wal))) <= Len(wal)
    BY ReplayEntries DEF IndInv, TypeOK
  <2> QED
    BY <2>1, <2>2, EntriesCount DEF EntriesLogged
<1>6. CASE \/ TruncateWal \/ Open \/ RemoveTmp \/ TmpRemoved \/ FinishDelete
           \/ FinishMerge \/ LoadTables \/ Crash \/ Close
  BY <1>6 DEF EntriesLogged, TruncateWal, Open, RemoveTmp, TmpRemoved, FinishDelete,
              FinishMerge, LoadTables, Crash, Close, LoseHandle, Recovering
<1> QED
  BY <1>1, <1>2, <1>3, <1>4, <1>5, <1>6 DEF Continue

\* A step of the code records what its operation has done, and notes what
\* open loads.
LEMMA StepLedger ==
    ASSUME IndInv, StatsKnown, NEW b \in Int, NEW i \in Nat, Ledger(b, i), Step
    PROVE  Ledger(b, i)' \/ Ledger(0, 0)'
<1>1. CASE LoadTables
  <2>1. metrics' = metrics /\ loaded' = disk
    BY <1>1 DEF Step, LoadTables
  <2> QED
    BY <1>1, <2>1, LoadTablesLedger
<1>2. CASE InstallFlushed
  <2>1. metrics' = Flushed /\ loaded' = loaded
    BY <1>2 DEF Step, InstallFlushed
  <2> QED
    BY <1>2, <2>1, InstallFlushedLedger
<1>3. CASE ClearMarker
  <2>1. metrics' = RecordJob /\ loaded' = loaded
    BY <1>3 DEF Step, ClearMarker
  <2> QED
    BY <1>3, <2>1, ClearMarkerLedger
<1>4. CASE ~(LoadTables \/ InstallFlushed \/ ClearMarker)
  <2>1. metrics' = metrics /\ loaded' = loaded /\ pc # "swapped"
    BY <1>4 DEF Step, Continue, AppendRecord, InsertMemtable, AfterInsert, WriteTmp,
         Rename, TruncateWal, AfterFlush, PickJob, WriteOutput, KeepOutput,
         WriteMarkerTmp, RenameMarker, DeleteInput, InputsDeleted, SwapFiles,
         RemoveTmp, TmpRemoved, FinishDelete, FinishMerge, ReplayWal, Return
  <2>2. CASE KeepOutput
    BY <2>1, <2>2, KeepOutputLedger
  <2>3. CASE SwapFiles
    BY <2>1, <2>3, SwapFilesLedger
  <2>4. CASE AfterInsert /\ MemtableFull
    <3>1. /\ StartFile(0, memtable) /\ UNCHANGED <<levels, job>>
          /\ pc # "swapped" /\ ~FileBegun
      BY <2>4 DEF AfterInsert, FileBegun
    <3> QED
      BY <2>1, <3>1, StartFileLedger
  <2>5. CASE WriteOutput /\ job.rest # NoContents
    <3>1. PICK contents : /\ StartFile(job.level, contents)
                          /\ UNCHANGED <<levels, job>>
                          /\ pc # "swapped" /\ ~FileBegun
      BY <2>5 DEF WriteOutput, FileBegun
    <3> QED
      BY <2>1, <3>1, StartFileLedger
  <2>6. CASE AfterInsert /\ ~MemtableFull
    BY <2>1, <2>6, LedgerKept DEF AfterInsert, FileBegun
  <2>7. CASE WriteOutput /\ job.rest = NoContents
    BY <2>1, <2>7, LedgerKept DEF WriteOutput, FileBegun
  <2>8. CASE PickJob
    <3>1. job.outputs = {} /\ job'.outputs = {}
      BY <2>8 DEF StatsKnown, JobListed, PickJob, StartJob, NoJob
    <3>2. /\ UNCHANGED <<levels, nextId>> /\ pc' # "swapped"
          /\ FileBegun' <=> FileBegun
      BY <2>8 DEF PickJob, StartJob, FileBegun
    <3> QED
      BY <2>1, <3>1, <3>2, LedgerKept
  <2>9. CASE DeleteInput
    <3>1. job'.outputs = job.outputs
      BY <2>9 DEF DeleteInput, IndInv, TypeOK, Job
    <3> QED
      BY <2>1, <2>9, <3>1, LedgerKept DEF DeleteInput, FileBegun
  <2>10. CASE \/ AppendRecord \/ InsertMemtable \/ WriteTmp \/ Rename \/ TruncateWal
              \/ AfterFlush \/ WriteMarkerTmp \/ RenameMarker \/ InputsDeleted
              \/ RemoveTmp \/ TmpRemoved \/ FinishDelete \/ FinishMerge
              \/ ReplayWal \/ Return
    <3>1. /\ UNCHANGED <<levels, nextId, job>> /\ pc' # "swapped"
          /\ FileBegun' <=> FileBegun
      BY <2>10 DEF AppendRecord, InsertMemtable, WriteTmp, Rename, TruncateWal,
           AfterFlush, WriteMarkerTmp, RenameMarker, InputsDeleted, RemoveTmp,
           TmpRemoved, FinishDelete, FinishMerge, ReplayWal, Return, FileBegun
    <3> QED
      BY <2>1, <3>1, LedgerKept
  <2> QED
    BY <1>4, <2>2, <2>3, <2>4, <2>5, <2>6, <2>7, <2>8, <2>9, <2>10
       DEF Step, Continue
<1> QED
  BY <1>1, <1>2, <1>3, <1>4

\* A request counts the id of the file a flush begins with.
LEMMA RequestLedger ==
    ASSUME IndInv, StatsKnown, NEW b \in Int, NEW i \in Nat, Ledger(b, i), Request
    PROVE  Ledger(b, i)'
<1>1. /\ metrics' = metrics /\ loaded' = loaded /\ levels' = levels /\ pc = "idle"
      /\ job = NoJob /\ job.outputs = {} /\ ~FileBegun
  <2>1. levels' = levels /\ pc = "idle"
    BY DEF Request, Call, Set, Delete, BeginWrite, Flush, Compact, CompactFull
  <2> QED
    BY <2>1 DEF Request, observations, StatsKnown, JobListed, NoJob, FileBegun
<1>2. CASE Flush /\ memtable # NoContents
  BY <1>1, <1>2, StartFileLedger DEF Flush
<1>3. CASE ~(Flush /\ memtable # NoContents)
  <2>1. /\ nextId' = nextId /\ job'.outputs = {}
        /\ pc' \in {"append", "pick", "merge", "done"}
    <3>1. CASE CompactFull
      <4>1. PICK limit : limit = Cardinality(Key) + 1
        OBVIOUS
      <4>2. nextId' = nextId /\ (\/ pc' = "done" /\ job' = job
                                 \/ StartJob(levels, 1, TRUE, limit))
        BY <3>1, <4>1 DEF CompactFull
      <4>3. ASSUME StartJob(levels, 1, TRUE, limit)
            PROVE  pc' = "merge" /\ job'.outputs = {}
        BY <4>3 DEF StartJob
      <4> QED
        BY <1>1, <4>2, <4>3
    <3>2. CASE ~CompactFull
      BY <1>1, <1>3, <3>2 DEF Request, Call, Set, Delete, BeginWrite, Flush, Compact
    <3> QED
      BY <3>1, <3>2
  <2> QED
    BY <1>1, <2>1, LedgerKept DEF FileBegun
<1> QED
  BY <1>2, <1>3

\* An operation that fails leaves the ledger as it finds it: what it has done
\* and not accounted for stays so.  Only at a point in the middle of an account
\* are there bytes among it.
LEMMA FireErrorLedger ==
    ASSUME IndInv, StatsKnown, NEW b \in Int, NEW i \in Nat, Ledger(b, i), FireError
    PROVE  \E c \in Int, j \in Nat :
               Ledger(c, j)' /\ (fault.point \notin BytesApart => c = b)
<1>1. /\ fault.point \in FaultPoints /\ pc' = "idle" /\ job' = NoJob
      /\ UNCHANGED <<levels, nextId, loaded>>
      /\ ~FileBegun' /\ Counters' = metrics'
      /\ metrics' = Flushed \/ metrics' = metrics
      /\ fault.point \notin BytesApart => metrics' = metrics
  BY DEF FireError, Fires, OnTheWay, Fail, handle, FileBegun, Counters, BytesApart
<1>2. fault.point \notin BytesApart => Counters = metrics
  BY <1>1 DEF FaultPoints, Counters, BytesApart
<1>3. /\ metrics \in Metrics /\ metrics' \in Metrics
      /\ metrics'.compactions = metrics.compactions
      /\ metrics'.full_compactions = metrics.full_compactions
      /\ metrics'.compactions_by_level = metrics.compactions_by_level
      /\ metrics'.input_files = metrics.input_files
  <2>1. metrics' = metrics \/ (pc = "truncated" /\ metrics' = Flushed)
    BY DEF FireError
  <2>2. metrics \in Metrics /\ metrics' \in Metrics
    BY <2>1, RecordType DEF StatsKnown
  <2> QED
    BY <2>1, <2>2 DEF Metrics, Flushed
<1>4. JobsAccounted'
  BY <1>3 DEF Ledger, JobsAccounted
<1>5. /\ TotalSize(levels) \in Nat /\ TotalSize(loaded) \in Nat
      /\ IsFiniteSet(levels) /\ IsFiniteSet(job.outputs)
  BY TotalSizeIs DEF StatsKnown, IndInv, TablesFinite
<1>6. PICK c \in Int :
          TotalSize(levels) + c = TotalSize(loaded) + metrics'.bytes_flushed
                                    - metrics'.bytes_read + metrics'.bytes_written
  <2>1. /\ metrics'.bytes_flushed \in Nat /\ metrics'.bytes_read \in Nat
        /\ metrics'.bytes_written \in Nat
    BY <1>3 DEF Metrics
  <2> DEFINE d == TotalSize(loaded) + metrics'.bytes_flushed - metrics'.bytes_read
                    + metrics'.bytes_written - TotalSize(levels)
  <2>2. /\ d \in Int
        /\ TotalSize(levels) + d = TotalSize(loaded) + metrics'.bytes_flushed
                                    - metrics'.bytes_read + metrics'.bytes_written
    BY <1>5, <2>1
  <2> QED
    BY <2>2
<1>7. BytesAccounted(c)'
  BY <1>1, <1>6 DEF BytesAccounted
<1>8. fault.point \notin BytesApart => c = b
  <2> SUFFICES ASSUME fault.point \notin BytesApart PROVE c = b
    OBVIOUS
  <2>1. TotalSize(levels) + b = TotalSize(loaded) + metrics.bytes_flushed
                                  - metrics.bytes_read + metrics.bytes_written
    BY <1>2 DEF Ledger, BytesAccounted
  <2>2. TotalSize(levels) + c = TotalSize(levels) + b
    BY <1>1, <1>6, <2>1
  <2> QED
    BY <1>5, <2>2
<1>9. \E j \in Nat : FilesAccounted(j)'
  <2>1. PICK all \in Nat, listed \in Nat :
            /\ all = Cardinality(levels \cup job.outputs)
            /\ listed = Cardinality(levels) /\ listed <= all
    <3>1. IsFiniteSet(levels \cup job.outputs) /\ levels \subseteq levels \cup job.outputs
      BY <1>5, FS_Union
    <3>2. Cardinality(levels) <= Cardinality(levels \cup job.outputs)
      BY <3>1, FS_Subset
    <3> QED
      BY <1>5, <3>1, <3>2, FS_CardinalityType
  <2>2. PICK read \in Nat, more \in Nat :
            /\ read = metrics.input_files /\ read + more = Counters.input_files
    <3>1. CASE pc = "swapped"
      <4>1. Counters.input_files = metrics.input_files + Cardinality(job.inputs)
        BY <3>1, RecordedJob DEF Counters
      <4>2. Cardinality(job.inputs) \in Nat /\ metrics.input_files \in Nat
        BY <1>3, FS_CardinalityType DEF Metrics, IndInv, TablesFinite
      <4> QED
        BY <4>1, <4>2
    <3>2. CASE pc # "swapped"
      <4>1. Counters.input_files = metrics.input_files /\ metrics.input_files \in Nat
        BY <1>3, <3>2 DEF Counters, Metrics
      <4>2. metrics.input_files + 0 = Counters.input_files
        BY <4>1
      <4> QED
        BY <4>1, <4>2
    <3> QED
      BY <3>1, <3>2
  <2>3. PICK begun \in Nat : begun = IF FileBegun THEN 1 ELSE 0
    OBVIOUS
  <2>4. PICK start \in Nat, given \in Int :
            start = Cardinality(loaded) /\ given = nextId - IdAfter(loaded)
    BY FS_CardinalityType, IdAfterType DEF StatsKnown, IndInv, TypeOK
  <2>5. all + begun + i = start + given - (read + more)
    BY <2>1, <2>2, <2>3, <2>4 DEF Ledger, FilesAccounted
  <2>6. PICK j \in Nat : listed + 0 + j = start + given - read
    <3> DEFINE k == all - listed + begun + i + more
    <3>1. k \in Nat /\ listed + 0 + k = start + given - read
      BY <2>1, <2>5
    <3> QED
      BY <3>1
  <2>7. levels' \cup job'.outputs = levels
    BY <1>1 DEF NoJob
  <2>8. /\ Cardinality(levels' \cup job'.outputs) = listed
        /\ Cardinality(loaded') + (nextId' - IdAfter(loaded')) = start + given
        /\ Counters'.input_files = read /\ ~FileBegun'
    BY <1>1, <1>3, <2>1, <2>2, <2>4, <2>7
  <2>9. FilesAccounted(j)'
    <3>1. /\ Cardinality(levels' \cup job'.outputs) = listed
          /\ Cardinality(loaded') = start /\ IdAfter(loaded') = IdAfter(loaded)
          /\ nextId' - IdAfter(loaded) = given
      BY <1>1, <2>4, <2>8
    <3> QED
      BY <2>6, <2>8, <3>1 DEF FilesAccounted
  <2> QED
    BY <2>9
<1> QED
  BY <1>4, <1>7, <1>8, <1>9 DEF Ledger

\* What the statistics are made of keeps its kind, whatever fails.
LEMMA NextStatsKnown ==
    ASSUME IndInv, StatsKnown, [ObservedNext]_allVars
    PROVE  StatsKnown'
<1>1. JobListed'
  BY ObservedStep, NextJobListed DEF StatsKnown
<1>2. NoMetrics \in Metrics
  BY DEF NoMetrics, Metrics
<1>3. metrics' \in Metrics
  BY <1>2, RecordType DEF StatsKnown, ObservedNext, Request, Step, FireError,
     FireAbort, Drop, Reopen, observations, allVars
<1>4. loaded' \in SUBSET Table /\ IsFiniteSet(loaded')
  <2>1. loaded' \in {loaded, disk, {}}
    BY DEF ObservedNext, Request, Step, FireError, FireAbort, Drop, Reopen,
           observations, allVars
  <2> QED
    BY <2>1, FS_EmptySet DEF StatsKnown, IndInv, TypeOK, TablesFinite
<1>5. ASSUME pc' \in Recovering \ {"replay"} PROVE metrics' = NoMetrics
  <2>1. CASE FireAbort \/ Drop
    BY <2>1 DEF FireAbort, Drop
  <2>2. CASE Step
    <3>1. \/ RemoveTmp \/ TmpRemoved \/ FinishDelete \/ FinishMerge
      BY <1>5, <2>2 DEF Step, Continue, AppendRecord, InsertMemtable, AfterInsert,
         StartFile, StartJob, WriteTmp, Rename, TruncateWal, InstallFlushed,
         AfterFlush, PickJob, WriteOutput, KeepOutput, WriteMarkerTmp, RenameMarker,
         DeleteInput, InputsDeleted, SwapFiles, ClearMarker, LoadTables,
         ReplayWal, Return, Recovering
    <3>2. metrics' = metrics /\ pc \in Recovering \ {"replay"}
      BY <2>2, <3>1 DEF Step, RemoveTmp, TmpRemoved, FinishDelete, FinishMerge,
                        Recovering
    <3> QED
      BY <3>2 DEF StatsKnown
  <2>3. CASE Reopen \/ UNCHANGED allVars
    <3>1. metrics' = metrics /\ pc \in Recovering \ {"replay"}
      BY <1>5, <2>3 DEF Reopen, Open, observations, allVars, vars, Recovering
    <3> QED
      BY <3>1 DEF StatsKnown
  <2>4. CASE Request \/ FireError
    BY <1>5, <2>4 DEF Request, Call, Set, Delete, BeginWrite, Flush, Compact,
       CompactFull, StartFile, StartJob, FireError, Fail, Recovering
  <2> QED
    BY <2>1, <2>2, <2>3, <2>4 DEF ObservedNext
<1> QED
  BY <1>1, <1>3, <1>4, <1>5 DEF StatsKnown

\* All steps.
LEMMA NextStatsInv ==
    ASSUME StatsInv, [ObservedNext]_allVars
    PROVE  StatsInv'
<1>1. IndInv' /\ StatsKnown' /\ InjectorOK'
  BY ObservedStep, NextIndInv, NextStatsKnown, FaultsCounted DEF StatsInv
<1>2. PICK b \in Int, i \in Nat : /\ Ledger(b, i)
                                  /\ ~Fired => i = 0
                                  /\ ~FailedAt(BytesApart) => b = 0
  BY DEF StatsInv
<1>3. 0 \in Nat /\ 0 \in Int
  OBVIOUS
<1>4. ASSUME Fired' <=> Fired, fault' = fault, Ledger(b, i)' \/ Ledger(0, 0)',
             EntriesLogged => EntriesLogged'
      PROVE  StatsInv'
  <2>1. /\ FailedAt(BytesApart)' <=> FailedAt(BytesApart)
        /\ FailedAt(EntriesApart)' <=> FailedAt(EntriesApart)
    BY <1>4 DEF FailedAt, BytesApart, EntriesApart
  <2>2. \E c \in Int, j \in Nat : /\ Ledger(c, j)'
                                  /\ ~Fired' => j = 0
                                  /\ ~FailedAt(BytesApart)' => c = 0
    BY <1>2, <1>3, <1>4, <2>1
  <2> QED
    BY <1>1, <1>4, <2>1, <2>2 DEF StatsInv
<1>5. CASE Request
  <2>1. (Fired' <=> Fired) /\ fault' = fault
    BY <1>5 DEF Request, observations, Fired
  <2>2. Ledger(b, i)' /\ (EntriesLogged => EntriesLogged')
    BY <1>2, <1>5, RequestLedger, StepEntriesLogged DEF StatsInv, Request
  <2> QED
    BY <1>4, <2>1, <2>2
<1>6. CASE Step
  <2>1. (Fired' <=> Fired) /\ fault' = fault
    BY <1>6, QuietHit DEF Step, StatsInv
  <2>2. (Ledger(b, i)' \/ Ledger(0, 0)') /\ (EntriesLogged => EntriesLogged')
    BY <1>2, <1>6, StepLedger, StepEntriesLogged DEF StatsInv, Step
  <2> QED
    BY <1>4, <2>1, <2>2
<1>7. CASE FireError
  <2>1. Fired' /\ fault' = fault /\ fault.point \in FaultPoints /\ Fail
    BY <1>7, FiresThenFired DEF FireError, StatsInv, Fires, OnTheWay
  <2>2. PICK c \in Int, j \in Nat :
            Ledger(c, j)' /\ (fault.point \notin BytesApart => c = b)
    BY <1>2, <1>7, FireErrorLedger DEF StatsInv
  <2>3. ~FailedAt(BytesApart)' => ~FailedAt(BytesApart) /\ fault.point \notin BytesApart
    BY <2>1 DEF FailedAt, BytesApart
  <2>4. ~FailedAt(EntriesApart)' => EntriesLogged'
    <3> SUFFICES ASSUME ~FailedAt(EntriesApart)' PROVE EntriesLogged'
      OBVIOUS
    <3>1. fault.point \notin EntriesApart
      BY <2>1 DEF FailedAt, EntriesApart
    <3>2. EntriesLogged
      BY <3>1 DEF StatsInv, FailedAt
    <3>3. pc \notin Recovering \cup {"truncated"}
      BY <2>1, <3>1 DEF FaultPoints, EntriesApart, Recovering
    <3>4. Cardinality(KeysOf(memtable)) \in Nat /\ Len(wal) \in Nat
      BY EntriesCount DEF StatsInv, IndInv, TypeOK
    <3>5. /\ pc' = "idle" /\ memtable' = memtable /\ wal' = wal
          /\ Cardinality(KeysOf(memtable)) <= Len(wal)
      BY <2>1, <3>2, <3>3, <3>4 DEF EntriesLogged, Fail, handle, directory
    <3> QED
      BY <3>4, <3>5 DEF EntriesLogged
  <2>5. ~FailedAt(BytesApart)' => c = 0
    BY <1>2, <2>2, <2>3
  <2> QED
    BY <1>1, <2>1, <2>2, <2>4, <2>5 DEF StatsInv
<1>8. CASE FireAbort \/ Drop
  <2>1. LoseHandle /\ metrics' = NoMetrics /\ loaded' = {} /\ pc' = "down"
    BY <1>8 DEF FireAbort, Drop, Crash, Close, LoseHandle
  <2>2. Ledger(0, 0)' /\ EntriesLogged'
    BY <2>1, LoseHandleLedger DEF EntriesLogged, Recovering
  <2> QED
    BY <1>1, <1>3, <2>2 DEF StatsInv
<1>9. CASE Reopen
  <2>1. /\ metrics' = metrics /\ loaded' = loaded /\ UNCHANGED <<levels, nextId, job>>
        /\ pc = "down" /\ pc' = "clean" /\ UNCHANGED <<fault, hits>>
    BY <1>9 DEF Reopen, Open, observations
  <2>2. (Fired' <=> Fired) /\ EntriesLogged'
    BY <2>1 DEF Fired, EntriesLogged, Recovering
  <2>3. Ledger(b, i)'
    BY <1>2, <2>1, LedgerKept DEF FileBegun
  <2> QED
    BY <1>4, <2>1, <2>2, <2>3
<1>10. CASE UNCHANGED allVars
  <2>1. UNCHANGED vars /\ UNCHANGED observations
    BY <1>10 DEF allVars
  <2>2. (Fired' <=> Fired) /\ (EntriesLogged => EntriesLogged') /\ fault' = fault
    BY <2>1 DEF Fired, EntriesLogged, vars, observations
  <2>3. Ledger(b, i)'
    BY <1>2, <2>1 DEF Ledger, BytesAccounted, FilesAccounted,
       JobsAccounted, Counters, RecordJob, FileBegun, vars, observations
  <2> QED
    BY <1>4, <2>2, <2>3
<1> QED
  BY <1>5, <1>6, <1>7, <1>8, <1>9, <1>10 DEF ObservedNext

\* Whatever the options and the fault are, and however many operations fail:
\* stats explains the files, except for the bytes and the entries an operation
\* that failed in the middle of their account leaves apart (db.rs, Metrics and
\* stats).
THEOREM StatsExplain == ObservedSpec => []StatsExplainLevels
<1>1. ObservedInit => StatsInv
  <2> SUFFICES ASSUME ObservedInit PROVE StatsInv
    OBVIOUS
  <2>1. /\ levels = {} /\ nextId = 0 /\ job = NoJob /\ pc = "idle"
        /\ metrics = NoMetrics /\ loaded = {} /\ wal = <<>> /\ memtable = NoContents
        /\ Counters = NoMetrics /\ ~FileBegun
    BY DEF ObservedInit, Init, Counters, FileBegun
  <2>2. levels \cup job.outputs = {} /\ IdAfter({}) = 0
    BY <2>1 DEF NoJob, IdAfter
  <2>3. {} \in SUBSET Table /\ IsFiniteSet({})
    BY FS_EmptySet
  <2>4. Ledger(0, 0)
    BY <2>1, <2>2, <2>3, NewLedger
       DEF Ledger, BytesAccounted, FilesAccounted, JobsAccounted
  <2>5. JobListed
    BY <2>1 DEF JobListed, NoJob
  <2>6. StatsKnown
    BY <2>1, <2>3, <2>5, NewLedger DEF StatsKnown
  <2>7. EntriesLogged
    BY <2>1, Nothing, FS_EmptySet DEF EntriesLogged
  <2>8. IndInv /\ InjectorOK
    BY InitIndInv, NotYetFired DEF ObservedInit
  <2>9. \E b \in Int, i \in Nat : /\ Ledger(b, i)
                                  /\ ~Fired => i = 0
                                  /\ ~FailedAt(BytesApart) => b = 0
    <3>1. 0 \in Int /\ 0 \in Nat
      OBVIOUS
    <3> QED
      BY <2>4, <3>1
  <2> QED
    BY <2>6, <2>7, <2>8, <2>9 DEF StatsInv
<1>2. StatsInv /\ [ObservedNext]_allVars => StatsInv'
  BY NextStatsInv
<1>3. StatsInv => StatsExplainLevels
  <2> SUFFICES ASSUME StatsInv, pc = "idle"
               PROVE  StatsExplainLevels
    BY DEF StatsExplainLevels
  <2> DEFINE listed == Stats.sst_count + metrics.input_files
             known == Cardinality(loaded) + (nextId - IdAfter(loaded))
  <2>1. Counters = metrics /\ ~FileBegun /\ job = NoJob /\ metrics \in Metrics
    BY DEF StatsInv, Counters, FileBegun, StatsKnown, JobListed
  <2>12. PICK b \in Int, i \in Nat : /\ Ledger(b, i)
                                     /\ ~Fired => i = 0
                                     /\ ~FailedAt(BytesApart) => b = 0
    BY DEF StatsInv
  <2>2. SumFunction([n \in DOMAIN Stats.levels |-> Stats.levels[n].bytes])
          = TotalSize(levels)
    <3>1. [n \in DOMAIN Stats.levels |-> Stats.levels[n].bytes]
            = [n \in {f.level : f \in levels} |->
                  TotalSize({f \in levels : f.level = n})]
      BY DEF Stats, LevelStats
    <3>2. IsFiniteSet(levels)
      BY DEF StatsInv, IndInv, TablesFinite
    <3> QED
      BY <3>1, <3>2, BytesByLevel
  <2>3. /\ Stats.sst_count = Cardinality(levels)
        /\ Stats.compactions_completed = metrics.compactions
        /\ Stats.full_compactions = metrics.full_compactions
        /\ Stats.memtable_entries = Cardinality(KeysOf(memtable))
        /\ Stats.wal_size = Len(wal)
    BY DEF Stats, SstCount
  <2>4. SumFunction(Stats.compactions_by_level)
          = SumFunction(metrics.compactions_by_level)
    <3>1. metrics.compactions_by_level \in Seq(Nat)
      BY DEF StatsInv, StatsKnown, Metrics
    <3> QED
      BY <3>1, CountsShown DEF Stats
  <2>5. Cardinality(levels) + 0 + i
          = Cardinality(loaded) + (nextId - IdAfter(loaded)) - metrics.input_files
    <3>1. levels \cup job.outputs = levels
      BY <2>1 DEF NoJob
    <3> QED
      BY <2>1, <2>12, <3>1 DEF Ledger, FilesAccounted
  <2>6. Cardinality(levels) \in Nat /\ Cardinality(KeysOf(memtable)) \in Nat
    BY EntriesCount, FS_CardinalityType DEF StatsInv, IndInv, TablesFinite
  <2>8. ~FailedAt(BytesApart) =>
            TotalSize(levels) = TotalSize(loaded) + metrics.bytes_flushed
                                  - metrics.bytes_read + metrics.bytes_written
    <3>1. TotalSize(levels) + b = TotalSize(loaded) + metrics.bytes_flushed
                                    - metrics.bytes_read + metrics.bytes_written
      BY <2>1, <2>12 DEF Ledger, BytesAccounted
    <3>2. TotalSize(levels) \in Nat
      BY TotalSizeIs DEF StatsInv, IndInv, TablesFinite
    <3>3. b = 0 => TotalSize(levels) + b = TotalSize(levels)
      BY <3>2
    <3> QED
      BY <2>12, <3>1, <3>3
  <2>9. metrics.compactions
          = metrics.full_compactions + SumFunction(metrics.compactions_by_level)
    BY <2>12 DEF Ledger, JobsAccounted
  <2>10. FailedAt(EntriesApart) \/ Stats.memtable_entries <= Stats.wal_size
    <3> SUFFICES ASSUME ~FailedAt(EntriesApart)
                 PROVE  Stats.memtable_entries <= Stats.wal_size
      OBVIOUS
    <3>1. Cardinality(KeysOf(memtable)) + 0 <= Len(wal)
      BY DEF StatsInv, EntriesLogged, Recovering
    <3> QED
      BY <2>3, <2>6, <3>1
  <2>11. listed <= known /\ (~Fired => listed = known)
    <3>1. metrics.input_files \in Nat
      BY <2>1 DEF Metrics
    <3>2. PICK start \in Nat, given \in Int :
              start = Cardinality(loaded) /\ given = nextId - IdAfter(loaded)
      BY FS_CardinalityType, IdAfterType DEF StatsInv, StatsKnown, IndInv, TypeOK
    <3>3. Stats.sst_count + 0 + i = start + given - metrics.input_files
      BY <2>3, <2>5, <3>2
    <3>4. Stats.sst_count \in Nat /\ listed = Stats.sst_count + metrics.input_files
          /\ known = start + given
      BY <2>3, <2>6, <3>2
    <3> HIDE DEF listed, known
    <3>5. listed + i = known
      BY <3>1, <3>3, <3>4
    <3> QED
      BY <2>12, <3>1, <3>4, <3>5
  <2> QED
    BY <2>2, <2>3, <2>4, <2>8, <2>9, <2>10, <2>11 DEF StatsExplainLevels
<1> QED
  BY <1>1, <1>2, <1>3, PTL DEF ObservedSpec
=============================================================================
