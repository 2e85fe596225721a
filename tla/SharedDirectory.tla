--------------------------- MODULE SharedDirectory ---------------------------
(***************************************************************************)
(* A second process on the directory of an open handle: the command line   *)
(* tool (cli.rs) opens the database, runs one command and exits, and no    *)
(* lock keeps it from doing so while a first process has the directory     *)
(* open.  Here its command only reads (get, exists, keys, scan, stats), so *)
(* all it does to the directory is what open_with_options does.            *)
(*                                                                         *)
(* Each phase of its open is one step.  The log is measured in records,    *)
(* which are taken to be equally long.                                     *)
(***************************************************************************)
EXTENDS PebbleDB

VARIABLES
    other,    \* how far the second process has got
    scanned   \* the valid_len its scan of the log returned

sharedVars == <<vars, other, scanned>>

-----------------------------------------------------------------------------
\* The first process.

\* The other process has removed the file that is to be renamed.
TmpLost ==
    \/ pc = "rename" /\ file.id \notin tmp
    \/ pc = "marking" /\ MarkerTmp \notin tmp

\* rename fails, and the operation with it.
RenameFails ==
    /\ TmpLost
    /\ pc' = "idle"
    /\ op' = NoOp /\ file' = NoFile /\ job' = NoJob
    /\ UNCHANGED <<directory, handle, history>>

\* It opens the directory only while the other process does not.
First ==
    /\ \/ Call \/ Close
       \/ Open /\ other = "out"
       \/ Continue /\ ~TmpLost
       \/ RenameFails
    /\ UNCHANGED <<other, scanned>>

-----------------------------------------------------------------------------
\* The other process: open_with_options, one reading command, exit.

OtherStarts ==
    /\ other = "out"
    /\ pc \notin Recovering
    /\ other' = "clean"
    /\ UNCHANGED <<vars, scanned>>

OtherRemovesTmp ==
    /\ other = "clean"
    /\ tmp' = {}
    /\ other' = "finish"
    /\ UNCHANGED <<disk, marker, wal, torn, handle, pc, control, history, scanned>>

OtherFinishesMerge ==
    /\ other = "finish"
    /\ disk' = IF OutputsPresent THEN disk \ Obsolete ELSE disk
    /\ marker' = NoMarker
    /\ other' = "scan"
    /\ UNCHANGED <<tmp, wal, torn, handle, pc, control, history, scanned>>

OtherScans ==
    /\ other = "scan"
    /\ scanned' = Len(wal)
    /\ other' = "cut"
    /\ UNCHANGED vars

\* The length of the file is asked for after the scan: what is longer than
\* the scan found it is taken for a torn tail.
OtherCuts ==
    /\ other = "cut"
    /\ IF Len(wal) > scanned \/ (Len(wal) = scanned /\ torn)
       THEN wal' = SubSeq(wal, 1, scanned) /\ torn' = FALSE
       ELSE UNCHANGED <<wal, torn>>
    /\ other' = "ready"
    /\ UNCHANGED <<disk, tmp, marker, handle, pc, control, history, scanned>>

\* A file it has listed has vanished before it comes to it: open fails.
OtherFails ==
    /\ other \in {"clean", "finish", "scan"}
    /\ other' = "out"
    /\ UNCHANGED <<vars, scanned>>

OtherReads ==
    /\ other = "ready"
    /\ other' = "out"
    /\ scanned' = 0
    /\ UNCHANGED vars

Other ==
    \/ OtherStarts \/ OtherRemovesTmp \/ OtherFinishesMerge
    \/ OtherScans \/ OtherCuts \/ OtherFails \/ OtherReads

-----------------------------------------------------------------------------
SharedSpec ==
    /\ Init /\ other = "out" /\ scanned = 0
    /\ [][First \/ Other]_sharedVars
=============================================================================
