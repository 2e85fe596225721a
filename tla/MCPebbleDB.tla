----------------------------- MODULE MCPebbleDB -----------------------------
(***************************************************************************)
(* Values for the constants of PebbleDB that a .cfg file cannot write.     *)
(***************************************************************************)
EXTENDS PebbleDB

TwoKeys == {1, 2}
ThreeKeys == {1, 2, 3}

NoErrors == {}

\* Calls whose failure leaves the files and the handle in step, or out of
\* step in a way the next flush mends, as long as a job has one output.
HarmlessErrors ==
    {"BeforeWalAppend", "AfterWalFsync", "AfterMemtableUpdate",
     "BeforeSstableCreation", "BeforeAtomicRename"}

\* wal.truncate fails after the flushed table is in place.
TruncationError == {"BeforeWalTruncation"}
=============================================================================
