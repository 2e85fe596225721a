---------------------------- MODULE MCObservedDB ----------------------------
(***************************************************************************)
(* Values for the constants of ObservedDB that a .cfg file cannot write.   *)
(***************************************************************************)
EXTENDS ObservedDB

ThreeKeys == {1, 2, 3}

\* Errors the second time and aborts the first time a point is reached.
AllFaults ==
    [point : AllPoints, at : {2}, mode : {"Error"}]
        \cup [point : AllPoints, at : {1}, mode : {"Abort"}]

\* Nothing has been renamed into place when these fail.
BeforeAnyRename == {"BeforeWalAppend", "AfterWalFsync", "AfterMemtableUpdate"}
============================================================================
