---------------------------- MODULE DurableStore ----------------------------
(***************************************************************************)
(* What the database promises its client, with no files: a map from keys   *)
(* to values that survives every crash.  A write takes effect at one       *)
(* moment between its call and its return; when it is cut short, by a      *)
(* crash or an error, it may or may not have taken effect; nothing else    *)
(* changes the map.                                                        *)
(***************************************************************************)
EXTENDS Lsm

VARIABLES
    store,    \* the value a reader finds now, or would find after a crash
    request   \* the write under way

NoRequest == [key |-> -1, entry |-> Absent, existed |-> FALSE, applied |-> FALSE]

Init ==
    /\ store = [k \in Key |-> None]
    /\ request = NoRequest

\* delete answers whether the key had a value when it was called.
Begin(k, entry) ==
    /\ request = NoRequest
    /\ request' = [key |-> k, entry |-> entry, applied |-> FALSE,
                   existed |-> entry = Tombstone /\ store[k] # None]
    /\ UNCHANGED store

Apply ==
    /\ request # NoRequest
    /\ ~request.applied
    /\ store' = [store EXCEPT ![request.key] = Answer(request.entry)]
    /\ request' = [request EXCEPT !.applied = TRUE]

Reply ==
    /\ request.applied
    /\ request' = NoRequest
    /\ UNCHANGED store

\* A crash or an error.
CutShort ==
    /\ request # NoRequest
    /\ request' = NoRequest
    /\ UNCHANGED store

Next ==
    \/ \E k \in Key, entry \in Entry : Begin(k, entry)
    \/ Apply \/ Reply \/ CutShort

Spec == Init /\ [][Next]_<<store, request>>
=============================================================================
