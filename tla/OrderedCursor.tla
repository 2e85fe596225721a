--------------------------- MODULE OrderedCursor ---------------------------
(***************************************************************************)
(* What range() promises: a cursor over the keys that were live when it    *)
(* was opened, in ascending order, whatever is written afterwards.  The    *)
(* start bound only says where the cursor starts: seek may go anywhere.    *)
(* The end bound holds wherever the cursor is.                             *)
(***************************************************************************)
EXTENDS Integers

CONSTANTS
    Key, Value, None,
    BoundKeys  \* the keys used in range bounds

VARIABLES
    store,     \* the value of each key, None for no value
    snapshot,  \* the store as it was when the cursor was opened
    upper,     \* the end bound
    at,        \* the live key the cursor is at, NoKey past the last one
    shown      \* what the client sees: <<key, value>>, or <<>> past the end

vars == <<store, snapshot, upper, at, shown>>

NoKey == -1
Unbounded == [kind |-> "unbounded", key |-> NoKey]

Bound == {Unbounded} \cup [kind : {"included", "excluded"}, key : BoundKeys]

Above(bound, k) ==
    CASE bound.kind = "unbounded" -> TRUE
      [] bound.kind = "included"  -> k >= bound.key
      [] bound.kind = "excluded"  -> k > bound.key

Below(bound, k) ==
    CASE bound.kind = "unbounded" -> TRUE
      [] bound.kind = "included"  -> k <= bound.key
      [] bound.kind = "excluded"  -> k < bound.key

Live(map) == {k \in Key : map[k] # None}

First(keys) ==
    IF keys = {} THEN NoKey ELSE CHOOSE k \in keys : \A j \in keys : k <= j

MoveTo(k) ==
    /\ at' = k
    /\ shown' = IF k # NoKey /\ Below(upper', k)
                THEN <<k, snapshot'[k]>>
                ELSE <<>>

Init ==
    /\ store = [k \in Key |-> None]
    /\ snapshot = store
    /\ upper = Unbounded /\ at = NoKey /\ shown = <<>>

Write(k, v) ==
    /\ UNCHANGED <<upper, at, shown, snapshot>>
    /\ store' = [store EXCEPT ![k] = v]

OpenRange(start, end) ==
    /\ upper' = end
    /\ snapshot' = store
    /\ MoveTo(First({k \in Live(store) : Above(start, k)}))
    /\ UNCHANGED store

Seek(k) ==
    /\ MoveTo(First({j \in Live(snapshot) : j >= k}))
    /\ UNCHANGED <<upper, snapshot, store>>

SeekToFirst ==
    /\ MoveTo(First(Live(snapshot)))
    /\ UNCHANGED <<upper, snapshot, store>>

Advance ==
    /\ at # NoKey
    /\ MoveTo(First({j \in Live(snapshot) : j > at}))
    /\ UNCHANGED <<upper, snapshot, store>>

Next ==
    \/ Advance
    \/ SeekToFirst
    \/ \E k \in Key : Seek(k)
    \/ \E start, end \in Bound : OpenRange(start, end)
    \/ \E k \in Key, v \in Value \cup {None} : Write(k, v)

Spec == Init /\ [][Next]_vars
============================================================================
