---------------------------- MODULE MCIterators ----------------------------
(***************************************************************************)
(* Values for the constants of Iterators that a .cfg file cannot write.    *)
(***************************************************************************)
EXTENDS Iterators

Keys == {1, 2, 3}

\* A block holds one record or two; two short ones fill it exactly.
Lengths == [k \in Keys |-> IF k = 2 THEN 2 ELSE 1]
Values == {"a", "b", "c"}
ValueLengths == [v \in Values |-> IF v = "b" THEN 4 ELSE 1]
Epochs == [n \in 0 .. 2 |-> CASE n = 0 -> "a" [] n = 1 -> "b" [] n = 2 -> "c"]

\* Keys 1 and 3 set the same bits, so that the filter passes one for the
\* other; an even step between the bits of key 2 leaves it few of them.
Crc == [k \in Keys |-> IF k = 2 THEN 5 ELSE 9]
CrcReversed == [k \in Keys |-> IF k = 2 THEN 8 ELSE 3]

\* Some contents make a table too large for its fields: none of these loads.
ASSUME LargeTables == LargeTablesFail
============================================================================
