-------------------------------- MODULE Lsm --------------------------------
(***************************************************************************)
(* The data of the store, with no state: tables, the order in which a read *)
(* consults them, the merge of a compaction and the replay of the log.     *)
(*                                                                         *)
(* A key is a natural number, only so that keys have the order the code    *)
(* gets from comparing strings.  The contents of the memtable and of an    *)
(* SSTable are one and the same kind of thing, a function from keys to     *)
(* entries in which Absent stands for "no record of this key".             *)
(***************************************************************************)
EXTENDS Integers, FiniteSets, Sequences

CONSTANTS
    Key,        \* the keys, a finite set of naturals
    Value,      \* the values a client stores
    Tombstone,  \* the record a delete leaves
    Absent,     \* no record of the key
    None        \* what get returns when the key has no value

ASSUME KeyAssumption == Key \subseteq Nat /\ Key # {} /\ IsFiniteSet(Key)

ASSUME MarkerAssumption ==
    /\ {Tombstone, Absent, None} \cap Value = {}
    /\ Tombstone # Absent /\ Tombstone # None /\ Absent # None

Entry == Value \cup {Tombstone}

Contents == [Key -> Entry \cup {Absent}]

NoContents == [k \in Key |-> Absent]

Table == [id : Nat, level : Nat, contents : Contents]

Record == [key : Key, entry : Entry]

KeysOf(contents) == {k \in Key : contents[k] # Absent}

(***************************************************************************)
(* key_range: the first and the last key of a table.                       *)
(***************************************************************************)
Least(S) == CHOOSE x \in S : \A y \in S : x <= y
Greatest(S) == CHOOSE x \in S : \A y \in S : y <= x

Smallest(table) == Least(KeysOf(table.contents))
Largest(table) == Greatest(KeysOf(table.contents))

(***************************************************************************)
(* Reads look at shallow levels before deep ones and, within a level, at   *)
(* the last file of the vector first.  The vectors are kept sorted by id,  *)
(* so a level is a set of tables and the id gives the order.               *)
(***************************************************************************)
Newer(f, g) ==
    \/ f.level < g.level
    \/ f.level = g.level /\ f.id > g.id

Holding(files, k) == {f \in files : f.contents[k] # Absent}

Newest(files) == CHOOSE f \in files : \A g \in files \ {f} : Newer(f, g)

\* The first record a search of the files finds; the Bloom filter only
\* skips files that do not hold the key.
Lookup(files, k) ==
    IF Holding(files, k) = {}
    THEN Absent
    ELSE Newest(Holding(files, k)).contents[k]

FindPastTombstone(mem, files, k) ==    \* mutant
    IF mem[k] \in Value THEN mem[k] ELSE Lookup(files, k)

\* The search of get and get_inner: memtable first, then the files.
Find(mem, files, k) == IF mem[k] # Absent THEN mem[k] ELSE Lookup(files, k)

\* What the client sees of a record.
Answer(entry) == IF entry \in Value THEN entry ELSE None

(***************************************************************************)
(* A compaction merges its inputs as a read would, newest first, and may   *)
(* drop the tombstones.  It cuts the result into files of n records.       *)
(***************************************************************************)
Merge(files, dropTombstones) ==
    [k \in Key |->
        IF dropTombstones /\ Lookup(files, k) = Tombstone
        THEN Absent
        ELSE Lookup(files, k)]

FirstKeys(contents, n) ==
    {k \in KeysOf(contents) :
        Cardinality({j \in KeysOf(contents) : j < k}) < n}

Only(contents, keys) ==
    [k \in Key |-> IF k \in keys THEN contents[k] ELSE Absent]

(***************************************************************************)
(* Recovery replays the log into a memtable: the last record of a key wins.*)
(***************************************************************************)
Replay(log) ==
    [k \in Key |->
        LET hits == {i \in DOMAIN log : log[i].key = k}
        IN  IF hits = {} THEN Absent ELSE log[Greatest(hits)].entry]
============================================================================
