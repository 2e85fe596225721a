----------------------------- MODULE Iterators -----------------------------
(***************************************************************************)
(* Reading in key order (iter.rs): a cursor per source, the merge of them, *)
(* and the range iterator a client holds while the database goes on        *)
(* changing underneath it.  The database is a memtable and the tables of   *)
(* its levels, newest first, as range_iterator lines them up; flush and    *)
(* full compaction replace tables, and a compaction reads its inputs       *)
(* through the same merge.                                                 *)
(***************************************************************************)
EXTENDS SSTable

CONSTANTS
    Epoch,       \* the value the client writes between two flushes
    BoundKeys,   \* the keys the client uses in range bounds
    MaxFlushes,  \* bound: tables written from the memtable
    MaxWrites    \* bound: sets and deletes

ASSUME EpochAssumption ==
    /\ MaxFlushes \in Nat
    /\ MaxWrites \in Nat
    /\ Epoch \in [0 .. MaxFlushes -> Value]
    /\ BoundKeys \subseteq Key

VARIABLES
    memtable,  \* the memtable
    tables,    \* the loaded tables, newest first
    range,     \* the RangeIterator the client holds
    \* History: the value each key was last given, the same when the range
    \* was opened, and the numbers of flushes and writes for the bounds.
    store, view, flushes, writes

vars == <<memtable, tables, range, store, view, flushes, writes>>

-----------------------------------------------------------------------------
\* One source: its blocks as read_block gives them, and a position.  The
\* memtable's entries are copied and form a single block.  A block that does
\* not decode counts as empty.

MemtableIterator(contents) ==
    [firsts |-> <<>>, blocks |-> <<RecordsOf(contents)>>,
     block |-> 1, index |-> 1]

SSTableIterator(t) ==
    [firsts |-> [i \in DOMAIN t.index |-> t.index[i].first_key],
     blocks |-> [i \in DOMAIN t.blocks |->
                    IF t.blocks[i] = Garbage THEN <<>> ELSE t.blocks[i]],
     block |-> 1, index |-> 1]

Entries(c) == c.blocks[c.block]
HasEntry(c) == c.index <= Len(Entries(c))
KeyAt(c) == Entries(c)[c.index].key
EntryAt(c) == Entries(c)[c.index].entry

\* Past the end of a block the first later block with a record is loaded.
EnsureEntry(c) ==
    LET later == {b \in c.block + 1 .. Len(c.blocks) : c.blocks[b] # <<>>}
    IN  IF HasEntry(c) \/ c.block = Len(c.blocks)
        THEN c
        ELSE [c EXCEPT !.block = IF later = {} THEN Len(c.blocks) ELSE Least(later),
                       !.index = 1]

ToFirst(c) == EnsureEntry([c EXCEPT !.block = 1, !.index = 1])

BlockFor(c, target) ==
    Greatest({1} \cup {i \in DOMAIN c.firsts :
                         \A j \in 1 .. i : c.firsts[j] <= target})

ToTarget(c, target) ==
    LET b == BlockFor(c, target)
    IN  EnsureEntry([c EXCEPT !.block = b,
                              !.index = 1 + Cardinality({i \in DOMAIN c.blocks[b] :
                                               c.blocks[b][i].key < target})])

Forward(c) ==
    EnsureEntry(IF HasEntry(c) THEN [c EXCEPT !.index = @ + 1] ELSE c)

-----------------------------------------------------------------------------
\* The merge: of the sources at the smallest key the first one counts, and
\* advancing moves all of them past it.

AtEntry(children) == {i \in DOMAIN children : HasEntry(children[i])}

Exhausted(children) == AtEntry(children) = {}

SmallestSource(children) ==
    CHOOSE i \in AtEntry(children) : \A j \in AtEntry(children) :
        \/ KeyAt(children[i]) < KeyAt(children[j])
        \/ KeyAt(children[i]) = KeyAt(children[j]) /\ i <= j

MergedKey(children) == KeyAt(children[SmallestSource(children)])
MergedEntry(children) == EntryAt(children[SmallestSource(children)])

SkipSource(children, key) ==    \* mutant: older records of the key stay
    [children EXCEPT ![SmallestSource(children)] = Forward(@)]

SkipKey(children, key) ==
    [i \in DOMAIN children |->
        IF HasEntry(children[i]) /\ KeyAt(children[i]) = key
        THEN Forward(children[i])
        ELSE children[i]]

Settled(children, keepTombstones) ==
    \/ Exhausted(children)
    \/ keepTombstones
    \/ MergedEntry(children) # Tombstone

\* The loop skips at most every key once.
Normalize(children, keepTombstones) ==
    LET after[n \in 0 .. Cardinality(Key)] ==
            IF n = 0 THEN children
            ELSE LET c == after[n - 1]
                 IN  IF Settled(c, keepTombstones)
                     THEN c
                     ELSE SkipKey(c, MergedKey(c))
    IN  after[Cardinality(Key)]

MergeIterator(children, keepTombstones) ==
    Normalize([i \in DOMAIN children |-> ToFirst(children[i])], keepTombstones)

MergeSeek(children, target, keepTombstones) ==
    Normalize([i \in DOMAIN children |-> ToTarget(children[i], target)],
              keepTombstones)

MergeAdvance(children, keepTombstones) ==
    IF Exhausted(children)
    THEN children
    ELSE Normalize(SkipKey(children, MergedKey(children)), keepTombstones)

-----------------------------------------------------------------------------
\* The range iterator.

NoKey == -1
Unbounded == [kind |-> "unbounded", key |-> NoKey]
Bound == {Unbounded} \cup [kind : {"included", "excluded"}, key : BoundKeys]

NoRange == [children |-> <<>>, end |-> Unbounded]

RangeFrom(children, start) ==
    IF start = Unbounded
    THEN children
    ELSE LET found == MergeSeek(children, start.key, FALSE)
         IN  IF /\ start.kind = "excluded"
                /\ ~Exhausted(found)
                /\ MergedKey(found) = start.key
             THEN MergeAdvance(found, FALSE)
             ELSE found

WithinEnd(r) ==
    CASE r.end.kind = "unbounded" -> TRUE
      [] r.end.kind = "included"  -> MergedKey(r.children) <= r.end.key
      [] r.end.kind = "excluded"  -> MergedKey(r.children) < r.end.key

ValidRange(r) == ~Exhausted(r.children) /\ WithinEnd(r)

\* key and value.
Item(r) ==
    IF ValidRange(r)
    THEN <<MergedKey(r.children), Answer(MergedEntry(r.children))>>
    ELSE <<>>

\* range_iterator: the memtable first, then the tables.
RangeIterator(start, end) ==
    LET children == <<MemtableIterator(memtable)>>
                        \o [i \in DOMAIN tables |-> SSTableIterator(tables[i])]
    IN  [children |-> RangeFrom(MergeIterator(children, FALSE), start),
         end      |-> end]

\* What next gives until it gives None.
Collected(r) ==
    LET after[n \in 0 .. Cardinality(Key)] ==
            IF n = 0 THEN [left |-> r, items |-> <<>>]
            ELSE LET p == after[n - 1]
                 IN  IF ~ValidRange(p.left) THEN p
                     ELSE [left  |-> [p.left EXCEPT
                                        !.children = MergeAdvance(@, FALSE)],
                           items |-> Append(p.items, Item(p.left))]
    IN  after[Cardinality(Key)].items

Scan == Collected(RangeIterator(Unbounded, Unbounded))

-----------------------------------------------------------------------------
\* What a compaction reads through the merge, tombstones kept by the merge
\* and dropped by the job.
MergedContents(sources, dropTombstones) ==
    LET Take(c, out) ==
            IF dropTombstones /\ MergedEntry(c) = Tombstone
            THEN out
            ELSE [out EXCEPT ![MergedKey(c)] = MergedEntry(c)]
        after[n \in 0 .. Cardinality(Key)] ==
            IF n = 0
            THEN [left |-> MergeIterator([i \in DOMAIN sources |->
                                            SSTableIterator(sources[i])], TRUE),
                  out  |-> NoContents]
            ELSE LET p == after[n - 1]
                 IN  IF Exhausted(p.left) THEN p
                     ELSE [left |-> MergeAdvance(p.left, TRUE),
                           out  |-> Take(p.left, p.out)]
    IN  after[Cardinality(Key)].out

-----------------------------------------------------------------------------
\* get: the memtable, then the tables through filter, index and block.
TablesWith(k) == {i \in DOMAIN tables : GetRecord(tables[i], k) # Absent}

Get(k) ==
    Answer(CASE memtable[k] # Absent -> memtable[k]
             [] memtable[k] = Absent /\ TablesWith(k) # {} ->
                    GetRecord(tables[Least(TablesWith(k))], k)
             [] OTHER -> Absent)

\* What a get adds to the counters stats reports: a table it tries is either
\* rejected by its filter or has a block read.
NoCounts == [memtable_hits |-> 0, bloom_rejects |-> 0, block_reads |-> 0]

GetCounts(k) ==
    LET tried  == IF TablesWith(k) = {} THEN DOMAIN tables
                  ELSE 1 .. Least(TablesWith(k))
        passed == {i \in tried : MightContain(tables[i].bloom, k)}
    IN  CASE memtable[k] \in Value     -> [NoCounts EXCEPT !.memtable_hits = 1]
          [] memtable[k] = Tombstone -> NoCounts
          [] OTHER -> [NoCounts EXCEPT !.bloom_rejects = Cardinality(tried \ passed),
                                       !.block_reads = Cardinality(passed)]

-----------------------------------------------------------------------------
Init ==
    /\ memtable = NoContents /\ tables = <<>> /\ range = NoRange
    /\ store = [k \in Key |-> None] /\ view = store
    /\ flushes = 0 /\ writes = 0

WriteShared(k, entry) ==    \* mutant: the range iterates the live memtable
    /\ writes < MaxWrites
    /\ memtable' = [memtable EXCEPT ![k] = entry]
    /\ store' = [store EXCEPT ![k] = Answer(entry)]
    /\ writes' = writes + 1
    /\ range' = IF range = NoRange THEN range
                ELSE [range EXCEPT !.children[1].blocks = <<RecordsOf(memtable')>>]
    /\ UNCHANGED <<tables, view, flushes>>

Write(k, entry) ==
    /\ writes < MaxWrites
    /\ memtable' = [memtable EXCEPT ![k] = entry]
    /\ store' = [store EXCEPT ![k] = Answer(entry)]
    /\ writes' = writes + 1
    /\ UNCHANGED <<tables, range, view, flushes>>

\* A table that does not load fails the flush; memtable and log stay.
Flush ==
    /\ flushes < MaxFlushes
    /\ memtable # NoContents
    /\ LET t == LoadTable(WriteTable(memtable))
       IN  IF t = Garbage
           THEN UNCHANGED <<memtable, tables>>
           ELSE memtable' = NoContents /\ tables' = <<t>> \o tables
    /\ flushes' = flushes + 1
    /\ UNCHANGED <<range, store, view, writes>>

CompactIntoEmpty ==    \* mutant: the last output is written, empty or not
    /\ Len(tables) > 1
    /\ LET t == LoadTable(WriteTable(MergedContents(tables, TRUE)))
       IN  tables' = IF t # Garbage THEN <<t>> ELSE tables
    /\ UNCHANGED <<memtable, range, store, view, flushes, writes>>

CompactFull ==
    /\ Len(tables) > 1
    /\ LET contents == MergedContents(tables, TRUE)
           t        == LoadTable(WriteTable(contents))
       IN  tables' = CASE contents = NoContents -> <<>>
                       [] contents # NoContents /\ t # Garbage -> <<t>>
                       [] OTHER -> tables
    /\ UNCHANGED <<memtable, range, store, view, flushes, writes>>

\* One range is enough: two iterators share nothing that either changes.
OpenRange(start, end) ==
    /\ range = NoRange
    /\ range' = RangeIterator(start, end)
    /\ view' = store
    /\ UNCHANGED <<memtable, tables, store, flushes, writes>>

Move(children) ==
    /\ range # NoRange
    /\ range' = [range EXCEPT !.children = children]
    /\ UNCHANGED <<memtable, tables, store, view, flushes, writes>>

Seek(k) == Move(MergeSeek(range.children, k, FALSE))
SeekToFirst == Move(MergeIterator(range.children, FALSE))
Advance == Move(MergeAdvance(range.children, FALSE))

Next ==
    \/ \E k \in Key : Write(k, Epoch[flushes])
    \/ \E k \in Key : Write(k, Tombstone)
    \/ Flush
    \/ CompactFull
    \/ \E start, end \in Bound : OpenRange(start, end)
    \/ \E k \in Key : Seek(k)
    \/ SeekToFirst
    \/ Advance

Spec == Init /\ [][Next]_vars

-----------------------------------------------------------------------------
\* Properties.

TypeOK ==
    /\ memtable \in Contents
    /\ \A i \in DOMAIN tables :
         /\ tables[i].index # <<>>
         /\ tables[i].block_count = Len(tables[i].index)
    /\ range.end \in Bound
    /\ \A i \in DOMAIN range.children :
         LET c == range.children[i]
         IN  c.block \in DOMAIN c.blocks /\ c.index \in 1 .. Len(Entries(c)) + 1
    /\ flushes \in 0 .. MaxFlushes /\ writes \in 0 .. MaxWrites

\* A table whose last offset fits its field is read back exactly as it was
\* written: it loads, every block of it decodes, the filter rejects none of
\* its keys, get finds every record and no other, and the key range the
\* planner goes by is that of its records.
ReadsBack ==
    LET file == WriteTable(memtable)
        t    == LoadTable(file)
    IN  memtable # NoContents /\ Fits(file) =>
            /\ t # Garbage
            /\ EntriesOf(t) = ToSet(RecordsOf(memtable))
            /\ \A k \in Key : GetRecord(t, k) = memtable[k]
            /\ FirstKey(t) = Least(KeysOf(memtable))
            /\ LastKey(t) = Greatest(KeysOf(memtable))

\* get answers with the last write of every key, whichever of memtable and
\* tables holds it, and whatever keys share bits in the filters; a value it
\* finds has been counted as a hit of the memtable or the read of a block.
GetsLastWrite ==
    \A k \in Key :
        /\ Get(k) = store[k]
        /\ store[k] # None =>
                GetCounts(k).memtable_hits + GetCounts(k).block_reads > 0

\* keys and scan, which go through the merge and not through the filters,
\* list the same: every live key once, in order, with its last value.
ScanIsComplete ==
    LET live == Ascending({k \in Key : store[k] # None})
    IN  Scan = [i \in DOMAIN live |-> <<live[i], store[live[i]]>>]

\* What a compaction reads through the iterators is the merge the planner's
\* model takes it to be: the newest record of every key, no record dropped at
\* the end of a block.  And it is all there is to read: were the tables replaced
\* by it, every key would still have its last value, so that no block of them
\* was skipped because it does not decode.
AsFile(i) ==
    [id |-> Len(tables) - i, level |-> 0,
     contents |-> [k \in Key |-> GetRecord(tables[i], k)]]

ValueOver(contents, k) ==
    Answer(IF memtable[k] # Absent THEN memtable[k] ELSE contents[k])

CompactionReadsAll ==
    \A drop \in BOOLEAN :
        LET read == MergedContents(tables, drop)
        IN  /\ read = Merge({AsFile(i) : i \in DOMAIN tables}, drop)
            /\ \A k \in Key : ValueOver(read, k) = store[k]

\* The range iterator is a cursor over the database as it was when range was
\* called: later writes, flushes and compactions, which delete the tables it
\* reads, do not show.
Cursor == INSTANCE OrderedCursor WITH
    snapshot <- view,
    upper    <- range.end,
    at       <- IF Exhausted(range.children) THEN NoKey
                ELSE MergedKey(range.children),
    shown    <- Item(range)

ImplementsCursor == Cursor!Spec
============================================================================
