------------------------------ MODULE SSTable ------------------------------
(***************************************************************************)
(* The file format of a table (sstable.rs, bloom.rs): how the records are  *)
(* cut into blocks, the index and the Bloom filter that go with them, and  *)
(* what a reader makes of the file.                                        *)
(*                                                                         *)
(* A file is a set of segments, each at an offset.  Whatever is read from  *)
(* a place where no segment of that size begins is Garbage: the model      *)
(* takes it that such bytes do not decode.                                 *)
(***************************************************************************)
EXTENDS Lsm, SequencesExt, Functions

CONSTANTS
    KeyBytes,    \* the length of each key
    ValueBytes,  \* the length of each value
    BlockSize,   \* write_sstable_with_block_size
    Width,       \* 2^32: offsets, sizes and counts are stored modulo this
    Hash1,       \* crc32 of each key
    Hash2,       \* crc32 of each key read backwards
    Garbage      \* bytes that do not decode

\* Keys are strings: only one of them can be empty.
ASSUME FormatAssumption ==
    /\ KeyBytes \in [Key -> Nat]
    /\ \A j, k \in Key : KeyBytes[j] = 0 /\ KeyBytes[k] = 0 => j = k
    /\ ValueBytes \in [Value -> Nat]
    /\ BlockSize \in Nat
    /\ Width \in Nat /\ Width > 64
    /\ Hash1 \in [Key -> Nat]
    /\ Hash2 \in [Key -> Nat]

IndexEntry == [first_key : Key, block_offset : Nat, block_size : Nat]
Filter == [num_bits : Nat, num_hashes : Nat, bits : SUBSET Nat]

\* What decodes, as a filter, a block, an index or a table, is not Garbage.
ASSUME GarbageAssumption ==
    /\ Garbage \notin Filter
    /\ Garbage \notin [num_bits : Nat, num_hashes : Nat, bits : SUBSET Nat,
                        size : Nat]
    /\ \A n \in 1 .. Cardinality(Key) :
         /\ Garbage \notin [1 .. n -> Record]
         /\ Garbage \notin [1 .. n -> IndexEntry]
         /\ Garbage \notin [index : [1 .. n -> IndexEntry],
                             blocks : [1 .. n -> Seq(Record)],
                             bloom : Filter, block_count : Nat]

HeaderSize == 20
FooterSize == 20

U32(n) == n % Width

-----------------------------------------------------------------------------
\* The Bloom filter, one percent of false positives: -ln(0.01) / ln(2)^2
\* bits a key, and ln(2) hashes for each of them.

OptimalBits(n) == Greatest({64, (n * 9585059 + 999999) \div 1000000})

OptimalHashes(m, n) ==
    LET k == (m * 693147 + n * 500000) \div (n * 1000000)
    IN  Least({30, Greatest({1, k})})

BitOf(filter, key, i) == (Hash1[key] + i * Hash2[key]) % filter.num_bits

BitsOf(filter, key) ==
    {BitOf(filter, key, i) : i \in 0 .. filter.num_hashes - 1}

\* mutant: the hashes are counted from one here and from zero in insert
MightContainFromOne(filter, key) ==
    {BitOf(filter, key, i) : i \in 1 .. filter.num_hashes} \subseteq filter.bits

MightContain(filter, key) == BitsOf(filter, key) \subseteq filter.bits

NewFilter(n) ==
    [num_bits   |-> OptimalBits(n),
     num_hashes |-> OptimalHashes(OptimalBits(n), n),
     bits       |-> {}]

\* Every key is inserted; the order does not show in the bits.
FilterOf(keys) ==
    LET empty == NewFilter(Greatest({1, Cardinality(keys)}))
    IN  [empty EXCEPT !.bits = UNION {BitsOf(empty, key) : key \in keys}]

Words(bits) == (bits + 63) \div 64

EncodeFilter(filter) ==
    [num_bits   |-> U32(filter.num_bits),
     num_hashes |-> U32(filter.num_hashes),
     bits       |-> filter.bits,
     size       |-> 8 + 8 * Words(filter.num_bits)]

\* The words the encoding has room for; bits beyond them are not read.
DecodeFilter(data) ==
    IF data = Garbage \/ data.size < 8 + 8 * Words(data.num_bits)
    THEN Garbage
    ELSE [num_bits   |-> data.num_bits,
          num_hashes |-> data.num_hashes,
          bits       |-> {b \in data.bits : b < 64 * Words(data.num_bits)}]

-----------------------------------------------------------------------------
\* Writing a table.

Ascending(keys) ==
    CHOOSE s \in [1 .. Cardinality(keys) -> keys] :
        \A i, j \in DOMAIN s : i < j => s[i] < s[j]

RecordsOf(contents) ==
    LET keys == Ascending(KeysOf(contents))
    IN  [i \in DOMAIN keys |-> [key |-> keys[i], entry |-> contents[keys[i]]]]

RecordSize(r) ==
    9 + KeyBytes[r.key] + (IF r.entry \in Value THEN ValueBytes[r.entry] ELSE 0)

BlockLen(block) == SumFunction([i \in DOMAIN block |-> RecordSize(block[i])])

\* A record that does not fit the current block begins the next one.
AddRecord(blocks, r) ==
    IF blocks # <<>> /\ BlockLen(Last(blocks)) + RecordSize(r) <= BlockSize
    THEN [blocks EXCEPT ![Len(blocks)] = Append(@, r)]
    ELSE Append(blocks, <<r>>)

BlocksOf(contents) ==
    LET records == RecordsOf(contents)
        cut[n \in 0 .. Len(records)] ==
            IF n = 0 THEN <<>> ELSE AddRecord(cut[n - 1], records[n])
    IN  cut[Len(records)]

BlockOffset(blocks, i) ==
    HeaderSize + SumFunction([j \in 1 .. i - 1 |-> BlockLen(blocks[j])])

\* mutant: offsets are counted from the first block, and no block decodes
IndexOfHeadless(blocks) ==
    [i \in DOMAIN blocks |->
        [first_key    |-> Head(blocks[i]).key,
         block_offset |-> U32(BlockOffset(blocks, i) - HeaderSize),
         block_size   |-> U32(BlockLen(blocks[i]))]]

IndexOf(blocks) ==
    [i \in DOMAIN blocks |->
        [first_key    |-> Head(blocks[i]).key,
         block_offset |-> U32(BlockOffset(blocks, i)),
         block_size   |-> U32(BlockLen(blocks[i]))]]

IndexLen(index) ==
    SumFunction([i \in DOMAIN index |-> 12 + KeyBytes[index[i].first_key]])

Segment(at, size, holds) == [at |-> at, size |-> size, holds |-> holds]

WriteTable(contents) ==
    LET blocks      == BlocksOf(contents)
        index       == IndexOf(blocks)
        filter      == EncodeFilter(FilterOf(KeysOf(contents)))
        indexOffset == BlockOffset(blocks, Len(blocks) + 1)
        bloomOffset == indexOffset + IndexLen(index)
    IN  [segments     |-> {Segment(BlockOffset(blocks, i), BlockLen(blocks[i]),
                                   blocks[i]) : i \in DOMAIN blocks}
                          \cup {Segment(indexOffset, IndexLen(index), index),
                                Segment(bloomOffset, filter.size, filter)},
         size         |-> bloomOffset + filter.size + FooterSize,
         record_count |-> U32(Cardinality(KeysOf(contents))),
         block_count  |-> U32(Len(blocks)),
         index_offset |-> U32(indexOffset),
         index_size   |-> U32(IndexLen(index)),
         bloom_offset |-> U32(bloomOffset),
         bloom_size   |-> U32(filter.size)]

\* Where the filter begins, the last offset of a file, fits its field.
Fits(file) == file.size - FooterSize - file.bloom_size < Width

-----------------------------------------------------------------------------
\* Reading it.

BytesAt(segments, at, size) ==
    IF \E s \in segments : s.at = at /\ s.size = size
    THEN (CHOOSE s \in segments : s.at = at /\ s.size = size).holds
    ELSE Garbage

\* load: the footer leads to the index and the filter.  The bytes stay in
\* memory from here on, so what read_block makes of each block is settled.
\* Length, magic, version and checksum, which a file as it was written passes
\* and a damaged one need not, are left out.
LoadTable(file) ==
    LET index == BytesAt(file.segments, file.index_offset, file.index_size)
        bloom == DecodeFilter(BytesAt(file.segments, file.bloom_offset,
                                      file.bloom_size))
    IN  IF Garbage \in {index, bloom}
        THEN Garbage
        ELSE [index       |-> index,
              blocks      |-> [i \in DOMAIN index |->
                                 BytesAt(file.segments, index[i].block_offset,
                                         index[i].block_size)],
              bloom       |-> bloom,
              block_count |-> file.block_count]

\* A hypothesis of the theorems: a table too large for its fields does not
\* load.  What a wrapped offset of its footer leads to is neither an index
\* nor a filter.
LargeTablesFail ==
    \A contents \in Contents \ {NoContents} :
        \/ Fits(WriteTable(contents))
        \/ LoadTable(WriteTable(contents)) = Garbage

\* The last block of the leading ones that begin at or before the key.
FindBlock(t, key) ==
    Greatest({1} \cup {i \in DOMAIN t.index :
                         \A j \in 1 .. i : t.index[j].first_key <= key})

\* The scan of a block stops at the first record past the key.
SearchBlock(block, key) ==
    LET hits == {i \in DOMAIN block :
                    block[i].key = key /\ \A j \in 1 .. i : block[j].key <= key}
    IN  IF hits = {} THEN Absent ELSE block[Least(hits)].entry

GetRecord(t, key) ==
    LET block == t.blocks[FindBlock(t, key)]
    IN  IF block = Garbage \/ ~MightContain(t.bloom, key)
        THEN Absent
        ELSE SearchBlock(block, key)

LastKeyOfFirstBlock(t) == Last(t.blocks[1]).key    \* mutant
LastKey(t) == Last(t.blocks[Len(t.index)]).key
FirstKey(t) == t.index[1].first_key

\* entries: every record of every block that decodes.
EntriesOf(t) ==
    UNION {ToSet(block) : block \in ToSet(t.blocks) \ {Garbage}}
============================================================================
