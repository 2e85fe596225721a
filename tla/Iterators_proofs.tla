--------------------------- MODULE Iterators_proofs ---------------------------
(***************************************************************************)
(* Theorems about reading in key order, and about the file format it rests *)
(* on.                                                                     *)
(*                                                                         *)
(* They are built from the bottom up: numbers and sums; the records cut    *)
(* into blocks; the file and what a reader makes of it (Loads, GetsRecord, *)
(* TableEnds); one cursor (At); the merge of several (AllAt, MergedIs);    *)
(* the loops of the merge (NormalizeSkips, MergedContentsIs, CollectedIs); *)
(* the state (IInv) and at last what the runs check.                       *)
(*                                                                         *)
(* A cursor, or a merge of cursors, is described by a number x: it has     *)
(* passed the keys below x and no other.  Contents are functions, so a     *)
(* stack of sources reads as one of them, Overlay, and the invariant says  *)
(* that the memtable over the tables answers what the client stored.       *)
(***************************************************************************)
EXTENDS Iterators, LsmTheorems

-----------------------------------------------------------------------------
(***************************************************************************)
(* Numbers and sums.                                                       *)
(***************************************************************************)

\* What does not reach the width of its field is stored as it is.
LEMMA FitsField ==
    ASSUME NEW n \in Nat, n < Width
    PROVE  U32(n) = n
BY FormatAssumption DEF U32

\* A stored number is a number, and no larger than the one given.
LEMMA FieldType ==
    ASSUME NEW n \in Nat
    PROVE  U32(n) \in Nat /\ U32(n) <= n
BY FormatAssumption DEF U32

\* Quotients and remainders.
LEMMA DivType ==
    ASSUME NEW a \in Nat, NEW b \in Nat \ {0}
    PROVE  a \div b \in Nat
OBVIOUS

\* A remainder is less than what it is the remainder by.
LEMMA ModType ==
    ASSUME NEW a \in Nat, NEW b \in Nat \ {0}
    PROVE  a % b \in 0 .. b - 1
OBVIOUS

\* A sequence of numbers and its sum: one more at the end, a greater one at
\* the end, and numbers none of which is less than c.
LEMMA LongerSum ==
    ASSUME NEW n \in Nat, NEW f \in [1 .. n -> Int], NEW g \in [1 .. n + 1 -> Int],
           SameOn(f, g, 1 .. n)
    PROVE  /\ SumFunction(f) \in Int
           /\ SumFunction(g) = SumFunction(f) + g[n + 1]
<1>1. IsFiniteSet(1 .. n) /\ IsFiniteSet(1 .. n + 1)
  BY FS_Interval
<1>2. (1 .. n + 1) \ {n + 1} = 1 .. n /\ n + 1 \in 1 .. n + 1
  OBVIOUS
<1>3. SumFunction(f) = SumFunctionOnSet(f, 1 .. n)
      /\ SumFunction(g) = SumFunctionOnSet(g, 1 .. n + 1)
  BY DEF SumFunction
<1>4. SumFunctionOnSet(g, 1 .. n + 1) = g[n + 1] + SumFunctionOnSet(g, 1 .. n)
  <2>1. \A x \in 1 .. n + 1 :
          SumFunctionOnSet(g, 1 .. n + 1)
            = g[x] + SumFunctionOnSet(g, (1 .. n + 1) \ {x})
    BY <1>1, SumOfSet
  <2> QED
    BY <1>2, <2>1
<1>5. SumFunctionOnSet(f, 1 .. n) = SumFunctionOnSet(g, 1 .. n)
  BY <1>1, SumOfSet DEF SameOn
<1>6. SumFunctionOnSet(f, 1 .. n) \in Int /\ g[n + 1] \in Int
  BY <1>1, <1>2, SumOfSet
<1> QED
  BY <1>3, <1>4, <1>5, <1>6

\* Nothing adds up to zero.
LEMMA EmptySum == SumFunction(<<>>) = 0
<1>1. DOMAIN <<>> = {}
  OBVIOUS
<1> QED
  BY <1>1, SumOfSet, FS_EmptySet DEF SumFunction

-----------------------------------------------------------------------------
(***************************************************************************)
(* The records of a table, in ascending order of their keys.               *)
(***************************************************************************)

IsAscending(s) == \A i, j \in DOMAIN s : i < j => s[i] < s[j]

\* A finite set of numbers can be put in order.
LEMMA AscendingExists ==
    ASSUME NEW S \in SUBSET Nat, IsFiniteSet(S)
    PROVE  \E s \in [1 .. Cardinality(S) -> S] : IsAscending(s)
<1> DEFINE T == {n \in Nat : \A R \in SUBSET S :
                    Cardinality(R) = n => \E s \in [1 .. n -> R] : IsAscending(s)}
<1>1. 0 \in T
  <2>1. \A R : <<>> \in [1 .. 0 -> R] /\ IsAscending(<<>>)
    BY DEF IsAscending
  <2> QED
    BY <2>1
<1>2. ASSUME NEW n \in Nat, n \in T PROVE n + 1 \in T
  <2>1. ASSUME NEW R \in SUBSET S, Cardinality(R) = n + 1
        PROVE  \E s \in [1 .. n + 1 -> R] : IsAscending(s)
    <3>1. IsFiniteSet(R) /\ R # {} /\ R \in SUBSET Nat
      <4>1. IsFiniteSet(R) /\ R \in SUBSET Nat
        BY FS_Subset
      <4>2. R # {}
        BY <2>1, FS_EmptySet
      <4> QED
        BY <4>1, <4>2
    <3>2. PICK g \in R : \A x \in R : x <= g
      BY <3>1, GreatestOfFinite
    <3>3. Cardinality(R \ {g}) = n
      <4>1. Cardinality(R \ {g}) = Cardinality(R) - 1
        BY <3>1, FS_RemoveElement
      <4> QED
        BY <2>1, <4>1
    <3>4. PICK s \in [1 .. n -> R \ {g}] : IsAscending(s)
      BY <1>2, <3>3
    <3> DEFINE t == [i \in 1 .. n + 1 |-> IF i = n + 1 THEN g ELSE s[i]]
    <3>5. t \in [1 .. n + 1 -> R]
      OBVIOUS
    <3>6. ASSUME NEW i \in 1 .. n + 1, NEW j \in 1 .. n + 1, i < j
          PROVE  t[i] < t[j]
      <4>1. i \in 1 .. n /\ t[i] = s[i] /\ s[i] \in R \ {g} /\ s[i] < g
        <5>1. i \in 1 .. n /\ i # n + 1
          BY <3>6
        <5>2. t[i] = s[i] /\ s[i] \in R /\ s[i] # g
          BY <5>1
        <5>3. s[i] \in Nat /\ g \in Nat /\ s[i] <= g
          BY <3>1, <3>2, <5>2
        <5> QED
          BY <5>1, <5>2, <5>3
      <4>2. CASE j = n + 1
        BY <4>1, <4>2
      <4>3. CASE j # n + 1
        BY <3>4, <3>6, <4>1, <4>3 DEF IsAscending
      <4> QED
        BY <4>2, <4>3
    <3>7. IsAscending(t)
      <4> HIDE DEF t
      <4> QED
        BY <3>5, <3>6 DEF IsAscending
    <3> HIDE DEF t
    <3> QED
      BY <3>5, <3>7
  <2> QED
    BY <2>1
<1>3. Cardinality(S) \in Nat /\ S \in SUBSET S
  BY FS_CardinalityType
<1>4. Cardinality(S) \in T
  <2> HIDE DEF T
  <2> QED
    BY <1>1, <1>2, <1>3, CountUp
<1> QED
  BY <1>3, <1>4

\* Ascending lists every key once.
LEMMA AscendingLists ==
    ASSUME NEW S \in SUBSET Nat, IsFiniteSet(S)
    PROVE  /\ Ascending(S) \in [1 .. Cardinality(S) -> S]
           /\ IsAscending(Ascending(S))
           /\ \A x \in S : \E i \in 1 .. Cardinality(S) : Ascending(S)[i] = x
<1>1. PICK s : s = Ascending(S)
  OBVIOUS
<1>2. s \in [1 .. Cardinality(S) -> S] /\ IsAscending(s)
  BY <1>1, AscendingExists DEF Ascending, IsAscending
<1>3. Cardinality(S) \in Nat
  BY FS_CardinalityType
<1>4. s \in Injection(1 .. Cardinality(S), S)
  <2>1. ASSUME NEW i \in 1 .. Cardinality(S), NEW j \in 1 .. Cardinality(S), i # j
        PROVE  s[i] # s[j]
    <3>1. s[i] \in Nat /\ s[j] \in Nat
      BY <1>2
    <3>2. i < j \/ j < i
      BY <1>3, <2>1
    <3> QED
      BY <1>2, <3>1, <3>2 DEF IsAscending
  <2> QED
    BY <1>2, <2>1 DEF Injection, IsInjective
<1>5. Cardinality(1 .. Cardinality(S)) = Cardinality(S)
  BY <1>3, FS_Interval
<1>6. s \in Surjection(1 .. Cardinality(S), S)
  BY <1>4, <1>5, FS_Injection
<1> QED
  BY <1>1, <1>2, <1>6 DEF Surjection

\* The keys of a table or of the memtable are finitely many numbers.
LEMMA KeysAreNumbers ==
    ASSUME NEW E \in Contents
    PROVE  /\ KeysOf(E) \in SUBSET Nat /\ KeysOf(E) \in SUBSET Key
           /\ IsFiniteSet(KeysOf(E))
           /\ Cardinality(KeysOf(E)) \in Nat /\ Cardinality(Key) \in Nat
           /\ Cardinality(KeysOf(E)) <= Cardinality(Key)
           /\ \A k \in KeysOf(E) : E[k] \in Entry
<1>1. KeysOf(E) \in SUBSET Key /\ Key \in SUBSET Nat
  BY KeyAssumption DEF KeysOf
<1>2. IsFiniteSet(KeysOf(E))
      /\ Cardinality(KeysOf(E)) \in Nat /\ Cardinality(Key) \in Nat
      /\ Cardinality(KeysOf(E)) <= Cardinality(Key)
  BY <1>1, KeyAssumption, FS_Subset, FS_CardinalityType
<1>3. \A k \in KeysOf(E) : E[k] \in Entry
  BY DEF KeysOf, Contents
<1> QED
  BY <1>1, <1>2, <1>3

\* RecordsOf lists every record once, in the order of the keys.
LEMMA RecordsInOrder ==
    ASSUME NEW E \in Contents
    PROVE  /\ RecordsOf(E) \in [1 .. Cardinality(KeysOf(E)) -> Record]
           /\ \A i \in DOMAIN RecordsOf(E) :
                /\ RecordsOf(E)[i].key \in KeysOf(E)
                /\ RecordsOf(E)[i].entry = E[RecordsOf(E)[i].key]
           /\ \A i, j \in DOMAIN RecordsOf(E) :
                i < j => RecordsOf(E)[i].key < RecordsOf(E)[j].key
           /\ \A k \in KeysOf(E) : \E i \in DOMAIN RecordsOf(E) : RecordsOf(E)[i].key = k
<1> DEFINE K == KeysOf(E)
           n == Cardinality(K)
<1>1. PICK s : s = Ascending(K)
  OBVIOUS
<1>2. /\ s \in [1 .. n -> K] /\ IsAscending(s)
      /\ \A x \in K : \E i \in 1 .. n : s[i] = x
  BY <1>1, AscendingLists, KeysAreNumbers
<1>3. RecordsOf(E) = [i \in 1 .. n |-> [key |-> s[i], entry |-> E[s[i]]]]
  BY <1>1, <1>2 DEF RecordsOf
<1>4. \A i \in 1 .. n : s[i] \in K /\ s[i] \in Key /\ E[s[i]] \in Entry
  BY <1>2, KeysAreNumbers
<1> HIDE DEF K, n
<1>5. RecordsOf(E) \in [1 .. n -> Record]
  BY <1>3, <1>4 DEF Record
<1> QED
  BY <1>2, <1>3, <1>4, <1>5 DEF IsAscending, K, n

-----------------------------------------------------------------------------
(***************************************************************************)
(* Blocks and their sizes.                                                 *)
(***************************************************************************)

\* A sum of naturals is no less than the last of them.
LEMMA SumAboveLast ==
    ASSUME NEW n \in Nat, NEW f \in [1 .. n -> Nat]
    PROVE  SumFunction(f) \in Nat /\ (n > 0 => SumFunction(f) >= f[n])
<1>1. ASSUME NEW m \in Nat, NEW g \in [1 .. m -> Nat] PROVE SumFunction(g) \in Nat
  <2>1. IsFiniteSet(1 .. m) /\ DOMAIN g = 1 .. m
    BY FS_Interval
  <2> QED
    BY <2>1, SumOfNaturals DEF SumFunction
<1>2. CASE n > 0
  <2> DEFINE m == n - 1
             g == [i \in 1 .. m |-> f[i]]
  <2>1. m \in Nat /\ m + 1 = n /\ g \in [1 .. m -> Nat] /\ g \in [1 .. m -> Int]
        /\ f \in [1 .. m + 1 -> Int] /\ SameOn(g, f, 1 .. m)
    BY <1>2 DEF SameOn
  <2>2. SumFunction(f) = SumFunction(g) + f[n] /\ SumFunction(g) \in Nat
    <3> HIDE DEF g, m
    <3> QED
      BY <1>1, <2>1, LongerSum
  <2>3. f[n] \in Nat
    BY <1>2
  <2> QED
    BY <1>1, <2>2, <2>3
<1>3. SumFunction(f) \in Nat
  BY <1>1
<1> QED
  BY <1>2, <1>3

\* A record takes nine bytes and its key.
LEMMA RecordSizeType ==
    ASSUME NEW r \in Record
    PROVE  RecordSize(r) \in Nat /\ RecordSize(r) >= 9 + KeyBytes[r.key]
           /\ KeyBytes[r.key] \in Nat
<1>1. r.key \in Key /\ r.entry \in Entry
  BY DEF Record
<1>2. KeyBytes[r.key] \in Nat
  BY <1>1, FormatAssumption
<1>3. CASE r.entry \in Value
  <2>1. ValueBytes[r.entry] \in Nat
    BY <1>3, FormatAssumption
  <2> QED
    BY <1>2, <1>3, <2>1 DEF RecordSize
<1>4. CASE r.entry \notin Value
  BY <1>2, <1>4 DEF RecordSize
<1> QED
  BY <1>2, <1>3, <1>4

\* The sizes of the records of a block, and of the blocks of a table.
Sizes(block) == [i \in DOMAIN block |-> RecordSize(block[i])]
BlockLens(blocks) == [i \in DOMAIN blocks |-> BlockLen(blocks[i])]

\* A block that is not empty is at least nine bytes long.
LEMMA BlockLenType ==
    ASSUME NEW block \in Seq(Record)
    PROVE  BlockLen(block) \in Nat /\ (block # <<>> => BlockLen(block) >= 9)
<1> DEFINE n == Len(block)
<1>1. n \in Nat /\ DOMAIN block = 1 .. n /\ (block # <<>> => n > 0)
  OBVIOUS
<1>2. Sizes(block) \in [1 .. n -> Nat] /\ BlockLen(block) = SumFunction(Sizes(block))
  BY <1>1, RecordSizeType DEF Sizes, BlockLen
<1>3. SumFunction(Sizes(block)) \in Nat
      /\ (n > 0 => SumFunction(Sizes(block)) >= Sizes(block)[n])
  <2> HIDE DEF n
  <2> QED
    BY <1>1, <1>2, SumAboveLast
<1>4. n > 0 => Sizes(block)[n] \in Nat /\ Sizes(block)[n] >= 9
  <2> SUFFICES ASSUME n > 0 PROVE Sizes(block)[n] \in Nat /\ Sizes(block)[n] >= 9
    OBVIOUS
  <2>1. n \in DOMAIN block /\ block[n] \in Record
    BY <1>1
  <2>2. Sizes(block)[n] = RecordSize(block[n])
    BY <2>1 DEF Sizes
  <2> QED
    BY <2>1, <2>2, RecordSizeType
<1> QED
  BY <1>1, <1>2, <1>3, <1>4

\* One more record makes a block longer by its size.
LEMMA BlockLenAppend ==
    ASSUME NEW block \in Seq(Record), NEW r \in Record
    PROVE  BlockLen(Append(block, r)) = BlockLen(block) + RecordSize(r)
<1> DEFINE n == Len(block)
           longer == Append(block, r)
<1>1. n \in Nat /\ DOMAIN block = 1 .. n /\ DOMAIN longer = 1 .. n + 1
      /\ longer[n + 1] = r /\ longer \in Seq(Record)
      /\ \A i \in 1 .. n : longer[i] = block[i]
  OBVIOUS
<1> HIDE DEF n, longer
<1>2. Sizes(block) \in [1 .. n -> Int] /\ Sizes(longer) \in [1 .. n + 1 -> Int]
      /\ Sizes(longer)[n + 1] = RecordSize(r)
      /\ SameOn(Sizes(block), Sizes(longer), 1 .. n)
  BY <1>1, RecordSizeType DEF Sizes, SameOn
<1>3. SumFunction(Sizes(longer)) = SumFunction(Sizes(block)) + Sizes(longer)[n + 1]
  BY <1>1, <1>2, LongerSum
<1> QED
  BY <1>2, <1>3 DEF BlockLen, Sizes, longer

\* A block of one record is as long as the record.
LEMMA OneRecord ==
    ASSUME NEW r \in Record
    PROVE  BlockLen(<<r>>) = RecordSize(r)
<1>1. <<>> \in Seq(Record) /\ Append(<<>>, r) = <<r>>
  OBVIOUS
<1>2. BlockLen(<<>>) = 0
  <2>1. Sizes(<<>>) = <<>>
    BY DEF Sizes
  <2> QED
    BY <2>1, EmptySum DEF BlockLen, Sizes
<1>3. BlockLen(<<r>>) = BlockLen(<<>>) + RecordSize(r)
  BY <1>1, BlockLenAppend
<1> QED
  BY <1>2, <1>3, RecordSizeType

Blocks == Seq(Seq(Record))

\* A block begins where the one before it ends.
LEMMA OffsetStep ==
    ASSUME NEW blocks \in Blocks, NEW i \in 1 .. Len(blocks)
    PROVE  /\ BlockOffset(blocks, i) \in Nat
           /\ BlockLen(blocks[i]) \in Nat
           /\ BlockOffset(blocks, i + 1) = BlockOffset(blocks, i) + BlockLen(blocks[i])
<1> DEFINE f == [j \in 1 .. i - 1 |-> BlockLen(blocks[j])]
           g == [j \in 1 .. i |-> BlockLen(blocks[j])]
           m == i - 1
<1>1. \A j \in 1 .. i : BlockLen(blocks[j]) \in Nat
  BY BlockLenType DEF Blocks
<1>2. /\ m \in Nat /\ m + 1 = i /\ f \in [1 .. m -> Nat]
      /\ f \in [1 .. m -> Int] /\ g \in [1 .. m + 1 -> Int]
      /\ SameOn(f, g, 1 .. m) /\ g[i] = BlockLen(blocks[i])
  BY <1>1 DEF SameOn
<1>3. BlockOffset(blocks, i) = HeaderSize + SumFunction(f)
      /\ BlockOffset(blocks, i + 1) = HeaderSize + SumFunction(g)
  <2>1. i + 1 - 1 = i
    OBVIOUS
  <2> QED
    BY <2>1 DEF BlockOffset
<1> HIDE DEF f, g, m
<1>4. SumFunction(g) = SumFunction(f) + g[i] /\ SumFunction(f) \in Nat
  BY <1>2, LongerSum, SumAboveLast
<1>5. g[i] \in Nat
  BY <1>1, <1>2
<1> QED
  BY <1>2, <1>3, <1>4, <1>5 DEF HeaderSize

\* The first block begins after the header.
LEMMA FirstOffset == \A blocks : BlockOffset(blocks, 1) = HeaderSize
<1> SUFFICES ASSUME NEW blocks PROVE BlockOffset(blocks, 1) = HeaderSize
  OBVIOUS
<1>1. [j \in 1 .. 1 - 1 |-> BlockLen(blocks[j])] = <<>>
  OBVIOUS
<1> QED
  BY <1>1, EmptySum DEF BlockOffset, HeaderSize

\* Offsets depend on the blocks before only.
LEMMA SameOffset ==
    ASSUME NEW blocks, NEW others, NEW i \in Nat,
           SameOn(blocks, others, 1 .. i - 1)
    PROVE  BlockOffset(blocks, i) = BlockOffset(others, i)
<1>1. [j \in 1 .. i - 1 |-> BlockLen(blocks[j])] = [j \in 1 .. i - 1 |-> BlockLen(others[j])]
  BY DEF SameOn
<1> QED
  BY <1>1 DEF BlockOffset

\* The bytes of the blocks, and how many are written before the index.
End(blocks) == BlockOffset(blocks, Len(blocks) + 1)

\* The blocks end at a number, behind the header.
LEMMA EndType ==
    ASSUME NEW blocks \in Blocks
    PROVE  End(blocks) \in Nat /\ End(blocks) >= HeaderSize
<1> DEFINE n == Len(blocks)
           f == BlockLens(blocks)
<1>1. n \in Nat /\ f \in [1 .. n -> Nat]
  BY BlockLenType DEF Blocks, BlockLens
<1>2. End(blocks) = HeaderSize + SumFunction(f)
  BY <1>1 DEF End, BlockOffset, BlockLens, Blocks
<1> HIDE DEF n, f
<1> QED
  BY <1>1, <1>2, SumAboveLast DEF HeaderSize

\* A record that begins a block, and one that goes into the last block.
LEMMA EndOfAppended ==
    ASSUME NEW blocks \in Blocks, NEW r \in Record
    PROVE  LET new == Append(blocks, <<r>>)
           IN  new \in Blocks /\ End(new) = End(blocks) + RecordSize(r)
<1> DEFINE n == Len(blocks)
           new == Append(blocks, <<r>>)
<1>1. /\ n \in Nat /\ Len(new) = n + 1 /\ new \in Blocks /\ new[n + 1] = <<r>>
      /\ n + 1 \in 1 .. Len(new)
      /\ \A i \in 1 .. n : new[i] = blocks[i]
  BY DEF Blocks
<1> HIDE DEF n, new
<1>2. BlockOffset(new, n + 2) = BlockOffset(new, n + 1) + RecordSize(r)
  <2>1. BlockOffset(new, (n + 1) + 1) = BlockOffset(new, n + 1) + BlockLen(new[n + 1])
    BY <1>1, OffsetStep
  <2>2. (n + 1) + 1 = n + 2
    BY <1>1
  <2> QED
    BY <1>1, <2>1, <2>2, OneRecord
<1>3. BlockOffset(new, n + 1) = BlockOffset(blocks, n + 1)
  <2>1. n + 1 \in Nat /\ SameOn(new, blocks, 1 .. (n + 1) - 1)
    BY <1>1 DEF SameOn
  <2> QED
    BY <2>1, SameOffset
<1>4. End(new) = BlockOffset(new, n + 2) /\ End(blocks) = BlockOffset(blocks, n + 1)
  <2>1. Len(new) + 1 = n + 2
    BY <1>1
  <2> QED
    BY <2>1 DEF End, n
<1>5. new \in Blocks /\ End(new) = End(blocks) + RecordSize(r)
  BY <1>1, <1>2, <1>3, <1>4
<1> QED
  BY <1>5 DEF new

\* A record added to the last block moves the end by its size.
LEMMA EndOfExtended ==
    ASSUME NEW blocks \in Blocks, blocks # <<>>, NEW r \in Record
    PROVE  LET new == [blocks EXCEPT ![Len(blocks)] = Append(@, r)]
           IN  /\ new \in Blocks /\ Len(new) = Len(blocks)
               /\ End(new) = End(blocks) + RecordSize(r)
<1> DEFINE n == Len(blocks)
           new == [blocks EXCEPT ![n] = Append(@, r)]
<1>1. /\ n \in Nat /\ n >= 1 /\ Len(new) = n /\ new[n] = Append(blocks[n], r)
      /\ blocks[n] \in Seq(Record) /\ Append(blocks[n], r) \in Seq(Record)
      /\ DOMAIN new = 1 .. n /\ DOMAIN blocks = 1 .. n
      /\ n \in 1 .. Len(new) /\ n \in 1 .. Len(blocks)
      /\ \A i \in 1 .. n - 1 : new[i] = blocks[i]
  BY DEF Blocks
<1>2. new \in Blocks
  <2>1. new = [i \in 1 .. n |-> new[i]]
    BY <1>1
  <2>2. \A i \in 1 .. n : blocks[i] \in Seq(Record)
    <3>1. blocks \in Seq(Seq(Record))
      BY DEF Blocks
    <3> HIDE DEF new
    <3> QED
      BY <3>1
  <2> HIDE DEF new, n
  <2>3. ASSUME NEW i \in 1 .. n PROVE new[i] \in Seq(Record)
    <3>1. CASE i = n
      BY <1>1, <3>1
    <3>2. CASE i # n
      <4>1. i \in 1 .. n - 1
        BY <1>1, <3>2
      <4> QED
        BY <1>1, <2>2, <4>1
    <3> QED
      BY <3>1, <3>2
  <2>4. new \in [1 .. n -> Seq(Record)]
    BY <2>1, <2>3
  <2> QED
    BY <1>1, <2>4 DEF Blocks
<1> HIDE DEF n, new
<1>3. BlockOffset(new, n + 1) = BlockOffset(new, n) + BlockLen(Append(blocks[n], r))
      /\ BlockOffset(blocks, n + 1) = BlockOffset(blocks, n) + BlockLen(blocks[n])
      /\ BlockOffset(blocks, n) \in Nat /\ BlockLen(blocks[n]) \in Nat
  BY <1>1, <1>2, OffsetStep
<1>4. BlockOffset(new, n) = BlockOffset(blocks, n)
  BY <1>1, SameOffset DEF SameOn
<1>5. BlockLen(Append(blocks[n], r)) = BlockLen(blocks[n]) + RecordSize(r)
      /\ RecordSize(r) \in Nat
  BY <1>1, BlockLenAppend, RecordSizeType
<1>6. End(new) = BlockOffset(new, n + 1) /\ End(blocks) = BlockOffset(blocks, n + 1)
  BY <1>1 DEF End, n
<1>7. new \in Blocks /\ Len(new) = n /\ End(new) = End(blocks) + RecordSize(r)
  BY <1>1, <1>2, <1>3, <1>4, <1>5, <1>6
<1> QED
  BY <1>7 DEF new, n

-----------------------------------------------------------------------------
(***************************************************************************)
(* The cut into blocks.                                                    *)
(***************************************************************************)

\* The keys ascend within the blocks and from block to block.
Ordered(blocks) ==
    \A b, c \in DOMAIN blocks :
        \A i \in DOMAIN blocks[b], j \in DOMAIN blocks[c] :
            b < c \/ (b = c /\ i < j) => blocks[b][i].key < blocks[c][j].key

InBlocks(blocks, r) ==
    \E b \in DOMAIN blocks : \E i \in DOMAIN blocks[b] : blocks[b][i] = r

\* A key without bytes among the first m records.
EmptyKeyIn(records, m) == \E j \in 1 .. m : KeyBytes[records[j].key] = 0

\* The blocks are the first m records, cut somewhere; each record takes ten
\* bytes, or nine if its key is empty.
Cut(blocks, records, m) ==
    /\ blocks \in Blocks /\ Len(blocks) <= m /\ (m > 0 => blocks # <<>>)
    /\ \A b \in DOMAIN blocks : Len(blocks[b]) >= 1 /\ Len(blocks[b]) <= m
    /\ Ordered(blocks)
    /\ \A b \in DOMAIN blocks : \A i \in DOMAIN blocks[b] :
            \E j \in 1 .. m : blocks[b][i] = records[j]
    /\ \A j \in 1 .. m : InBlocks(blocks, records[j])
    /\ End(blocks) + (IF EmptyKeyIn(records, m) THEN 1 ELSE 0) >= HeaderSize + 10 * m

AtMostOneMore(new, blocks, b) ==
    \/ Len(new[b]) = 1
    \/ b \in DOMAIN blocks /\ Len(new[b]) <= Len(blocks[b]) + 1

SameAt(new, blocks, b, i) ==
    b \in DOMAIN blocks /\ i \in DOMAIN blocks[b] /\ new[b][i] = blocks[b][i]

\* The blocks with one more record, at the end.
Grown(new, blocks, r) ==
    /\ new \in Blocks /\ new # <<>> /\ Len(new) <= Len(blocks) + 1
    /\ new[Len(new)][Len(new[Len(new)])] = r
    /\ \A b \in DOMAIN new :
         /\ Len(new[b]) >= 1
         /\ AtMostOneMore(new, blocks, b)
         /\ \A i \in DOMAIN new[b] :
              (b = Len(new) /\ i = Len(new[b])) \/ SameAt(new, blocks, b, i)
    /\ \A b \in DOMAIN blocks : \A i \in DOMAIN blocks[b] :
         b \in DOMAIN new /\ i \in DOMAIN new[b] /\ new[b][i] = blocks[b][i]
    /\ End(new) = End(blocks) + RecordSize(r)

\* That is what add_record does to the blocks, in either case.
LEMMA AddRecordGrows ==
    ASSUME NEW blocks \in Blocks, \A b \in DOMAIN blocks : Len(blocks[b]) >= 1,
           NEW r \in Record
    PROVE  Grown(AddRecord(blocks, r), blocks, r)
<1> DEFINE n == Len(blocks)
<1>1. n \in Nat /\ DOMAIN blocks = 1 .. n /\ \A b \in 1 .. n : blocks[b] \in Seq(Record)
  BY DEF Blocks
<1>2. CASE AddRecord(blocks, r) = Append(blocks, <<r>>)
  <2>1. PICK new : new = Append(blocks, <<r>>)
    OBVIOUS
  <2>2. /\ Len(new) = n + 1 /\ DOMAIN new = 1 .. n + 1 /\ new[n + 1] = <<r>>
        /\ \A b \in 1 .. n : new[b] = blocks[b]
    BY <2>1 DEF Blocks
  <2>3. new \in Blocks /\ End(new) = End(blocks) + RecordSize(r)
    BY <2>1, EndOfAppended
  <2>4. Len(<<r>>) = 1 /\ <<r>>[1] = r /\ DOMAIN <<r>> = {1}
    OBVIOUS
  <2> HIDE DEF n
  <2>5. Grown(new, blocks, r)
    <3>1. new # <<>> /\ new[Len(new)][Len(new[Len(new)])] = r
      BY <1>1, <2>2, <2>4
    <3>2. ASSUME NEW b \in 1 .. n + 1
          PROVE  /\ Len(new[b]) >= 1 /\ AtMostOneMore(new, blocks, b)
                 /\ \A i \in DOMAIN new[b] :
                      (b = Len(new) /\ i = Len(new[b])) \/ SameAt(new, blocks, b, i)
      <4>1. CASE b = n + 1
        <5>1. Len(new[b]) = 1 /\ \A i \in DOMAIN new[b] : i = 1
          BY <2>2, <2>4, <4>1
        <5>2. AtMostOneMore(new, blocks, b)
          BY <5>1 DEF AtMostOneMore
        <5>3. \A i \in DOMAIN new[b] : b = Len(new) /\ i = Len(new[b])
          BY <2>2, <4>1, <5>1
        <5>4. Len(new[b]) >= 1
          BY <5>1
        <5> QED
          BY <5>2, <5>3, <5>4
      <4>2. CASE b # n + 1
        <5>1. b \in 1 .. n /\ new[b] = blocks[b] /\ Len(blocks[b]) \in Nat
          BY <1>1, <2>2, <4>2
        <5>2. Len(new[b]) >= 1
          BY <1>1, <5>1
        <5>3. AtMostOneMore(new, blocks, b)
          BY <1>1, <5>1 DEF AtMostOneMore
        <5> QED
          BY <1>1, <5>1, <5>2, <5>3 DEF SameAt
      <4> QED
        BY <4>1, <4>2
    <3>3. \A b \in DOMAIN blocks : b \in DOMAIN new /\ new[b] = blocks[b]
      BY <1>1, <2>2
    <3>4. Len(new) <= Len(blocks) + 1
      BY <1>1, <2>2 DEF n
    <3> QED
      BY <2>2, <2>3, <3>1, <3>2, <3>3, <3>4 DEF Grown
  <2> QED
    BY <1>2, <2>1, <2>5
<1>3. CASE /\ blocks # <<>>
           /\ AddRecord(blocks, r) = [blocks EXCEPT ![n] = Append(@, r)]
  <2>1. PICK new : new = [blocks EXCEPT ![n] = Append(@, r)]
    OBVIOUS
  <2>2. n \in 1 .. n
    BY <1>1, <1>3
  <2>3. new \in Blocks /\ Len(new) = n /\ End(new) = End(blocks) + RecordSize(r)
    BY <1>3, <2>1, EndOfExtended
  <2>4. /\ DOMAIN new = 1 .. n /\ new[n] = Append(blocks[n], r)
        /\ \A b \in 1 .. n : b # n => new[b] = blocks[b]
    BY <1>1, <2>1, <2>2
  <2>5. Len(new) = n
    BY <2>3
  <2>6. PICK m \in Nat : m = Len(blocks[n]) /\ DOMAIN blocks[n] = 1 .. m
    BY <1>1, <2>2
  <2>7. /\ Len(new[n]) = m + 1 /\ DOMAIN new[n] = 1 .. m + 1 /\ new[n][m + 1] = r
        /\ \A i \in 1 .. m : new[n][i] = blocks[n][i]
    <3>1. PICK x \in Seq(Record) : x = blocks[n]
      BY <1>1, <2>2
    <3>2. /\ Len(Append(x, r)) = Len(x) + 1
          /\ DOMAIN Append(x, r) = 1 .. Len(x) + 1 /\ Append(x, r)[Len(x) + 1] = r
          /\ \A i \in 1 .. Len(x) : Append(x, r)[i] = x[i]
      OBVIOUS
    <3> HIDE DEF n
    <3> QED
      BY <2>4, <2>6, <3>1, <3>2
  <2> HIDE DEF n
  <2>8. new # <<>> /\ new[Len(new)][Len(new[Len(new)])] = r
    BY <2>2, <2>4, <2>5, <2>7
  <2>9. ASSUME NEW b \in 1 .. n
        PROVE  /\ Len(new[b]) >= 1 /\ AtMostOneMore(new, blocks, b)
               /\ \A i \in DOMAIN new[b] :
                    (b = Len(new) /\ i = Len(new[b])) \/ SameAt(new, blocks, b, i)
    <3>1. CASE b = n
      <4>1. Len(new[b]) >= 1 /\ AtMostOneMore(new, blocks, b)
        BY <1>1, <2>2, <2>6, <2>7, <3>1 DEF AtMostOneMore
      <4>2. ASSUME NEW i \in DOMAIN new[b], i # Len(new[b])
            PROVE  SameAt(new, blocks, b, i)
        BY <1>1, <2>2, <2>6, <2>7, <3>1, <4>2 DEF SameAt
      <4> QED
        BY <2>5, <3>1, <4>1, <4>2
    <3>2. CASE b # n
      <4>1. new[b] = blocks[b] /\ Len(blocks[b]) \in Nat
        BY <1>1, <2>4, <3>2
      <4>2. Len(new[b]) >= 1
        BY <1>1, <4>1
      <4>3. AtMostOneMore(new, blocks, b)
        BY <1>1, <4>1 DEF AtMostOneMore
      <4> QED
        BY <1>1, <4>1, <4>2, <4>3 DEF SameAt
    <3> QED
      BY <3>1, <3>2
  <2>10. \A b \in DOMAIN blocks : \A i \in DOMAIN blocks[b] :
           b \in DOMAIN new /\ i \in DOMAIN new[b] /\ new[b][i] = blocks[b][i]
    <3> SUFFICES ASSUME NEW b \in 1 .. n, NEW i \in DOMAIN blocks[b]
                 PROVE  i \in DOMAIN new[b] /\ new[b][i] = blocks[b][i]
      BY <1>1, <2>4
    <3>1. CASE b = n
      BY <2>6, <2>7, <3>1
    <3>2. CASE b # n
      BY <2>4, <3>2
    <3> QED
      BY <3>1, <3>2
  <2>11. Len(new) <= Len(blocks) + 1
    BY <1>1, <2>5 DEF n
  <2>12. Grown(new, blocks, r)
    BY <2>3, <2>4, <2>8, <2>9, <2>10, <2>11 DEF Grown
  <2> QED
    BY <1>3, <2>1, <2>12
<1> QED
  BY <1>2, <1>3 DEF AddRecord

\* Adding the next record keeps the cut.
LEMMA CutStep ==
    ASSUME NEW n \in Nat, NEW records \in [1 .. n -> Record],
           \A i, j \in 1 .. n : i < j => records[i].key < records[j].key,
           NEW m \in 0 .. n - 1, NEW blocks, Cut(blocks, records, m)
    PROVE  Cut(AddRecord(blocks, records[m + 1]), records, m + 1)
<1>1. PICK r \in Record : r = records[m + 1]
  OBVIOUS
<1>2. PICK new : new = AddRecord(blocks, r)
  OBVIOUS
<1>3. Grown(new, blocks, r)
  BY <1>2, AddRecordGrows DEF Cut
<1>4. /\ m \in Nat /\ Len(blocks) \in Nat /\ Len(new) \in Nat
      /\ DOMAIN blocks = 1 .. Len(blocks) /\ DOMAIN new = 1 .. Len(new)
      /\ \A b \in DOMAIN new : Len(new[b]) \in Nat /\ DOMAIN new[b] = 1 .. Len(new[b])
      /\ \A b \in DOMAIN blocks : Len(blocks[b]) \in Nat
  BY <1>3 DEF Cut, Grown, Blocks
<1>5. \A b \in DOMAIN blocks : \A i \in DOMAIN blocks[b] :
        blocks[b][i].key < r.key
  BY <1>1 DEF Cut
<1>6. Ordered(new)
  <2> SUFFICES ASSUME NEW b \in DOMAIN new, NEW c \in DOMAIN new,
                      NEW i \in DOMAIN new[b], NEW j \in DOMAIN new[c],
                      b < c \/ (b = c /\ i < j)
               PROVE  new[b][i].key < new[c][j].key
    BY DEF Ordered
  <2>1. ~(b = Len(new) /\ i = Len(new[b]))
    BY <1>4
  <2>2. b \in DOMAIN blocks /\ i \in DOMAIN blocks[b] /\ new[b][i] = blocks[b][i]
    BY <1>3, <2>1 DEF Grown, SameAt
  <2>3. CASE c = Len(new) /\ j = Len(new[c])
    BY <1>3, <1>5, <2>2, <2>3 DEF Grown
  <2>4. CASE SameAt(new, blocks, c, j)
    BY <2>2, <2>4 DEF Cut, Ordered, SameAt
  <2> QED
    BY <1>3, <2>3, <2>4 DEF Grown
<1>7. \A b \in DOMAIN new : \A i \in DOMAIN new[b] :
        \E j \in 1 .. m + 1 : new[b][i] = records[j]
  <2> SUFFICES ASSUME NEW b \in DOMAIN new, NEW i \in DOMAIN new[b]
               PROVE  \E j \in 1 .. m + 1 : new[b][i] = records[j]
    OBVIOUS
  <2>1. CASE b = Len(new) /\ i = Len(new[b])
    <3>1. new[b][i] = records[m + 1] /\ m + 1 \in 1 .. m + 1
      BY <1>1, <1>3, <1>4, <2>1 DEF Grown
    <3> QED
      BY <3>1
  <2>2. CASE SameAt(new, blocks, b, i)
    <3>1. PICK j \in 1 .. m : blocks[b][i] = records[j]
      BY <2>2 DEF Cut, SameAt
    <3>2. j \in 1 .. m + 1
      BY <1>4
    <3> QED
      BY <2>2, <3>1, <3>2 DEF SameAt
  <2> QED
    BY <1>3, <2>1, <2>2 DEF Grown
<1>8. \A j \in 1 .. m + 1 : InBlocks(new, records[j])
  <2> SUFFICES ASSUME NEW j \in 1 .. m + 1 PROVE InBlocks(new, records[j])
    OBVIOUS
  <2>1. CASE j = m + 1
    <3>1. Len(new) \in DOMAIN new /\ Len(new[Len(new)]) \in DOMAIN new[Len(new)]
      <4>1. Len(new) \in DOMAIN new
        BY <1>3, <1>4 DEF Grown, Blocks
      <4>2. Len(new[Len(new)]) >= 1
        BY <1>3, <4>1 DEF Grown
      <4> QED
        BY <1>4, <4>1, <4>2
    <3> QED
      BY <1>1, <1>3, <2>1, <3>1 DEF InBlocks, Grown
  <2>2. CASE j # m + 1
    <3>1. j \in 1 .. m
      BY <1>4, <2>2
    <3>2. InBlocks(blocks, records[j])
      BY <3>1 DEF Cut
    <3>3. \A b \in DOMAIN blocks : \A i \in DOMAIN blocks[b] :
            b \in DOMAIN new /\ i \in DOMAIN new[b] /\ new[b][i] = blocks[b][i]
      BY <1>3 DEF Grown
    <3> QED
      BY <3>2, <3>3 DEF InBlocks
  <2> QED
    BY <2>1, <2>2
<1>9. \A b \in DOMAIN new : Len(new[b]) >= 1 /\ Len(new[b]) <= m + 1
  <2> SUFFICES ASSUME NEW b \in DOMAIN new
               PROVE  Len(new[b]) >= 1 /\ Len(new[b]) <= m + 1
    OBVIOUS
  <2>1. Len(new[b]) >= 1
    BY <1>3 DEF Grown
  <2>2. \/ Len(new[b]) = 1
        \/ b \in DOMAIN blocks /\ Len(new[b]) <= Len(blocks[b]) + 1
    BY <1>3 DEF Grown, AtMostOneMore
  <2>3. b \in DOMAIN blocks => Len(blocks[b]) \in Nat /\ Len(blocks[b]) <= m
    BY <1>4 DEF Cut
  <2>4. Len(new[b]) <= m + 1
    <3>1. CASE Len(new[b]) = 1
      BY <1>4, <3>1
    <3>2. CASE b \in DOMAIN blocks /\ Len(new[b]) <= Len(blocks[b]) + 1
      BY <1>4, <2>3, <3>2
    <3> QED
      BY <2>2, <3>1, <3>2
  <2> QED
    BY <2>1, <2>4
<1>10. End(new) + (IF EmptyKeyIn(records, m + 1) THEN 1 ELSE 0) >= HeaderSize + 10 * (m + 1)
  <2>1. End(new) = End(blocks) + RecordSize(r) /\ End(blocks) \in Nat
    BY <1>3, EndType DEF Grown, Cut
  <2>2. RecordSize(r) \in Nat /\ RecordSize(r) >= 9 + KeyBytes[r.key]
        /\ KeyBytes[r.key] \in Nat
    BY RecordSizeType
  <2>3. EmptyKeyIn(records, m) => EmptyKeyIn(records, m + 1)
    BY <1>4 DEF EmptyKeyIn
  <2>4. End(blocks) + (IF EmptyKeyIn(records, m) THEN 1 ELSE 0) >= HeaderSize + 10 * m
    BY DEF Cut
  <2>5. CASE KeyBytes[r.key] # 0
    <3>1. PICK e \in Nat, t \in Nat : e = End(blocks) /\ t = RecordSize(r)
      BY <2>1, <2>2
    <3>2. PICK p \in {0, 1} : p = IF EmptyKeyIn(records, m) THEN 1 ELSE 0
      OBVIOUS
    <3>3. PICK q \in {0, 1} : q = IF EmptyKeyIn(records, m + 1) THEN 1 ELSE 0
      OBVIOUS
    <3>4. p <= q
      BY <2>3, <3>2, <3>3
    <3>5. t >= 10
      BY <2>2, <2>5, <3>1
    <3>6. e + p >= 20 + 10 * m
      BY <2>4, <3>1, <3>2 DEF HeaderSize
    <3>7. e + t + q >= 20 + 10 * (m + 1)
      BY <1>4, <3>4, <3>5, <3>6
    <3> QED
      BY <2>1, <3>1, <3>3, <3>7 DEF HeaderSize
  <2>6. CASE KeyBytes[r.key] = 0
    <3>1. EmptyKeyIn(records, m + 1)
      BY <1>1, <1>4, <2>6 DEF EmptyKeyIn
    <3>2. ~EmptyKeyIn(records, m)
      <4> SUFFICES ASSUME NEW j \in 1 .. m, KeyBytes[records[j].key] = 0
                   PROVE  FALSE
        BY DEF EmptyKeyIn
      <4>1. j \in 1 .. n /\ m + 1 \in 1 .. n /\ j < m + 1
        BY <1>4
      <4>2. records[j].key < r.key /\ records[j].key \in Key /\ r.key \in Key
        BY <1>1, <4>1 DEF Record
      <4>3. records[j].key = r.key
        BY <2>6, <4>2, FormatAssumption
      <4>4. r.key \in Nat
        BY <4>2, KeyAssumption
      <4> QED
        BY <4>2, <4>3, <4>4
    <3> QED
      <4>1. End(blocks) >= HeaderSize + 10 * m
        BY <2>1, <2>4, <3>2
      <4>2. PICK e \in Nat, t \in Nat : e = End(blocks) /\ t = RecordSize(r)
        BY <2>1, <2>2
      <4>3. t >= 9
        BY <2>2, <4>2
      <4>4. e + t + 1 >= 20 + 10 * (m + 1)
        BY <1>4, <4>1, <4>2, <4>3 DEF HeaderSize
      <4>5. End(new) + 1 >= HeaderSize + 10 * (m + 1)
        BY <2>1, <4>2, <4>4 DEF HeaderSize
      <4> QED
        BY <3>1, <4>5
  <2> QED
    BY <2>5, <2>6
<1>11. new \in Blocks /\ Len(new) <= m + 1 /\ new # <<>>
  <2>1. Len(blocks) <= m /\ Len(new) <= Len(blocks) + 1
    BY <1>3 DEF Cut, Grown
  <2> QED
    BY <1>3, <1>4, <2>1 DEF Grown
<1>12. Cut(new, records, m + 1)
  BY <1>6, <1>7, <1>8, <1>9, <1>10, <1>11 DEF Cut
<1> QED
  BY <1>1, <1>2, <1>12

\* The blocks of a table are its records, cut somewhere.
LEMMA BlocksAreCut ==
    ASSUME NEW E \in Contents
    PROVE  Cut(BlocksOf(E), RecordsOf(E), Cardinality(KeysOf(E)))
<1> DEFINE records == RecordsOf(E)
           n == Cardinality(KeysOf(E))
           S == {blocks \in Blocks : \A b \in DOMAIN blocks : Len(blocks[b]) >= 1}
           step == [p \in Nat \X S |->
                      IF p[1] \in 1 .. n THEN AddRecord(p[2], records[p[1]]) ELSE p[2]]
           Eq(f) == f = [i \in 0 .. n |-> IF i = 0 THEN <<>>
                                          ELSE AddRecord(f[i - 1], records[i])]
           cut == CHOOSE f : Eq(f)
<1>1. /\ n \in Nat /\ records \in [1 .. n -> Record]
      /\ \A i, j \in 1 .. n : i < j => records[i].key < records[j].key
  <2>1. n \in Nat /\ records \in [1 .. n -> Record] /\ DOMAIN records = 1 .. n
    BY RecordsInOrder, KeysAreNumbers
  <2> QED
    BY <2>1, RecordsInOrder
<1>2. Len(records) = n /\ BlocksOf(E) = cut[n]
  <2>1. Len(records) = n
    BY <1>1
  <2> QED
    BY <2>1 DEF BlocksOf
<1> HIDE DEF records, n
<1>3. <<>> \in S
  BY DEF Blocks
<1>4. step \in [Nat \X S -> S]
  <2> SUFFICES ASSUME NEW i \in Nat, NEW blocks \in S
               PROVE  (IF i \in 1 .. n THEN AddRecord(blocks, records[i]) ELSE blocks) \in S
    OBVIOUS
  <2>1. CASE i \in 1 .. n
    <3>1. Grown(AddRecord(blocks, records[i]), blocks, records[i])
      BY <1>1, <2>1, AddRecordGrows
    <3> QED
      BY <2>1, <3>1 DEF Grown
  <2>2. CASE i \notin 1 .. n
    BY <2>2
  <2> QED
    BY <2>1, <2>2
<1>5. \E f : Eq(f)
  <2>1. PICK f \in [0 .. n -> S] : Iterates(f, <<>>, step, n)
    <3> HIDE DEF S, step
    <3> QED
      BY <1>1, <1>3, <1>4, Iteration
  <2>2. ASSUME NEW i \in 1 .. n
        PROVE  f[i] = AddRecord(f[i - 1], records[i])
    <3>1. i \in Nat /\ i - 1 \in 0 .. n
      BY <1>1
    <3>2. f[i - 1] \in S
      <4> HIDE DEF S
      <4> QED
        BY <2>1, <3>1
    <3>3. f[i] = step[<<i, f[i - 1]>>]
      BY <2>1 DEF Iterates
    <3> HIDE DEF S
    <3> QED
      BY <3>1, <3>2, <3>3
  <2>3. Eq(f)
    <3>1. f[0] = <<>> /\ DOMAIN f = 0 .. n
      BY <2>1 DEF Iterates
    <3>2. f = [i \in 0 .. n |-> f[i]]
      BY <2>1
    <3>3. \A i \in 0 .. n : f[i] = IF i = 0 THEN <<>> ELSE AddRecord(f[i - 1], records[i])
      BY <1>1, <2>2, <3>1
    <3> QED
      BY <3>2, <3>3
  <2> QED
    BY <2>3
<1>6. Eq(cut)
  <2> HIDE DEF Eq
  <2> QED
    BY <1>5
<1> HIDE DEF cut
<1> DEFINE T == {m \in 0 .. n : Cut(cut[m], records, m)}
<1>7. 0 \in T
  <2>1. cut[0] = <<>> /\ 0 \in 0 .. n
    BY <1>1, <1>6
  <2>2. Cut(<<>>, records, 0)
    <3>1. End(<<>>) = HeaderSize
      BY FirstOffset DEF End
    <3>2. <<>> \in Blocks /\ Len(<<>>) = 0 /\ DOMAIN <<>> = {}
      BY DEF Blocks
    <3>3. ~EmptyKeyIn(records, 0)
      BY DEF EmptyKeyIn
    <3> QED
      BY <3>1, <3>2, <3>3 DEF Cut, Ordered, HeaderSize
  <2> QED
    BY <2>1, <2>2
<1>8. ASSUME NEW m \in 0 .. n - 1, m \in T PROVE m + 1 \in T
  <2>1. m + 1 \in 0 .. n /\ m + 1 # 0 /\ m + 1 - 1 = m
    BY <1>1
  <2>2. \A i \in 0 .. n : i # 0 => cut[i] = AddRecord(cut[i - 1], records[i])
    BY <1>6
  <2>4. cut[m + 1] = AddRecord(cut[m], records[m + 1])
    BY <2>1, <2>2
  <2>3. Cut(AddRecord(cut[m], records[m + 1]), records, m + 1)
    BY <1>1, <1>8, CutStep
  <2> QED
    BY <2>1, <2>3, <2>4
<1>9. 0 .. n \subseteq T
  <2> HIDE DEF T
  <2> QED
    BY <1>1, <1>7, <1>8, CountUp
<1>10. Cut(cut[n], records, n)
  BY <1>1, <1>9
<1> QED
  BY <1>2, <1>10 DEF records, n

-----------------------------------------------------------------------------
(***************************************************************************)
(* A table written and loaded again.                                       *)
(***************************************************************************)

\* The blocks hold the records of E, each once and in order.
HoldsContents(blocks, E) ==
    /\ blocks \in Blocks /\ blocks # <<>>
    /\ Ordered(blocks)
    /\ \A b \in DOMAIN blocks : \A i \in DOMAIN blocks[b] :
         blocks[b][i].key \in KeysOf(E) /\ blocks[b][i].entry = E[blocks[b][i].key]
    /\ \A k \in KeysOf(E) :
         \E b \in DOMAIN blocks : \E i \in DOMAIN blocks[b] : blocks[b][i].key = k

\* Every block has a first record; these are their keys.
FirstKeysOf(firsts, blocks) ==
    /\ DOMAIN firsts = DOMAIN blocks
    /\ \A b \in DOMAIN blocks : blocks[b] # <<>> /\ firsts[b] = blocks[b][1].key

Tables == [index : Seq(IndexEntry), blocks : Blocks, bloom : Filter, block_count : Nat]

\* The table in memory is that of the contents E.
IsTable(t, E) ==
    /\ t \in Tables
    /\ HoldsContents(t.blocks, E)
    /\ t.index \in Seq(IndexEntry) /\ t.block_count = Len(t.index)
    /\ FirstKeysOf([b \in DOMAIN t.index |-> t.index[b].first_key], t.blocks)
    /\ \A b \in DOMAIN t.blocks : t.blocks[b] # Garbage
    /\ \A k \in KeysOf(E) : MightContain(t.bloom, k)

\* What is not NoContents has a key.
LEMMA SomeKey ==
    ASSUME NEW E \in Contents, E # NoContents
    PROVE  KeysOf(E) # {} /\ Cardinality(KeysOf(E)) \in Nat \ {0}
<1>1. KeysOf(E) # {}
  <2>1. E \in [Key -> Entry \cup {Absent}]
    BY DEF Contents
  <2> QED
    BY <2>1 DEF KeysOf, NoContents
<1> QED
  BY <1>1, KeysAreNumbers, FS_EmptySet

\* The blocks of a table hold its contents, and none is longer than its keys
\* are many.
LEMMA BlocksHold ==
    ASSUME NEW E \in Contents, E # NoContents
    PROVE  /\ HoldsContents(BlocksOf(E), E)
           /\ Len(BlocksOf(E)) \in 1 .. Cardinality(KeysOf(E))
           /\ \A b \in DOMAIN BlocksOf(E) :
                Len(BlocksOf(E)[b]) \in 1 .. Cardinality(KeysOf(E))
           /\ End(BlocksOf(E)) + 1 >= HeaderSize + 10 * Cardinality(KeysOf(E))
<1>1. PICK n \in Nat : n = Cardinality(KeysOf(E)) /\ n > 0
  BY SomeKey
<1>2. PICK blocks : blocks = BlocksOf(E)
  OBVIOUS
<1>3. PICK records : records = RecordsOf(E)
  OBVIOUS
<1>4. Cut(blocks, records, n)
  BY <1>1, <1>2, <1>3, BlocksAreCut
<1>5. /\ DOMAIN records = 1 .. n
      /\ \A j \in 1 .. n : records[j].key \in KeysOf(E) /\ records[j].entry = E[records[j].key]
      /\ \A k \in KeysOf(E) : \E j \in 1 .. n : records[j].key = k
  <2>1. records \in [1 .. n -> Record]
    BY <1>1, <1>3, RecordsInOrder
  <2>2. DOMAIN records = 1 .. n
    BY <2>1
  <2> QED
    BY <1>3, <2>2, RecordsInOrder
<1>6. HoldsContents(blocks, E)
  <2>1. blocks \in Blocks /\ blocks # <<>> /\ Ordered(blocks)
    BY <1>1, <1>4 DEF Cut
  <2>2. ASSUME NEW b \in DOMAIN blocks, NEW i \in DOMAIN blocks[b]
        PROVE  blocks[b][i].key \in KeysOf(E) /\ blocks[b][i].entry = E[blocks[b][i].key]
    BY <1>4, <1>5 DEF Cut
  <2>3. ASSUME NEW k \in KeysOf(E)
        PROVE  \E b \in DOMAIN blocks : \E i \in DOMAIN blocks[b] : blocks[b][i].key = k
    <3>1. PICK j \in 1 .. n : records[j].key = k
      BY <1>5
    <3>2. InBlocks(blocks, records[j])
      BY <1>4 DEF Cut
    <3> QED
      BY <3>1, <3>2 DEF InBlocks
  <2> QED
    BY <2>1, <2>2, <2>3 DEF HoldsContents
<1>7. Len(blocks) \in 1 .. n /\ \A b \in DOMAIN blocks : Len(blocks[b]) \in 1 .. n
  <2>1. blocks \in Blocks /\ blocks # <<>> /\ Len(blocks) <= n
        /\ \A b \in DOMAIN blocks : Len(blocks[b]) >= 1 /\ Len(blocks[b]) <= n
    BY <1>1, <1>4 DEF Cut
  <2>2. Len(blocks) \in Nat /\ Len(blocks) # 0
        /\ \A b \in DOMAIN blocks : Len(blocks[b]) \in Nat
    BY <2>1 DEF Blocks
  <2> QED
    BY <2>1, <2>2
<1>8. End(blocks) + 1 >= HeaderSize + 10 * n
  <2>1. End(blocks) \in Nat
    BY <1>4, EndType DEF Cut
  <2>2. End(blocks) + (IF EmptyKeyIn(records, n) THEN 1 ELSE 0) >= HeaderSize + 10 * n
    BY <1>4 DEF Cut
  <2>3. CASE EmptyKeyIn(records, n)
    BY <2>2, <2>3
  <2>4. CASE ~EmptyKeyIn(records, n)
    BY <1>1, <2>1, <2>2, <2>4 DEF HeaderSize
  <2> QED
    BY <2>3, <2>4
<1> QED
  BY <1>1, <1>2, <1>6, <1>7, <1>8

\* Offsets ascend: no block is empty.
LEMMA OffsetsAscend ==
    ASSUME NEW blocks \in Blocks, \A b \in DOMAIN blocks : blocks[b] # <<>>,
           NEW j \in 1 .. Len(blocks) + 1
    PROVE  /\ BlockOffset(blocks, j) \in Nat
           /\ \A i \in 1 .. j - 1 :
                /\ BlockOffset(blocks, i) \in Nat
                /\ BlockLen(blocks[i]) \in Nat
                /\ BlockOffset(blocks, i) + BlockLen(blocks[i]) <= BlockOffset(blocks, j)
                /\ BlockOffset(blocks, i) < BlockOffset(blocks, j)
<1> DEFINE n == Len(blocks)
           Good(m) == /\ BlockOffset(blocks, m) \in Nat
                      /\ \A i \in 1 .. m - 1 :
                           /\ BlockOffset(blocks, i) \in Nat
                           /\ BlockLen(blocks[i]) \in Nat
                           /\ BlockOffset(blocks, i) + BlockLen(blocks[i])
                                <= BlockOffset(blocks, m)
                           /\ BlockOffset(blocks, i) < BlockOffset(blocks, m)
           T == {m \in 0 .. n : Good(m + 1)}
<1>1. n \in Nat /\ DOMAIN blocks = 1 .. n
  BY DEF Blocks
<1>2. 0 \in T
  <2>1. BlockOffset(blocks, 1) \in Nat
    BY FirstOffset DEF HeaderSize
  <2> QED
    BY <1>1, <2>1
<1>3. ASSUME NEW m \in 0 .. n - 1, m \in T PROVE m + 1 \in T
  <2>1. m + 1 \in 1 .. n /\ m \in Nat
    BY <1>1
  <2>2. PICK p \in 1 .. n : p = m + 1
    BY <2>1
  <2>3. BlockOffset(blocks, p + 1) = BlockOffset(blocks, p) + BlockLen(blocks[p])
        /\ BlockOffset(blocks, p) \in Nat /\ BlockLen(blocks[p]) \in Nat
    BY OffsetStep
  <2>4. BlockLen(blocks[p]) >= 9
    <3>1. \A b \in 1 .. n : blocks[b] \in Seq(Record)
      BY <1>1 DEF Blocks
    <3>2. blocks[p] \in Seq(Record)
      BY <3>1
    <3>3. blocks[p] # <<>>
      <4> HIDE DEF n
      <4> QED
        BY <1>1
    <3> QED
      BY <3>2, <3>3, BlockLenType
  <2>5. Good(p)
    BY <1>3, <2>2
  <2>6. BlockOffset(blocks, p + 1) \in Nat
    BY <2>3
  <2>7. ASSUME NEW i \in 1 .. p + 1 - 1
        PROVE  /\ BlockOffset(blocks, i) \in Nat
               /\ BlockLen(blocks[i]) \in Nat
               /\ BlockOffset(blocks, i) + BlockLen(blocks[i]) <= BlockOffset(blocks, p + 1)
               /\ BlockOffset(blocks, i) < BlockOffset(blocks, p + 1)
    <3>1. CASE i = p
      BY <2>3, <2>4, <3>1
    <3>2. CASE i # p
      <4>1. i \in 1 .. p - 1
        BY <3>2
      <4>2. /\ BlockOffset(blocks, i) \in Nat
            /\ BlockLen(blocks[i]) \in Nat
            /\ BlockOffset(blocks, i) + BlockLen(blocks[i]) <= BlockOffset(blocks, p)
            /\ BlockOffset(blocks, i) < BlockOffset(blocks, p)
        BY <2>5, <4>1
      <4> QED
        BY <2>3, <2>4, <4>2
    <3> QED
      BY <3>1, <3>2
  <2>8. Good(p + 1)
    BY <2>6, <2>7
  <2> HIDE DEF Good
  <2> QED
    BY <1>1, <2>1, <2>2, <2>8
<1>4. 0 .. n \subseteq T
  <2> HIDE DEF T
  <2> QED
    BY <1>1, <1>2, <1>3, CountUp
<1>5. PICK m \in 0 .. n : m + 1 = j
  <2>1. j - 1 \in 0 .. n /\ (j - 1) + 1 = j
    BY <1>1
  <2> QED
    BY <2>1
<1>6. Good(j)
  <2> HIDE DEF Good
  <2> QED
    BY <1>4, <1>5
<1> QED
  BY <1>6

\* Least and Greatest of two numbers.
LEMMA GreaterOfTwo ==
    ASSUME NEW a \in Nat, NEW b \in Nat
    PROVE  /\ Greatest({a, b}) \in {a, b}
           /\ Greatest({a, b}) >= a /\ Greatest({a, b}) >= b
<1>1. IsFiniteSet({a, b})
  <2>1. {a, b} = {a} \cup {b} /\ IsFiniteSet({a})
    BY FS_Singleton
  <2> QED
    BY <2>1, FS_AddElement
<1>2. {a, b} \in SUBSET Nat /\ {a, b} # {}
  OBVIOUS
<1>3. \A y \in {a, b} : y <= Greatest({a, b})
  BY <1>1, <1>2, GreatestOfFinite
<1>4. Greatest({a, b}) \in {a, b}
  BY <1>1, <1>2, GreatestOfFinite
<1>5. Greatest({a, b}) \in Nat
  BY <1>2, <1>4
<1> QED
  BY <1>3, <1>4, <1>5

\* The other way round.
LEMMA LesserOfTwo ==
    ASSUME NEW a \in Nat, NEW b \in Nat
    PROVE  Least({a, b}) \in {a, b} /\ Least({a, b}) <= a /\ Least({a, b}) <= b
<1>1. {a, b} \in SUBSET Nat /\ {a, b} # {}
  OBVIOUS
<1>2. \A y \in {a, b} : Least({a, b}) <= y
  BY <1>1, LeastOfNaturals
<1>3. Least({a, b}) \in {a, b}
  BY <1>1, LeastOfNaturals
<1> QED
  BY <1>2, <1>3

\* The filter of n keys has at least one hash, and fewer bits than a table
\* of n keys has bytes before it.
LEMMA FilterSizes ==
    ASSUME NEW n \in Nat \ {0}
    PROVE  /\ OptimalBits(n) \in Nat /\ OptimalBits(n) >= 64
           /\ OptimalBits(n) = 64 \/ OptimalBits(n) <= 10 * n
           /\ OptimalHashes(OptimalBits(n), n) \in 1 .. 30
<1> DEFINE bits == (n * 9585059 + 999999) \div 1000000
<1>1. bits \in Nat /\ bits <= 10 * n
  OBVIOUS
<1> HIDE DEF bits
<1>2. OptimalBits(n) \in {64, bits} /\ OptimalBits(n) >= 64
  <2>1. OptimalBits(n) = Greatest({64, bits})
    BY DEF OptimalBits, bits
  <2> QED
    BY <1>1, <2>1, GreaterOfTwo
<1>3. OptimalBits(n) \in Nat /\ (OptimalBits(n) = 64 \/ OptimalBits(n) <= 10 * n)
  BY <1>1, <1>2
<1>4. OptimalHashes(OptimalBits(n), n) \in 1 .. 30
  <2>1. PICK m \in Nat : m = OptimalBits(n)
    BY <1>3
  <2> DEFINE k == (m * 693147 + n * 500000) \div (n * 1000000)
  <2>2. k \in Nat
    <3>1. m * 693147 + n * 500000 \in Nat /\ n * 1000000 \in Nat \ {0}
      OBVIOUS
    <3> QED
      BY <3>1, DivType
  <2>3. OptimalHashes(m, n) = Least({30, Greatest({1, k})})
    BY DEF OptimalHashes
  <2> HIDE DEF k
  <2>4. Greatest({1, k}) \in Nat /\ Greatest({1, k}) >= 1
    <3>1. Greatest({1, k}) \in {1, k} /\ Greatest({1, k}) >= 1
      BY <2>2, GreaterOfTwo
    <3> QED
      BY <2>2, <3>1
  <2>5. PICK g \in Nat : g = Greatest({1, k}) /\ g >= 1
    BY <2>4
  <2>6. Least({30, g}) \in {30, g} /\ Least({30, g}) <= 30
    BY LesserOfTwo
  <2> QED
    BY <2>1, <2>3, <2>5, <2>6
<1> QED
  BY <1>2, <1>3, <1>4

\* The filter of a set of keys passes each of them.
LEMMA FilterPasses ==
    ASSUME NEW keys \in SUBSET Key, IsFiniteSet(keys), keys # {}
    PROVE  LET n == Cardinality(keys)
               F == FilterOf(keys)
           IN  /\ n \in Nat \ {0} /\ F \in Filter
               /\ F = [num_bits |-> F.num_bits, num_hashes |-> F.num_hashes, bits |-> F.bits]
               /\ F.num_bits = OptimalBits(n)
               /\ F.num_hashes = OptimalHashes(OptimalBits(n), n)
               /\ \A b \in F.bits : b < F.num_bits
               /\ \A k \in keys : MightContain(F, k)
<1> DEFINE n == Cardinality(keys)
           empty == NewFilter(n)
           F == [empty EXCEPT !.bits = UNION {BitsOf(empty, key) : key \in keys}]
<1>1. n \in Nat \ {0}
  BY FS_CardinalityType, FS_EmptySet
<1>2. FilterOf(keys) = F
  <2>1. Greatest({1, n}) = n
    <3> HIDE DEF n
    <3> QED
      BY <1>1, GreaterOfTwo
  <2> QED
    BY <2>1 DEF FilterOf
<1>3. PICK bits \in Nat \ {0} : bits = OptimalBits(n)
  <2> HIDE DEF n
  <2> QED
    BY <1>1, FilterSizes
<1>4. PICK hashes \in 1 .. 30 : hashes = OptimalHashes(OptimalBits(n), n)
  <2> HIDE DEF n
  <2> QED
    BY <1>1, FilterSizes
<1>5. PICK set : set = UNION {BitsOf(empty, key) : key \in keys}
  OBVIOUS
<1>6. empty = [num_bits |-> bits, num_hashes |-> hashes, bits |-> {}]
  BY <1>3, <1>4 DEF NewFilter
<1>7. F = [num_bits |-> bits, num_hashes |-> hashes, bits |-> set]
  <2>1. F = [empty EXCEPT !.bits = set]
    BY <1>5
  <2> HIDE DEF empty, F
  <2> QED
    BY <1>6, <2>1
<1>8. ASSUME NEW key \in keys
      PROVE  BitsOf(empty, key) \subseteq 0 .. bits - 1
             /\ BitsOf(F, key) = BitsOf(empty, key)
  <2>1. empty.num_bits = bits /\ empty.num_hashes = hashes
        /\ F.num_bits = bits /\ F.num_hashes = hashes
    BY <1>6, <1>7
  <2>2. Hash1[key] \in Nat /\ Hash2[key] \in Nat
    BY FormatAssumption
  <2>3. \A i \in 0 .. hashes - 1 : BitOf(empty, key, i) = BitOf(F, key, i)
    BY <2>1 DEF BitOf
  <2>4. ASSUME NEW i \in 0 .. hashes - 1 PROVE BitOf(empty, key, i) \in 0 .. bits - 1
    <3>1. Hash1[key] + i * Hash2[key] \in Nat
      BY <2>2
    <3> QED
      BY <2>1, <3>1, ModType DEF BitOf
  <2> HIDE DEF F, empty
  <2> QED
    BY <2>1, <2>3, <2>4 DEF BitsOf
<1> HIDE DEF F, empty, n
<1>9. set \subseteq 0 .. bits - 1
  BY <1>5, <1>8
<1>10. /\ F.num_bits = bits /\ F.num_hashes = hashes /\ F.bits = set
       /\ F = [num_bits |-> bits, num_hashes |-> hashes, bits |-> set]
  BY <1>7
<1>11. F \in Filter
  BY <1>9, <1>10 DEF Filter
<1>12. \A b \in set : b < bits
  BY <1>9
<1>13. \A k \in keys : MightContain(F, k)
  BY <1>5, <1>8, <1>10 DEF MightContain
<1> QED
  BY <1>1, <1>2, <1>3, <1>4, <1>10, <1>11, <1>12, <1>13 DEF n

\* A filter whose counts fit their fields is decoded as it was.
LEMMA FilterDecodes ==
    ASSUME NEW F \in Filter, F.num_bits < Width, F.num_hashes < Width,
           \A b \in F.bits : b < F.num_bits
    PROVE  /\ DecodeFilter(EncodeFilter(F)) = F
           /\ EncodeFilter(F).size \in Nat
<1>1. PICK m \in Nat : m = F.num_bits
  BY DEF Filter
<1>2. PICK h \in Nat : h = F.num_hashes
  BY DEF Filter
<1>3. PICK bits \in SUBSET Nat : bits = F.bits
  BY DEF Filter
<1>4. F = [num_bits |-> m, num_hashes |-> h, bits |-> bits]
  BY <1>1, <1>2, <1>3 DEF Filter
<1>5. PICK words \in Nat : words = Words(m) /\ m <= 64 * words
  <2>1. (m + 63) \div 64 \in Nat /\ m <= 64 * ((m + 63) \div 64)
    OBVIOUS
  <2> QED
    BY <2>1 DEF Words
<1>6. PICK data : data = EncodeFilter(F)
  OBVIOUS
<1>7. data = [num_bits |-> m, num_hashes |-> h, bits |-> bits, size |-> 8 + 8 * words]
  <2>1. U32(m) = m /\ U32(h) = h
    BY <1>1, <1>2, FitsField
  <2> QED
    BY <1>1, <1>2, <1>3, <1>5, <1>6, <2>1 DEF EncodeFilter
<1>8. data # Garbage
  <2>1. data \in [num_bits : Nat, num_hashes : Nat, bits : SUBSET Nat, size : Nat]
    BY <1>7
  <2> QED
    BY <2>1, GarbageAssumption
<1>9. {b \in bits : b < 64 * words} = bits
  <2>1. \A b \in bits : b < m /\ b \in Nat
    BY <1>1, <1>3
  <2>2. \A b \in bits : b < 64 * words
    BY <1>5, <2>1
  <2> QED
    BY <2>2
<1>10. DecodeFilter(data) = [num_bits |-> m, num_hashes |-> h, bits |-> bits]
  <2>1. data.num_bits = m /\ data.num_hashes = h /\ data.bits = bits
        /\ data.size = 8 + 8 * words
    BY <1>7
  <2>2. ~(data.size < 8 + 8 * Words(data.num_bits))
    BY <1>5, <2>1
  <2> QED
    BY <1>5, <1>8, <1>9, <2>1, <2>2 DEF DecodeFilter
<1>11. data.size = 8 + 8 * words /\ 8 + 8 * words \in Nat
  BY <1>7
<1> QED
  BY <1>4, <1>6, <1>10, <1>11

\* The only segment that begins at an offset is what is read from there.
LEMMA BytesAtIs ==
    ASSUME NEW segments, NEW at, NEW size, NEW holds,
           Segment(at, size, holds) \in segments,
           \A s \in segments : s.at = at => s.holds = holds
    PROVE  BytesAt(segments, at, size) = holds
<1>1. PICK s : s = Segment(at, size, holds)
  OBVIOUS
<1>2. s \in segments /\ s.at = at /\ s.size = size
  BY <1>1 DEF Segment
<1>3. PICK c : c = CHOOSE z \in segments : z.at = at /\ z.size = size
  OBVIOUS
<1>4. c \in segments /\ c.at = at
  BY <1>2, <1>3
<1> QED
  BY <1>2, <1>3, <1>4 DEF BytesAt

\* The index has an entry of twelve bytes or more for each block.
LEMMA IndexIs ==
    ASSUME NEW blocks \in Blocks, NEW m \in Nat \ {0}, Len(blocks) = m,
           \A b \in DOMAIN blocks : blocks[b] # <<>>
    PROVE  /\ IndexOf(blocks) \in [1 .. m -> IndexEntry]
           /\ \A i \in 1 .. m :
                IndexOf(blocks)[i] = [first_key    |-> blocks[i][1].key,
                                      block_offset |-> U32(BlockOffset(blocks, i)),
                                      block_size   |-> U32(BlockLen(blocks[i]))]
           /\ IndexLen(IndexOf(blocks)) \in Nat
           /\ IndexLen(IndexOf(blocks)) >= 12
<1>1. DOMAIN blocks = 1 .. m /\ \A b \in 1 .. m : blocks[b] \in Seq(Record)
  BY DEF Blocks
<1>2. ASSUME NEW i \in 1 .. m
      PROVE  /\ Head(blocks[i]).key = blocks[i][1].key
             /\ blocks[i][1].key \in Key
             /\ U32(BlockOffset(blocks, i)) \in Nat
             /\ U32(BlockLen(blocks[i])) \in Nat
  <2>1. blocks[i] \in Seq(Record) /\ blocks[i] # <<>>
    BY <1>1
  <2>2. blocks[i][1] \in Record /\ Head(blocks[i]) = blocks[i][1]
    BY <2>1
  <2>3. BlockOffset(blocks, i) \in Nat /\ BlockLen(blocks[i]) \in Nat
    BY OffsetStep
  <2> QED
    BY <2>2, <2>3, FieldType DEF Record
<1>3. PICK index : index = IndexOf(blocks)
  OBVIOUS
<1>4. index \in [1 .. m -> IndexEntry]
      /\ \A i \in 1 .. m :
           index[i] = [first_key    |-> blocks[i][1].key,
                       block_offset |-> U32(BlockOffset(blocks, i)),
                       block_size   |-> U32(BlockLen(blocks[i]))]
  BY <1>1, <1>2, <1>3 DEF IndexOf, IndexEntry
<1> DEFINE f == [i \in DOMAIN index |-> 12 + KeyBytes[index[i].first_key]]
<1>5. f \in [1 .. m -> Nat] /\ f[m] >= 12
  <2>1. \A i \in 1 .. m : index[i].first_key \in Key
    BY <1>2, <1>4
  <2>2. \A i \in 1 .. m : KeyBytes[index[i].first_key] \in Nat
    BY <2>1, FormatAssumption
  <2>3. m \in 1 .. m /\ DOMAIN index = 1 .. m
    BY <1>4
  <2> QED
    BY <2>2, <2>3
<1>6. IndexLen(index) = SumFunction(f)
  BY DEF IndexLen
<1> HIDE DEF f
<1>7. SumFunction(f) \in Nat /\ SumFunction(f) >= f[m] /\ f[m] \in Nat
  BY <1>5, SumAboveLast
<1>8. IndexLen(index) \in Nat /\ IndexLen(index) >= 12
  BY <1>5, <1>6, <1>7
<1> QED
  BY <1>3, <1>4, <1>8

\* Of a number less than the width nothing is lost; of a greater one the
\* width at least.
LEMMA LostBytes ==
    ASSUME NEW n \in Nat, NEW m \in Nat, m + (n - U32(n)) < Width
    PROVE  n < Width /\ m < Width /\ U32(n) = n
<1>1. Width \in Nat \ {0}
  BY FormatAssumption
<1>2. n = Width * (n \div Width) + U32(n) /\ U32(n) \in 0 .. Width - 1
      /\ n \div Width \in Nat
  <2>1. PICK w \in Nat \ {0} : w = Width
    BY <1>1
  <2>2. n = w * (n \div w) + (n % w)
    OBVIOUS
  <2>3. n % w \in 0 .. w - 1 /\ n \div w \in Nat
    BY DivType, ModType
  <2> QED
    BY <2>1, <2>2, <2>3 DEF U32
<1>3. PICK q \in Nat : n = Width * q + U32(n)
  BY <1>2
<1>4. q = 0
  <2> SUFFICES ASSUME q >= 1 PROVE FALSE
    OBVIOUS
  <2>1. PICK p \in Nat : q = p + 1
    <3>1. q - 1 \in Nat /\ q = (q - 1) + 1
      OBVIOUS
    <3> QED
      BY <3>1
  <2>2. Width * q = Width * p + Width /\ Width * p \in Nat
    BY <1>1, <2>1
  <2> QED
    BY <1>1, <1>2, <1>3, <2>2
<1>5. n = U32(n)
  BY <1>1, <1>2, <1>3, <1>4
<1> QED
  BY <1>1, <1>2, <1>5

\* A table whose offsets fit their fields loads, as that of its contents.
LEMMA Loads ==
    ASSUME NEW E \in Contents, E # NoContents, Fits(WriteTable(E))
    PROVE  /\ LoadTable(WriteTable(E)) # Garbage
           /\ IsTable(LoadTable(WriteTable(E)), E)
<1>1. PICK n \in Nat \ {0} : n = Cardinality(KeysOf(E)) /\ n <= Cardinality(Key)
  BY SomeKey, KeysAreNumbers
<1>2. PICK B : B = BlocksOf(E)
  OBVIOUS
<1>3. PICK m \in 1 .. n : m = Len(B)
  BY <1>1, <1>2, BlocksHold
<1>4. /\ HoldsContents(B, E) /\ B \in Blocks /\ DOMAIN B = 1 .. m
      /\ End(B) + 1 >= HeaderSize + 10 * n
      /\ \A b \in 1 .. m : /\ B[b] \in Seq(Record) /\ B[b] # <<>>
                           /\ Len(B[b]) \in 1 .. n
  <2>1. HoldsContents(B, E) /\ End(B) + 1 >= HeaderSize + 10 * n
        /\ \A b \in DOMAIN B : Len(B[b]) \in 1 .. n
    BY <1>1, <1>2, BlocksHold
  <2>2. B \in Blocks
    BY <2>1 DEF HoldsContents
  <2>3. DOMAIN B = 1 .. m /\ \A b \in 1 .. m : B[b] \in Seq(Record)
    BY <1>3, <2>2 DEF Blocks
  <2>4. ASSUME NEW b \in 1 .. m PROVE B[b] # <<>>
    <3>1. Len(B[b]) \in 1 .. n
      BY <2>1, <2>3
    <3> QED
      BY <3>1
  <2> QED
    BY <2>1, <2>2, <2>3, <2>4
<1>5. PICK index \in [1 .. m -> IndexEntry] :
        /\ index = IndexOf(B)
        /\ \A i \in 1 .. m : index[i] = [first_key    |-> B[i][1].key,
                                         block_offset |-> U32(BlockOffset(B, i)),
                                         block_size   |-> U32(BlockLen(B[i]))]
  <2>1. m \in Nat \ {0} /\ \A b \in DOMAIN B : B[b] # <<>>
    BY <1>4
  <2> QED
    BY <1>3, <1>4, <2>1, IndexIs
<1>6. PICK il \in Nat : il = IndexLen(index) /\ il >= 12
  <2>1. m \in Nat \ {0} /\ \A b \in DOMAIN B : B[b] # <<>>
    BY <1>4
  <2> QED
    BY <1>3, <1>4, <1>5, <2>1, IndexIs
<1>7. PICK F \in Filter :
        /\ F = FilterOf(KeysOf(E))
        /\ F.num_bits = OptimalBits(n)
        /\ F.num_hashes = OptimalHashes(OptimalBits(n), n)
        /\ \A b \in F.bits : b < F.num_bits
        /\ \A k \in KeysOf(E) : MightContain(F, k)
  BY <1>1, FilterPasses, KeysAreNumbers, SomeKey
<1>8. PICK D : D = EncodeFilter(F)
  OBVIOUS
<1>9. PICK io \in Nat : io = End(B) /\ io + 1 >= 20 + 10 * n
  BY <1>4, EndType DEF HeaderSize
<1>10. PICK bo \in Nat : bo = io + il
  OBVIOUS
<1>11. PICK file : file = WriteTable(E)
  OBVIOUS
<1> DEFINE segments == {Segment(BlockOffset(B, i), BlockLen(B[i]), B[i]) : i \in 1 .. m}
                       \cup {Segment(io, il, index), Segment(bo, D.size, D)}
<1>12. file = [segments     |-> segments,
               size         |-> bo + D.size + FooterSize,
               record_count |-> U32(n),
               block_count  |-> U32(m),
               index_offset |-> U32(io),
               index_size   |-> U32(il),
               bloom_offset |-> U32(bo),
               bloom_size   |-> U32(D.size)]
  <2>1. /\ BlocksOf(E) = B /\ IndexOf(B) = index /\ IndexLen(index) = il
        /\ EncodeFilter(FilterOf(KeysOf(E))) = D /\ DOMAIN B = 1 .. m
        /\ Len(B) = m /\ Cardinality(KeysOf(E)) = n
    BY <1>1, <1>2, <1>3, <1>4, <1>5, <1>6, <1>7, <1>8
  <2>2. BlockOffset(B, Len(B) + 1) = io /\ io + il = bo
    BY <1>9, <1>10 DEF End
  <2> HIDE DEF segments
  <2>3. segments = {Segment(BlockOffset(B, i), BlockLen(B[i]), B[i]) : i \in DOMAIN B}
                   \cup {Segment(io, il, index), Segment(bo, D.size, D)}
    BY <2>1 DEF segments
  <2>4. WriteTable(E) =
          [segments     |-> segments,
           size         |-> bo + D.size + FooterSize,
           record_count |-> U32(n),
           block_count  |-> U32(Len(B)),
           index_offset |-> U32(io),
           index_size   |-> U32(il),
           bloom_offset |-> U32(bo),
           bloom_size   |-> U32(D.size)]
    BY <2>1, <2>2, <2>3, Zenon DEF WriteTable
  <2> QED
    BY <1>11, <2>1, <2>4
<1>13. /\ F.num_bits \in Nat /\ (F.num_bits = 64 \/ F.num_bits <= 10 * n)
       /\ F.num_hashes \in Nat /\ F.num_hashes <= 30
  <2>1. PICK bits : bits = OptimalBits(n)
    OBVIOUS
  <2>2. bits \in Nat /\ (bits = 64 \/ bits <= 10 * n)
        /\ OptimalHashes(bits, n) \in 1 .. 30
    BY <2>1, FilterSizes
  <2>3. F.num_bits = bits /\ F.num_hashes = OptimalHashes(bits, n)
    BY <1>7, <2>1
  <2>4. PICK h \in 1 .. 30 : h = F.num_hashes
    BY <2>2, <2>3
  <2>5. PICK b \in Nat : b = F.num_bits /\ (b = 64 \/ b <= 10 * n)
    BY <2>2, <2>3
  <2>6. h \in Nat /\ h <= 30
    OBVIOUS
  <2>7. F.num_hashes \in Nat /\ F.num_hashes <= 30
    BY <2>4, <2>6
  <2>8. F.num_bits \in Nat /\ (F.num_bits = 64 \/ F.num_bits <= 10 * n)
    BY <2>5
  <2> QED
    BY <2>7, <2>8
<1>14. D.size \in Nat
  <2>1. D.size = 8 + 8 * Words(F.num_bits)
    BY <1>8 DEF EncodeFilter
  <2>2. Words(F.num_bits) \in Nat
    BY <1>13, DivType DEF Words
  <2> QED
    BY <2>1, <2>2
<1>15. bo < Width /\ U32(D.size) = D.size
  <2>1. file.size - FooterSize - file.bloom_size < Width
    BY <1>11 DEF Fits
  <2>2. file.size = bo + D.size + FooterSize /\ file.bloom_size = U32(D.size)
    BY <1>12
  <2>3. PICK d \in Nat : d = D.size
    BY <1>14
  <2>4. U32(d) \in Nat
    BY FieldType
  <2>5. bo + (d - U32(d)) < Width
    <3>1. (bo + d + FooterSize) - FooterSize - U32(d) < Width
      BY <2>1, <2>2, <2>3
    <3>2. Width \in Int
      BY FormatAssumption
    <3> QED
      BY <2>4, <3>1, <3>2 DEF FooterSize
  <2> QED
    BY <2>3, <2>5, LostBytes
<1>16. DecodeFilter(D) = F
  <2>1. Width \in Nat /\ Width > 64
    BY FormatAssumption
  <2>2. F.num_bits < Width /\ F.num_hashes < Width
    <3>1. PICK bits \in Nat : bits = F.num_bits /\ (bits = 64 \/ bits <= 10 * n)
      BY <1>13
    <3>2. 10 * n < bo
      BY <1>6, <1>9, <1>10
    <3>3. bits < Width
      BY <1>15, <2>1, <3>1, <3>2
    <3> QED
      BY <1>13, <2>1, <3>1, <3>3
  <2> QED
    BY <1>7, <1>8, <2>2, FilterDecodes
<1>17. /\ \A i \in 1 .. m :
            /\ BlockOffset(B, i) \in Nat /\ BlockLen(B[i]) \in Nat
            /\ BlockOffset(B, i) < io /\ BlockLen(B[i]) <= io
       /\ \A i, j \in 1 .. m : i # j => BlockOffset(B, i) # BlockOffset(B, j)
  <2>1. \A b \in DOMAIN B : B[b] # <<>>
    BY <1>4
  <2>2. ASSUME NEW i \in 1 .. m
        PROVE  /\ BlockOffset(B, i) \in Nat /\ BlockLen(B[i]) \in Nat
               /\ BlockOffset(B, i) < io /\ BlockLen(B[i]) <= io
    <3>1. PICK j \in Nat : j = Len(B) + 1 /\ i \in 1 .. j - 1 /\ j \in 1 .. Len(B) + 1
      BY <1>3
    <3>2. /\ BlockOffset(B, i) \in Nat /\ BlockLen(B[i]) \in Nat
          /\ BlockOffset(B, i) + BlockLen(B[i]) <= BlockOffset(B, j)
          /\ BlockOffset(B, i) < BlockOffset(B, j)
      BY <1>4, <2>1, <3>1, OffsetsAscend
    <3>3. BlockOffset(B, j) = io
      BY <1>9, <3>1 DEF End
    <3> QED
      BY <3>2, <3>3
  <2>3. ASSUME NEW i \in 1 .. m, NEW j \in 1 .. m, i < j
        PROVE  BlockOffset(B, i) < BlockOffset(B, j)
    <3>1. j \in 1 .. Len(B) + 1 /\ i \in 1 .. j - 1
      BY <1>3, <2>3
    <3> QED
      BY <1>4, <2>1, <3>1, OffsetsAscend
  <2>4. ASSUME NEW i \in 1 .. m, NEW j \in 1 .. m, i # j
        PROVE  BlockOffset(B, i) # BlockOffset(B, j)
    <3>1. BlockOffset(B, i) \in Nat /\ BlockOffset(B, j) \in Nat
      BY <2>2
    <3>2. i < j \/ j < i
      BY <2>4
    <3> QED
      BY <2>3, <3>1, <3>2
  <2> QED
    BY <2>2, <2>4
<1>18. \A s \in segments :
         \/ \E i \in 1 .. m : s.at = BlockOffset(B, i) /\ s.holds = B[i]
         \/ s.at = io /\ s.holds = index
         \/ s.at = bo /\ s.holds = D
  BY DEF Segment
<1>19. io < bo /\ U32(bo) = bo /\ U32(io) = io /\ U32(il) = il /\ U32(m) = m
  <2>1. Width \in Nat /\ bo < Width /\ io < Width /\ il < Width /\ m < Width /\ io < bo
    BY <1>6, <1>9, <1>10, <1>15, FormatAssumption
  <2> QED
    BY <2>1, FitsField
<1>20. BytesAt(segments, bo, D.size) = D
  <2>1. Segment(bo, D.size, D) \in segments
    OBVIOUS
  <2>2. ASSUME NEW s \in segments, s.at = bo PROVE s.holds = D
    <3>1. \A i \in 1 .. m : BlockOffset(B, i) # bo
      BY <1>17, <1>19
    <3> HIDE DEF segments
    <3> QED
      BY <1>18, <1>19, <2>2, <3>1
  <2> HIDE DEF segments
  <2> QED
    BY <2>1, <2>2, BytesAtIs
<1>21. BytesAt(segments, io, il) = index
  <2>1. Segment(io, il, index) \in segments
    OBVIOUS
  <2>2. ASSUME NEW s \in segments, s.at = io PROVE s.holds = index
    <3>1. \A i \in 1 .. m : BlockOffset(B, i) # io
      BY <1>17
    <3> HIDE DEF segments
    <3> QED
      BY <1>18, <1>19, <2>2, <3>1
  <2> HIDE DEF segments
  <2> QED
    BY <2>1, <2>2, BytesAtIs
<1>22. ASSUME NEW i \in 1 .. m
       PROVE  BytesAt(segments, index[i].block_offset, index[i].block_size) = B[i]
  <2>1. PICK at \in Nat : at = BlockOffset(B, i)
    BY <1>17
  <2>2. PICK size \in Nat : size = BlockLen(B[i])
    BY <1>17
  <2>3. index[i].block_offset = at /\ index[i].block_size = size
    <3>1. index[i].block_offset = U32(at) /\ index[i].block_size = U32(size)
      BY <1>5, <2>1, <2>2
    <3>2. at < Width /\ size < Width
      <4>1. at < io /\ size <= io /\ io < bo /\ bo < Width /\ Width \in Nat
        BY <1>15, <1>17, <1>19, <2>1, <2>2, FormatAssumption
      <4> QED
        BY <4>1
    <3> QED
      BY <3>1, <3>2, FitsField
  <2>4. Segment(at, size, B[i]) \in segments
    BY <2>1, <2>2
  <2>5. ASSUME NEW s \in segments, s.at = at PROVE s.holds = B[i]
    <3>1. at # io /\ at # bo
      BY <1>17, <1>19, <2>1
    <3>2. \A j \in 1 .. m : j # i => BlockOffset(B, j) # at
      BY <1>17, <2>1
    <3> HIDE DEF segments
    <3> QED
      BY <1>18, <2>5, <3>1, <3>2
  <2> HIDE DEF segments
  <2> QED
    BY <2>3, <2>4, <2>5, BytesAtIs
<1> HIDE DEF segments
<1>23. m \in 1 .. Cardinality(Key) /\ index # Garbage
  <2>1. m \in 1 .. Cardinality(Key)
    BY <1>1, KeysAreNumbers
  <2> QED
    BY <2>1, GarbageAssumption
<1>24. F # Garbage
  BY <1>7, GarbageAssumption
<1>25. PICK t : t = LoadTable(file)
  OBVIOUS
<1>26. t = [index |-> index, blocks |-> B, bloom |-> F, block_count |-> m]
  <2>1. /\ file.segments = segments /\ file.index_offset = io /\ file.index_size = il
        /\ file.bloom_offset = bo /\ file.bloom_size = D.size /\ file.block_count = m
    BY <1>12, <1>15, <1>19
  <2>2. [i \in DOMAIN index |-> BytesAt(segments, index[i].block_offset,
                                         index[i].block_size)] = B
    <3>1. B = [i \in 1 .. m |-> B[i]]
      BY <1>4 DEF Blocks
    <3> QED
      BY <1>22, <3>1
  <2> QED
    BY <1>16, <1>20, <1>21, <1>23, <1>24, <1>25, <2>1, <2>2 DEF LoadTable
<1>27. t # Garbage
  <2>1. B \in [1 .. m -> Seq(Record)]
    <3>1. B = [i \in 1 .. m |-> B[i]]
      BY <1>4 DEF Blocks
    <3> QED
      BY <1>4, <3>1
  <2>2. t \in [index : [1 .. m -> IndexEntry], blocks : [1 .. m -> Seq(Record)],
               bloom : Filter, block_count : Nat]
    BY <1>26, <2>1
  <2> QED
    BY <1>23, <2>2, GarbageAssumption
<1>28. IsTable(t, E)
  <2>1. t.index = index /\ t.blocks = B /\ t.bloom = F /\ t.block_count = m
    BY <1>26
  <2>2. index \in Seq(IndexEntry) /\ Len(index) = m /\ DOMAIN index = 1 .. m
    OBVIOUS
  <2>3. FirstKeysOf([b \in DOMAIN t.index |-> t.index[b].first_key], t.blocks)
    BY <1>4, <1>5, <2>1, <2>2 DEF FirstKeysOf
  <2>4. ASSUME NEW b \in 1 .. m PROVE B[b] # Garbage
    <3>1. PICK l \in 1 .. n : l = Len(B[b])
      BY <1>4
    <3>2. l \in 1 .. Cardinality(Key) /\ B[b] \in [1 .. l -> Record]
      <4>1. l \in 1 .. Cardinality(Key)
        BY <1>1, KeysAreNumbers
      <4> QED
        BY <1>4, <3>1, <4>1
    <3> QED
      BY <3>2, GarbageAssumption
  <2>5. t \in Tables
    BY <1>4, <1>26, <2>2 DEF Tables
  <2> QED
    BY <1>4, <1>7, <2>1, <2>2, <2>3, <2>4, <2>5 DEF IsTable
<1> QED
  BY <1>11, <1>25, <1>27, <1>28

-----------------------------------------------------------------------------
(***************************************************************************)
(* Finding a record in its blocks.                                         *)
(***************************************************************************)

\* Blocks are sequences of records with keys of E, which are numbers.
LEMMA HeldType ==
    ASSUME NEW E \in Contents, NEW blocks, HoldsContents(blocks, E)
    PROVE  /\ Len(blocks) \in Nat \ {0} /\ DOMAIN blocks = 1 .. Len(blocks)
           /\ \A b \in DOMAIN blocks :
                /\ blocks[b] \in Seq(Record) /\ Len(blocks[b]) \in Nat
                /\ DOMAIN blocks[b] = 1 .. Len(blocks[b])
                /\ \A i \in DOMAIN blocks[b] :
                     /\ blocks[b][i] \in Record /\ blocks[b][i].key \in Nat
                     /\ blocks[b][i].key \in KeysOf(E)
<1>1. blocks \in Seq(Seq(Record)) /\ blocks # <<>>
  BY DEF HoldsContents, Blocks
<1>2. Len(blocks) \in Nat \ {0} /\ DOMAIN blocks = 1 .. Len(blocks)
      /\ \A b \in DOMAIN blocks : blocks[b] \in Seq(Record)
  BY <1>1
<1>3. ASSUME NEW b \in DOMAIN blocks
      PROVE  /\ Len(blocks[b]) \in Nat
             /\ DOMAIN blocks[b] = 1 .. Len(blocks[b])
             /\ \A i \in DOMAIN blocks[b] : blocks[b][i] \in Record
  <2>1. PICK s \in Seq(Record) : s = blocks[b]
    BY <1>2
  <2>2. Len(s) \in Nat /\ DOMAIN s = 1 .. Len(s) /\ \A i \in DOMAIN s : s[i] \in Record
    OBVIOUS
  <2> QED
    BY <2>1, <2>2
<1>4. \A b \in DOMAIN blocks : \A i \in DOMAIN blocks[b] : blocks[b][i].key \in KeysOf(E)
  BY DEF HoldsContents
<1>5. KeysOf(E) \subseteq Nat
  BY KeysAreNumbers
<1> QED
  BY <1>2, <1>3, <1>4, <1>5

\* The last of the leading blocks that begin at or before k: what comes
\* earlier is before k, and what comes later is past it.
LEMMA FindsBlock ==
    ASSUME NEW E \in Contents, NEW blocks, HoldsContents(blocks, E),
           NEW firsts, FirstKeysOf(firsts, blocks), NEW k \in Nat, NEW b,
           b = Greatest({1} \cup {i \in DOMAIN firsts : \A j \in 1 .. i : firsts[j] <= k})
    PROVE  /\ b \in DOMAIN blocks
           /\ \A c \in DOMAIN blocks : \A i \in DOMAIN blocks[c] :
                (c < b => blocks[c][i].key < k) /\ (c > b => blocks[c][i].key > k)
<1> DEFINE S == {i \in DOMAIN firsts : \A j \in 1 .. i : firsts[j] <= k}
<1>1. PICK m \in Nat \ {0} : m = Len(blocks) /\ DOMAIN blocks = 1 .. m
                             /\ DOMAIN firsts = 1 .. m
  BY HeldType DEF FirstKeysOf
<1>2. \A c \in 1 .. m : \A i \in DOMAIN blocks[c] : blocks[c][i].key \in Nat /\ i \in Nat /\ i >= 1
  <2>1. ASSUME NEW c \in 1 .. m, NEW i \in DOMAIN blocks[c]
        PROVE  blocks[c][i].key \in Nat /\ i \in Nat /\ i >= 1
    <3>1. blocks[c][i].key \in Nat /\ i \in 1 .. Len(blocks[c]) /\ Len(blocks[c]) \in Nat
      BY <1>1, HeldType
    <3> QED
      BY <3>1
  <2> QED
    BY <2>1
<1>3. \A c \in 1 .. m : 1 \in DOMAIN blocks[c] /\ firsts[c] = blocks[c][1].key
  <2>1. ASSUME NEW c \in 1 .. m PROVE 1 \in DOMAIN blocks[c]
    <3>1. blocks[c] \in Seq(Record) /\ blocks[c] # <<>>
      BY <1>1, HeldType DEF FirstKeysOf
    <3> QED
      BY <3>1
  <2> QED
    BY <1>1, <2>1 DEF FirstKeysOf
<1>4. b \in {1} \cup S /\ \A c \in {1} \cup S : c <= b
  <2>1. {1} \cup S \in SUBSET (1 .. m) /\ {1} \cup S # {}
    BY <1>1
  <2>2. IsFiniteSet({1} \cup S)
    <3>1. IsFiniteSet(1 .. m)
      BY FS_Interval
    <3> HIDE DEF S
    <3> QED
      BY <2>1, <3>1, FS_Subset
  <2>3. {1} \cup S \in SUBSET Nat
    BY <2>1
  <2> HIDE DEF S
  <2>4. b = Greatest({1} \cup S)
    BY DEF S
  <2> QED
    BY <2>1, <2>2, <2>3, <2>4, GreatestOfFinite
<1>5. b \in 1 .. m
  BY <1>1, <1>4
<1>6. ASSUME NEW c \in 1 .. m, NEW i \in DOMAIN blocks[c], c < b
      PROVE  blocks[c][i].key < k
  <2>1. b # 1 /\ b \in S
    BY <1>4, <1>5, <1>6
  <2>2. firsts[b] <= k
    BY <1>5, <2>1
  <2>3. blocks[c][i].key < blocks[b][1].key
    BY <1>1, <1>3, <1>5, <1>6 DEF HoldsContents, Ordered
  <2> QED
    BY <1>2, <1>3, <1>5, <2>2, <2>3
<1>7. ASSUME NEW c \in 1 .. m, NEW i \in DOMAIN blocks[c], c > b
      PROVE  blocks[c][i].key > k
  <2>1. b + 1 \in 1 .. m /\ ~(b + 1 <= b)
    BY <1>5, <1>7
  <2>2. b + 1 \notin S
    BY <1>4, <2>1
  <2>3. PICK j \in 1 .. b + 1 : ~(firsts[j] <= k)
    BY <1>1, <2>1, <2>2
  <2>4. j \in 1 .. m /\ j <= c
    BY <1>5, <1>7
  <2>5. blocks[j][1].key > k
    BY <1>2, <1>3, <2>3, <2>4
  <2>6. blocks[j][1].key <= blocks[c][i].key
    <3>1. CASE j = c /\ i = 1
      BY <1>2, <3>1
    <3>2. CASE j < c \/ (j = c /\ 1 < i)
      <4>1. blocks[j][1].key < blocks[c][i].key
        BY <1>1, <1>3, <2>4, <3>2 DEF HoldsContents, Ordered
      <4> QED
        BY <1>2, <1>3, <2>4, <4>1
    <3>3. i \in Nat /\ i >= 1
      BY <1>2
    <3>4. (j = c /\ i = 1) \/ j < c \/ (j = c /\ 1 < i)
      BY <2>4, <3>3
    <3> QED
      BY <3>1, <3>2, <3>4
  <2> QED
    BY <1>2, <1>3, <2>4, <2>5, <2>6
<1> QED
  BY <1>1, <1>5, <1>6, <1>7

\* get finds every record of a table, and no other.
LEMMA GetsRecord ==
    ASSUME NEW E \in Contents, NEW t, IsTable(t, E), NEW k \in Key
    PROVE  GetRecord(t, k) = E[k]
<1>1. HoldsContents(t.blocks, E)
      /\ FirstKeysOf([b \in DOMAIN t.index |-> t.index[b].first_key], t.blocks)
  BY DEF IsTable
<1>2. k \in Nat
  BY KeyAssumption
<1>3. PICK b : b = FindBlock(t, k)
  OBVIOUS
<1>4. /\ b \in DOMAIN t.blocks
      /\ \A c \in DOMAIN t.blocks : \A i \in DOMAIN t.blocks[c] :
           (c < b => t.blocks[c][i].key < k) /\ (c > b => t.blocks[c][i].key > k)
  <2> DEFINE firsts == [i \in DOMAIN t.index |-> t.index[i].first_key]
  <2>1. FindBlock(t, k)
          = Greatest({1} \cup {i \in DOMAIN firsts : \A j \in 1 .. i : firsts[j] <= k})
    <3>1. \A i \in DOMAIN t.index : (\A j \in 1 .. i : firsts[j] <= k)
                                    <=> (\A j \in 1 .. i : t.index[j].first_key <= k)
      <4>1. PICK n \in Nat : DOMAIN t.index = 1 .. n
        BY DEF IsTable
      <4>2. \A i \in DOMAIN t.index : \A j \in 1 .. i : j \in DOMAIN t.index
        BY <4>1
      <4> QED
        BY <4>2
    <3> QED
      BY <3>1 DEF FindBlock
  <2> HIDE DEF firsts
  <2>2. FirstKeysOf(firsts, t.blocks)
    BY <1>1 DEF firsts
  <2> QED
    BY <1>1, <1>2, <1>3, <2>1, <2>2, FindsBlock
<1>5. PICK block : block = t.blocks[b]
  OBVIOUS
<1>6. /\ block # Garbage
      /\ DOMAIN block = 1 .. Len(block) /\ Len(block) \in Nat
      /\ \A i \in DOMAIN block : block[i].key \in Nat
      /\ \A i, j \in DOMAIN block : i < j => block[i].key < block[j].key
      /\ \A i \in DOMAIN block : block[i].key \in KeysOf(E)
                                 /\ block[i].entry = E[block[i].key]
  <2>1. block # Garbage
    BY <1>4, <1>5 DEF IsTable
  <2>2. DOMAIN block = 1 .. Len(block) /\ Len(block) \in Nat
        /\ \A i \in DOMAIN block : block[i].key \in Nat
    BY <1>1, <1>4, <1>5, HeldType
  <2>3. \A i, j \in DOMAIN block : i < j => block[i].key < block[j].key
    BY <1>1, <1>4, <1>5 DEF HoldsContents, Ordered
  <2>4. \A i \in DOMAIN block : block[i].key \in KeysOf(E)
                                 /\ block[i].entry = E[block[i].key]
    BY <1>1, <1>4, <1>5 DEF HoldsContents
  <2> QED
    BY <2>1, <2>2, <2>3, <2>4
<1> DEFINE hits == {i \in DOMAIN block :
                      block[i].key = k /\ \A j \in 1 .. i : block[j].key <= k}
<1>7. SearchBlock(block, k) = IF hits = {} THEN Absent ELSE block[Least(hits)].entry
  BY DEF SearchBlock
<1>8. CASE E[k] # Absent
  <2>1. k \in KeysOf(E)
    BY <1>8 DEF KeysOf
  <2>9. PICK c \in DOMAIN t.blocks : \E i \in DOMAIN t.blocks[c] : t.blocks[c][i].key = k
    BY <1>1, <2>1 DEF HoldsContents
  <2>2. PICK i \in DOMAIN t.blocks[c] : t.blocks[c][i].key = k
    BY <2>9
  <2>3. c = b
    <3>1. ~(c < b) /\ ~(c > b)
      BY <1>2, <1>4, <2>2
    <3>2. b \in Nat /\ c \in Nat
      <4>1. DOMAIN t.blocks = 1 .. Len(t.blocks) /\ Len(t.blocks) \in Nat
        BY <1>1, HeldType
      <4> QED
        BY <1>4, <4>1
    <3> QED
      BY <3>1, <3>2
  <2>4. i \in DOMAIN block /\ block[i].key = k
    BY <1>5, <2>2, <2>3
  <2>5. i \in hits
    <3>1. ASSUME NEW j \in 1 .. i PROVE block[j].key <= k
      <4>1. CASE j = i
        BY <1>2, <2>4, <4>1
      <4>2. CASE j # i
        <5>1. i \in Nat /\ i <= Len(block)
          BY <1>6, <2>4
        <5>2. j \in DOMAIN block /\ j < i
          BY <1>6, <4>2, <5>1
        <5>3. block[j].key < k /\ block[j].key \in Nat
          BY <1>6, <2>4, <5>2
        <5> QED
          BY <1>2, <5>3
      <4> QED
        BY <4>1, <4>2
    <3> QED
      BY <2>4, <3>1
  <2>6. Least(hits) \in hits
    <3>1. hits \in SUBSET Nat
      BY <1>6
    <3> HIDE DEF hits
    <3> QED
      BY <2>5, <3>1, LeastOfNaturals
  <2>7. block[Least(hits)].entry = E[k]
    <3>1. Least(hits) \in DOMAIN block /\ block[Least(hits)].key = k
      BY <2>6
    <3> HIDE DEF hits
    <3> QED
      BY <1>6, <3>1
  <2>8. MightContain(t.bloom, k)
    BY <2>1 DEF IsTable
  <2> HIDE DEF hits
  <2> QED
    BY <1>3, <1>5, <1>6, <1>7, <2>5, <2>7, <2>8 DEF GetRecord
<1>9. CASE E[k] = Absent
  <2>1. hits = {}
    <3>1. \A i \in DOMAIN block : block[i].key # k
      BY <1>6, <1>9 DEF KeysOf
    <3> QED
      BY <3>1
  <2> HIDE DEF hits
  <2> QED
    BY <1>3, <1>5, <1>7, <1>9, <2>1 DEF GetRecord
<1> QED
  BY <1>8, <1>9

\* The first and the last record of a table have its least and its greatest
\* key; its records are those of its contents.
LEMMA TableEnds ==
    ASSUME NEW E \in Contents, NEW t, IsTable(t, E)
    PROVE  /\ FirstKey(t) = Least(KeysOf(E))
           /\ LastKey(t) = Greatest(KeysOf(E))
           /\ EntriesOf(t) = ToSet(RecordsOf(E))
<1>1. PICK blocks : blocks = t.blocks
  OBVIOUS
<1>2. HoldsContents(blocks, E)
  BY <1>1 DEF IsTable
<1>3. PICK m \in Nat \ {0} : m = Len(blocks) /\ DOMAIN blocks = 1 .. m
                             /\ DOMAIN t.index = 1 .. m /\ Len(t.index) = m
  <2>1. Len(blocks) \in Nat \ {0} /\ DOMAIN blocks = 1 .. Len(blocks)
    BY <1>2, HeldType
  <2>2. DOMAIN t.index = DOMAIN blocks /\ t.index \in Seq(IndexEntry)
    BY <1>1 DEF IsTable, FirstKeysOf
  <2>3. Len(t.index) = Len(blocks)
    BY <2>1, <2>2
  <2> QED
    BY <2>1, <2>2, <2>3
<1>4. \A b \in 1 .. m : /\ blocks[b] # <<>> /\ blocks[b] \in Seq(Record)
                        /\ t.index[b].first_key = blocks[b][1].key
                        /\ Len(blocks[b]) \in Nat \ {0}
                        /\ DOMAIN blocks[b] = 1 .. Len(blocks[b])
                        /\ \A i \in DOMAIN blocks[b] : blocks[b][i].key \in Nat
  <2>1. ASSUME NEW b \in 1 .. m
        PROVE  blocks[b] # <<>> /\ t.index[b].first_key = blocks[b][1].key
    BY <1>1, <1>3 DEF IsTable, FirstKeysOf
  <2>2. ASSUME NEW b \in 1 .. m
        PROVE  /\ blocks[b] \in Seq(Record) /\ Len(blocks[b]) \in Nat \ {0}
               /\ DOMAIN blocks[b] = 1 .. Len(blocks[b])
               /\ \A i \in DOMAIN blocks[b] : blocks[b][i].key \in Nat
    <3>1. /\ blocks[b] \in Seq(Record) /\ Len(blocks[b]) \in Nat
          /\ DOMAIN blocks[b] = 1 .. Len(blocks[b])
          /\ \A i \in DOMAIN blocks[b] : blocks[b][i].key \in Nat
      BY <1>2, <1>3, HeldType
    <3>2. blocks[b] # <<>>
      BY <2>1
    <3> QED
      BY <3>1, <3>2
  <2> QED
    BY <2>1, <2>2
<1>5. \A b \in 1 .. m : \A i \in DOMAIN blocks[b] :
        blocks[b][i].key \in KeysOf(E) /\ blocks[b][i].entry = E[blocks[b][i].key]
  BY <1>2, <1>3 DEF HoldsContents
<1>6. \A k \in KeysOf(E) : \E b \in 1 .. m : \E i \in DOMAIN blocks[b] : blocks[b][i].key = k
  BY <1>2, <1>3 DEF HoldsContents
<1>7. \A b, c \in 1 .. m : \A i \in DOMAIN blocks[b], j \in DOMAIN blocks[c] :
        b < c \/ (b = c /\ i < j) => blocks[b][i].key < blocks[c][j].key
  BY <1>2, <1>3 DEF HoldsContents, Ordered
<1>8. KeysOf(E) \in SUBSET Nat /\ IsFiniteSet(KeysOf(E))
  BY KeysAreNumbers
<1>9. FirstKey(t) = Least(KeysOf(E))
  <2>1. PICK f : f = blocks[1][1].key
    OBVIOUS
  <2>2. FirstKey(t) = f /\ f \in KeysOf(E) /\ 1 \in 1 .. m /\ 1 \in DOMAIN blocks[1]
    BY <1>3, <1>4, <1>5, <2>1 DEF FirstKey
  <2>3. ASSUME NEW k \in KeysOf(E) PROVE f <= k
    <3>1. PICK b \in 1 .. m : \E i \in DOMAIN blocks[b] : blocks[b][i].key = k
      BY <1>6
    <3>2. PICK i \in DOMAIN blocks[b] : blocks[b][i].key = k
      BY <3>1
    <3>3. i \in 1 .. Len(blocks[b]) /\ Len(blocks[b]) \in Nat
      BY <1>4
    <3>4. (b = 1 /\ i = 1) \/ 1 < b \/ (1 = b /\ 1 < i)
      BY <3>3
    <3>5. CASE b = 1 /\ i = 1
      BY <1>8, <2>1, <3>2, <3>5
    <3>6. CASE 1 < b \/ (1 = b /\ 1 < i)
      <4>1. f < k
        BY <1>7, <2>1, <2>2, <3>2, <3>6
      <4> QED
        BY <1>8, <2>2, <4>1
    <3> QED
      BY <3>4, <3>5, <3>6
  <2>4. PICK l : l = Least(KeysOf(E))
    OBVIOUS
  <2>5. l \in KeysOf(E) /\ l <= f
    BY <1>8, <2>2, <2>4, LeastOfNaturals
  <2>6. f <= l /\ l \in Nat /\ f \in Nat
    BY <1>8, <2>2, <2>3, <2>5
  <2> QED
    BY <2>2, <2>4, <2>5, <2>6
<1>10. LastKey(t) = Greatest(KeysOf(E))
  <2>1. PICK n \in Nat \ {0} : n = Len(blocks[m]) /\ DOMAIN blocks[m] = 1 .. n
    BY <1>4
  <2>2. PICK f : f = blocks[m][n].key
    OBVIOUS
  <2>3. LastKey(t) = f /\ f \in KeysOf(E) /\ m \in 1 .. m /\ n \in DOMAIN blocks[m]
    <3>1. m \in 1 .. m /\ n \in DOMAIN blocks[m]
      BY <2>1
    <3>2. Last(blocks[m]) = blocks[m][n]
      BY <2>1 DEF Last
    <3> QED
      BY <1>1, <1>3, <1>5, <2>2, <3>1, <3>2 DEF LastKey
  <2>4. ASSUME NEW k \in KeysOf(E) PROVE k <= f
    <3>1. PICK b \in 1 .. m : \E i \in DOMAIN blocks[b] : blocks[b][i].key = k
      BY <1>6
    <3>2. PICK i \in DOMAIN blocks[b] : blocks[b][i].key = k
      BY <3>1
    <3>3. i \in 1 .. Len(blocks[b]) /\ Len(blocks[b]) \in Nat
      BY <1>4
    <3>4. (b = m /\ i = n) \/ b < m \/ (b = m /\ i < n)
      BY <2>1, <3>3
    <3>5. CASE b = m /\ i = n
      BY <1>8, <2>2, <3>2, <3>5
    <3>6. CASE b < m \/ (b = m /\ i < n)
      <4>1. k < f
        BY <1>7, <2>2, <2>3, <3>2, <3>6
      <4> QED
        BY <1>8, <2>3, <4>1
    <3> QED
      BY <3>4, <3>5, <3>6
  <2>5. PICK l : l = Greatest(KeysOf(E))
    OBVIOUS
  <2>6. l \in KeysOf(E) /\ f <= l
    BY <1>8, <2>3, <2>5, GreatestOfFinite
  <2>7. l <= f /\ l \in Nat /\ f \in Nat
    BY <1>8, <2>3, <2>4, <2>6
  <2> QED
    BY <2>3, <2>5, <2>6, <2>7
<1>11. ToSet(RecordsOf(E)) = {[key |-> k, entry |-> E[k]] : k \in KeysOf(E)}
  <2>1. PICK records : records = RecordsOf(E)
    OBVIOUS
  <2>2. /\ \A i \in DOMAIN records : /\ records[i] \in Record
                                     /\ records[i].key \in KeysOf(E)
                                     /\ records[i].entry = E[records[i].key]
        /\ \A k \in KeysOf(E) : \E i \in DOMAIN records : records[i].key = k
    <3>1. records \in [1 .. Cardinality(KeysOf(E)) -> Record]
      BY <2>1, RecordsInOrder
    <3>2. \A i \in DOMAIN records : records[i] \in Record
      BY <3>1
    <3> QED
      BY <2>1, <3>2, RecordsInOrder
  <2>3. \A i \in DOMAIN records :
          records[i] = [key |-> records[i].key, entry |-> E[records[i].key]]
    BY <2>2 DEF Record
  <2> QED
    BY <2>1, <2>2, <2>3 DEF ToSet
<1>12. EntriesOf(t) = {[key |-> k, entry |-> E[k]] : k \in KeysOf(E)}
  <2>1. ToSet(blocks) \ {Garbage} = {blocks[b] : b \in 1 .. m}
    BY <1>1, <1>3 DEF IsTable, ToSet
  <2>2. EntriesOf(t) = UNION {ToSet(blocks[b]) : b \in 1 .. m}
    BY <1>1, <2>1 DEF EntriesOf
  <2>3. ASSUME NEW b \in 1 .. m, NEW i \in DOMAIN blocks[b]
        PROVE  /\ blocks[b][i].key \in KeysOf(E)
               /\ blocks[b][i] = [key |-> blocks[b][i].key, entry |-> E[blocks[b][i].key]]
    <3>1. blocks[b][i] \in Record
      BY <1>2, <1>3, HeldType
    <3> QED
      BY <1>5, <3>1 DEF Record
  <2>4. ASSUME NEW r \in UNION {ToSet(blocks[b]) : b \in 1 .. m}
        PROVE  r \in {[key |-> k, entry |-> E[k]] : k \in KeysOf(E)}
    <3>1. PICK b \in 1 .. m : r \in ToSet(blocks[b])
      OBVIOUS
    <3>2. PICK i \in DOMAIN blocks[b] : r = blocks[b][i]
      BY <3>1 DEF ToSet
    <3>3. PICK k : k = blocks[b][i].key
      OBVIOUS
    <3>4. k \in KeysOf(E) /\ r = [key |-> k, entry |-> E[k]]
      BY <2>3, <3>2, <3>3
    <3> QED
      BY <3>4
  <2>5. ASSUME NEW k \in KeysOf(E)
        PROVE  [key |-> k, entry |-> E[k]] \in UNION {ToSet(blocks[b]) : b \in 1 .. m}
    <3>1. PICK b \in 1 .. m : \E i \in DOMAIN blocks[b] : blocks[b][i].key = k
      BY <1>6
    <3>2. PICK i \in DOMAIN blocks[b] : blocks[b][i].key = k
      BY <3>1
    <3>3. blocks[b][i] = [key |-> k, entry |-> E[k]]
      BY <2>3, <3>2
    <3>4. blocks[b][i] \in ToSet(blocks[b])
      BY DEF ToSet
    <3> QED
      BY <3>3, <3>4
  <2> QED
    BY <2>2, <2>4, <2>5
<1> QED
  BY <1>9, <1>10, <1>11, <1>12

-----------------------------------------------------------------------------
(***************************************************************************)
(* One source.  A cursor that has passed what is before x, and nothing     *)
(* else, gives the records of its contents from x on.                      *)
(***************************************************************************)

Cursors == [firsts : Seq(Key), blocks : Blocks, block : Nat, index : Nat]

\* The cursor reads the contents E: the memtable's one block, or a table's.
Shows(c, E) ==
    /\ c \in Cursors
    /\ HoldsContents(c.blocks, E)
    /\ \/ c.firsts = <<>> /\ Len(c.blocks) = 1
       \/ FirstKeysOf(c.firsts, c.blocks)

Passed(c, x) ==
    /\ c.block \in DOMAIN c.blocks
    /\ c.index \in 1 .. Len(c.blocks[c.block]) + 1
    /\ \A b \in DOMAIN c.blocks : \A i \in DOMAIN c.blocks[b] :
         c.blocks[b][i].key < x <=> (b < c.block \/ (b = c.block /\ i < c.index))

\* It is at a record, or there is none left.
At(c, x) == Passed(c, x) /\ (HasEntry(c) \/ c.block = Len(c.blocks))

\* The memtable's cursor shows the memtable.
LEMMA MemtableShows ==
    ASSUME NEW E \in Contents
    PROVE  Shows(MemtableIterator(E), E)
<1>1. PICK records : records = RecordsOf(E)
  OBVIOUS
<1>2. PICK n \in Nat : n = Cardinality(KeysOf(E))
  BY KeysAreNumbers
<1>3. /\ records \in [1 .. n -> Record]
      /\ \A i \in 1 .. n :
           records[i].key \in KeysOf(E) /\ records[i].entry = E[records[i].key]
      /\ \A i, j \in 1 .. n : i < j => records[i].key < records[j].key
      /\ \A k \in KeysOf(E) : \E i \in 1 .. n : records[i].key = k
  <2>1. records \in [1 .. n -> Record]
    BY <1>1, <1>2, RecordsInOrder
  <2>2. DOMAIN records = 1 .. n
    BY <2>1
  <2> QED
    BY <1>1, <2>1, <2>2, RecordsInOrder
<1>4. records \in Seq(Record) /\ DOMAIN records = 1 .. n /\ Len(records) = n
  BY <1>3
<1>5. PICK blocks : blocks = <<records>>
  OBVIOUS
<1>6. blocks \in Blocks /\ blocks # <<>> /\ DOMAIN blocks = {1} /\ Len(blocks) = 1
      /\ blocks[1] = records
  BY <1>4, <1>5 DEF Blocks
<1>7. HoldsContents(blocks, E)
  BY <1>3, <1>4, <1>6 DEF HoldsContents, Ordered
<1>8. MemtableIterator(E) = [firsts |-> <<>>, blocks |-> blocks, block |-> 1, index |-> 1]
  BY <1>1, <1>5 DEF MemtableIterator
<1> QED
  BY <1>6, <1>7, <1>8 DEF Shows, Cursors

\* A table's cursor shows the table.
LEMMA TableShows ==
    ASSUME NEW E \in Contents, NEW t, IsTable(t, E)
    PROVE  Shows(SSTableIterator(t), E)
<1>1. PICK blocks : blocks = t.blocks
  OBVIOUS
<1>2. PICK firsts : firsts = [b \in DOMAIN t.index |-> t.index[b].first_key]
  OBVIOUS
<1>3. /\ HoldsContents(blocks, E) /\ FirstKeysOf(firsts, blocks)
      /\ \A b \in DOMAIN blocks : blocks[b] # Garbage
      /\ t.index \in Seq(IndexEntry)
  BY <1>1, <1>2 DEF IsTable
<1>4. blocks \in Blocks /\ DOMAIN blocks = 1 .. Len(blocks)
  BY <1>3, HeldType DEF HoldsContents
<1>5. [i \in DOMAIN blocks |-> IF blocks[i] = Garbage THEN <<>> ELSE blocks[i]] = blocks
  <2>1. blocks = [i \in DOMAIN blocks |-> blocks[i]]
    BY <1>4 DEF Blocks
  <2> QED
    BY <1>3, <2>1
<1>6. firsts \in Seq(Key)
  <2>1. PICK n \in Nat : t.index \in [1 .. n -> IndexEntry]
    BY <1>3
  <2>2. \A b \in 1 .. n : t.index[b].first_key \in Key
    BY <2>1 DEF IndexEntry
  <2>3. firsts \in [1 .. n -> Key]
    BY <1>2, <2>1, <2>2
  <2> QED
    BY <2>3
<1>7. SSTableIterator(t) = [firsts |-> firsts, blocks |-> blocks, block |-> 1, index |-> 1]
  BY <1>1, <1>2, <1>5 DEF SSTableIterator
<1> QED
  BY <1>3, <1>4, <1>6, <1>7 DEF Shows, Cursors

\* A source read in one block, or one with no block empty.
LEMMA NoEmptyBlock ==
    ASSUME NEW E \in Contents, NEW c, Shows(c, E), NEW b \in DOMAIN c.blocks, b # 1
    PROVE  \A d \in DOMAIN c.blocks : c.blocks[d] # <<>> /\ Len(c.blocks[d]) >= 1
<1>1. Len(c.blocks) # 1
  <2>1. PICK m \in Nat : m = Len(c.blocks) /\ DOMAIN c.blocks = 1 .. m
    BY HeldType DEF Shows
  <2>2. PICK p \in 1 .. m : p = b /\ p # 1
    BY <2>1
  <2>3. m # 1
    BY <2>2
  <2> QED
    BY <2>1, <2>3
<1>2. FirstKeysOf(c.firsts, c.blocks)
  BY <1>1 DEF Shows
<1> SUFFICES ASSUME NEW d \in DOMAIN c.blocks
             PROVE  c.blocks[d] # <<>> /\ Len(c.blocks[d]) >= 1
  OBVIOUS
<1>3. c.blocks[d] # <<>>
  BY <1>2 DEF FirstKeysOf
<1>4. c.blocks[d] \in Seq(Record)
  BY HeldType DEF Shows
<1>5. Len(c.blocks[d]) \in Nat /\ Len(c.blocks[d]) # 0
  BY <1>3, <1>4
<1> QED
  BY <1>3, <1>5

MovedTo(c, b, i) == [c EXCEPT !.block = b, !.index = i]

\* A cursor moved to another place still shows the same.
LEMMA MovedShows ==
    ASSUME NEW E, NEW c, Shows(c, E), NEW b \in Nat, NEW i \in Nat
    PROVE  /\ Shows(MovedTo(c, b, i), E)
           /\ MovedTo(c, b, i).blocks = c.blocks
           /\ MovedTo(c, b, i).firsts = c.firsts
           /\ MovedTo(c, b, i).block = b /\ MovedTo(c, b, i).index = i
<1>1. PICK d : d = MovedTo(c, b, i)
  OBVIOUS
<1>2. d \in Cursors /\ d.blocks = c.blocks /\ d.firsts = c.firsts
      /\ d.block = b /\ d.index = i
  BY <1>1 DEF Shows, Cursors, MovedTo
<1>3. Shows(d, E)
  BY <1>2 DEF Shows
<1> QED
  BY <1>1, <1>2, <1>3

\* EnsureEntry passes no record.
LEMMA EnsureEntryAt ==
    ASSUME NEW E \in Contents, NEW c, Shows(c, E), NEW x, Passed(c, x)
    PROVE  Shows(EnsureEntry(c), E) /\ At(EnsureEntry(c), x)
<1>1. PICK m \in Nat \ {0} : m = Len(c.blocks) /\ DOMAIN c.blocks = 1 .. m
  BY HeldType DEF Shows
<1>2. CASE HasEntry(c) \/ c.block = Len(c.blocks)
  BY <1>2 DEF EnsureEntry, At
<1>3. CASE ~(HasEntry(c) \/ c.block = Len(c.blocks))
  <2>1. PICK b \in 1 .. m : b = c.block
    BY <1>1 DEF Passed
  <2>2. b + 1 \in 1 .. m /\ b + 1 # 1
    BY <1>1, <1>3, <2>1
  <2>3. \A d \in 1 .. m : c.blocks[d] # <<>> /\ Len(c.blocks[d]) >= 1
    BY <1>1, <2>2, NoEmptyBlock
  <2>4. {d \in c.block + 1 .. Len(c.blocks) : c.blocks[d] # <<>>} = b + 1 .. m
    BY <1>1, <2>1, <2>3
  <2>5. Least(b + 1 .. m) = b + 1
    <3>1. b + 1 .. m \in SUBSET Nat /\ b + 1 \in b + 1 .. m
      BY <2>2
    <3>2. PICK l : l = Least(b + 1 .. m)
      OBVIOUS
    <3>3. l \in b + 1 .. m /\ l <= b + 1
      BY <3>1, <3>2, LeastOfNaturals
    <3> QED
      BY <3>2, <3>3
  <2>6. EnsureEntry(c) = MovedTo(c, b + 1, 1)
    <3>1. b + 1 .. m # {}
      BY <2>2
    <3>2. PICK later : later = {d \in c.block + 1 .. Len(c.blocks) : c.blocks[d] # <<>>}
      OBVIOUS
    <3>3. later # {} /\ Least(later) = b + 1
      BY <2>4, <2>5, <3>1, <3>2
    <3>4. EnsureEntry(c) = [c EXCEPT !.block = IF later = {} THEN Len(c.blocks)
                                               ELSE Least(later),
                                     !.index = 1]
      BY <1>3, <3>2, Zenon DEF EnsureEntry
    <3> QED
      BY <3>3, <3>4 DEF MovedTo
  <2>7. PICK d : d = EnsureEntry(c)
    OBVIOUS
  <2>8. Shows(d, E) /\ d.blocks = c.blocks /\ d.block = b + 1 /\ d.index = 1
    <3>1. b + 1 \in Nat /\ 1 \in Nat
      OBVIOUS
    <3> QED
      BY <2>6, <2>7, <3>1, MovedShows
  <2>9. ASSUME NEW e \in 1 .. m, NEW i \in DOMAIN c.blocks[e]
        PROVE  c.blocks[e][i].key < x <=> (e < b + 1 \/ (e = b + 1 /\ i < 1))
    <3>1. c.blocks[e][i].key < x <=> (e < b \/ (e = b /\ i < c.index))
      BY <1>1, <2>1 DEF Passed
    <3>2. DOMAIN c.blocks[e] = 1 .. Len(c.blocks[e]) /\ Len(c.blocks[e]) \in Nat
      BY <1>1, HeldType DEF Shows
    <3>3. e = b => i < c.index
      <4>1. c.index \in 1 .. Len(c.blocks[b]) + 1 /\ ~(c.index <= Len(c.blocks[b]))
        BY <1>3, <2>1 DEF Passed, HasEntry, Entries
      <4> QED
        BY <3>2, <4>1
    <3> QED
      BY <3>1, <3>2, <3>3
  <2>10. Passed(d, x) /\ HasEntry(d)
    <3>1. Len(c.blocks[b + 1]) >= 1 /\ Len(c.blocks[b + 1]) \in Nat
      BY <1>1, <2>2, <2>3, HeldType DEF Shows
    <3>2. d.block \in DOMAIN d.blocks /\ d.index \in 1 .. Len(d.blocks[d.block]) + 1
      BY <1>1, <2>2, <2>8, <3>1
    <3>3. \A e \in DOMAIN d.blocks : \A i \in DOMAIN d.blocks[e] :
            d.blocks[e][i].key < x <=> (e < d.block \/ (e = d.block /\ i < d.index))
      BY <1>1, <2>8, <2>9
    <3>4. HasEntry(d)
      BY <2>8, <3>1 DEF HasEntry, Entries
    <3> QED
      BY <3>2, <3>3, <3>4 DEF Passed
  <2> QED
    BY <2>7, <2>8, <2>10 DEF At
<1> QED
  BY <1>2, <1>3

\* The keys below k in a block whose keys ascend come first.
LEMMA CountBelow ==
    ASSUME NEW n \in Nat, NEW s, \A i \in 1 .. n : s[i].key \in Nat,
           \A i, j \in 1 .. n : i < j => s[i].key < s[j].key, NEW k \in Nat
    PROVE  LET p == Cardinality({i \in 1 .. n : s[i].key < k})
           IN  p \in 0 .. n /\ \A i \in 1 .. n : s[i].key < k <=> i <= p
<1> DEFINE L == {i \in 1 .. n : s[i].key < k}
<1>1. \E p \in 0 .. n : L = 1 .. p
  <2>1. CASE L = {}
    <3>1. 1 .. 0 = {} /\ 0 \in 0 .. n
      OBVIOUS
    <3> QED
      BY <2>1, <3>1
  <2>2. CASE L # {}
    <3>1. L \in SUBSET Nat /\ L \in SUBSET (1 .. n) /\ IsFiniteSet(1 .. n)
      BY FS_Interval
    <3>2. IsFiniteSet(L)
      <4> HIDE DEF L
      <4> QED
        BY <3>1, FS_Subset
    <3>3. PICK p : p = Greatest(L)
      OBVIOUS
    <3>4. p \in L /\ \A i \in L : i <= p
      <4> HIDE DEF L
      <4> QED
        BY <2>2, <3>1, <3>2, <3>3, GreatestOfFinite
    <3>5. ASSUME NEW i \in 1 .. p PROVE i \in L
      <4>1. i \in 1 .. n /\ p \in 1 .. n /\ s[p].key < k
        BY <3>4
      <4>2. CASE i = p
        BY <4>1, <4>2
      <4>3. CASE i # p
        <5>1. s[i].key < s[p].key
          BY <4>1, <4>3
        <5> QED
          BY <4>1, <5>1
      <4> QED
        BY <4>2, <4>3
    <3>6. p \in 1 .. n /\ \A i \in L : i \in 1 .. p
      BY <3>4
    <3>7. L = 1 .. p /\ p \in 0 .. n
      BY <3>5, <3>6
    <3> HIDE DEF L
    <3> QED
      BY <3>7
  <2> QED
    BY <2>1, <2>2
<1>2. PICK p \in 0 .. n : L = 1 .. p
  BY <1>1
<1>3. Cardinality(L) = p
  <2>1. Cardinality(1 .. p) = p
    BY FS_Interval
  <2> QED
    BY <1>2, <2>1
<1>4. \A i \in 1 .. n : s[i].key < k <=> i <= p
  <2>1. \A i \in 1 .. n : s[i].key < k <=> i \in L
    OBVIOUS
  <2> HIDE DEF L
  <2> QED
    BY <1>2, <2>1
<1> HIDE DEF L
<1>5. Cardinality(L) \in 0 .. n /\ \A i \in 1 .. n : s[i].key < k <=> i <= Cardinality(L)
  BY <1>3, <1>4
<1> QED
  BY <1>5 DEF L

\* At the first record nothing is passed.
LEMMA ToFirstAt ==
    ASSUME NEW E \in Contents, NEW c, Shows(c, E)
    PROVE  Shows(ToFirst(c), E) /\ At(ToFirst(c), 0)
<1>1. PICK m \in Nat \ {0} : m = Len(c.blocks) /\ DOMAIN c.blocks = 1 .. m
  BY HeldType DEF Shows
<1>2. PICK d : d = MovedTo(c, 1, 1)
  OBVIOUS
<1>3. Shows(d, E) /\ d.blocks = c.blocks /\ d.block = 1 /\ d.index = 1
  <2>1. 1 \in Nat
    OBVIOUS
  <2> QED
    BY <1>2, <2>1, MovedShows
<1>4. Passed(d, 0)
  <2>1. 1 \in 1 .. Len(c.blocks[1]) + 1 /\ 1 \in 1 .. m
    <3>1. 1 \in 1 .. m
      OBVIOUS
    <3>2. Len(c.blocks[1]) \in Nat
      BY <1>1, <3>1, HeldType DEF Shows
    <3> QED
      BY <3>1, <3>2
  <2>2. ASSUME NEW b \in 1 .. m, NEW i \in DOMAIN c.blocks[b]
        PROVE  ~(c.blocks[b][i].key < 0) /\ ~(b < 1 \/ (b = 1 /\ i < 1))
    <3>1. c.blocks[b][i].key \in Nat /\ i \in 1 .. Len(c.blocks[b])
      BY <1>1, HeldType DEF Shows
    <3> QED
      BY <3>1
  <2> QED
    BY <1>1, <1>3, <2>1, <2>2 DEF Passed
<1>5. ToFirst(c) = EnsureEntry(d)
  BY <1>2 DEF ToFirst, MovedTo
<1> QED
  BY <1>3, <1>4, <1>5, EnsureEntryAt

\* Seeking passes what is before the target.
LEMMA ToTargetAt ==
    ASSUME NEW E \in Contents, NEW c, Shows(c, E), NEW k \in Nat
    PROVE  Shows(ToTarget(c, k), E) /\ At(ToTarget(c, k), k)
<1>1. PICK m \in Nat \ {0} : m = Len(c.blocks) /\ DOMAIN c.blocks = 1 .. m
  BY HeldType DEF Shows
<1>2. PICK b : b = BlockFor(c, k)
  OBVIOUS
<1>3. /\ b \in 1 .. m
      /\ \A d \in 1 .. m : \A i \in DOMAIN c.blocks[d] :
           (d < b => c.blocks[d][i].key < k) /\ (d > b => c.blocks[d][i].key > k)
  <2>1. CASE c.firsts = <<>> /\ Len(c.blocks) = 1
    <3>1. {1} \cup {i \in DOMAIN c.firsts : \A j \in 1 .. i : c.firsts[j] <= k} = {1}
      BY <2>1
    <3>2. b = Greatest({1})
      BY <1>2, <3>1 DEF BlockFor
    <3>3. b = 1
      <4>1. IsFiniteSet({1})
        BY FS_Singleton
      <4> QED
        BY <3>2, <4>1, GreatestOfFinite
    <3>4. m = 1 /\ \A d \in 1 .. m : d = 1
      BY <1>1, <2>1
    <3> QED
      BY <3>3, <3>4
  <2>2. CASE FirstKeysOf(c.firsts, c.blocks)
    <3>1. PICK blocks : blocks = c.blocks
      OBVIOUS
    <3>2. PICK firsts : firsts = c.firsts
      OBVIOUS
    <3>3. HoldsContents(blocks, E) /\ FirstKeysOf(firsts, blocks)
      BY <2>2, <3>1, <3>2 DEF Shows
    <3>4. b = Greatest({1} \cup {i \in DOMAIN firsts : \A j \in 1 .. i : firsts[j] <= k})
      BY <1>2, <3>2 DEF BlockFor
    <3>5. /\ b \in DOMAIN blocks
          /\ \A d \in DOMAIN blocks : \A i \in DOMAIN blocks[d] :
               (d < b => blocks[d][i].key < k) /\ (d > b => blocks[d][i].key > k)
      BY <3>3, <3>4, FindsBlock
    <3> QED
      BY <1>1, <3>1, <3>5
  <2> QED
    BY <2>1, <2>2 DEF Shows
<1>4. PICK n \in Nat : n = Len(c.blocks[b]) /\ DOMAIN c.blocks[b] = 1 .. n
  BY <1>1, <1>3, HeldType DEF Shows
<1>5. PICK p \in 0 .. n :
        /\ p = Cardinality({i \in DOMAIN c.blocks[b] : c.blocks[b][i].key < k})
        /\ \A i \in 1 .. n : c.blocks[b][i].key < k <=> i <= p
  <2>1. PICK s : s = c.blocks[b]
    OBVIOUS
  <2>2. \A i \in 1 .. n : s[i].key \in Nat
    BY <1>1, <1>3, <1>4, <2>1, HeldType DEF Shows
  <2>3. \A i, j \in 1 .. n : i < j => s[i].key < s[j].key
    BY <1>1, <1>3, <1>4, <2>1 DEF Shows, HoldsContents, Ordered
  <2>4. PICK p : p = Cardinality({i \in 1 .. n : s[i].key < k})
    OBVIOUS
  <2>5. p \in 0 .. n /\ \A i \in 1 .. n : s[i].key < k <=> i <= p
    BY <2>2, <2>3, <2>4, CountBelow
  <2> QED
    BY <1>4, <2>1, <2>4, <2>5
<1>6. PICK d : d = MovedTo(c, b, 1 + p)
  OBVIOUS
<1>7. Shows(d, E) /\ d.blocks = c.blocks /\ d.block = b /\ d.index = 1 + p
  <2>1. b \in Nat /\ 1 + p \in Nat
    BY <1>3
  <2> QED
    BY <1>6, <2>1, MovedShows
<1>8. Passed(d, k)
  <2>1. 1 + p \in 1 .. Len(c.blocks[b]) + 1
    BY <1>4
  <2>2. ASSUME NEW e \in 1 .. m, NEW i \in DOMAIN c.blocks[e]
        PROVE  c.blocks[e][i].key < k <=> (e < b \/ (e = b /\ i < 1 + p))
    <3>1. CASE e = b
      <4>1. i \in 1 .. n
        BY <1>4, <3>1
      <4>2. i <= p <=> i < 1 + p
        BY <4>1
      <4>3. c.blocks[b][i].key < k <=> i <= p
        BY <1>5, <4>1
      <4> QED
        BY <1>3, <3>1, <4>2, <4>3
    <3>2. CASE e # b
      <4>1. c.blocks[e][i].key \in Nat
        BY <1>1, HeldType DEF Shows
      <4>2. e < b \/ e > b
        BY <1>3, <3>2
      <4> QED
        BY <1>3, <3>2, <4>1, <4>2
    <3> QED
      BY <3>1, <3>2
  <2> QED
    BY <1>1, <1>3, <1>7, <2>1, <2>2 DEF Passed
<1>9. ToTarget(c, k) = EnsureEntry(d)
  BY <1>2, <1>5, <1>6 DEF ToTarget, MovedTo
<1> QED
  BY <1>7, <1>8, <1>9, EnsureEntryAt

\* What a cursor that has passed x is at: the next record of its contents.
LEMMA AtReads ==
    ASSUME NEW E \in Contents, NEW c, Shows(c, E), NEW x \in Nat, At(c, x)
    PROVE  /\ HasEntry(c) => /\ KeyAt(c) \in KeysOf(E) /\ x <= KeyAt(c)
                             /\ EntryAt(c) = E[KeyAt(c)]
                             /\ \A j \in KeysOf(E) : j < KeyAt(c) => j < x
           /\ ~HasEntry(c) => \A j \in KeysOf(E) : j < x
<1>1. PICK m \in Nat \ {0} : m = Len(c.blocks) /\ DOMAIN c.blocks = 1 .. m
  BY HeldType DEF Shows
<1>2. PICK b \in 1 .. m : b = c.block
  BY <1>1 DEF At, Passed
<1>3. PICK n \in Nat : n = Len(c.blocks[b]) /\ DOMAIN c.blocks[b] = 1 .. n
  BY <1>1, HeldType DEF Shows
<1>4. PICK i \in 1 .. n + 1 : i = c.index
  BY <1>2, <1>3 DEF At, Passed
<1>5. \A e \in 1 .. m : \A j \in DOMAIN c.blocks[e] :
        /\ c.blocks[e][j].key < x <=> (e < b \/ (e = b /\ j < i))
        /\ c.blocks[e][j].key \in Nat /\ j \in Nat
  <2>1. ASSUME NEW e \in 1 .. m, NEW j \in DOMAIN c.blocks[e]
        PROVE  /\ c.blocks[e][j].key < x <=> (e < b \/ (e = b /\ j < i))
               /\ c.blocks[e][j].key \in Nat /\ j \in Nat
    <3>1. c.blocks[e][j].key < x <=> (e < b \/ (e = b /\ j < i))
      BY <1>1, <1>2, <1>4 DEF At, Passed
    <3>2. c.blocks[e][j].key \in Nat /\ j \in 1 .. Len(c.blocks[e])
      BY <1>1, HeldType DEF Shows
    <3> QED
      BY <3>1, <3>2
  <2> QED
    BY <2>1
<1>6. \A k \in KeysOf(E) : \E e \in 1 .. m : \E j \in DOMAIN c.blocks[e] :
        c.blocks[e][j].key = k
  BY <1>1 DEF Shows, HoldsContents
<1>7. CASE HasEntry(c)
  <2>1. i <= n /\ KeyAt(c) = c.blocks[b][i].key /\ EntryAt(c) = c.blocks[b][i].entry
    BY <1>2, <1>3, <1>4, <1>7 DEF HasEntry, KeyAt, EntryAt, Entries
  <2>2. i \in DOMAIN c.blocks[b]
    BY <1>3, <2>1
  <2>3. KeyAt(c) \in KeysOf(E) /\ EntryAt(c) = E[KeyAt(c)]
    BY <1>1, <2>1, <2>2 DEF Shows, HoldsContents
  <2>4. x <= KeyAt(c)
    <3>1. ~(c.blocks[b][i].key < x) /\ c.blocks[b][i].key \in Nat
      BY <1>5, <2>2
    <3> QED
      BY <2>1, <3>1
  <2>5. ASSUME NEW k \in KeysOf(E), k < KeyAt(c) PROVE k < x
    <3>1. PICK e \in 1 .. m : \E j \in DOMAIN c.blocks[e] : c.blocks[e][j].key = k
      BY <1>6
    <3>2. PICK j \in DOMAIN c.blocks[e] : c.blocks[e][j].key = k
      BY <3>1
    <3>3. e < b \/ (e = b /\ j < i)
      <4> SUFFICES ASSUME ~(e < b \/ (e = b /\ j < i)) PROVE FALSE
        OBVIOUS
      <4>1. (b < e \/ (b = e /\ i < j)) \/ (b = e /\ i = j)
        BY <1>5
      <4>2. k \in Nat
        BY <1>5, <3>2
      <4>3. CASE b = e /\ i = j
        BY <2>1, <2>5, <3>2, <4>2, <4>3
      <4>4. CASE b < e \/ (b = e /\ i < j)
        <5>1. c.blocks[b][i].key < c.blocks[e][j].key
          BY <1>1, <2>2, <4>4 DEF Shows, HoldsContents, Ordered
        <5>2. KeyAt(c) < k /\ KeyAt(c) \in Nat
          BY <1>5, <2>1, <2>2, <3>2, <5>1
        <5> QED
          BY <2>5, <4>2, <5>2
      <4> QED
        BY <4>1, <4>3, <4>4
    <3> QED
      BY <1>5, <3>2, <3>3
  <2> QED
    BY <1>7, <2>3, <2>4, <2>5
<1>8. CASE ~HasEntry(c)
  <2>1. i = n + 1 /\ b = m
    BY <1>1, <1>2, <1>3, <1>4, <1>8 DEF HasEntry, Entries, At
  <2>2. ASSUME NEW k \in KeysOf(E) PROVE k < x
    <3>1. PICK e \in 1 .. m : \E j \in DOMAIN c.blocks[e] : c.blocks[e][j].key = k
      BY <1>6
    <3>2. PICK j \in DOMAIN c.blocks[e] : c.blocks[e][j].key = k
      BY <3>1
    <3>3. e < b \/ (e = b /\ j < i)
      BY <1>3, <2>1, <3>2
    <3> QED
      BY <1>5, <3>2, <3>3
  <2> QED
    BY <1>8, <2>2
<1> QED
  BY <1>7, <1>8

\* A cursor that has passed x has passed y as well if it has no record
\* before y left.
LEMMA AtLater ==
    ASSUME NEW E \in Contents, NEW c, Shows(c, E), NEW x \in Nat, At(c, x),
           NEW y \in Nat, x <= y, HasEntry(c) => y <= KeyAt(c)
    PROVE  At(c, y)
<1>1. PICK m \in Nat \ {0} : m = Len(c.blocks) /\ DOMAIN c.blocks = 1 .. m
  BY HeldType DEF Shows
<1>2. PICK b \in 1 .. m : b = c.block
  BY <1>1 DEF At, Passed
<1>3. PICK n \in Nat : n = Len(c.blocks[b]) /\ DOMAIN c.blocks[b] = 1 .. n
  BY <1>1, HeldType DEF Shows
<1>4. PICK i \in 1 .. n + 1 : i = c.index
  BY <1>2, <1>3 DEF At, Passed
<1>5. ASSUME NEW e \in 1 .. m, NEW j \in DOMAIN c.blocks[e]
      PROVE  c.blocks[e][j].key < y <=> (e < b \/ (e = b /\ j < i))
  <2>1. c.blocks[e][j].key \in Nat /\ j \in Nat /\ c.blocks[e][j].key \in KeysOf(E)
    <3>1. c.blocks[e][j].key \in Nat /\ j \in 1 .. Len(c.blocks[e])
          /\ c.blocks[e][j].key \in KeysOf(E)
      BY <1>1, HeldType DEF Shows
    <3> QED
      BY <3>1
  <2>2. c.blocks[e][j].key < x <=> (e < b \/ (e = b /\ j < i))
    BY <1>1, <1>2, <1>4 DEF At, Passed
  <2>3. c.blocks[e][j].key < y => c.blocks[e][j].key < x
    <3>1. CASE HasEntry(c)
      <4>1. \A k \in KeysOf(E) : k < KeyAt(c) => k < x
        BY <3>1, AtReads
      <4>2. KeyAt(c) \in Nat /\ y <= KeyAt(c)
        BY <3>1, AtReads, KeysAreNumbers
      <4> QED
        BY <2>1, <4>1, <4>2
    <3>2. CASE ~HasEntry(c)
      <4>1. \A k \in KeysOf(E) : k < x
        BY <3>2, AtReads
      <4> QED
        BY <2>1, <4>1
    <3> QED
      BY <3>1, <3>2
  <2>4. c.blocks[e][j].key < x => c.blocks[e][j].key < y
    BY <2>1
  <2> QED
    BY <2>2, <2>3, <2>4
<1>6. Passed(c, y)
  BY <1>1, <1>2, <1>3, <1>4, <1>5 DEF Passed
<1> QED
  BY <1>6 DEF At

\* Advancing passes the record the cursor is at, and no other.
LEMMA ForwardAt ==
    ASSUME NEW E \in Contents, NEW c, Shows(c, E), NEW x \in Nat, At(c, x), HasEntry(c)
    PROVE  Shows(Forward(c), E) /\ At(Forward(c), KeyAt(c) + 1)
<1>1. PICK m \in Nat \ {0} : m = Len(c.blocks) /\ DOMAIN c.blocks = 1 .. m
  BY HeldType DEF Shows
<1>2. PICK b \in 1 .. m : b = c.block
  BY <1>1 DEF At, Passed
<1>3. PICK n \in Nat : n = Len(c.blocks[b]) /\ DOMAIN c.blocks[b] = 1 .. n
  BY <1>1, HeldType DEF Shows
<1>4. PICK i \in 1 .. n : i = c.index
  <2>1. c.index \in 1 .. n + 1 /\ c.index <= n
    BY <1>2, <1>3 DEF At, Passed, HasEntry, Entries
  <2> QED
    BY <2>1
<1>5. PICK k \in Nat : k = KeyAt(c) /\ k = c.blocks[b][i].key
  <2>1. KeyAt(c) = c.blocks[b][i].key
    BY <1>2, <1>4 DEF KeyAt, Entries
  <2>2. c.blocks[b][i].key \in Nat
    BY <1>1, <1>3, HeldType DEF Shows
  <2> QED
    BY <2>1, <2>2
<1>6. PICK d : d = MovedTo(c, b, i + 1)
  OBVIOUS
<1>7. Shows(d, E) /\ d.blocks = c.blocks /\ d.block = b /\ d.index = i + 1
  <2>1. b \in Nat /\ i + 1 \in Nat
    OBVIOUS
  <2> QED
    BY <1>6, <2>1, MovedShows
<1>8. ASSUME NEW e \in 1 .. m, NEW j \in DOMAIN c.blocks[e]
      PROVE  c.blocks[e][j].key < k + 1 <=> (e < b \/ (e = b /\ j < i + 1))
  <2>1. c.blocks[e][j].key \in Nat /\ j \in Nat
    <3>1. c.blocks[e][j].key \in Nat /\ j \in 1 .. Len(c.blocks[e])
      BY <1>1, HeldType DEF Shows
    <3> QED
      BY <3>1
  <2>2. Ordered(c.blocks) /\ i \in DOMAIN c.blocks[b]
    BY <1>3 DEF Shows, HoldsContents
  <2>3. CASE e < b \/ (e = b /\ j < i)
    <3>1. c.blocks[e][j].key < c.blocks[b][i].key
      BY <1>1, <2>2, <2>3 DEF Ordered
    <3> QED
      BY <1>5, <2>1, <2>3, <3>1
  <2>4. CASE e = b /\ j = i
    BY <1>5, <2>4
  <2>5. CASE b < e \/ (b = e /\ i < j)
    <3>1. c.blocks[b][i].key < c.blocks[e][j].key
      BY <1>1, <2>2, <2>5 DEF Ordered
    <3> QED
      BY <1>5, <2>1, <2>5, <3>1
  <2> QED
    BY <2>1, <2>3, <2>4, <2>5
<1>9. Passed(d, k + 1)
  <2>1. i + 1 \in 1 .. Len(c.blocks[b]) + 1
    BY <1>3
  <2> QED
    BY <1>1, <1>7, <1>8, <2>1 DEF Passed
<1>10. Forward(c) = EnsureEntry(d)
  <2>1. d = [c EXCEPT !.index = @ + 1]
    <3>1. PICK f : f = c.firsts
      OBVIOUS
    <3>2. PICK s : s = c.blocks
      OBVIOUS
    <3>3. c = [firsts |-> f, blocks |-> s, block |-> b, index |-> i]
      BY <1>2, <1>4, <3>1, <3>2 DEF Shows, Cursors
    <3>4. d = [firsts |-> f, blocks |-> s, block |-> b, index |-> i + 1]
      BY <1>6, <3>3 DEF MovedTo
    <3>5. [c EXCEPT !.index = c.index + 1]
            = [firsts |-> f, blocks |-> s, block |-> b, index |-> i + 1]
      BY <3>3
    <3> QED
      BY <3>4, <3>5
  <2> QED
    BY <2>1 DEF Forward
<1> QED
  BY <1>5, <1>7, <1>9, <1>10, EnsureEntryAt

-----------------------------------------------------------------------------
(***************************************************************************)
(* The merge.  Its sources Es come newest first: a key has the record of   *)
(* the first source that has one.                                          *)
(***************************************************************************)

Sources == Seq(Contents)

Holders(Es, k) == {i \in DOMAIN Es : Es[i][k] # Absent}

Overlay(Es) ==
    [k \in Key |-> IF Holders(Es, k) = {} THEN Absent ELSE Es[Least(Holders(Es, k))][k]]

\* The cursors show the sources, and each has passed what is before x.
AllAt(cs, Es, x) ==
    /\ cs \in [DOMAIN Es -> Cursors]
    /\ \A i \in DOMAIN Es : Shows(cs[i], Es[i]) /\ At(cs[i], x)

\* The sources together are contents again.
LEMMA OverlayType ==
    ASSUME NEW Es \in Sources
    PROVE  /\ Overlay(Es) \in Contents
           /\ \A k \in Key : Overlay(Es)[k] # Absent <=> \E i \in DOMAIN Es : Es[i][k] # Absent
           /\ \A k \in Key : \A i \in DOMAIN Es :
                Es[i][k] # Absent /\ (\A j \in DOMAIN Es : j < i => Es[j][k] = Absent)
                  => Overlay(Es)[k] = Es[i][k]
<1>1. PICK m \in Nat : DOMAIN Es = 1 .. m /\ Es \in [1 .. m -> Contents]
  BY DEF Sources
<1>2. ASSUME NEW k \in Key, Holders(Es, k) # {}
      PROVE  /\ Least(Holders(Es, k)) \in Holders(Es, k)
             /\ Least(Holders(Es, k)) \in 1 .. m
             /\ \A i \in Holders(Es, k) : Least(Holders(Es, k)) <= i
             /\ Es[Least(Holders(Es, k))][k] # Absent
             /\ Es[Least(Holders(Es, k))][k] \in Entry \cup {Absent}
  <2>1. Holders(Es, k) \in SUBSET Nat
    BY <1>1 DEF Holders
  <2>2. PICK l : l = Least(Holders(Es, k))
    OBVIOUS
  <2>3. l \in Holders(Es, k) /\ \A i \in Holders(Es, k) : l <= i
    BY <1>2, <2>1, <2>2, LeastOfNaturals
  <2>4. l \in 1 .. m /\ Es[l][k] # Absent
    BY <1>1, <2>3 DEF Holders
  <2>5. Es[l][k] \in Entry \cup {Absent}
    BY <1>1, <2>4 DEF Contents
  <2> QED
    BY <2>2, <2>3, <2>4, <2>5
<1>3. Overlay(Es) \in Contents
  BY <1>2 DEF Overlay, Contents
<1>4. \A k \in Key : Overlay(Es)[k] # Absent <=> \E i \in DOMAIN Es : Es[i][k] # Absent
  BY <1>2 DEF Overlay, Holders
<1>5. ASSUME NEW k \in Key, NEW i \in DOMAIN Es, Es[i][k] # Absent,
             \A j \in DOMAIN Es : j < i => Es[j][k] = Absent
      PROVE  Overlay(Es)[k] = Es[i][k]
  <2>1. i \in Holders(Es, k)
    BY <1>5 DEF Holders
  <2>2. PICK l \in 1 .. m : l = Least(Holders(Es, k)) /\ l <= i /\ l \in Holders(Es, k)
    BY <1>2, <2>1
  <2>3. ~(l < i)
    BY <1>1, <1>5, <2>2 DEF Holders
  <2>4. l = i
    BY <1>1, <2>2, <2>3
  <2> QED
    BY <2>1, <2>2, <2>4 DEF Overlay
<1> QED
  BY <1>3, <1>4, <1>5

\* What a cursor is at is a number.
LEMMA KeyAtType ==
    ASSUME NEW Es \in Sources, NEW x \in Nat, NEW cs, AllAt(cs, Es, x),
           NEW i \in DOMAIN Es
    PROVE  /\ DOMAIN cs = DOMAIN Es /\ Es[i] \in Contents /\ i \in Nat
           /\ HasEntry(cs[i]) => /\ KeyAt(cs[i]) \in Nat /\ x <= KeyAt(cs[i])
                                 /\ KeyAt(cs[i]) \in KeysOf(Es[i])
                                 /\ EntryAt(cs[i]) = Es[i][KeyAt(cs[i])]
                                 /\ \A j \in KeysOf(Es[i]) : j < KeyAt(cs[i]) => j < x
           /\ ~HasEntry(cs[i]) => \A j \in KeysOf(Es[i]) : j < x
<1>1. DOMAIN cs = DOMAIN Es /\ Shows(cs[i], Es[i]) /\ At(cs[i], x)
  BY DEF AllAt
<1>2. Es[i] \in Contents /\ i \in Nat
  BY DEF Sources
<1>3. PICK c : c = cs[i]
  OBVIOUS
<1>4. PICK E \in Contents : E = Es[i]
  BY <1>2
<1>5. /\ HasEntry(c) => /\ KeyAt(c) \in KeysOf(E) /\ x <= KeyAt(c)
                        /\ EntryAt(c) = E[KeyAt(c)]
                        /\ \A j \in KeysOf(E) : j < KeyAt(c) => j < x
      /\ ~HasEntry(c) => \A j \in KeysOf(E) : j < x
  BY <1>1, <1>3, <1>4, AtReads
<1>6. KeysOf(E) \in SUBSET Nat
  BY KeysAreNumbers
<1> QED
  BY <1>1, <1>2, <1>3, <1>4, <1>5, <1>6

\* One of the cursors at a record is the first at the smallest key.
LEMMA SmallestIs ==
    ASSUME NEW Es \in Sources, NEW x \in Nat, NEW cs, AllAt(cs, Es, x), ~Exhausted(cs)
    PROVE  /\ SmallestSource(cs) \in AtEntry(cs)
           /\ \A j \in AtEntry(cs) :
                \/ KeyAt(cs[SmallestSource(cs)]) < KeyAt(cs[j])
                \/ KeyAt(cs[SmallestSource(cs)]) = KeyAt(cs[j]) /\ SmallestSource(cs) <= j
<1>1. PICK A : A = AtEntry(cs)
  OBVIOUS
<1>2. A # {} /\ A \in SUBSET Nat /\ \A i \in A : KeyAt(cs[i]) \in Nat
  BY <1>1, KeyAtType DEF Exhausted, AtEntry, AllAt
<1>3. PICK k \in Nat : (\E i \in A : KeyAt(cs[i]) = k) /\ \A j \in A : k <= KeyAt(cs[j])
  <2> DEFINE K == {KeyAt(cs[i]) : i \in A}
  <2>1. K \in SUBSET Nat /\ K # {}
    BY <1>2
  <2>2. Least(K) \in K /\ \A y \in K : Least(K) <= y
    <3> HIDE DEF K
    <3> QED
      BY <2>1, LeastOfNaturals
  <2> QED
    BY <1>2, <2>2
<1>4. PICK i \in A : /\ KeyAt(cs[i]) = k
                     /\ \A j \in A : KeyAt(cs[j]) = k => i <= j
  <2> DEFINE I == {j \in A : KeyAt(cs[j]) = k}
  <2>1. I \in SUBSET Nat /\ I # {}
    BY <1>2, <1>3
  <2>2. Least(I) \in I /\ \A y \in I : Least(I) <= y
    <3> HIDE DEF I
    <3> QED
      BY <2>1, LeastOfNaturals
  <2> QED
    BY <2>2
<1> DEFINE First(s) == \A j \in A : \/ KeyAt(cs[s]) < KeyAt(cs[j])
                                    \/ KeyAt(cs[s]) = KeyAt(cs[j]) /\ s <= j
<1>5. First(i)
  <2> SUFFICES ASSUME NEW j \in A
               PROVE  \/ KeyAt(cs[i]) < KeyAt(cs[j])
                      \/ KeyAt(cs[i]) = KeyAt(cs[j]) /\ i <= j
    OBVIOUS
  <2>1. KeyAt(cs[j]) \in Nat /\ k <= KeyAt(cs[j])
    BY <1>2, <1>3
  <2> QED
    BY <1>4, <2>1
<1>6. SmallestSource(cs) = CHOOSE s \in A : First(s)
  BY <1>1 DEF SmallestSource
<1> HIDE DEF First
<1>7. SmallestSource(cs) \in A /\ First(SmallestSource(cs))
  BY <1>5, <1>6
<1> QED
  BY <1>1, <1>7 DEF First

\* The merge is at the next record of the sources together.
LEMMA MergedIs ==
    ASSUME NEW Es \in Sources, NEW x \in Nat, NEW cs, AllAt(cs, Es, x)
    PROVE  /\ Exhausted(cs) => \A j \in KeysOf(Overlay(Es)) : j < x
           /\ ~Exhausted(cs) =>
                /\ MergedKey(cs) \in KeysOf(Overlay(Es)) /\ MergedKey(cs) \in Nat
                /\ MergedKey(cs) \in Key /\ x <= MergedKey(cs)
                /\ MergedEntry(cs) = Overlay(Es)[MergedKey(cs)]
                /\ \A j \in KeysOf(Overlay(Es)) : j < MergedKey(cs) => j < x
<1>1. PICK V : V = Overlay(Es)
  OBVIOUS
<1>2. /\ \A k \in Key : V[k] # Absent <=> \E i \in DOMAIN Es : Es[i][k] # Absent
      /\ \A k \in Key : \A i \in DOMAIN Es :
           Es[i][k] # Absent /\ (\A j \in DOMAIN Es : j < i => Es[j][k] = Absent)
             => V[k] = Es[i][k]
  BY <1>1, OverlayType
<1>3. Key \subseteq Nat
  BY KeyAssumption
<1>4. CASE Exhausted(cs)
  <2>1. ASSUME NEW j \in KeysOf(V) PROVE j < x
    <3>1. PICK i \in DOMAIN Es : Es[i][j] # Absent
      BY <1>2 DEF KeysOf
    <3>2. j \in KeysOf(Es[i])
      BY <3>1 DEF KeysOf
    <3>3. ~HasEntry(cs[i])
      BY <1>4, KeyAtType DEF Exhausted, AtEntry
    <3> QED
      BY <3>2, <3>3, KeyAtType
  <2> QED
    BY <1>1, <1>4, <2>1
<1>5. CASE ~Exhausted(cs)
  <2>1. PICK s : s = SmallestSource(cs)
    OBVIOUS
  <2>2. /\ s \in AtEntry(cs)
        /\ \A j \in AtEntry(cs) : \/ KeyAt(cs[s]) < KeyAt(cs[j])
                                  \/ KeyAt(cs[s]) = KeyAt(cs[j]) /\ s <= j
    BY <1>5, <2>1, SmallestIs
  <2>3. s \in DOMAIN Es /\ HasEntry(cs[s])
    BY <2>2, KeyAtType DEF AtEntry, AllAt
  <2>4. PICK k \in Nat : /\ k = KeyAt(cs[s]) /\ x <= k /\ k \in KeysOf(Es[s])
                         /\ EntryAt(cs[s]) = Es[s][k]
    BY <2>3, KeyAtType
  <2>5. MergedKey(cs) = k /\ MergedEntry(cs) = Es[s][k]
    BY <2>1, <2>4 DEF MergedKey, MergedEntry
  <2>6. ASSUME NEW i \in DOMAIN Es, NEW j \in KeysOf(Es[i]), x <= j PROVE k <= j /\ (j = k => s <= i)
    <3>1. j \in Nat /\ s \in Nat /\ i \in Nat
      BY <1>3, <2>3, KeyAtType DEF KeysOf
    <3>2. HasEntry(cs[i]) /\ KeyAt(cs[i]) \in Nat /\ KeyAt(cs[i]) <= j
      <4>1. HasEntry(cs[i])
        <5>1. ~HasEntry(cs[i]) => j < x
          BY KeyAtType
        <5> QED
          BY <2>6, <3>1, <5>1
      <4>2. KeyAt(cs[i]) \in Nat /\ (j < KeyAt(cs[i]) => j < x)
        BY <4>1, KeyAtType
      <4> QED
        BY <2>6, <3>1, <4>1, <4>2
    <3>3. i \in AtEntry(cs)
      BY <3>2, KeyAtType DEF AtEntry
    <3>4. k < KeyAt(cs[i]) \/ (k = KeyAt(cs[i]) /\ s <= i)
      BY <2>2, <2>4, <3>3
    <3> QED
      BY <3>1, <3>2, <3>4
  <2>7. k \in Key /\ Es[s][k] # Absent
    BY <2>4 DEF KeysOf
  <2>8. V[k] = Es[s][k]
    <3>1. ASSUME NEW i \in DOMAIN Es, i < s PROVE Es[i][k] = Absent
      <4> SUFFICES ASSUME Es[i][k] # Absent PROVE FALSE
        OBVIOUS
      <4>1. k \in KeysOf(Es[i])
        BY <2>7 DEF KeysOf
      <4>2. s <= i
        BY <2>4, <2>6, <4>1
      <4>3. i \in Nat /\ s \in Nat
        BY <2>3, KeyAtType
      <4> QED
        BY <3>1, <4>2, <4>3
    <3> QED
      BY <1>2, <2>3, <2>7, <3>1
  <2>9. ASSUME NEW j \in KeysOf(V), j < k PROVE j < x
    <3>1. PICK i \in DOMAIN Es : Es[i][j] # Absent
      BY <1>2 DEF KeysOf
    <3>2. j \in KeysOf(Es[i]) /\ j \in Nat
      BY <1>3, <3>1 DEF KeysOf
    <3>3. ~(x <= j)
      <4>1. x <= j => k <= j
        BY <2>6, <3>2
      <4> QED
        BY <2>9, <3>2, <4>1
    <3> QED
      BY <3>2, <3>3
  <2>10. k \in KeysOf(V)
    BY <2>7, <2>8 DEF KeysOf
  <2> QED
    BY <1>1, <1>5, <2>4, <2>5, <2>7, <2>8, <2>9, <2>10
<1> QED
  BY <1>4, <1>5

\* Skipping the key the merge is at passes it in every source, and no other.
LEMMA SkipKeyAt ==
    ASSUME NEW Es \in Sources, NEW x \in Nat, NEW cs, AllAt(cs, Es, x), ~Exhausted(cs)
    PROVE  AllAt(SkipKey(cs, MergedKey(cs)), Es, MergedKey(cs) + 1)
<1>1. PICK k \in Nat : k = MergedKey(cs) /\ x <= k
  BY MergedIs
<1>2. PICK s : s = SmallestSource(cs)
  OBVIOUS
<1>3. k = KeyAt(cs[s])
  BY <1>1, <1>2 DEF MergedKey
<1>4. \A j \in AtEntry(cs) : k < KeyAt(cs[j]) \/ k = KeyAt(cs[j])
  BY <1>2, <1>3, SmallestIs
<1>5. PICK new : new = SkipKey(cs, k)
  OBVIOUS
<1>6. ASSUME NEW i \in DOMAIN Es
      PROVE  Shows(new[i], Es[i]) /\ At(new[i], k + 1)
  <2>1. PICK E \in Contents : E = Es[i]
    BY KeyAtType
  <2>2. PICK c : c = cs[i]
    OBVIOUS
  <2>3. Shows(c, E) /\ At(c, x) /\ i \in DOMAIN cs
    BY <2>1, <2>2 DEF AllAt
  <2>4. new[i] = IF HasEntry(c) /\ KeyAt(c) = k THEN Forward(c) ELSE c
    BY <1>5, <2>2, <2>3 DEF SkipKey
  <2>5. CASE HasEntry(c) /\ KeyAt(c) = k
    <3>1. Shows(Forward(c), E) /\ At(Forward(c), KeyAt(c) + 1)
      BY <2>3, <2>5, ForwardAt
    <3> QED
      BY <2>1, <2>4, <2>5, <3>1
  <2>6. CASE ~(HasEntry(c) /\ KeyAt(c) = k)
    <3>1. HasEntry(c) => k + 1 <= KeyAt(c)
      <4> SUFFICES ASSUME HasEntry(c) PROVE k + 1 <= KeyAt(c)
        OBVIOUS
      <4>1. i \in AtEntry(cs)
        BY <2>2, <2>3 DEF AtEntry
      <4>2. k < KeyAt(c) /\ KeyAt(c) \in Nat
        BY <1>4, <2>2, <2>6, <4>1, KeyAtType
      <4> QED
        BY <4>2
    <3>2. k + 1 \in Nat /\ x <= k + 1
      BY <1>1
    <3>3. At(c, k + 1)
      BY <2>3, <3>1, <3>2, AtLater
    <3> QED
      BY <2>1, <2>3, <2>4, <2>6, <3>3
  <2> QED
    BY <2>5, <2>6
<1>7. new \in [DOMAIN Es -> Cursors]
  <2>1. \A i \in DOMAIN Es : new[i] \in Cursors
    BY <1>6 DEF Shows
  <2>2. DOMAIN cs = DOMAIN Es
    BY DEF AllAt
  <2>3. new = [i \in DOMAIN Es |-> new[i]]
    BY <1>5, <2>2 DEF SkipKey
  <2> QED
    BY <2>1, <2>3
<1> QED
  BY <1>1, <1>5, <1>6, <1>7 DEF AllAt

-----------------------------------------------------------------------------
(***************************************************************************)
(* Loops of the merge.  Each of them passes a key at every step, so that   *)
(* there are as many steps as keys at most.                                *)
(***************************************************************************)

KeysBelow(x) == {k \in Key : k < x}
Count(x) == Cardinality(KeysBelow(x))

\* Passing a key passes one key more.
LEMMA CountMore ==
    ASSUME NEW x \in Nat, NEW k \in Key, x <= k
    PROVE  Count(x) \in Nat /\ Count(k + 1) \in Nat /\ Count(k + 1) >= Count(x) + 1
<1>1. Key \subseteq Nat /\ IsFiniteSet(Key) /\ k \in Nat
  BY KeyAssumption
<1>2. IsFiniteSet(KeysBelow(x)) /\ IsFiniteSet(KeysBelow(k + 1))
  <2>1. KeysBelow(x) \in SUBSET Key /\ KeysBelow(k + 1) \in SUBSET Key
    BY DEF KeysBelow
  <2> QED
    BY <1>1, <2>1, FS_Subset
<1>3. k \notin KeysBelow(x)
  BY <1>1 DEF KeysBelow
<1>4. IsFiniteSet(KeysBelow(x) \cup {k})
      /\ Cardinality(KeysBelow(x) \cup {k}) = Count(x) + 1
  BY <1>2, <1>3, FS_AddElement DEF Count
<1>5. KeysBelow(x) \cup {k} \in SUBSET KeysBelow(k + 1)
  <2>1. ASSUME NEW j \in KeysBelow(x) PROVE j \in KeysBelow(k + 1)
    <3>1. j \in Key /\ j \in Nat /\ j < x
      BY <1>1 DEF KeysBelow
    <3>2. j < k + 1
      BY <1>1, <3>1
    <3> QED
      BY <3>1, <3>2 DEF KeysBelow
  <2>2. k \in KeysBelow(k + 1)
    BY <1>1 DEF KeysBelow
  <2> QED
    BY <2>1, <2>2
<1>6. Cardinality(KeysBelow(x) \cup {k}) <= Count(k + 1)
  BY <1>2, <1>5, FS_Subset DEF Count
<1>7. Count(x) \in Nat /\ Count(k + 1) \in Nat
  BY <1>2, FS_CardinalityType DEF Count
<1> QED
  BY <1>4, <1>6, <1>7

\* When as many keys are passed as there are, all of them are.
LEMMA AllBelow ==
    ASSUME NEW x \in Nat, Count(x) >= Cardinality(Key)
    PROVE  \A k \in Key : k < x
<1>1. Key \subseteq Nat /\ IsFiniteSet(Key)
  BY KeyAssumption
<1> SUFFICES ASSUME NEW k \in Key, ~(k < x) PROVE FALSE
  OBVIOUS
<1>2. KeysBelow(x) \in SUBSET (Key \ {k})
  BY DEF KeysBelow
<1>3. IsFiniteSet(Key \ {k}) /\ Cardinality(Key \ {k}) = Cardinality(Key) - 1
  BY <1>1, FS_RemoveElement
<1>4. Count(x) <= Cardinality(Key \ {k})
  BY <1>2, <1>3, FS_Subset DEF Count
<1>5. Count(x) \in Nat /\ Cardinality(Key) \in Nat
  <2>1. IsFiniteSet(KeysBelow(x))
    BY <1>2, <1>3, FS_Subset
  <2> QED
    BY <1>1, <2>1, FS_CardinalityType DEF Count
<1> QED
  BY <1>3, <1>4, <1>5

\* From x on the merge has passed deleted keys only.
Reached(cs, Es, x, y) ==
    /\ y \in Nat /\ x <= y
    /\ AllAt(cs, Es, y)
    /\ \A k \in KeysOf(Overlay(Es)) : x <= k /\ k < y => Overlay(Es)[k] = Tombstone

\* One turn of the loop that skips tombstones.
LEMMA SkipsTombstone ==
    ASSUME NEW Es \in Sources, NEW x \in Nat, NEW cs, NEW y, Reached(cs, Es, x, y),
           ~Settled(cs, FALSE)
    PROVE  /\ Reached(SkipKey(cs, MergedKey(cs)), Es, x, MergedKey(cs) + 1)
           /\ MergedKey(cs) \in Key /\ y <= MergedKey(cs)
<1>1. ~Exhausted(cs) /\ MergedEntry(cs) = Tombstone
  BY DEF Settled
<1>2. y \in Nat /\ x <= y /\ AllAt(cs, Es, y)
      /\ \A k \in KeysOf(Overlay(Es)) : x <= k /\ k < y => Overlay(Es)[k] = Tombstone
  BY DEF Reached
<1>3. PICK m \in Nat : m = MergedKey(cs) /\ m \in Key /\ y <= m
                       /\ MergedEntry(cs) = Overlay(Es)[m]
                       /\ \A j \in KeysOf(Overlay(Es)) : j < m => j < y
  BY <1>1, <1>2, MergedIs
<1>4. AllAt(SkipKey(cs, m), Es, m + 1)
  BY <1>1, <1>2, <1>3, SkipKeyAt
<1>5. ASSUME NEW k \in KeysOf(Overlay(Es)), x <= k, k < m + 1
      PROVE  Overlay(Es)[k] = Tombstone
  <2>1. k \in Nat
    BY KeyAssumption DEF KeysOf
  <2>2. CASE k = m
    BY <1>1, <1>3, <2>2
  <2>3. CASE k < m
    BY <1>2, <1>3, <1>5, <2>3
  <2> QED
    BY <1>5, <2>1, <2>2, <2>3
<1>6. m + 1 \in Nat /\ x <= m + 1
  BY <1>2, <1>3
<1> QED
  BY <1>3, <1>4, <1>5, <1>6 DEF Reached

\* With the tombstones kept the loop does nothing.
LEMMA NormalizeKeeps ==
    ASSUME NEW cs
    PROVE  Normalize(cs, TRUE) = cs
<1> DEFINE N == Cardinality(Key)
           Eq(f) == f = [n \in 0 .. N |->
                           IF n = 0 THEN cs
                           ELSE IF Settled(f[n - 1], TRUE) THEN f[n - 1]
                                ELSE SkipKey(f[n - 1], MergedKey(f[n - 1]))]
           after == CHOOSE f : Eq(f)
<1>1. N \in Nat
  BY KeyAssumption, FS_CardinalityType
<1>2. Normalize(cs, TRUE) = after[N]
  BY DEF Normalize
<1>3. \A c : Settled(c, TRUE)
  BY DEF Settled
<1> HIDE DEF N
<1>4. \E f : Eq(f)
  <2>1. PICK f : f = [n \in 0 .. N |-> cs]
    OBVIOUS
  <2>2. ASSUME NEW n \in 0 .. N
        PROVE  f[n] = IF n = 0 THEN cs
                      ELSE IF Settled(f[n - 1], TRUE) THEN f[n - 1]
                           ELSE SkipKey(f[n - 1], MergedKey(f[n - 1]))
    <3>1. f[n] = cs
      BY <2>1
    <3>2. n # 0 => f[n - 1] = cs
      <4>1. n # 0 => n - 1 \in 0 .. N
        BY <1>1
      <4> QED
        BY <2>1, <4>1
    <3> QED
      BY <1>3, <3>1, <3>2
  <2>3. f = [n \in 0 .. N |-> f[n]]
    BY <2>1
  <2>4. Eq(f)
    BY <2>2, <2>3
  <2> QED
    BY <2>4
<1>5. Eq(after)
  <2> HIDE DEF Eq
  <2> QED
    BY <1>4
<1> HIDE DEF after
<1> DEFINE T == {n \in 0 .. N : after[n] = cs}
<1>6. 0 \in T
  BY <1>1, <1>5
<1>7. ASSUME NEW n \in 0 .. N - 1, n \in T PROVE n + 1 \in T
  <2>1. \A i \in 0 .. N : i # 0 => after[i] = after[i - 1]
    BY <1>3, <1>5
  <2>2. n + 1 \in 0 .. N /\ n + 1 # 0 /\ n + 1 - 1 = n
    BY <1>1
  <2>3. after[n + 1] = after[n]
    BY <2>1, <2>2
  <2> QED
    BY <1>7, <2>2, <2>3
<1>8. 0 .. N \subseteq T
  <2> HIDE DEF T
  <2> QED
    BY <1>1, <1>6, <1>7, CountUp
<1>9. N \in 0 .. N
  BY <1>1
<1> QED
  BY <1>2, <1>8, <1>9

\* With the tombstones skipped the loop ends at a live key, or past the last
\* one: the bound of its iterations is enough.
LEMMA NormalizeSkips ==
    ASSUME NEW Es \in Sources, NEW x \in Nat, NEW cs, AllAt(cs, Es, x)
    PROVE  /\ Settled(Normalize(cs, FALSE), FALSE)
           /\ \E y \in Nat : Reached(Normalize(cs, FALSE), Es, x, y)
<1> DEFINE N == Cardinality(Key)
           Eq(f) == f = [n \in 0 .. N |->
                           IF n = 0 THEN cs
                           ELSE IF Settled(f[n - 1], FALSE) THEN f[n - 1]
                                ELSE SkipKey(f[n - 1], MergedKey(f[n - 1]))]
           after == CHOOSE f : Eq(f)
           S == {c \in [DOMAIN Es -> Cursors] : \E y \in Nat : Reached(c, Es, x, y)}
           turn(c) == IF Settled(c, FALSE) THEN c ELSE SkipKey(c, MergedKey(c))
           step == [p \in Nat \X S |-> turn(p[2])]
<1>1. N \in Nat
  BY KeyAssumption, FS_CardinalityType
<1>2. Normalize(cs, FALSE) = after[N]
  BY DEF Normalize
<1> HIDE DEF N
<1>3. \A c : (\E y \in Nat : Reached(c, Es, x, y)) => c \in S
  BY DEF Reached, AllAt
<1>4. Reached(cs, Es, x, x)
  <2>1. \A k \in Key : k \in Nat
    BY KeyAssumption
  <2>2. \A k \in KeysOf(Overlay(Es)) : ~(x <= k /\ k < x)
    BY <2>1 DEF KeysOf
  <2> QED
    BY <2>2 DEF Reached
<1>5. ASSUME NEW c, NEW y \in Nat, Reached(c, Es, x, y)
      PROVE  \E z \in Nat : Reached(turn(c), Es, x, z)
  <2>1. CASE Settled(c, FALSE)
    BY <1>5, <2>1
  <2>2. CASE ~Settled(c, FALSE)
    <3>1. Reached(SkipKey(c, MergedKey(c)), Es, x, MergedKey(c) + 1)
      BY <1>5, <2>2, SkipsTombstone
    <3>2. MergedKey(c) + 1 \in Nat
      BY <3>1 DEF Reached
    <3> QED
      BY <2>2, <3>1, <3>2
  <2> QED
    BY <2>1, <2>2
<1>6. step \in [Nat \X S -> S]
  <2>1. ASSUME NEW c \in S PROVE turn(c) \in S
    <3>1. PICK y \in Nat : Reached(c, Es, x, y)
      OBVIOUS
    <3>2. \E z \in Nat : Reached(turn(c), Es, x, z)
      BY <1>5, <3>1
    <3> HIDE DEF S, turn
    <3> QED
      BY <1>3, <3>2
  <2> HIDE DEF S, turn
  <2> QED
    BY <2>1
<1>7. \E f : Eq(f)
  <2>1. cs \in S
    <3> HIDE DEF S
    <3> QED
      BY <1>3, <1>4
  <2>2. PICK f \in [0 .. N -> S] : Iterates(f, cs, step, N)
    <3> HIDE DEF S, step
    <3> QED
      BY <1>1, <1>6, <2>1, Iteration
  <2>3. ASSUME NEW n \in 1 .. N PROVE f[n] = turn(f[n - 1])
    <3>1. n \in Nat /\ n - 1 \in 0 .. N
      BY <1>1
    <3>2. f[n - 1] \in S
      <4> HIDE DEF S
      <4> QED
        BY <2>2, <3>1
    <3>3. f[n] = step[<<n, f[n - 1]>>]
      BY <2>2 DEF Iterates
    <3> HIDE DEF S, turn
    <3> QED
      BY <3>1, <3>2, <3>3
  <2>4. Eq(f)
    <3>1. f[0] = cs /\ f = [n \in 0 .. N |-> f[n]]
      BY <2>2 DEF Iterates
    <3>2. ASSUME NEW n \in 0 .. N PROVE f[n] = IF n = 0 THEN cs ELSE turn(f[n - 1])
      <4>1. CASE n = 0
        BY <3>1, <4>1
      <4>2. CASE n # 0
        <5>1. n \in 1 .. N
          BY <1>1, <4>2
        <5> HIDE DEF turn
        <5> QED
          BY <2>3, <4>2, <5>1
      <4> QED
        BY <4>1, <4>2
    <3> QED
      BY <3>1, <3>2
  <2> QED
    BY <2>4
<1>8. Eq(after)
  <2> HIDE DEF Eq
  <2> QED
    BY <1>7
<1>9. after[0] = cs /\ \A n \in 1 .. N : after[n] = turn(after[n - 1])
  <2> HIDE DEF after
  <2>1. \A n \in 0 .. N : after[n] = IF n = 0 THEN cs ELSE turn(after[n - 1])
    BY <1>8
  <2> HIDE DEF turn
  <2> QED
    BY <1>1, <2>1
<1> HIDE DEF after, Eq, S, step
<1> DEFINE T == {n \in 0 .. N : \E y \in Nat : /\ Reached(after[n], Es, x, y)
                                               /\ Settled(after[n], FALSE) \/ Count(y) >= n}
<1>10. 0 \in T
  <2>1. Count(x) >= 0
    <3>1. KeysBelow(x) \in SUBSET Key
      BY DEF KeysBelow
    <3>2. Count(x) \in Nat
      BY <3>1, KeyAssumption, FS_Subset, FS_CardinalityType DEF Count
    <3> QED
      BY <3>2
  <2>2. Reached(after[0], Es, x, x)
    BY <1>4, <1>9
  <2>3. 0 \in 0 .. N
    BY <1>1
  <2> QED
    BY <2>1, <2>2, <2>3
<1>11. ASSUME NEW n \in 0 .. N - 1, n \in T PROVE n + 1 \in T
  <2>1. n + 1 \in 1 .. N /\ n + 1 \in 0 .. N /\ n + 1 - 1 = n /\ n \in Nat
    BY <1>1
  <2>2. PICK c : c = after[n]
    OBVIOUS
  <2>3. after[n + 1] = turn(c)
    <3> HIDE DEF turn
    <3> QED
      BY <1>9, <2>1, <2>2
  <2>4. PICK y \in Nat : Reached(c, Es, x, y) /\ (Settled(c, FALSE) \/ Count(y) >= n)
    BY <1>11, <2>2
  <2>5. CASE Settled(c, FALSE)
    <3>1. after[n + 1] = c
      BY <2>3, <2>5
    <3> QED
      BY <2>1, <2>4, <2>5, <3>1
  <2>6. CASE ~Settled(c, FALSE)
    <3>1. PICK k \in Key : k = MergedKey(c) /\ y <= k /\ Reached(SkipKey(c, k), Es, x, k + 1)
      BY <2>4, <2>6, SkipsTombstone
    <3>2. after[n + 1] = SkipKey(c, k)
      BY <2>3, <2>6, <3>1
    <3>3. Count(y) \in Nat /\ Count(k + 1) \in Nat /\ Count(k + 1) >= Count(y) + 1
      BY <3>1, CountMore
    <3>4. Count(k + 1) >= n + 1
      <4>1. PICK a \in Nat : a = Count(y) /\ a >= n
        BY <2>4, <2>6, <3>3
      <4>2. PICK b \in Nat : b = Count(k + 1) /\ b >= a + 1
        BY <3>3, <4>1
      <4> QED
        BY <2>1, <4>1, <4>2
    <3>5. k + 1 \in Nat
      BY <3>1 DEF Reached
    <3> QED
      BY <2>1, <3>1, <3>2, <3>4, <3>5
  <2> QED
    BY <2>5, <2>6
<1>12. 0 .. N \subseteq T /\ N \in 0 .. N
  <2> HIDE DEF T
  <2> QED
    BY <1>1, <1>10, <1>11, CountUp
<1>13. PICK y \in Nat : /\ Reached(after[N], Es, x, y)
                        /\ Settled(after[N], FALSE) \/ Count(y) >= N
  BY <1>12
<1>14. Settled(after[N], FALSE)
  <2> SUFFICES ASSUME ~Settled(after[N], FALSE) PROVE FALSE
    OBVIOUS
  <2>1. PICK k \in Key : k = MergedKey(after[N]) /\ y <= k
    BY <1>13, SkipsTombstone
  <2>2. \A j \in Key : j < y
    BY <1>13, AllBelow DEF N
  <2> QED
    BY <2>1, <2>2, KeyAssumption
<1> QED
  BY <1>2, <1>13, <1>14

-----------------------------------------------------------------------------
(***************************************************************************)
(* The operations of the merge and of the range iterator.                  *)
(***************************************************************************)

LiveKeys(Es) == {k \in Key : Overlay(Es)[k] \in Value}

\* The merge is at the first live key from x on, or past the last one.
Positioned(cs, Es, x) ==
    /\ Settled(cs, FALSE)
    /\ \E y \in Nat : AllAt(cs, Es, y)
    /\ Exhausted(cs) => \A k \in LiveKeys(Es) : k < x
    /\ ~Exhausted(cs) =>
         /\ MergedKey(cs) \in LiveKeys(Es) /\ x <= MergedKey(cs)
         /\ MergedEntry(cs) = Overlay(Es)[MergedKey(cs)]
         /\ \A k \in LiveKeys(Es) : k < MergedKey(cs) => k < x

\* What is not a tombstone and not absent is a value.
LEMMA LiveIs ==
    ASSUME NEW Es \in Sources
    PROVE  /\ LiveKeys(Es) \subseteq KeysOf(Overlay(Es)) /\ LiveKeys(Es) \subseteq Nat
           /\ \A k \in KeysOf(Overlay(Es)) :
                k \in LiveKeys(Es) <=> Overlay(Es)[k] # Tombstone
<1>1. PICK V \in Contents : V = Overlay(Es)
  BY OverlayType
<1>2. \A k \in Key : V[k] \in Value \cup {Tombstone, Absent} /\ k \in Nat
  BY KeyAssumption DEF Contents, Entry
<1> QED
  BY <1>1, <1>2, MarkerAssumption DEF LiveKeys, KeysOf

\* The loop leaves the merge at the first live key.
LEMMA NormalizeAt ==
    ASSUME NEW Es \in Sources, NEW x \in Nat, NEW cs, AllAt(cs, Es, x)
    PROVE  Positioned(Normalize(cs, FALSE), Es, x)
<1>1. PICK new : new = Normalize(cs, FALSE)
  OBVIOUS
<1>2. Settled(new, FALSE) /\ \E y \in Nat : Reached(new, Es, x, y)
  BY <1>1, NormalizeSkips
<1>3. PICK y \in Nat : Reached(new, Es, x, y)
  BY <1>2
<1>4. /\ x <= y /\ AllAt(new, Es, y)
      /\ \A k \in KeysOf(Overlay(Es)) : x <= k /\ k < y => Overlay(Es)[k] = Tombstone
  BY <1>3 DEF Reached
<1>5. \A k \in LiveKeys(Es) : k < y => k < x
  BY <1>4, LiveIs
<1>6. CASE Exhausted(new)
  <2>1. \A k \in KeysOf(Overlay(Es)) : k < y
    BY <1>4, <1>6, MergedIs
  <2>2. \A k \in LiveKeys(Es) : k < x
    BY <1>5, <2>1, LiveIs
  <2> QED
    BY <1>1, <1>2, <1>4, <1>6, <2>2 DEF Positioned
<1>7. CASE ~Exhausted(new)
  <2>1. PICK m \in Nat : /\ m = MergedKey(new) /\ m \in KeysOf(Overlay(Es)) /\ y <= m
                         /\ MergedEntry(new) = Overlay(Es)[m]
                         /\ \A k \in KeysOf(Overlay(Es)) : k < m => k < y
    BY <1>4, <1>7, MergedIs
  <2>2. MergedEntry(new) # Tombstone
    BY <1>2, <1>7 DEF Settled
  <2>3. m \in LiveKeys(Es)
    BY <2>1, <2>2, LiveIs
  <2>4. \A k \in LiveKeys(Es) : k < m => k < x
    BY <1>5, <2>1, LiveIs
  <2>5. x <= m
    BY <1>4, <2>1
  <2> QED
    BY <1>1, <1>2, <1>4, <1>7, <2>1, <2>3, <2>4, <2>5 DEF Positioned
<1> QED
  BY <1>6, <1>7

\* The cursors show the sources, wherever they are.
AllShow(cs, Es) ==
    cs \in [DOMAIN Es -> Cursors] /\ \A i \in DOMAIN Es : Shows(cs[i], Es[i])

\* Seeking every cursor, and moving every cursor to its beginning.
LEMMA SeekAll ==
    ASSUME NEW Es \in Sources, NEW cs, AllShow(cs, Es), NEW k \in Nat
    PROVE  /\ AllAt([i \in DOMAIN cs |-> ToTarget(cs[i], k)], Es, k)
           /\ AllAt([i \in DOMAIN cs |-> ToFirst(cs[i])], Es, 0)
<1>1. DOMAIN cs = DOMAIN Es
  BY DEF AllShow
<1>2. ASSUME NEW i \in DOMAIN Es
      PROVE  /\ Shows(ToTarget(cs[i], k), Es[i]) /\ At(ToTarget(cs[i], k), k)
             /\ Shows(ToFirst(cs[i]), Es[i]) /\ At(ToFirst(cs[i]), 0)
  <2>1. PICK E \in Contents : E = Es[i]
    BY DEF Sources
  <2>2. Shows(cs[i], E)
    BY <2>1 DEF AllShow
  <2> QED
    BY <2>1, <2>2, ToTargetAt, ToFirstAt
<1>3. PICK f : f = [i \in DOMAIN cs |-> ToTarget(cs[i], k)]
  OBVIOUS
<1>4. PICK g : g = [i \in DOMAIN cs |-> ToFirst(cs[i])]
  OBVIOUS
<1>5. f \in [DOMAIN Es -> Cursors] /\ g \in [DOMAIN Es -> Cursors]
  BY <1>1, <1>2, <1>3, <1>4 DEF Shows
<1>6. \A i \in DOMAIN Es : f[i] = ToTarget(cs[i], k) /\ g[i] = ToFirst(cs[i])
  BY <1>1, <1>3, <1>4
<1>7. AllAt(f, Es, k) /\ AllAt(g, Es, 0)
  BY <1>2, <1>5, <1>6 DEF AllAt
<1> QED
  BY <1>3, <1>4, <1>7

\* seek_to_first, seek and advance.
LEMMA MergeIteratorAt ==
    ASSUME NEW Es \in Sources, NEW cs, AllShow(cs, Es)
    PROVE  Positioned(MergeIterator(cs, FALSE), Es, 0)
<1>1. PICK new : new = [i \in DOMAIN cs |-> ToFirst(cs[i])]
  OBVIOUS
<1>2. 0 \in Nat
  OBVIOUS
<1>3. AllAt(new, Es, 0)
  BY <1>1, <1>2, SeekAll
<1> QED
  BY <1>1, <1>2, <1>3, NormalizeAt DEF MergeIterator

\* seek leaves the merge at the first live key from the target on.
LEMMA MergeSeekAt ==
    ASSUME NEW Es \in Sources, NEW cs, AllShow(cs, Es), NEW k \in Nat
    PROVE  Positioned(MergeSeek(cs, k, FALSE), Es, k)
<1>1. PICK new : new = [i \in DOMAIN cs |-> ToTarget(cs[i], k)]
  OBVIOUS
<1>2. AllAt(new, Es, k)
  BY <1>1, SeekAll
<1> QED
  BY <1>1, <1>2, NormalizeAt DEF MergeSeek

\* next leaves it at the first live key after the one it was at.
LEMMA MergeAdvanceAt ==
    ASSUME NEW Es \in Sources, NEW y \in Nat, NEW cs, AllAt(cs, Es, y), ~Exhausted(cs)
    PROVE  Positioned(MergeAdvance(cs, FALSE), Es, MergedKey(cs) + 1)
<1>1. PICK m \in Nat : m = MergedKey(cs)
  BY MergedIs
<1>2. AllAt(SkipKey(cs, m), Es, m + 1)
  BY <1>1, SkipKeyAt
<1>3. MergeAdvance(cs, FALSE) = Normalize(SkipKey(cs, m), FALSE)
  BY <1>1 DEF MergeAdvance
<1>4. m + 1 \in Nat
  OBVIOUS
<1> QED
  BY <1>1, <1>2, <1>3, <1>4, NormalizeAt

\* Where a range begins.
StartOf(start) ==
    CASE start.kind = "unbounded" -> 0
      [] start.kind = "included"  -> start.key
      [] start.kind = "excluded"  -> start.key + 1

\* A merge that is positioned shows its sources.
LEMMA PositionedShows ==
    ASSUME NEW Es \in Sources, NEW cs, NEW x, Positioned(cs, Es, x)
    PROVE  AllShow(cs, Es)
BY DEF Positioned, AllAt, AllShow

\* The start bound: an excluded key that is live is passed, any other is not
\* there to be passed.
LEMMA RangeFromAt ==
    ASSUME NEW Es \in Sources, NEW cs, AllShow(cs, Es), NEW start \in Bound
    PROVE  /\ StartOf(start) \in Nat
           /\ Positioned(RangeFrom(MergeIterator(cs, FALSE), start), Es, StartOf(start))
<1>1. PICK all : all = MergeIterator(cs, FALSE)
  OBVIOUS
<1>2. Positioned(all, Es, 0)
  BY <1>1, MergeIteratorAt
<1>3. CASE start = Unbounded
  <2>1. start.kind = "unbounded"
    BY <1>3 DEF Unbounded
  <2>2. StartOf(start) = 0
    BY <2>1 DEF StartOf
  <2>3. RangeFrom(all, start) = all
    BY <1>3 DEF RangeFrom
  <2>4. 0 \in Nat
    OBVIOUS
  <2>5. RangeFrom(MergeIterator(cs, FALSE), start) = all
    BY <1>1, <2>3
  <2> HIDE DEF RangeFrom, Positioned, StartOf
  <2> QED
    BY <1>2, <2>2, <2>4, <2>5, Zenon
<1>4. CASE start # Unbounded
  <2>1. start.kind \in {"included", "excluded"} /\ start.key \in Key
    BY <1>4, EpochAssumption DEF Bound
  <2>2. PICK k \in Nat : k = start.key
    BY <2>1, KeyAssumption
  <2>3. PICK found : found = MergeSeek(all, k, FALSE)
    OBVIOUS
  <2>4. Positioned(found, Es, k)
    BY <1>2, <2>3, PositionedShows, MergeSeekAt
  <2>5. RangeFrom(all, start) =
          IF start.kind = "excluded" /\ ~Exhausted(found) /\ MergedKey(found) = k
          THEN MergeAdvance(found, FALSE) ELSE found
    BY <1>4, <2>2, <2>3 DEF RangeFrom
  <2>6. CASE start.kind = "included"
    <3>1. StartOf(start) = k /\ RangeFrom(all, start) = found
      BY <2>2, <2>5, <2>6 DEF StartOf
    <3> QED
      BY <1>1, <2>4, <3>1
  <2>7. CASE start.kind = "excluded"
    <3>1. StartOf(start) = k + 1 /\ k + 1 \in Nat
      BY <2>2, <2>7 DEF StartOf
    <3>2. CASE ~Exhausted(found) /\ MergedKey(found) = k
      <4>1. RangeFrom(all, start) = MergeAdvance(found, FALSE)
        BY <2>5, <2>7, <3>2
      <4>2. PICK y \in Nat : AllAt(found, Es, y)
        BY <2>4 DEF Positioned
      <4>3. Positioned(MergeAdvance(found, FALSE), Es, k + 1)
        BY <3>2, <4>2, MergeAdvanceAt
      <4> QED
        BY <1>1, <3>1, <4>1, <4>3
    <3>3. CASE ~(~Exhausted(found) /\ MergedKey(found) = k)
      <4>1. RangeFrom(all, start) = found
        BY <2>5, <3>3
      <4>2. \A j \in LiveKeys(Es) : j \in Nat
        BY LiveIs
      <4>3. Exhausted(found) => \A j \in LiveKeys(Es) : j < k + 1
        BY <2>4, <4>2 DEF Positioned
      <4>4. ~Exhausted(found) =>
              /\ MergedKey(found) \in LiveKeys(Es) /\ k + 1 <= MergedKey(found)
              /\ MergedEntry(found) = Overlay(Es)[MergedKey(found)]
              /\ \A j \in LiveKeys(Es) : j < MergedKey(found) => j < k + 1
        <5> SUFFICES ASSUME ~Exhausted(found)
                     PROVE  /\ MergedKey(found) \in LiveKeys(Es) /\ k + 1 <= MergedKey(found)
                            /\ MergedEntry(found) = Overlay(Es)[MergedKey(found)]
                            /\ \A j \in LiveKeys(Es) : j < MergedKey(found) => j < k + 1
          OBVIOUS
        <5>1. /\ MergedKey(found) \in LiveKeys(Es) /\ k <= MergedKey(found)
              /\ MergedEntry(found) = Overlay(Es)[MergedKey(found)]
              /\ \A j \in LiveKeys(Es) : j < MergedKey(found) => j < k
          BY <2>4 DEF Positioned
        <5>2. PICK m \in Nat : m = MergedKey(found) /\ k <= m /\ m # k
          BY <3>3, <4>2, <5>1
        <5>3. k + 1 <= m
          BY <5>2
        <5>4. ASSUME NEW j \in LiveKeys(Es), j < m PROVE j < k + 1
          BY <4>2, <5>1, <5>2, <5>4
        <5> QED
          BY <5>1, <5>2, <5>3, <5>4
      <4>5. Positioned(found, Es, k + 1)
        BY <2>4, <4>3, <4>4 DEF Positioned
      <4> QED
        BY <1>1, <3>1, <4>1, <4>5
    <3> QED
      BY <3>2, <3>3
  <2> QED
    BY <2>1, <2>6, <2>7
<1> QED
  BY <1>3, <1>4

-----------------------------------------------------------------------------
(***************************************************************************)
(* What a compaction reads: the sources together, key after key.           *)
(***************************************************************************)

Kept(Es, drop) ==
    [k \in Key |-> IF drop /\ Overlay(Es)[k] = Tombstone THEN Absent ELSE Overlay(Es)[k]]

KeptBelow(Es, drop, x) ==
    [k \in Key |-> IF k < x THEN Kept(Es, drop)[k] ELSE Absent]

\* The compaction has read what is before x.
ReadBelow(p, Es, drop, x) ==
    /\ x \in Nat
    /\ p \in [left : [DOMAIN Es -> Cursors], out : Contents]
    /\ AllAt(p.left, Es, x)
    /\ p.out = KeptBelow(Es, drop, x)

ReadOne(p, drop) ==
    IF Exhausted(p.left) THEN p
    ELSE [left |-> MergeAdvance(p.left, TRUE),
          out  |-> IF drop /\ MergedEntry(p.left) = Tombstone THEN p.out
                   ELSE [p.out EXCEPT ![MergedKey(p.left)] = MergedEntry(p.left)]]

\* Contents again.
LEMMA KeptType ==
    ASSUME NEW Es \in Sources, NEW drop \in BOOLEAN, NEW x \in Nat
    PROVE  Kept(Es, drop) \in Contents /\ KeptBelow(Es, drop, x) \in Contents
<1>1. PICK V \in Contents : V = Overlay(Es)
  BY OverlayType
<1>2. PICK K : K = Kept(Es, drop)
  OBVIOUS
<1>3. K \in Contents
  BY <1>1, <1>2 DEF Kept, Contents
<1>4. KeptBelow(Es, drop, x) \in Contents
  BY <1>2, <1>3 DEF KeptBelow, Contents
<1> QED
  BY <1>2, <1>3, <1>4

\* One record: the merge passes its key, and the record is kept or dropped.
LEMMA ReadsOne ==
    ASSUME NEW Es \in Sources, NEW drop \in BOOLEAN, NEW x \in Nat, NEW p,
           ReadBelow(p, Es, drop, x), ~Exhausted(p.left)
    PROVE  /\ MergedKey(p.left) \in Key /\ x <= MergedKey(p.left)
           /\ ReadBelow(ReadOne(p, drop), Es, drop, MergedKey(p.left) + 1)
<1>1. PICK c : c = p.left
  OBVIOUS
<1>2. AllAt(c, Es, x) /\ p.out = KeptBelow(Es, drop, x) /\ ~Exhausted(c)
  BY <1>1 DEF ReadBelow
<1>3. PICK V \in Contents : V = Overlay(Es)
  BY OverlayType
<1>4. PICK m \in Key : /\ m = MergedKey(c) /\ x <= m /\ MergedEntry(c) = V[m]
                       /\ m \in KeysOf(V) /\ \A j \in KeysOf(V) : j < m => j < x
  BY <1>2, <1>3, MergedIs
<1>5. Key \subseteq Nat /\ m \in Nat /\ m + 1 \in Nat
  BY <1>4, KeyAssumption
<1>6. PICK new : new = SkipKey(c, m)
  OBVIOUS
<1>7. AllAt(new, Es, m + 1)
  BY <1>2, <1>4, <1>6, SkipKeyAt
<1>8. MergeAdvance(c, TRUE) = new
  BY <1>2, <1>4, <1>6, NormalizeKeeps DEF MergeAdvance
<1>9. PICK K \in Contents : K = Kept(Es, drop)
  BY KeptType
<1>10. \A k \in Key : K[k] = IF drop /\ V[k] = Tombstone THEN Absent ELSE V[k]
  BY <1>3, <1>9 DEF Kept
<1>11. PICK out \in Contents : out = KeptBelow(Es, drop, x)
  BY KeptType
<1>12. \A k \in Key : out[k] = IF k < x THEN K[k] ELSE Absent
  BY <1>9, <1>11 DEF KeptBelow
<1>13. PICK out2 : out2 = IF drop /\ V[m] = Tombstone THEN out ELSE [out EXCEPT ![m] = V[m]]
  OBVIOUS
<1>14. PICK next \in Contents : next = KeptBelow(Es, drop, m + 1)
  BY <1>5, KeptType
<1>15. \A k \in Key : next[k] = IF k < m + 1 THEN K[k] ELSE Absent
  BY <1>9, <1>14 DEF KeptBelow
<1>16. out2 = next
  <2>1. out2 \in Contents
    BY <1>3, <1>11, <1>13 DEF Contents
  <2>2. ASSUME NEW k \in Key PROVE out2[k] = next[k]
    <3>1. k \in Nat
      BY <1>5
    <3>2. CASE k = m
      <4>1. ~(m < x) /\ m < m + 1
        BY <1>4, <1>5
      <4>2. out[m] = Absent /\ next[m] = K[m]
        BY <1>4, <1>12, <1>15, <4>1
      <4>3. CASE drop /\ V[m] = Tombstone
        <5>1. K[m] = Absent /\ out2 = out
          BY <1>4, <1>10, <1>13, <4>3
        <5> QED
          BY <3>2, <4>2, <5>1
      <4>4. CASE ~(drop /\ V[m] = Tombstone)
        <5>1. K[m] = V[m] /\ out2 = [out EXCEPT ![m] = V[m]]
          BY <1>4, <1>10, <1>13, <4>4
        <5>2. out2[m] = V[m]
          BY <1>4, <1>11, <5>1 DEF Contents
        <5> QED
          BY <3>2, <4>2, <5>1, <5>2
      <4> QED
        BY <4>3, <4>4
    <3>3. CASE k # m
      <4>1. out2[k] = out[k]
        BY <1>11, <1>13, <3>3 DEF Contents
      <4>2. CASE k < x
        <5>1. k < m + 1
          BY <1>4, <1>5, <3>1, <4>2
        <5> QED
          BY <1>12, <1>15, <4>1, <4>2, <5>1
      <4>3. CASE ~(k < x) /\ k < m + 1
        <5>1. k < m
          BY <1>5, <3>1, <3>3, <4>3
        <5>2. k \notin KeysOf(V)
          BY <1>4, <4>3, <5>1
        <5>3. V[k] = Absent
          BY <5>2 DEF KeysOf
        <5>4. K[k] = Absent
          BY <1>10, <5>3
        <5> QED
          BY <1>12, <1>15, <4>1, <4>3, <5>4
      <4>4. CASE ~(k < x) /\ ~(k < m + 1)
        BY <1>12, <1>15, <4>1, <4>4
      <4> QED
        BY <4>2, <4>3, <4>4
    <3> QED
      BY <3>2, <3>3
  <2> QED
    BY <2>1, <2>2 DEF Contents
<1>17. ReadOne(p, drop) = [left |-> new, out |-> next]
  BY <1>1, <1>2, <1>4, <1>8, <1>11, <1>13, <1>16 DEF ReadOne
<1>18. new \in [DOMAIN Es -> Cursors]
  BY <1>7 DEF AllAt
<1>19. ReadBelow([left |-> new, out |-> next], Es, drop, m + 1)
  BY <1>5, <1>7, <1>14, <1>18 DEF ReadBelow
<1> QED
  BY <1>1, <1>4, <1>17, <1>19

\* The cursors over tables show their contents.
LEMMA TablesShow ==
    ASSUME NEW Es \in Sources, NEW ts, DOMAIN ts = DOMAIN Es,
           \A i \in DOMAIN Es : IsTable(ts[i], Es[i])
    PROVE  AllShow([i \in DOMAIN ts |-> SSTableIterator(ts[i])], Es)
<1>1. PICK cs : cs = [i \in DOMAIN ts |-> SSTableIterator(ts[i])]
  OBVIOUS
<1>2. ASSUME NEW i \in DOMAIN Es PROVE cs[i] \in Cursors /\ Shows(cs[i], Es[i])
  <2>1. PICK E \in Contents : E = Es[i]
    BY DEF Sources
  <2>2. Shows(SSTableIterator(ts[i]), E)
    BY <2>1, TableShows
  <2>3. cs[i] = SSTableIterator(ts[i])
    BY <1>1
  <2> QED
    BY <2>1, <2>2, <2>3 DEF Shows
<1>3. cs = [i \in DOMAIN Es |-> cs[i]]
  BY <1>1
<1>4. cs \in [DOMAIN Es -> Cursors]
  BY <1>2, <1>3
<1> QED
  BY <1>1, <1>2, <1>4 DEF AllShow

\* What a compaction reads is the contents of its inputs together.
LEMMA MergedContentsIs ==
    ASSUME NEW Es \in Sources, NEW ts, DOMAIN ts = DOMAIN Es,
           \A i \in DOMAIN Es : IsTable(ts[i], Es[i]), NEW drop \in BOOLEAN
    PROVE  MergedContents(ts, drop) = Kept(Es, drop)
<1> DEFINE N == Cardinality(Key)
           cs == [i \in DOMAIN ts |-> SSTableIterator(ts[i])]
           base == [left |-> MergeIterator(cs, TRUE), out |-> NoContents]
           Eq(f) == f = [n \in 0 .. N |->
                           IF n = 0 THEN base ELSE ReadOne(f[n - 1], drop)]
           after == CHOOSE f : Eq(f)
           S == {p \in [left : [DOMAIN Es -> Cursors], out : Contents] :
                   \E x \in Nat : ReadBelow(p, Es, drop, x)}
           step == [q \in Nat \X S |-> ReadOne(q[2], drop)]
<1>1. N \in Nat
  BY KeyAssumption, FS_CardinalityType
<1>2. MergedContents(ts, drop) = after[N].out
  BY DEF MergedContents, ReadOne
<1> HIDE DEF N
<1>3. \A p : (\E x \in Nat : ReadBelow(p, Es, drop, x)) => p \in S
  BY DEF ReadBelow
<1>4. ReadBelow(base, Es, drop, 0)
  <2>1. AllShow(cs, Es)
    BY TablesShow
  <2>2. 0 \in Nat
    OBVIOUS
  <2>3. PICK new : new = [i \in DOMAIN cs |-> ToFirst(cs[i])]
    OBVIOUS
  <2> HIDE DEF cs
  <2>4. AllAt(new, Es, 0)
    BY <2>1, <2>2, <2>3, SeekAll
  <2>5. MergeIterator(cs, TRUE) = new
    BY <2>3, NormalizeKeeps DEF MergeIterator
  <2>6. NoContents = KeptBelow(Es, drop, 0)
    <3>1. \A k \in Key : ~(k < 0)
      BY KeyAssumption
    <3> QED
      BY <3>1 DEF NoContents, KeptBelow
  <2>7. NoContents \in Contents
    BY DEF NoContents, Contents
  <2>8. new \in [DOMAIN Es -> Cursors]
    BY <2>4 DEF AllAt
  <2> QED
    BY <2>2, <2>4, <2>5, <2>6, <2>7, <2>8 DEF ReadBelow
<1> HIDE DEF base
<1>5. ASSUME NEW p, NEW x \in Nat, ReadBelow(p, Es, drop, x)
      PROVE  \E y \in Nat : ReadBelow(ReadOne(p, drop), Es, drop, y)
  <2>1. CASE Exhausted(p.left)
    BY <1>5, <2>1 DEF ReadOne
  <2>2. CASE ~Exhausted(p.left)
    <3>1. ReadBelow(ReadOne(p, drop), Es, drop, MergedKey(p.left) + 1)
      BY <1>5, <2>2, ReadsOne
    <3>2. MergedKey(p.left) + 1 \in Nat
      BY <3>1 DEF ReadBelow
    <3> QED
      BY <3>1, <3>2
  <2> QED
    BY <2>1, <2>2
<1>6. step \in [Nat \X S -> S]
  <2>1. ASSUME NEW p \in S PROVE ReadOne(p, drop) \in S
    <3>1. PICK x \in Nat : ReadBelow(p, Es, drop, x)
      OBVIOUS
    <3>2. \E y \in Nat : ReadBelow(ReadOne(p, drop), Es, drop, y)
      BY <1>5, <3>1
    <3> HIDE DEF S
    <3> QED
      BY <1>3, <3>2
  <2> HIDE DEF S
  <2> QED
    BY <2>1
<1>7. \E f : Eq(f)
  <2>1. base \in S /\ 0 \in Nat
    <3> HIDE DEF S
    <3> QED
      BY <1>3, <1>4
  <2>2. PICK f \in [0 .. N -> S] : Iterates(f, base, step, N)
    <3> HIDE DEF S, step
    <3> QED
      BY <1>1, <1>6, <2>1, Iteration
  <2>3. ASSUME NEW n \in 1 .. N PROVE f[n] = ReadOne(f[n - 1], drop)
    <3>1. n \in Nat /\ n - 1 \in 0 .. N
      BY <1>1
    <3>2. f[n - 1] \in S
      <4> HIDE DEF S
      <4> QED
        BY <2>2, <3>1
    <3>3. f[n] = step[<<n, f[n - 1]>>]
      BY <2>2 DEF Iterates
    <3> HIDE DEF S
    <3> QED
      BY <3>1, <3>2, <3>3
  <2>4. f[0] = base /\ f = [n \in 0 .. N |-> f[n]]
    BY <2>2 DEF Iterates
  <2>5. ASSUME NEW n \in 0 .. N
        PROVE  f[n] = IF n = 0 THEN base ELSE ReadOne(f[n - 1], drop)
    <3>1. CASE n = 0
      BY <2>4, <3>1
    <3>2. CASE n # 0
      <4>1. n \in 1 .. N
        BY <1>1, <3>2
      <4> QED
        BY <2>3, <3>2, <4>1
    <3> QED
      BY <3>1, <3>2
  <2>6. Eq(f)
    BY <2>4, <2>5
  <2> QED
    BY <2>6
<1>8. Eq(after)
  <2> HIDE DEF Eq
  <2> QED
    BY <1>7
<1>9. after[0] = base /\ \A n \in 1 .. N : after[n] = ReadOne(after[n - 1], drop)
  <2> HIDE DEF after
  <2>1. \A n \in 0 .. N : after[n] = IF n = 0 THEN base ELSE ReadOne(after[n - 1], drop)
    BY <1>8
  <2> QED
    BY <1>1, <2>1
<1> HIDE DEF after, Eq, S, step
<1> DEFINE T == {n \in 0 .. N : \E x \in Nat :
                   /\ ReadBelow(after[n], Es, drop, x)
                   /\ Exhausted(after[n].left) \/ Count(x) >= n}
<1>10. 0 \in T
  <2>1. Count(0) \in Nat /\ Count(0) >= 0
    <3>1. KeysBelow(0) \in SUBSET Key
      BY DEF KeysBelow
    <3>2. Count(0) \in Nat
      BY <3>1, KeyAssumption, FS_Subset, FS_CardinalityType DEF Count
    <3> QED
      BY <3>2
  <2>2. ReadBelow(after[0], Es, drop, 0)
    BY <1>4, <1>9
  <2>3. 0 \in 0 .. N /\ 0 \in Nat
    BY <1>1
  <2> QED
    BY <2>1, <2>2, <2>3
<1>11. ASSUME NEW n \in 0 .. N - 1, n \in T PROVE n + 1 \in T
  <2>1. n + 1 \in 1 .. N /\ n + 1 \in 0 .. N /\ n + 1 - 1 = n /\ n \in Nat
    BY <1>1
  <2>2. PICK p : p = after[n]
    OBVIOUS
  <2>3. after[n + 1] = ReadOne(p, drop)
    BY <1>9, <2>1, <2>2
  <2>4. PICK x \in Nat : ReadBelow(p, Es, drop, x) /\ (Exhausted(p.left) \/ Count(x) >= n)
    BY <1>11, <2>2
  <2>5. CASE Exhausted(p.left)
    <3>1. after[n + 1] = p
      BY <2>3, <2>5 DEF ReadOne
    <3> QED
      BY <2>1, <2>4, <2>5, <3>1
  <2>6. CASE ~Exhausted(p.left)
    <3>1. PICK k \in Key : k = MergedKey(p.left) /\ x <= k
                           /\ ReadBelow(ReadOne(p, drop), Es, drop, k + 1)
      BY <2>4, <2>6, ReadsOne
    <3>2. Count(x) \in Nat /\ Count(k + 1) \in Nat /\ Count(k + 1) >= Count(x) + 1
      BY <3>1, CountMore
    <3>3. Count(k + 1) >= n + 1
      <4>1. PICK a \in Nat : a = Count(x) /\ a >= n
        BY <2>4, <2>6, <3>2
      <4>2. PICK b \in Nat : b = Count(k + 1) /\ b >= a + 1
        BY <3>2, <4>1
      <4> QED
        BY <2>1, <4>1, <4>2
    <3>4. k + 1 \in Nat
      BY <3>1 DEF ReadBelow
    <3> QED
      BY <2>1, <2>3, <3>1, <3>3, <3>4
  <2> QED
    BY <2>5, <2>6
<1>12. 0 .. N \subseteq T /\ N \in 0 .. N
  <2> HIDE DEF T
  <2> QED
    BY <1>1, <1>10, <1>11, CountUp
<1>13. PICK last : last = after[N]
  OBVIOUS
<1>14. PICK x \in Nat : /\ ReadBelow(last, Es, drop, x)
                        /\ Exhausted(last.left) \/ Count(x) >= N
  BY <1>12, <1>13
<1>15. ASSUME NEW k \in Key, ~(k < x) PROVE Kept(Es, drop)[k] = Absent
  <2>1. Exhausted(last.left)
    BY <1>14, <1>15, AllBelow DEF N
  <2>2. k \notin KeysOf(Overlay(Es))
    BY <1>14, <1>15, <2>1, MergedIs DEF ReadBelow
  <2> QED
    BY <2>2 DEF KeysOf, Kept
<1>16. KeptBelow(Es, drop, x) = Kept(Es, drop)
  <2>1. PICK K \in Contents : K = Kept(Es, drop)
    BY KeptType
  <2>2. PICK L \in Contents : L = KeptBelow(Es, drop, x)
    BY KeptType
  <2>3. \A k \in Key : L[k] = IF k < x THEN K[k] ELSE Absent
    BY <2>1, <2>2 DEF KeptBelow
  <2>4. \A k \in Key : L[k] = K[k]
    BY <1>15, <2>1, <2>3
  <2> QED
    BY <2>1, <2>2, <2>4 DEF Contents
<1> QED
  BY <1>2, <1>13, <1>14, <1>16 DEF ReadBelow

-----------------------------------------------------------------------------
(***************************************************************************)
(* The state.  The database is the memtable over the tables, each of which *)
(* is the table of some contents; what the client stored is the answer     *)
(* these layers give together.  The children of the range show the layers  *)
(* of the database as they were when it was opened.                        *)
(***************************************************************************)

\* The value of each key, as a client sees it.
Stored(V) == [k \in Key |-> Answer(V[k])]

\* One more source in front.
LEMMA Layered ==
    ASSUME NEW E \in Contents, NEW Es \in Sources
    PROVE  /\ <<E>> \o Es \in Sources
           /\ \A k \in Key : Overlay(<<E>> \o Es)[k] =
                IF E[k] # Absent THEN E[k] ELSE Overlay(Es)[k]
<1>1. PICK Fs : Fs = <<E>> \o Es
  OBVIOUS
<1>2. PICK m \in Nat : m = Len(Es) /\ DOMAIN Es = 1 .. m
  BY DEF Sources
<1>3. Fs \in Sources
  BY <1>1 DEF Sources
<1>4. DOMAIN Fs = 1 .. m + 1 /\ Fs[1] = E /\ \A i \in 1 .. m : Fs[i + 1] = Es[i]
  BY <1>1, <1>2 DEF Sources
<1>5. ASSUME NEW k \in Key
      PROVE  Overlay(Fs)[k] = IF E[k] # Absent THEN E[k] ELSE Overlay(Es)[k]
  <2>1. CASE E[k] # Absent
    <3>1. 1 \in DOMAIN Fs /\ \A j \in DOMAIN Fs : ~(j < 1)
      BY <1>2, <1>4
    <3>2. Overlay(Fs)[k] = Fs[1][k]
      BY <1>3, <1>4, <2>1, <3>1, OverlayType
    <3> QED
      BY <1>4, <2>1, <3>2
  <2>2. CASE E[k] = Absent
    <3>1. CASE Holders(Es, k) = {}
      <4>1. \A i \in 1 .. m : Es[i][k] = Absent
        BY <1>2, <3>1 DEF Holders
      <4>2. ASSUME NEW i \in DOMAIN Fs PROVE Fs[i][k] = Absent
        <5>1. CASE i = 1
          BY <1>4, <2>2, <5>1
        <5>2. CASE i # 1
          <6>1. i - 1 \in 1 .. m /\ i - 1 + 1 = i
            BY <1>2, <1>4, <5>2
          <6> QED
            BY <1>4, <4>1, <6>1
        <5> QED
          BY <5>1, <5>2
      <4>3. Overlay(Fs)[k] = Absent
        BY <1>3, <4>2, OverlayType
      <4>4. Overlay(Es)[k] = Absent
        BY <3>1 DEF Overlay
      <4> QED
        BY <2>2, <4>3, <4>4
    <3>2. CASE Holders(Es, k) # {}
      <4>1. Holders(Es, k) \in SUBSET Nat
        BY <1>2 DEF Holders
      <4>2. PICK l : l = Least(Holders(Es, k))
        OBVIOUS
      <4>3. l \in Holders(Es, k) /\ \A i \in Holders(Es, k) : l <= i
        BY <3>2, <4>1, <4>2, LeastOfNaturals
      <4>4. l \in 1 .. m /\ Es[l][k] # Absent
        BY <1>2, <4>3 DEF Holders
      <4>5. Overlay(Es)[k] = Es[l][k]
        BY <3>2, <4>2 DEF Overlay
      <4>6. l + 1 \in DOMAIN Fs /\ Fs[l + 1] = Es[l]
        BY <1>2, <1>4, <4>4
      <4>7. ASSUME NEW j \in DOMAIN Fs, j < l + 1 PROVE Fs[j][k] = Absent
        <5>1. CASE j = 1
          BY <1>4, <2>2, <5>1
        <5>2. CASE j # 1
          <6>1. j - 1 \in 1 .. m /\ j - 1 + 1 = j /\ ~(l <= j - 1)
            BY <1>2, <1>4, <4>4, <4>7, <5>2
          <6>2. j - 1 \notin Holders(Es, k)
            BY <4>3, <6>1
          <6> QED
            BY <1>2, <1>4, <6>1, <6>2 DEF Holders
        <5> QED
          BY <5>1, <5>2
      <4>8. Overlay(Fs)[k] = Fs[l + 1][k]
        BY <1>3, <4>4, <4>6, <4>7, OverlayType
      <4> QED
        BY <2>2, <4>5, <4>6, <4>8
    <3> QED
      BY <3>1, <3>2
  <2> QED
    BY <2>1, <2>2
<1> QED
  BY <1>1, <1>3, <1>5

\* With no source there is nothing.
LEMMA NoLayers == <<>> \in Sources /\ Overlay(<<>>) = NoContents
<1>1. \A k \in Key : Holders(<<>>, k) = {}
  BY DEF Holders
<1> QED
  BY <1>1 DEF Sources, Overlay, NoContents

\* A flush puts the memtable's contents in front of the tables and leaves an
\* empty memtable before them.
LEMMA FlushedLayer ==
    ASSUME NEW E \in Contents, NEW Es \in Sources
    PROVE  Overlay(<<NoContents>> \o (<<E>> \o Es)) = Overlay(<<E>> \o Es)
<1>1. PICK Fs \in Sources : Fs = <<E>> \o Es
  BY Layered
<1>2. NoContents \in Contents /\ \A k \in Key : NoContents[k] = Absent
  BY DEF NoContents, Contents
<1>3. <<NoContents>> \o Fs \in Sources
      /\ \A k \in Key : Overlay(<<NoContents>> \o Fs)[k] = Overlay(Fs)[k]
  BY <1>2, Layered
<1>4. Overlay(<<NoContents>> \o Fs) \in Contents /\ Overlay(Fs) \in Contents
  BY <1>3, OverlayType
<1>5. Overlay(<<NoContents>> \o Fs) = Overlay(Fs)
  BY <1>3, <1>4 DEF Contents
<1> QED
  BY <1>1, <1>5

\* A full compaction puts one layer, or none, in the place of the tables.
\* With every table among its inputs a tombstone can go: nothing is below it.
LEMMA CompactedLayer ==
    ASSUME NEW E \in Contents, NEW Es \in Sources, NEW Fs,
           \/ Fs = <<>> /\ Kept(Es, TRUE) = NoContents
           \/ Fs = <<Kept(Es, TRUE)>>
    PROVE  /\ Fs \in Sources
           /\ Stored(Overlay(<<E>> \o Fs)) = Stored(Overlay(<<E>> \o Es))
<1>1. PICK K \in Contents : K = Kept(Es, TRUE)
  <2>1. 0 \in Nat /\ TRUE \in BOOLEAN
    OBVIOUS
  <2> QED
    BY <2>1, KeptType
<1>2. Fs \in Sources /\ \A k \in Key : Overlay(Fs)[k] = K[k]
  <2>1. CASE Fs = <<>> /\ K = NoContents
    BY <2>1, NoLayers
  <2>2. CASE Fs = <<K>>
    <3>1. Fs = <<K>> \o <<>>
      BY <2>2
    <3>2. Fs \in Sources /\ \A k \in Key : Overlay(Fs)[k] =
            IF K[k] # Absent THEN K[k] ELSE NoContents[k]
      BY <3>1, NoLayers, Layered
    <3> QED
      BY <3>2 DEF NoContents
  <2> QED
    BY <1>1, <2>1, <2>2
<1>3. \A k \in Key : K[k] = IF Overlay(Es)[k] = Tombstone THEN Absent ELSE Overlay(Es)[k]
  BY <1>1 DEF Kept
<1>4. Answer(Tombstone) = None /\ Answer(Absent) = None
  BY MarkerAssumption DEF Answer
<1>5. PICK A : A = Overlay(<<E>> \o Fs)
  OBVIOUS
<1>6. PICK B : B = Overlay(<<E>> \o Es)
  OBVIOUS
<1>7. \A k \in Key : /\ A[k] = IF E[k] # Absent THEN E[k] ELSE Overlay(Fs)[k]
                     /\ B[k] = IF E[k] # Absent THEN E[k] ELSE Overlay(Es)[k]
  BY <1>2, <1>5, <1>6, Layered
<1>8. ASSUME NEW k \in Key PROVE Answer(A[k]) = Answer(B[k])
  <2>1. CASE E[k] # Absent
    BY <1>7, <2>1
  <2>2. CASE E[k] = Absent /\ Overlay(Es)[k] = Tombstone
    BY <1>2, <1>3, <1>4, <1>7, <2>2
  <2>3. CASE E[k] = Absent /\ Overlay(Es)[k] # Tombstone
    BY <1>2, <1>3, <1>7, <2>3
  <2> QED
    BY <2>1, <2>2, <2>3
<1>9. Stored(A) = Stored(B)
  BY <1>8 DEF Stored
<1> QED
  BY <1>2, <1>5, <1>6, <1>9

Writes(E, F, k, entry) == F = [E EXCEPT ![k] = entry]

\* A write shows in the answer for its key and in no other.
LEMMA WrittenLayer ==
    ASSUME NEW E \in Contents, NEW Es \in Sources, NEW k \in Key, NEW entry \in Entry,
           NEW F, Writes(E, F, k, entry)
    PROVE  /\ F \in Contents
           /\ \A j \in Key : Stored(Overlay(<<F>> \o Es))[j] =
                IF j = k THEN Answer(entry) ELSE Stored(Overlay(<<E>> \o Es))[j]
           /\ DOMAIN Stored(Overlay(<<F>> \o Es)) = Key
<1>1. F = [E EXCEPT ![k] = entry]
  BY DEF Writes
<1>2. F \in Contents
  BY <1>1 DEF Contents
<1>3. F[k] = entry /\ (\A j \in Key : j # k => F[j] = E[j]) /\ entry # Absent
  BY <1>1, MarkerAssumption DEF Contents, Entry
<1>4. PICK A : A = Overlay(<<F>> \o Es)
  OBVIOUS
<1>5. PICK B : B = Overlay(<<E>> \o Es)
  OBVIOUS
<1>6. \A j \in Key : /\ A[j] = IF F[j] # Absent THEN F[j] ELSE Overlay(Es)[j]
                     /\ B[j] = IF E[j] # Absent THEN E[j] ELSE Overlay(Es)[j]
  BY <1>2, <1>4, <1>5, Layered
<1>7. \A j \in Key : Answer(A[j]) = IF j = k THEN Answer(entry) ELSE Answer(B[j])
  BY <1>3, <1>6
<1>8. \A j \in Key : Stored(A)[j] = IF j = k THEN Answer(entry) ELSE Stored(B)[j]
  BY <1>7 DEF Stored
<1>9. DOMAIN Stored(A) = Key
  BY DEF Stored
<1> QED
  BY <1>2, <1>4, <1>5, <1>8, <1>9

\* The tables are those of some contents, none of them empty.
TablesHold(ts, Es) ==
    /\ ts \in Seq(Tables) /\ Len(ts) = Len(Es)
    /\ \A i \in DOMAIN Es : IsTable(ts[i], Es[i]) /\ Es[i] # NoContents

DatabaseHolds ==
    /\ memtable \in Contents
    /\ \E Es \in Sources : /\ TablesHold(tables, Es)
                           /\ store = Stored(Overlay(<<memtable>> \o Es))

RangeShows ==
    /\ range = [children |-> range.children, end |-> range.end]
    /\ range.end \in Bound
    /\ \E Es \in Sources, x \in Nat : /\ Positioned(range.children, Es, x)
                                      /\ view = Stored(Overlay(Es))

CountsBounded == flushes \in 0 .. MaxFlushes /\ writes \in 0 .. MaxWrites

IInv == DatabaseHolds /\ RangeShows /\ CountsBounded

\* One more table in front.
LEMMA OneMoreTable ==
    ASSUME NEW ts, NEW Es \in Sources, TablesHold(ts, Es),
           NEW t, NEW E \in Contents, E # NoContents, IsTable(t, E)
    PROVE  TablesHold(<<t>> \o ts, <<E>> \o Es)
<1>1. PICK us : us = <<t>> \o ts
  OBVIOUS
<1>2. PICK Fs : Fs = <<E>> \o Es
  OBVIOUS
<1>3. PICK m \in Nat : /\ m = Len(Es) /\ Len(ts) = m /\ ts \in Seq(Tables)
                       /\ DOMAIN Es = 1 .. m /\ DOMAIN ts = 1 .. m
  BY DEF Sources, TablesHold
<1>4. us \in Seq(Tables) /\ Len(us) = m + 1 /\ us[1] = t
      /\ \A i \in 1 .. m : us[i + 1] = ts[i]
  BY <1>1, <1>3 DEF IsTable
<1>5. Len(Fs) = m + 1 /\ DOMAIN Fs = 1 .. m + 1 /\ Fs[1] = E
      /\ \A i \in 1 .. m : Fs[i + 1] = Es[i]
  BY <1>2, <1>3 DEF Sources
<1>6. ASSUME NEW i \in 1 .. m + 1 PROVE IsTable(us[i], Fs[i]) /\ Fs[i] # NoContents
  <2>1. CASE i = 1
    BY <1>4, <1>5, <2>1
  <2>2. CASE i # 1
    <3>1. PICK j \in 1 .. m : i = j + 1
      <4>1. i - 1 \in 1 .. m /\ i = i - 1 + 1
        BY <1>3, <2>2
      <4> QED
        BY <4>1
    <3>2. us[i] = ts[j] /\ Fs[i] = Es[j]
      BY <1>4, <1>5, <3>1
    <3>3. IsTable(ts[j], Es[j]) /\ Es[j] # NoContents
      BY <1>3 DEF TablesHold
    <3> QED
      BY <3>2, <3>3
  <2> QED
    BY <2>1, <2>2
<1>7. TablesHold(us, Fs)
  BY <1>4, <1>5, <1>6 DEF TablesHold
<1> QED
  BY <1>1, <1>2, <1>7

\* The children range_iterator lines up show the layers of the database.
LEMMA LayersShow ==
    ASSUME NEW E \in Contents, NEW ts, NEW Es \in Sources, TablesHold(ts, Es)
    PROVE  AllShow(<<MemtableIterator(E)>>
                      \o [i \in DOMAIN ts |-> SSTableIterator(ts[i])], <<E>> \o Es)
<1>1. PICK m \in Nat : m = Len(Es) /\ DOMAIN Es = 1 .. m /\ DOMAIN ts = 1 .. m
  BY DEF Sources, TablesHold
<1>2. PICK ds : ds = [i \in DOMAIN ts |-> SSTableIterator(ts[i])]
  OBVIOUS
<1>3. AllShow(ds, Es)
  <2>1. \A i \in DOMAIN Es : IsTable(ts[i], Es[i])
    BY DEF TablesHold
  <2>2. DOMAIN ts = DOMAIN Es
    BY <1>1
  <2> QED
    BY <1>2, <2>1, <2>2, TablesShow
<1>4. PICK d : d = MemtableIterator(E)
  OBVIOUS
<1>5. Shows(d, E) /\ d \in Cursors
  BY <1>4, MemtableShows DEF Shows
<1>6. ds \in [1 .. m -> Cursors] /\ \A i \in 1 .. m : Shows(ds[i], Es[i])
  BY <1>1, <1>3 DEF AllShow
<1>7. ds \in Seq(Cursors) /\ Len(ds) = m
  BY <1>6
<1>8. PICK cs : cs = <<d>> \o ds
  OBVIOUS
<1>9. PICK Fs : Fs = <<E>> \o Es
  OBVIOUS
<1>10. cs \in Seq(Cursors) /\ Len(cs) = m + 1 /\ cs[1] = d
       /\ \A i \in 1 .. m : cs[i + 1] = ds[i]
  BY <1>5, <1>7, <1>8
<1>11. DOMAIN Fs = 1 .. m + 1 /\ Fs[1] = E /\ \A i \in 1 .. m : Fs[i + 1] = Es[i]
  BY <1>1, <1>9 DEF Sources
<1>12. ASSUME NEW i \in 1 .. m + 1 PROVE Shows(cs[i], Fs[i])
  <2>1. CASE i = 1
    BY <1>5, <1>10, <1>11, <2>1
  <2>2. CASE i # 1
    <3>1. PICK j \in 1 .. m : i = j + 1
      <4>1. i - 1 \in 1 .. m /\ i = i - 1 + 1
        BY <1>1, <2>2
      <4> QED
        BY <4>1
    <3> QED
      BY <1>6, <1>10, <1>11, <3>1
  <2> QED
    BY <2>1, <2>2
<1>13. cs \in [1 .. m + 1 -> Cursors]
  BY <1>10
<1>14. AllShow(cs, Fs)
  BY <1>11, <1>12, <1>13 DEF AllShow
<1> QED
  BY <1>2, <1>4, <1>8, <1>9, <1>14

\* Where each operation of the range leaves it.
LEMMA OpenedAt ==
    ASSUME DatabaseHolds, NEW start \in Bound, NEW end
    PROVE  /\ RangeIterator(start, end)
                = [children |-> RangeIterator(start, end).children, end |-> end]
           /\ StartOf(start) \in Nat
           /\ \E Es \in Sources :
                /\ Positioned(RangeIterator(start, end).children, Es, StartOf(start))
                /\ store = Stored(Overlay(Es))
<1>1. PICK Es \in Sources : /\ TablesHold(tables, Es)
                            /\ store = Stored(Overlay(<<memtable>> \o Es))
  BY DEF DatabaseHolds
<1>2. memtable \in Contents
  BY DEF DatabaseHolds
<1>3. PICK Fs \in Sources : Fs = <<memtable>> \o Es
  BY <1>2, Layered
<1>4. PICK cs : cs = <<MemtableIterator(memtable)>>
                       \o [i \in DOMAIN tables |-> SSTableIterator(tables[i])]
  OBVIOUS
<1>5. AllShow(cs, Fs)
  BY <1>1, <1>2, <1>3, <1>4, LayersShow
<1>6. PICK new : new = RangeFrom(MergeIterator(cs, FALSE), start)
  OBVIOUS
<1>7. StartOf(start) \in Nat /\ Positioned(new, Fs, StartOf(start))
  BY <1>5, <1>6, RangeFromAt
<1>8. RangeIterator(start, end) = [children |-> new, end |-> end]
  BY <1>4, <1>6 DEF RangeIterator
<1>9. RangeIterator(start, end).children = new
  BY <1>8
<1>10. store = Stored(Overlay(Fs))
  BY <1>1, <1>3
<1> QED
  BY <1>7, <1>8, <1>9, <1>10

\* Every operation of the merge leaves it positioned.
LEMMA MovedAt ==
    ASSUME NEW Es \in Sources, NEW x \in Nat, NEW cs, Positioned(cs, Es, x)
    PROVE  /\ Positioned(MergeIterator(cs, FALSE), Es, 0)
           /\ \A k \in Key : k \in Nat /\ Positioned(MergeSeek(cs, k, FALSE), Es, k)
           /\ Exhausted(cs) => MergeAdvance(cs, FALSE) = cs
           /\ ~Exhausted(cs) => /\ MergedKey(cs) + 1 \in Nat
                                /\ Positioned(MergeAdvance(cs, FALSE), Es, MergedKey(cs) + 1)
<1>1. AllShow(cs, Es)
  BY PositionedShows
<1>2. PICK y \in Nat : AllAt(cs, Es, y)
  BY DEF Positioned
<1>3. Positioned(MergeIterator(cs, FALSE), Es, 0)
  BY <1>1, MergeIteratorAt
<1>4. \A k \in Key : k \in Nat /\ Positioned(MergeSeek(cs, k, FALSE), Es, k)
  <2>1. \A k \in Key : k \in Nat
    BY KeyAssumption
  <2> QED
    BY <1>1, <2>1, MergeSeekAt
<1>5. Exhausted(cs) => MergeAdvance(cs, FALSE) = cs
  BY DEF MergeAdvance
<1>6. ASSUME ~Exhausted(cs)
      PROVE  /\ MergedKey(cs) + 1 \in Nat
             /\ Positioned(MergeAdvance(cs, FALSE), Es, MergedKey(cs) + 1)
  <2>1. MergedKey(cs) \in Nat
    BY <1>2, <1>6, MergedIs
  <2>2. MergedKey(cs) + 1 \in Nat
    BY <2>1
  <2>3. Positioned(MergeAdvance(cs, FALSE), Es, MergedKey(cs) + 1)
    BY <1>2, <1>6, MergeAdvanceAt
  <2> QED
    BY <2>2, <2>3
<1> QED
  BY <1>3, <1>4, <1>5, <1>6

\* At the start there is nothing, in the database and in the range.
LEMMA InitHolds == Init => IInv
<1> SUFFICES ASSUME Init PROVE IInv
  OBVIOUS
<1>1. NoContents \in Contents
  BY DEF NoContents, Contents
<1>2. <<>> \in Sources /\ Overlay(<<>>) = NoContents
  BY NoLayers
<1>3. Stored(NoContents) = [k \in Key |-> None]
  BY MarkerAssumption DEF Stored, NoContents, Answer
<1>4. DatabaseHolds
  <2>1. TablesHold(tables, <<>>)
    BY DEF Init, TablesHold
  <2>2. \A k \in Key : Overlay(<<NoContents>> \o <<>>)[k] = Absent
    BY <1>1, <1>2, Layered DEF NoContents
  <2>3. <<NoContents>> \o <<>> \in Sources
    BY <1>1, <1>2, Layered
  <2>4. PICK V \in Contents : V = Overlay(<<NoContents>> \o <<>>)
    BY <2>3, OverlayType
  <2>5. V = NoContents
    BY <2>2, <2>4 DEF NoContents, Contents
  <2>6. store = Stored(Overlay(<<memtable>> \o <<>>))
    BY <1>3, <2>4, <2>5 DEF Init
  <2> QED
    BY <1>1, <1>2, <2>1, <2>6 DEF DatabaseHolds, Init
<1>5. RangeShows
  <2>1. range = [children |-> <<>>, end |-> Unbounded]
    BY DEF Init, NoRange
  <2>2. range.end \in Bound
    BY <2>1 DEF Bound
  <2>3. Exhausted(<<>>)
    BY DEF Exhausted, AtEntry
  <2>4. AllAt(<<>>, <<>>, 0)
    <3>1. <<>> \in [DOMAIN <<>> -> Cursors]
      OBVIOUS
    <3> QED
      BY <3>1 DEF AllAt
  <2>5. LiveKeys(<<>>) = {}
    BY <1>2, MarkerAssumption DEF LiveKeys, NoContents
  <2>6. Positioned(<<>>, <<>>, 0)
    <3>1. 0 \in Nat
      OBVIOUS
    <3> QED
      BY <2>3, <2>4, <2>5, <3>1 DEF Positioned, Settled
  <2>7. view = Stored(Overlay(<<>>))
    BY <1>2, <1>3 DEF Init
  <2>8. range.children = <<>> /\ 0 \in Nat
    BY <2>1
  <2> QED
    BY <1>2, <2>1, <2>2, <2>6, <2>7, <2>8 DEF RangeShows
<1>6. CountsBounded
  BY EpochAssumption DEF Init, CountsBounded
<1> QED
  BY <1>4, <1>5, <1>6 DEF IInv

\* The database: writes, flushes and full compactions.
LEMMA WriteHolds ==
    ASSUME DatabaseHolds, NEW k \in Key, NEW entry \in Entry, Write(k, entry)
    PROVE  DatabaseHolds'
<1>1. PICK Es \in Sources : /\ TablesHold(tables, Es)
                            /\ store = Stored(Overlay(<<memtable>> \o Es))
  BY DEF DatabaseHolds
<1>2. memtable \in Contents
  BY DEF DatabaseHolds
<1>3. /\ memtable' = [memtable EXCEPT ![k] = entry] /\ tables' = tables
      /\ store' = [store EXCEPT ![k] = Answer(entry)]
  BY DEF Write
<1>4. /\ memtable' \in Contents
      /\ store' = Stored(Overlay(<<memtable'>> \o Es))
  <2>1. PICK E \in Contents : E = memtable
    BY <1>2
  <2>2. PICK F : F = [E EXCEPT ![k] = entry]
    OBVIOUS
  <2>3. PICK s : s = Stored(Overlay(<<E>> \o Es))
    OBVIOUS
  <2>5. PICK r : r = Stored(Overlay(<<F>> \o Es))
    OBVIOUS
  <2>6. /\ F \in Contents /\ DOMAIN r = Key
        /\ \A j \in Key : r[j] = IF j = k THEN Answer(entry) ELSE s[j]
    <3>1. Writes(E, F, k, entry)
      BY <2>2 DEF Writes
    <3> QED
      BY <2>3, <2>5, <3>1, WrittenLayer
  <2>7. s = [j \in Key |-> s[j]] /\ r = [j \in Key |-> r[j]]
    BY <2>3, <2>5 DEF Stored
  <2>8. r = [s EXCEPT ![k] = Answer(entry)]
    BY <2>6, <2>7
  <2>4. memtable' = F /\ store' = [s EXCEPT ![k] = Answer(entry)]
    BY <1>1, <1>3, <2>1, <2>2, <2>3
  <2> QED
    BY <2>4, <2>5, <2>6, <2>8
<1>5. TablesHold(tables', Es)
  BY <1>1, <1>3
<1> QED
  BY <1>4, <1>5 DEF DatabaseHolds

\* A table that does not load changes nothing; one that loads holds what the
\* memtable did.
LEMMA FlushHolds ==
    ASSUME LargeTablesFail, DatabaseHolds, Flush
    PROVE  DatabaseHolds'
<1>1. PICK Es \in Sources : /\ TablesHold(tables, Es)
                            /\ store = Stored(Overlay(<<memtable>> \o Es))
  BY DEF DatabaseHolds
<1>2. memtable \in Contents /\ memtable # NoContents /\ store' = store
  BY DEF DatabaseHolds, Flush
<1>3. PICK t : t = LoadTable(WriteTable(memtable))
  OBVIOUS
<1>4. CASE t = Garbage
  <2>1. memtable' = memtable /\ tables' = tables
    BY <1>3, <1>4 DEF Flush
  <2> QED
    BY <1>1, <1>2, <2>1 DEF DatabaseHolds
<1>5. CASE t # Garbage
  <2>1. memtable' = NoContents /\ tables' = <<t>> \o tables
    BY <1>3, <1>5 DEF Flush
  <2>2. IsTable(t, memtable)
    <3>1. Fits(WriteTable(memtable))
      BY <1>2, <1>3, <1>5 DEF LargeTablesFail
    <3> QED
      BY <1>2, <1>3, <3>1, Loads
  <2>3. PICK Fs \in Sources : Fs = <<memtable>> \o Es
    BY <1>2, Layered
  <2>4. TablesHold(tables', Fs)
    BY <1>1, <1>2, <2>1, <2>2, <2>3, OneMoreTable
  <2>5. store' = Stored(Overlay(<<memtable'>> \o Fs))
    BY <1>1, <1>2, <2>1, <2>3, FlushedLayer
  <2>6. memtable' \in Contents
    BY <2>1 DEF NoContents, Contents
  <2> QED
    BY <2>4, <2>5, <2>6 DEF DatabaseHolds
<1> QED
  BY <1>4, <1>5

\* The one table of the output stands for all of the inputs.
LEMMA CompactFullHolds ==
    ASSUME LargeTablesFail, DatabaseHolds, CompactFull
    PROVE  DatabaseHolds'
<1>1. PICK Es \in Sources : /\ TablesHold(tables, Es)
                            /\ store = Stored(Overlay(<<memtable>> \o Es))
  BY DEF DatabaseHolds
<1>2. memtable \in Contents /\ memtable' = memtable /\ store' = store
  BY DEF DatabaseHolds, CompactFull
<1>3. PICK K \in Contents : K = Kept(Es, TRUE)
  <2>1. 0 \in Nat /\ TRUE \in BOOLEAN
    OBVIOUS
  <2> QED
    BY <2>1, KeptType
<1>4. MergedContents(tables, TRUE) = K
  <2>1. DOMAIN tables = DOMAIN Es /\ \A i \in DOMAIN Es : IsTable(tables[i], Es[i])
    BY <1>1 DEF TablesHold, Sources
  <2> QED
    BY <1>3, <2>1, MergedContentsIs
<1>5. PICK t : t = LoadTable(WriteTable(K))
  OBVIOUS
<1>6. CASE K = NoContents
  <2>1. tables' = <<>>
    BY <1>4, <1>6 DEF CompactFull
  <2>2. /\ <<>> \in Sources
        /\ Stored(Overlay(<<memtable>> \o <<>>)) = Stored(Overlay(<<memtable>> \o Es))
    BY <1>2, <1>3, <1>6, CompactedLayer
  <2>3. TablesHold(<<>>, <<>>)
    BY DEF TablesHold
  <2> QED
    BY <1>1, <1>2, <2>1, <2>2, <2>3 DEF DatabaseHolds
<1>7. CASE K # NoContents /\ t # Garbage
  <2>1. tables' = <<t>>
    BY <1>4, <1>5, <1>7 DEF CompactFull
  <2>2. IsTable(t, K)
    <3>1. Fits(WriteTable(K))
      BY <1>3, <1>5, <1>7 DEF LargeTablesFail
    <3> QED
      BY <1>3, <1>5, <1>7, <3>1, Loads
  <2>3. /\ <<K>> \in Sources
        /\ Stored(Overlay(<<memtable>> \o <<K>>)) = Stored(Overlay(<<memtable>> \o Es))
    BY <1>2, <1>3, CompactedLayer
  <2>4. TablesHold(<<t>>, <<K>>)
    BY <1>7, <2>2 DEF TablesHold, IsTable
  <2> QED
    BY <1>1, <1>2, <2>1, <2>3, <2>4 DEF DatabaseHolds
<1>8. CASE K # NoContents /\ t = Garbage
  <2>1. tables' = tables
    BY <1>4, <1>5, <1>8 DEF CompactFull
  <2> QED
    BY <1>1, <1>2, <2>1 DEF DatabaseHolds
<1> QED
  BY <1>6, <1>7, <1>8

\* The range: it is opened, and moves.
LEMMA OpenRangeShows ==
    ASSUME DatabaseHolds, NEW start \in Bound, NEW end \in Bound, OpenRange(start, end)
    PROVE  RangeShows'
<1>1. PICK new : new = RangeIterator(start, end)
  OBVIOUS
<1>2. PICK Es \in Sources : Positioned(new.children, Es, StartOf(start))
                            /\ store = Stored(Overlay(Es))
  BY <1>1, OpenedAt
<1>3. new = [children |-> new.children, end |-> end] /\ StartOf(start) \in Nat
  BY <1>1, OpenedAt
<1>4. range' = new /\ view' = store
  BY <1>1 DEF OpenRange
<1>5. new.end = end
  BY <1>3
<1> QED
  BY <1>2, <1>3, <1>4, <1>5 DEF RangeShows

\* A move stays within the layers the range was opened on.
LEMMA MoveShows ==
    ASSUME RangeShows, NEW new, Move(new),
           \A Es \in Sources, x \in Nat : Positioned(range.children, Es, x)
              => \E y \in Nat : Positioned(new, Es, y)
    PROVE  RangeShows'
<1>1. PICK Es \in Sources, x \in Nat : /\ Positioned(range.children, Es, x)
                                       /\ view = Stored(Overlay(Es))
  BY DEF RangeShows
<1>2. PICK y \in Nat : Positioned(new, Es, y)
  BY <1>1
<1>3. range = [children |-> range.children, end |-> range.end] /\ range.end \in Bound
  BY DEF RangeShows
<1>4. range' = [range EXCEPT !.children = new] /\ view' = view
  BY DEF Move
<1>5. range' = [children |-> new, end |-> range.end]
  BY <1>3, <1>4
<1>6. range'.children = new /\ range'.end = range.end
  BY <1>5
<1> QED
  BY <1>1, <1>2, <1>3, <1>4, <1>5, <1>6 DEF RangeShows

\* Every step keeps the invariant.
LEMMA StepHolds ==
    ASSUME LargeTablesFail, IInv, [Next]_vars
    PROVE  IInv'
<1>1. DatabaseHolds /\ RangeShows /\ CountsBounded
  BY DEF IInv
<1>2. flushes \in 0 .. MaxFlushes /\ writes \in 0 .. MaxWrites
      /\ MaxFlushes \in Nat /\ MaxWrites \in Nat /\ Epoch[flushes] \in Entry
      /\ Tombstone \in Entry
  BY <1>1, EpochAssumption DEF CountsBounded, Entry
<1>3. ASSUME UNCHANGED <<memtable, tables, store>> PROVE DatabaseHolds'
  BY <1>1, <1>3 DEF DatabaseHolds
<1>4. ASSUME UNCHANGED <<range, view>> PROVE RangeShows'
  BY <1>1, <1>4 DEF RangeShows
<1>5. ASSUME UNCHANGED <<flushes, writes>> PROVE CountsBounded'
  BY <1>1, <1>5 DEF CountsBounded
<1>6. ASSUME NEW k \in Key, NEW entry \in Entry, Write(k, entry) PROVE IInv'
  <2>1. DatabaseHolds'
    BY <1>1, <1>6, WriteHolds
  <2>2. RangeShows'
    BY <1>4, <1>6 DEF Write
  <2>3. CountsBounded'
    BY <1>2, <1>6 DEF Write, CountsBounded
  <2> QED
    BY <2>1, <2>2, <2>3 DEF IInv
<1>7. ASSUME Flush PROVE IInv'
  <2>1. DatabaseHolds'
    BY <1>1, <1>7, FlushHolds
  <2>2. RangeShows'
    BY <1>4, <1>7 DEF Flush
  <2>3. CountsBounded'
    BY <1>2, <1>7 DEF Flush, CountsBounded
  <2> QED
    BY <2>1, <2>2, <2>3 DEF IInv
<1>8. ASSUME CompactFull PROVE IInv'
  <2>1. DatabaseHolds'
    BY <1>1, <1>8, CompactFullHolds
  <2>2. RangeShows' /\ CountsBounded'
    BY <1>4, <1>5, <1>8 DEF CompactFull
  <2> QED
    BY <2>1, <2>2 DEF IInv
<1>9. ASSUME NEW start \in Bound, NEW end \in Bound, OpenRange(start, end) PROVE IInv'
  <2>1. RangeShows'
    BY <1>1, <1>9, OpenRangeShows
  <2>2. DatabaseHolds' /\ CountsBounded'
    BY <1>3, <1>5, <1>9 DEF OpenRange
  <2> QED
    BY <2>1, <2>2 DEF IInv
<1>10. ASSUME NEW new, Move(new),
              \A Es \in Sources, x \in Nat : Positioned(range.children, Es, x)
                 => \E y \in Nat : Positioned(new, Es, y)
       PROVE  IInv'
  <2>1. RangeShows'
    BY <1>1, <1>10, MoveShows
  <2>2. DatabaseHolds' /\ CountsBounded'
    BY <1>3, <1>5, <1>10 DEF Move
  <2> QED
    BY <2>1, <2>2 DEF IInv
<1>11. ASSUME NEW k \in Key, Seek(k) PROVE IInv'
  <2>1. PICK new : new = MergeSeek(range.children, k, FALSE)
    OBVIOUS
  <2>2. \A Es \in Sources, x \in Nat : Positioned(range.children, Es, x)
           => \E y \in Nat : Positioned(new, Es, y)
    BY <2>1, MovedAt
  <2> QED
    BY <1>10, <1>11, <2>1, <2>2 DEF Seek
<1>12. ASSUME SeekToFirst PROVE IInv'
  <2>1. PICK new : new = MergeIterator(range.children, FALSE)
    OBVIOUS
  <2>2. \A Es \in Sources, x \in Nat : Positioned(range.children, Es, x)
           => \E y \in Nat : Positioned(new, Es, y)
    <3>1. 0 \in Nat
      OBVIOUS
    <3> QED
      BY <2>1, <3>1, MovedAt
  <2> QED
    BY <1>10, <1>12, <2>1, <2>2 DEF SeekToFirst
<1>13. ASSUME Advance PROVE IInv'
  <2>1. PICK new : new = MergeAdvance(range.children, FALSE)
    OBVIOUS
  <2>2. \A Es \in Sources, x \in Nat : Positioned(range.children, Es, x)
           => \E y \in Nat : Positioned(new, Es, y)
    <3> SUFFICES ASSUME NEW Es \in Sources, NEW x \in Nat, Positioned(range.children, Es, x)
                 PROVE  \E y \in Nat : Positioned(new, Es, y)
      OBVIOUS
    <3>1. CASE Exhausted(range.children)
      <4>1. new = range.children
        BY <2>1, <3>1 DEF MergeAdvance
      <4> QED
        BY <4>1
    <3>2. CASE ~Exhausted(range.children)
      BY <2>1, <3>2, MovedAt
    <3> QED
      BY <3>1, <3>2
  <2> QED
    BY <1>10, <1>13, <2>1, <2>2 DEF Advance
<1>14. CASE UNCHANGED vars
  BY <1>3, <1>4, <1>5, <1>14 DEF vars, IInv
<1> QED
  BY <1>2, <1>6, <1>7, <1>8, <1>9, <1>11, <1>12, <1>13, <1>14 DEF Next

\* The invariant the theorems rest on: memtable and tables together hold what
\* the client stored, and the range shows it as it was.
LEMMA Invariance ==
    ASSUME LargeTablesFail
    PROVE  Spec => []IInv
<1>1. IInv /\ [Next]_vars => IInv'
  BY StepHolds
<1> QED
  BY InitHolds, <1>1, PTL DEF Spec

-----------------------------------------------------------------------------
(***************************************************************************)
(* What the runs check.                                                    *)
(***************************************************************************)

\* The memtable and every table have the shape the code relies on: a table
\* has a block, and as many as its footer says.
LEMMA TypeOf == IInv => TypeOK
<1> SUFFICES ASSUME IInv PROVE TypeOK
  OBVIOUS
<1>1. PICK Es \in Sources : /\ TablesHold(tables, Es)
                            /\ store = Stored(Overlay(<<memtable>> \o Es))
  BY DEF IInv, DatabaseHolds
<1>2. ASSUME NEW i \in DOMAIN tables
      PROVE  tables[i].index # <<>> /\ tables[i].block_count = Len(tables[i].index)
  <2>1. i \in DOMAIN Es
    BY <1>1 DEF TablesHold, Sources
  <2>2. PICK t : t = tables[i]
    OBVIOUS
  <2>3. IsTable(t, Es[i])
    BY <1>1, <2>1, <2>2 DEF TablesHold
  <2>4. PICK index \in Seq(IndexEntry) : index = t.index
    BY <2>3 DEF IsTable
  <2>5. t.blocks # <<>> /\ DOMAIN [b \in DOMAIN index |-> index[b].first_key] = DOMAIN t.blocks
    BY <2>3, <2>4 DEF IsTable, HoldsContents, FirstKeysOf
  <2>6. index # <<>>
    <3> SUFFICES ASSUME index = <<>> PROVE FALSE
      OBVIOUS
    <3>1. PICK bs \in Seq(Seq(Record)) : bs = t.blocks
      BY <2>3 DEF IsTable, HoldsContents, Blocks
    <3>2. DOMAIN bs = {} /\ bs # <<>>
      BY <2>5, <3>1
    <3>3. Len(bs) = 0
      BY <3>2
    <3> QED
      BY <3>2, <3>3
  <2> QED
    BY <2>2, <2>3, <2>4, <2>6 DEF IsTable
<1>3. PICK Fs \in Sources, x \in Nat : Positioned(range.children, Fs, x)
  BY DEF IInv, RangeShows
<1>4. PICK cs : cs = range.children
  OBVIOUS
<1>5. PICK y \in Nat : AllAt(cs, Fs, y)
  BY <1>3, <1>4 DEF Positioned
<1>6. ASSUME NEW i \in DOMAIN cs
      PROVE  cs[i].block \in DOMAIN cs[i].blocks /\ cs[i].index \in 1 .. Len(Entries(cs[i])) + 1
  <2>1. At(cs[i], y)
    BY <1>5 DEF AllAt
  <2> QED
    BY <2>1 DEF At, Passed, Entries
<1>7. memtable \in Contents /\ range.end \in Bound
      /\ flushes \in 0 .. MaxFlushes /\ writes \in 0 .. MaxWrites
  BY DEF IInv, DatabaseHolds, RangeShows, CountsBounded
<1> QED
  BY <1>2, <1>4, <1>6, <1>7 DEF TypeOK

THEOREM TypeCorrect ==
    ASSUME LargeTablesFail
    PROVE  Spec => []TypeOK
BY Invariance, TypeOf, PTL

\* A table whose last offset fits its field is read back as it was written.
\* That does not depend on how the memtable came to its contents, nor on
\* what happens to larger tables.
LEMMA ReadsBackOf == memtable \in Contents => ReadsBack
<1> SUFFICES ASSUME memtable \in Contents, memtable # NoContents, Fits(WriteTable(memtable))
             PROVE  LET t == LoadTable(WriteTable(memtable))
                    IN  /\ t # Garbage
                        /\ EntriesOf(t) = ToSet(RecordsOf(memtable))
                        /\ \A k \in Key : GetRecord(t, k) = memtable[k]
                        /\ FirstKey(t) = Least(KeysOf(memtable))
                        /\ LastKey(t) = Greatest(KeysOf(memtable))
  BY DEF ReadsBack
<1>1. PICK t : t = LoadTable(WriteTable(memtable))
  OBVIOUS
<1>2. t # Garbage /\ IsTable(t, memtable)
  BY <1>1, Loads
<1>3. \A k \in Key : GetRecord(t, k) = memtable[k]
  BY <1>2, GetsRecord
<1>4. /\ EntriesOf(t) = ToSet(RecordsOf(memtable))
      /\ FirstKey(t) = Least(KeysOf(memtable))
      /\ LastKey(t) = Greatest(KeysOf(memtable))
  BY <1>2, TableEnds
<1> QED
  BY <1>1, <1>2, <1>3, <1>4

\* memtable \in Contents is an invariant by itself.
THEOREM TablesReadBack == Spec => []ReadsBack
<1> DEFINE MInv == memtable \in Contents /\ CountsBounded
<1>1. Init => MInv
  BY EpochAssumption DEF Init, NoContents, Contents, CountsBounded
<1>2. MInv /\ [Next]_vars => MInv'
  <2> SUFFICES ASSUME MInv, [Next]_vars PROVE MInv'
    OBVIOUS
  <2>1. Epoch[flushes] \in Entry /\ Tombstone \in Entry /\ NoContents \in Contents
        /\ MaxFlushes \in Nat /\ MaxWrites \in Nat
    BY EpochAssumption DEF CountsBounded, Entry, NoContents, Contents
  <2>2. ASSUME NEW k \in Key, NEW entry \in Entry, Write(k, entry) PROVE MInv'
    BY <2>1, <2>2 DEF Write, CountsBounded, Contents
  <2>3. ASSUME Flush PROVE MInv'
    BY <2>1, <2>3 DEF Flush, CountsBounded
  <2>4. CASE UNCHANGED <<memtable, flushes, writes>>
    BY <2>4 DEF CountsBounded
  <2> QED
    BY <2>1, <2>2, <2>3, <2>4
       DEF Next, vars, CompactFull, OpenRange, Seek, SeekToFirst, Advance, Move
<1>3. MInv => ReadsBack
  BY ReadsBackOf
<1> QED
  BY <1>1, <1>2, <1>3, PTL DEF Spec

\* What the tables of a database answer, and the memtable over them.
LEMMA TablesAnswer ==
    ASSUME NEW Es \in Sources, NEW ts, TablesHold(ts, Es)
    PROVE  /\ DOMAIN ts = DOMAIN Es
           /\ \A i \in DOMAIN Es, k \in Key : GetRecord(ts[i], k) = Es[i][k]
<1>1. DOMAIN ts = DOMAIN Es
  BY DEF TablesHold, Sources
<1>2. ASSUME NEW i \in DOMAIN Es, NEW k \in Key PROVE GetRecord(ts[i], k) = Es[i][k]
  <2>1. PICK E \in Contents : E = Es[i]
    BY DEF Sources
  <2>2. IsTable(ts[i], E)
    BY <2>1 DEF TablesHold
  <2> QED
    BY <2>1, <2>2, GetsRecord
<1> QED
  BY <1>1, <1>2

\* A get and the layers: the first with a record of the key decides, and the
\* filter of its table lets the key pass.
LEMMA LastWriteOf == IInv => GetsLastWrite
<1> SUFFICES ASSUME IInv, NEW k \in Key
             PROVE  /\ Get(k) = store[k]
                    /\ store[k] # None =>
                         GetCounts(k).memtable_hits + GetCounts(k).block_reads > 0
  BY DEF GetsLastWrite
<1>1. PICK Es \in Sources : /\ TablesHold(tables, Es)
                            /\ store = Stored(Overlay(<<memtable>> \o Es))
  BY DEF IInv, DatabaseHolds
<1>2. PICK E \in Contents : E = memtable
  BY DEF IInv, DatabaseHolds
<1>3. store[k] = Answer(IF E[k] # Absent THEN E[k] ELSE Overlay(Es)[k])
  <2>1. PICK V : V = Overlay(<<E>> \o Es)
    OBVIOUS
  <2>2. V[k] = IF E[k] # Absent THEN E[k] ELSE Overlay(Es)[k]
    BY <2>1, Layered
  <2>3. store[k] = Answer(V[k])
    BY <1>1, <1>2, <2>1 DEF Stored
  <2> QED
    BY <2>2, <2>3
<1>4. TablesWith(k) = Holders(Es, k)
  BY <1>1, TablesAnswer DEF TablesWith, Holders
<1>5. Holders(Es, k) # {} =>
        /\ Least(Holders(Es, k)) \in DOMAIN Es
        /\ Es[Least(Holders(Es, k))][k] # Absent
  <2> SUFFICES ASSUME Holders(Es, k) # {}
               PROVE  Least(Holders(Es, k)) \in Holders(Es, k)
    BY DEF Holders
  <2>1. Holders(Es, k) \in SUBSET Nat
    BY DEF Holders, Sources
  <2> QED
    BY <2>1, LeastOfNaturals
<1>6. Get(k) = store[k]
  <2>1. CASE E[k] # Absent
    BY <1>2, <1>3, <2>1 DEF Get
  <2>2. CASE E[k] = Absent /\ Holders(Es, k) # {}
    <3>1. PICK l \in DOMAIN Es : l = Least(Holders(Es, k))
      BY <1>5, <2>2
    <3>2. Get(k) = Answer(GetRecord(tables[l], k))
      BY <1>2, <1>4, <2>2, <3>1 DEF Get
    <3>3. Overlay(Es)[k] = Es[l][k]
      BY <2>2, <3>1 DEF Overlay
    <3>4. GetRecord(tables[l], k) = Es[l][k]
      BY <1>1, TablesAnswer
    <3> QED
      BY <1>3, <2>2, <3>2, <3>3, <3>4
  <2>3. CASE E[k] = Absent /\ Holders(Es, k) = {}
    <3>1. Get(k) = Answer(Absent)
      BY <1>2, <1>4, <2>3 DEF Get
    <3>2. Overlay(Es)[k] = Absent
      BY <2>3 DEF Overlay
    <3> QED
      BY <1>3, <2>3, <3>1, <3>2
  <2> QED
    BY <2>1, <2>2, <2>3
<1>7. ASSUME store[k] # None
      PROVE  GetCounts(k).memtable_hits + GetCounts(k).block_reads > 0
  <2>1. CASE E[k] \in Value
    <3>1. GetCounts(k) = [memtable_hits |-> 1, bloom_rejects |-> 0, block_reads |-> 0]
      <4>1. E[k] # Tombstone
        BY <2>1, MarkerAssumption
      <4> QED
        BY <1>2, <2>1, <4>1 DEF GetCounts, NoCounts
    <3> QED
      BY <3>1
  <2>2. CASE E[k] \notin Value
    <3>1. Answer(Tombstone) = None /\ Answer(Absent) = None
      BY MarkerAssumption DEF Answer
    <3>2. E[k] = Absent
      BY <1>3, <1>7, <2>2, <3>1 DEF Contents, Entry
    <3>3. Holders(Es, k) # {}
      BY <1>3, <1>7, <3>1, <3>2 DEF Overlay
    <3>4. PICK l : l = Least(Holders(Es, k))
      OBVIOUS
    <3>5. l \in DOMAIN Es /\ Es[l][k] # Absent
      BY <1>5, <3>3, <3>4
    <3>6. PICK m \in Nat : DOMAIN Es = 1 .. m
      BY DEF Sources
    <3>7. PICK tried : tried = 1 .. l
      OBVIOUS
    <3>8. PICK passed : passed = {i \in tried : MightContain(tables[i].bloom, k)}
      OBVIOUS
    <3>9. E[k] # Tombstone
      BY <3>2, MarkerAssumption
    <3>10. GetCounts(k) = [memtable_hits |-> 0,
                           bloom_rejects |-> Cardinality(tried \ passed),
                           block_reads   |-> Cardinality(passed)]
      BY <1>2, <1>4, <2>2, <3>3, <3>4, <3>7, <3>8, <3>9 DEF GetCounts, NoCounts
    <3>11. l \in passed
      <4>1. PICK F \in Contents : F = Es[l]
        BY <3>5 DEF Sources
      <4>2. IsTable(tables[l], F) /\ k \in KeysOf(F)
        BY <1>1, <3>5, <4>1 DEF TablesHold, KeysOf
      <4>3. MightContain(tables[l].bloom, k)
        BY <4>2 DEF IsTable
      <4>4. l \in tried
        BY <3>5, <3>6, <3>7
      <4> QED
        BY <3>8, <4>3, <4>4
    <3>12. IsFiniteSet(passed)
      <4>1. IsFiniteSet(tried)
        BY <3>5, <3>6, <3>7, FS_Interval
      <4>2. passed \in SUBSET tried
        BY <3>8
      <4> QED
        BY <4>1, <4>2, FS_Subset
    <3>13. Cardinality(passed) \in Nat /\ Cardinality(passed) # 0
      BY <3>11, <3>12, FS_CardinalityType, FS_EmptySet
    <3>14. Cardinality(passed) > 0
      BY <3>13
    <3> QED
      BY <3>10, <3>13, <3>14
  <2> QED
    BY <2>1, <2>2
<1> QED
  BY <1>6, <1>7

\* get answers with the last write of every key, through memtable, filters,
\* index and blocks, after any sequence of writes, flushes and compactions.
THEOREM GetAnswersLastWrite ==
    ASSUME LargeTablesFail
    PROVE  Spec => []GetsLastWrite
BY Invariance, LastWriteOf, PTL

\* The tables as the planner's model has them: the newest has the largest id.
LEMMA FilesAre ==
    ASSUME NEW Es \in Sources, TablesHold(tables, Es)
    PROVE  LET files == {AsFile(i) : i \in DOMAIN tables}
           IN  /\ FileSet(files)
               /\ \A k \in Key : Lookup(files, k) = Overlay(Es)[k]
<1>1. PICK m \in Nat : /\ Len(tables) = m /\ DOMAIN tables = 1 .. m /\ DOMAIN Es = 1 .. m
                       /\ Es \in [1 .. m -> Contents]
  BY DEF Sources, TablesHold
<1>2. PICK files : files = {AsFile(i) : i \in 1 .. m}
  OBVIOUS
<1>3. ASSUME NEW i \in 1 .. m
      PROVE  AsFile(i) = [id |-> m - i, level |-> 0, contents |-> Es[i]] /\ AsFile(i) \in Table
  <2>1. [k \in Key |-> GetRecord(tables[i], k)] = [k \in Key |-> Es[i][k]]
    BY <1>1, TablesAnswer
  <2>2. Es[i] = [k \in Key |-> Es[i][k]] /\ Es[i] \in Contents
    BY <1>1 DEF Contents
  <2>3. m - i \in Nat
    BY <1>1
  <2> QED
    BY <1>1, <2>1, <2>2, <2>3 DEF AsFile, Table
<1>4. FileSet(files)
  <2>1. IsFiniteSet(files)
    <3>1. IsFiniteSet(1 .. m)
      BY <1>1, FS_Interval
    <3>2. PICK f : f = [i \in 1 .. m |-> AsFile(i)]
      OBVIOUS
    <3>3. f \in Surjection(1 .. m, files)
      BY <1>2, <3>2 DEF Surjection
    <3> QED
      BY <3>1, <3>3, FS_Surjection
  <2>2. files \in SUBSET Table
    BY <1>2, <1>3
  <2>3. UniqueIds(files)
    <3> SUFFICES ASSUME NEW f \in files, NEW g \in files, f.id = g.id PROVE f = g
      BY DEF UniqueIds
    <3>1. PICK i \in 1 .. m : f = AsFile(i)
      BY <1>2
    <3>2. PICK j \in 1 .. m : g = AsFile(j)
      BY <1>2
    <3>3. m - i = m - j
      BY <1>3, <3>1, <3>2
    <3>4. i = j
      BY <1>1, <3>3
    <3> QED
      BY <3>1, <3>2, <3>4
  <2> QED
    BY <2>1, <2>2, <2>3 DEF FileSet
<1>5. ASSUME NEW k \in Key PROVE Lookup(files, k) = Overlay(Es)[k]
  <2>1. CASE Holders(Es, k) = {}
    <3>1. Holding(files, k) = {}
      BY <1>1, <1>2, <1>3, <2>1 DEF Holders, Holding
    <3> QED
      BY <2>1, <3>1 DEF Lookup, Overlay
  <2>2. CASE Holders(Es, k) # {}
    <3>1. Holders(Es, k) \in SUBSET Nat
      BY <1>1 DEF Holders
    <3>2. PICK l : l = Least(Holders(Es, k))
      OBVIOUS
    <3>3. l \in Holders(Es, k) /\ \A i \in Holders(Es, k) : l <= i
      BY <2>2, <3>1, <3>2, LeastOfNaturals
    <3>4. l \in 1 .. m /\ Es[l][k] # Absent
      BY <1>1, <3>3 DEF Holders
    <3>5. PICK f : f = AsFile(l)
      OBVIOUS
    <3>6. f \in Holding(files, k) /\ f.level = 0 /\ f.id = m - l /\ f.contents = Es[l]
      BY <1>2, <1>3, <3>4, <3>5 DEF Holding
    <3>7. ASSUME NEW g \in Holding(files, k), g # f PROVE Newer(f, g)
      <4>1. PICK i \in 1 .. m : g = AsFile(i)
        BY <1>2 DEF Holding
      <4>2. g.level = 0 /\ g.id = m - i /\ g.contents = Es[i]
        BY <1>3, <4>1
      <4>3. Es[i][k] # Absent
        BY <4>2 DEF Holding
      <4>4. i \in Holders(Es, k) /\ i # l
        BY <1>1, <3>5, <3>7, <4>1, <4>3 DEF Holders
      <4>5. m - l > m - i
        BY <1>1, <3>3, <3>4, <4>4
      <4> QED
        BY <3>6, <4>2, <4>5 DEF Newer
    <3>8. FoundFirst(f, files, k)
      BY <3>6, <3>7 DEF FoundFirst
    <3>9. Lookup(files, k) = Es[l][k]
      BY <1>4, <3>6, <3>8, LookupIs
    <3> QED
      BY <2>2, <3>2, <3>9 DEF Overlay
  <2> QED
    BY <2>1, <2>2
<1> QED
  BY <1>1, <1>2, <1>4, <1>5

\* The merge of the planner's model reads the same layers, and they hold what
\* the client stored.
LEMMA CompactionReadsOf == IInv => CompactionReadsAll
<1> SUFFICES ASSUME IInv, NEW drop \in BOOLEAN, NEW read,
                    read = MergedContents(tables, drop)
             PROVE  /\ read = Merge({AsFile(i) : i \in DOMAIN tables}, drop)
                    /\ \A k \in Key : ValueOver(read, k) = store[k]
  BY DEF CompactionReadsAll
<1>1. PICK Es \in Sources : /\ TablesHold(tables, Es)
                            /\ store = Stored(Overlay(<<memtable>> \o Es))
  BY DEF IInv, DatabaseHolds
<1>2. read = Kept(Es, drop)
  <2>1. DOMAIN tables = DOMAIN Es /\ \A i \in DOMAIN Es : IsTable(tables[i], Es[i])
    BY <1>1 DEF TablesHold, Sources
  <2> QED
    BY <2>1, MergedContentsIs
<1>3. read = Merge({AsFile(i) : i \in DOMAIN tables}, drop)
  <2>1. PICK files : files = {AsFile(i) : i \in DOMAIN tables}
    OBVIOUS
  <2>2. \A k \in Key : Lookup(files, k) = Overlay(Es)[k]
    BY <1>1, <2>1, FilesAre
  <2>3. Merge(files, drop) = Kept(Es, drop)
    BY <2>2 DEF Merge, Kept
  <2> QED
    BY <1>2, <2>1, <2>3
<1>4. ASSUME NEW k \in Key PROVE ValueOver(read, k) = store[k]
  <2>1. PICK V : V = Overlay(<<memtable>> \o Es)
    OBVIOUS
  <2>2. /\ store[k] = Answer(V[k])
        /\ V[k] = IF memtable[k] # Absent THEN memtable[k] ELSE Overlay(Es)[k]
    <3>1. memtable \in Contents
      BY DEF IInv, DatabaseHolds
    <3>2. V[k] = IF memtable[k] # Absent THEN memtable[k] ELSE Overlay(Es)[k]
      BY <2>1, <3>1, Layered
    <3>3. store = Stored(V)
      BY <1>1, <2>1
    <3> QED
      BY <3>2, <3>3 DEF Stored
  <2>3. read[k] = IF drop /\ Overlay(Es)[k] = Tombstone THEN Absent ELSE Overlay(Es)[k]
    BY <1>2 DEF Kept
  <2>4. Answer(Tombstone) = None /\ Answer(Absent) = None
    BY MarkerAssumption DEF Answer
  <2>5. CASE memtable[k] # Absent
    BY <2>2, <2>5 DEF ValueOver
  <2>6. CASE memtable[k] = Absent
    <3>1. ValueOver(read, k) = Answer(read[k]) /\ store[k] = Answer(Overlay(Es)[k])
      BY <2>2, <2>6 DEF ValueOver
    <3>2. Answer(read[k]) = Answer(Overlay(Es)[k])
      BY <2>3, <2>4
    <3> QED
      BY <3>1, <3>2
  <2> QED
    BY <2>5, <2>6
<1> QED
  BY <1>3, <1>4

\* What a compaction reads through the cursors and their merge is the merge
\* the planner's model takes it to be, and holds the last value of every key.
THEOREM CompactionReads ==
    ASSUME LargeTablesFail
    PROVE  Spec => []CompactionReadsAll
BY Invariance, CompactionReadsOf, PTL

-----------------------------------------------------------------------------
(***************************************************************************)
(* The range implements the cursor.  Wherever an operation leaves it, it   *)
(* is at the first key of the snapshot from there on.                      *)
(***************************************************************************)

CursorAt(r) == IF Exhausted(r.children) THEN NoKey ELSE MergedKey(r.children)

LiveFrom(V, x) == {k \in Key : V[k] # None /\ k >= x}

\* What the client sees at key k.
ShownAt(k, V, end) ==
    IF k # NoKey /\ Cursor!Below(end, k) THEN <<k, V[k]>> ELSE <<>>

\* The least of a set of keys is what the cursor calls the first.
LEMMA FirstIs ==
    ASSUME NEW S \in SUBSET Nat, NEW m \in S, \A j \in S : m <= j
    PROVE  Cursor!First(S) = m
<1>1. \A x \in S : (\A j \in S : x <= j) => x = m
  <2> SUFFICES ASSUME NEW x \in S, \A j \in S : x <= j PROVE x = m
    OBVIOUS
  <2>1. x \in Nat /\ m \in Nat /\ x <= m /\ m <= x
    OBVIOUS
  <2> QED
    BY <2>1
<1> QED
  BY <1>1 DEF Cursor!First

\* Where the merge is positioned, the cursor is, and the client sees its item.
LEMMA RangeIsFirst ==
    ASSUME NEW Es \in Sources, NEW x \in Nat, NEW cs, Positioned(cs, Es, x),
           NEW end \in Bound, NEW r, r = [children |-> cs, end |-> end],
           NEW V, V = Stored(Overlay(Es)),
           NEW f, f = Cursor!First(LiveFrom(V, x))
    PROVE  CursorAt(r) = f /\ Item(r) = ShownAt(f, V, end)
<1>1. /\ Exhausted(cs) => \A k \in LiveKeys(Es) : k < x
      /\ ~Exhausted(cs) =>
           /\ MergedKey(cs) \in LiveKeys(Es) /\ x <= MergedKey(cs)
           /\ MergedEntry(cs) = Overlay(Es)[MergedKey(cs)]
           /\ \A k \in LiveKeys(Es) : k < MergedKey(cs) => k < x
  BY DEF Positioned
<1>2. Key \subseteq Nat /\ LiveKeys(Es) \subseteq Key
  BY KeyAssumption DEF LiveKeys
<1>3. \A k \in Key : V[k] = Answer(Overlay(Es)[k])
  BY DEF Stored
<1>4. \A k \in Key : V[k] # None <=> k \in LiveKeys(Es)
  BY <1>3, MarkerAssumption DEF LiveKeys, Answer
<1>5. PICK S : S = LiveFrom(V, x)
  OBVIOUS
<1>6. S \in SUBSET Nat /\ \A k \in Key : k \in S <=> k \in LiveKeys(Es) /\ k >= x
  BY <1>2, <1>4, <1>5 DEF LiveFrom
<1>7. r.children = cs /\ r.end = end
  OBVIOUS
<1>8. CASE Exhausted(cs)
  <2>1. S = {}
    <3>1. ASSUME NEW k \in S PROVE FALSE
      <4>1. k \in Key /\ k \in Nat /\ k >= x /\ k < x
        BY <1>1, <1>2, <1>5, <1>6, <1>8 DEF LiveFrom
      <4> QED
        BY <4>1
    <3> QED
      BY <3>1
  <2>2. f = NoKey
    BY <1>5, <2>1 DEF Cursor!First, Cursor!NoKey, NoKey
  <2>3. ~ValidRange(r)
    BY <1>7, <1>8 DEF ValidRange
  <2> QED
    BY <1>7, <1>8, <2>2, <2>3 DEF CursorAt, Item, ShownAt
<1>9. CASE ~Exhausted(cs)
  <2>1. PICK m \in Key : /\ m = MergedKey(cs) /\ m \in LiveKeys(Es) /\ x <= m
                         /\ MergedEntry(cs) = Overlay(Es)[m]
                         /\ \A k \in LiveKeys(Es) : k < m => k < x
    BY <1>1, <1>2, <1>9
  <2>2. m \in Nat /\ m >= x /\ m \in S
    BY <1>2, <1>6, <2>1
  <2>3. ASSUME NEW k \in S PROVE m <= k
    <3>1. k \in Nat /\ k \in LiveKeys(Es) /\ k >= x
      BY <1>2, <1>5, <1>6 DEF LiveFrom
    <3>2. ~(k < m)
      BY <2>1, <3>1
    <3> QED
      BY <2>2, <3>1, <3>2
  <2>4. f = m
    BY <1>5, <1>6, <2>2, <2>3, FirstIs
  <2>5. m # NoKey
    BY <2>2 DEF NoKey
  <2>6. WithinEnd(r) <=> Cursor!Below(end, m)
    <3>1. end.kind \in {"unbounded", "included", "excluded"}
      BY DEF Bound, Unbounded
    <3> QED
      BY <1>7, <2>1, <3>1 DEF WithinEnd, Cursor!Below
  <2>7. CursorAt(r) = f
    BY <1>7, <1>9, <2>1, <2>4 DEF CursorAt
  <2>8. Answer(MergedEntry(cs)) = V[m]
    BY <1>3, <2>1
  <2>9. CASE WithinEnd(r)
    <3>1. Item(r) = <<m, V[m]>>
      BY <1>7, <1>9, <2>1, <2>8, <2>9 DEF Item, ValidRange
    <3>2. ShownAt(f, V, end) = <<m, V[m]>>
      BY <2>4, <2>5, <2>6, <2>9 DEF ShownAt
    <3> QED
      BY <2>7, <3>1, <3>2
  <2>10. CASE ~WithinEnd(r)
    <3>1. Item(r) = <<>>
      BY <2>10 DEF Item, ValidRange
    <3>2. ShownAt(f, V, end) = <<>>
      BY <2>4, <2>6, <2>10 DEF ShownAt
    <3> QED
      BY <2>7, <3>1, <3>2
  <2> QED
    BY <2>9, <2>10
<1> QED
  BY <1>8, <1>9

\* The step of the cursor an operation of the range stands for.
LEMMA MovesTo ==
    ASSUME NEW Es \in Sources, NEW x \in Nat, NEW cs, Positioned(cs, Es, x),
           NEW end \in Bound, range' = [children |-> cs, end |-> end],
           view' = Stored(Overlay(Es))
    PROVE  Cursor!MoveTo(Cursor!First(LiveFrom(view', x)))
<1>1. PICK r : r = [children |-> cs, end |-> end]
  OBVIOUS
<1>2. PICK V : V = Stored(Overlay(Es))
  OBVIOUS
<1>3. PICK f : f = Cursor!First(LiveFrom(V, x))
  OBVIOUS
<1>4. CursorAt(r) = f /\ Item(r) = ShownAt(f, V, end)
  BY <1>1, <1>2, <1>3, RangeIsFirst
<1>5. range' = r /\ view' = V /\ r.end = end
  BY <1>1, <1>2
<1>6. CursorAt(range') = f /\ Item(range') = ShownAt(f, view', range'.end)
  BY <1>4, <1>5
<1>7. Cursor!MoveTo(f)
  BY <1>6 DEF Cursor!MoveTo, CursorAt, ShownAt, NoKey, Cursor!NoKey
<1> QED
  BY <1>3, <1>5, <1>7

\* No range is a cursor past the end of an empty snapshot.
LEMMA CursorInit == Init => Cursor!Init
<1> SUFFICES ASSUME Init PROVE Cursor!Init
  OBVIOUS
<1>1. range = [children |-> <<>>, end |-> Unbounded]
  BY DEF Init, NoRange
<1>2. Exhausted(range.children)
  BY <1>1 DEF Exhausted, AtEntry
<1>3. CursorAt(range) = NoKey /\ Item(range) = <<>>
  BY <1>2 DEF CursorAt, Item, ValidRange
<1>4. range.end = Unbounded /\ store = [k \in Key |-> None] /\ view = store
  BY <1>1 DEF Init
<1> QED
  BY <1>3, <1>4 DEF Cursor!Init, CursorAt, Unbounded, Cursor!Unbounded, NoKey, Cursor!NoKey

\* Every operation of the program is one of the cursor or leaves it alone.
LEMMA CursorStep ==
    ASSUME IInv, [Next]_vars
    PROVE  [Cursor!Next]_Cursor!vars
<1>1. DatabaseHolds /\ RangeShows /\ flushes \in 0 .. MaxFlushes
  BY DEF IInv, CountsBounded
<1>2. ASSUME UNCHANGED <<store, view, range>> PROVE UNCHANGED Cursor!vars
  <2>1. Item(range)' = Item(range)
    BY <1>2 DEF Item, ValidRange, WithinEnd
  <2> QED
    BY <1>2, <2>1 DEF Cursor!vars
<1>3. ASSUME NEW k \in Key, NEW entry \in Entry, Write(k, entry) PROVE Cursor!Next
  <2>1. range' = range /\ view' = view /\ store' = [store EXCEPT ![k] = Answer(entry)]
    BY <1>3 DEF Write
  <2>2. Answer(entry) \in Value \cup {None}
    BY DEF Answer
  <2>3. Cursor!Write(k, Answer(entry))
    BY <2>1 DEF Cursor!Write
  <2> QED
    BY <2>2, <2>3 DEF Cursor!Next
<1>4. ASSUME NEW start \in Bound, NEW end \in Bound, OpenRange(start, end)
      PROVE  Cursor!Next
  <2>1. PICK cs : cs = RangeIterator(start, end).children
    OBVIOUS
  <2>2. PICK x : x = StartOf(start)
    OBVIOUS
  <2>3. PICK Es \in Sources : Positioned(cs, Es, x) /\ store = Stored(Overlay(Es))
    BY <1>1, <2>1, <2>2, OpenedAt
  <2>4. x \in Nat /\ RangeIterator(start, end) = [children |-> cs, end |-> end]
    BY <1>1, <2>1, <2>2, OpenedAt
  <2>5. range' = [children |-> cs, end |-> end] /\ view' = store /\ store' = store
    BY <1>4, <2>4 DEF OpenRange
  <2>6. Cursor!MoveTo(Cursor!First(LiveFrom(view', x)))
    BY <2>3, <2>4, <2>5, MovesTo
  <2>7. \A k \in Key : k >= x <=> Cursor!Above(start, k)
    <3>1. CASE start = Unbounded
      <4>1. start.kind = "unbounded"
        BY <3>1 DEF Unbounded
      <4>2. x = 0
        BY <2>2, <4>1 DEF StartOf
      <4> QED
        BY <4>1, <4>2, KeyAssumption DEF Cursor!Above
    <3>2. CASE start # Unbounded
      <4>1. PICK b \in Nat : b = start.key /\ start.kind \in {"included", "excluded"}
        BY <3>2, EpochAssumption, KeyAssumption DEF Bound
      <4>2. CASE start.kind = "included"
        BY <2>2, <4>1, <4>2 DEF StartOf, Cursor!Above
      <4>3. CASE start.kind = "excluded"
        <5>1. x = b + 1
          BY <2>2, <4>1, <4>3 DEF StartOf
        <5>2. \A k \in Key : Cursor!Above(start, k) <=> k > b
          BY <4>1, <4>3 DEF Cursor!Above
        <5>3. \A k \in Key : k \in Nat
          BY KeyAssumption
        <5> QED
          BY <5>1, <5>2, <5>3
      <4> QED
        BY <4>1, <4>2, <4>3
    <3> QED
      BY <3>1, <3>2
  <2>8. LiveFrom(store, x) = {k \in Cursor!Live(store) : Cursor!Above(start, k)}
    BY <2>7 DEF LiveFrom, Cursor!Live
  <2>9. Cursor!MoveTo(Cursor!First({k \in Cursor!Live(store) : Cursor!Above(start, k)}))
    BY <2>5, <2>6, <2>8
  <2>10. range'.end = end
    BY <2>5
  <2>11. Cursor!OpenRange(start, end)
    BY <2>5, <2>9, <2>10 DEF Cursor!OpenRange
  <2>12. start \in Cursor!Bound /\ end \in Cursor!Bound
    BY DEF Bound, Unbounded, NoKey, Cursor!Bound, Cursor!Unbounded, Cursor!NoKey
  <2> QED
    BY <2>11, <2>12 DEF Cursor!Next
<1>5. PICK Es \in Sources, x \in Nat : /\ Positioned(range.children, Es, x)
                                       /\ view = Stored(Overlay(Es))
  BY <1>1 DEF RangeShows
<1>6. PICK cs : cs = range.children
  OBVIOUS
<1>7. PICK end \in Bound : end = range.end /\ range = [children |-> cs, end |-> end]
  BY <1>1, <1>6 DEF RangeShows
<1>8. ASSUME NEW new, NEW y \in Nat, Positioned(new, Es, y), Move(new)
      PROVE  /\ Cursor!MoveTo(Cursor!First(LiveFrom(view, y)))
             /\ view' = view /\ store' = store /\ range'.end = range.end
  <2>1. range' = [range EXCEPT !.children = new] /\ view' = view /\ store' = store
    BY <1>8 DEF Move
  <2>2. range' = [children |-> new, end |-> end]
    BY <1>7, <2>1
  <2>3. Cursor!MoveTo(Cursor!First(LiveFrom(view', y)))
    BY <1>5, <1>8, <2>1, <2>2, MovesTo
  <2>4. range'.end = range.end
    BY <1>7, <2>2
  <2> QED
    BY <2>1, <2>3, <2>4
<1>9. \A k \in Key : k \in Nat
  BY KeyAssumption
<1>10. ASSUME NEW k \in Key, Seek(k) PROVE Cursor!Next
  <2>1. PICK new : new = MergeSeek(cs, k, FALSE)
    OBVIOUS
  <2>2. Positioned(new, Es, k) /\ k \in Nat
    BY <1>5, <1>6, <2>1, MovedAt
  <2>3. Move(new)
    BY <1>6, <1>10, <2>1 DEF Seek
  <2>4. LiveFrom(view, k) = {j \in Cursor!Live(view) : j >= k}
    BY DEF LiveFrom, Cursor!Live
  <2>5. Cursor!Seek(k)
    BY <1>8, <2>2, <2>3, <2>4 DEF Cursor!Seek
  <2> QED
    BY <2>5 DEF Cursor!Next
<1>11. ASSUME SeekToFirst PROVE Cursor!Next
  <2>1. PICK new : new = MergeIterator(cs, FALSE)
    OBVIOUS
  <2>2. Positioned(new, Es, 0) /\ 0 \in Nat
    BY <1>5, <1>6, <2>1, MovedAt
  <2>3. Move(new)
    BY <1>6, <1>11, <2>1 DEF SeekToFirst
  <2>4. LiveFrom(view, 0) = Cursor!Live(view)
    BY <1>9 DEF LiveFrom, Cursor!Live
  <2>5. Cursor!SeekToFirst
    BY <1>8, <2>2, <2>3, <2>4 DEF Cursor!SeekToFirst
  <2> QED
    BY <2>5 DEF Cursor!Next
<1>12. ASSUME Advance PROVE [Cursor!Next]_Cursor!vars
  <2>1. PICK new : new = MergeAdvance(cs, FALSE)
    OBVIOUS
  <2>2. Move(new)
    BY <1>6, <1>12, <2>1 DEF Advance
  <2>3. CASE Exhausted(cs)
    <3>1. new = cs
      BY <1>5, <1>6, <2>1, <2>3, MovedAt
    <3>2. range' = range /\ store' = store /\ view' = view
      BY <1>7, <2>2, <3>1 DEF Move
    <3> QED
      BY <1>2, <3>2
  <2>4. CASE ~Exhausted(cs)
    <3>1. PICK m : m = MergedKey(cs)
      OBVIOUS
    <3>2. Positioned(new, Es, m + 1) /\ m + 1 \in Nat
      BY <1>5, <1>6, <2>1, <2>4, <3>1, MovedAt
    <3>3. m \in Nat
      BY <1>5, <1>6, <1>9, <2>4, <3>1, LiveIs DEF Positioned
    <3>4. CursorAt(range) = m /\ m # NoKey
      BY <1>6, <2>4, <3>1, <3>3 DEF CursorAt, NoKey
    <3>5. LiveFrom(view, m + 1) = {j \in Cursor!Live(view) : j > CursorAt(range)}
      <4>1. \A j \in Key : j >= m + 1 <=> j > m
        BY <1>9, <3>3
      <4> QED
        BY <3>4, <4>1 DEF LiveFrom, Cursor!Live
    <3>6. Cursor!Advance
      BY <1>8, <2>2, <3>2, <3>4, <3>5 DEF Cursor!Advance, CursorAt, NoKey, Cursor!NoKey
    <3> QED
      BY <3>6 DEF Cursor!Next
  <2> QED
    BY <2>3, <2>4
<1>13. CASE Flush \/ CompactFull \/ UNCHANGED vars
  BY <1>2, <1>13 DEF Flush, CompactFull, vars
<1>14. Epoch[flushes] \in Entry /\ Tombstone \in Entry
  BY <1>1, EpochAssumption DEF Entry
<1> QED
  BY <1>3, <1>4, <1>10, <1>11, <1>12, <1>13, <1>14 DEF Next

\* The range iterator is a cursor over the database as it was when range was
\* called: every step of the program is a step of the cursor or changes
\* nothing the cursor shows.
THEOREM RangeImplementsCursor ==
    ASSUME LargeTablesFail
    PROVE  Spec => ImplementsCursor
<1>1. IInv /\ [Next]_vars => [Cursor!Next]_Cursor!vars
  BY CursorStep
<1> QED
  BY <1>1, CursorInit, Invariance, PTL DEF Spec, ImplementsCursor, Cursor!Spec

-----------------------------------------------------------------------------
(***************************************************************************)
(* keys and scan: a range without bounds, taken to its end.                *)
(***************************************************************************)

LiveOf(V) == {k \in Key : V[k] # None}

\* The live keys ascending, each with its value.
Listing(V) ==
    [i \in DOMAIN Ascending(LiveOf(V)) |->
        <<Ascending(LiveOf(V))[i], V[Ascending(LiveOf(V))[i]]>>]

TakeOne(p) ==
    IF ~ValidRange(p.left) THEN p
    ELSE [left  |-> [p.left EXCEPT !.children = MergeAdvance(@, FALSE)],
          items |-> Append(p.items, Item(p.left))]

Collecting(Es) ==
    [left : [children : [DOMAIN Es -> Cursors], end : {Unbounded}],
     items : Seq(Key \X Value)]

\* The first j live keys have been taken; they are the ones before x.
Taken(p, Es, j, x) ==
    /\ j \in 0 .. Cardinality(LiveKeys(Es)) /\ x \in Nat
    /\ p \in Collecting(Es)
    /\ Positioned(p.left.children, Es, x)
    /\ p.items = [i \in 1 .. j |-> Listing(Stored(Overlay(Es)))[i]]
    /\ \A i \in 1 .. Cardinality(LiveKeys(Es)) :
         Ascending(LiveKeys(Es))[i] < x <=> i <= j

\* The keys that have a value are the live ones.
LEMMA LiveOfStored ==
    ASSUME NEW Es \in Sources
    PROVE  /\ LiveOf(Stored(Overlay(Es))) = LiveKeys(Es)
           /\ \A k \in LiveKeys(Es) : Stored(Overlay(Es))[k] = Overlay(Es)[k]
                                      /\ Overlay(Es)[k] \in Value
BY MarkerAssumption DEF LiveOf, Stored, LiveKeys, Answer

\* The live keys in ascending order.
LEMMA ListingIs ==
    ASSUME NEW Es \in Sources
    PROVE  LET s == Ascending(LiveKeys(Es))
               n == Cardinality(LiveKeys(Es))
               V == Overlay(Es)
           IN  /\ n \in Nat /\ n <= Cardinality(Key) /\ Cardinality(Key) \in Nat
               /\ s \in [1 .. n -> LiveKeys(Es)] /\ s \in [1 .. n -> Nat]
               /\ \A i, j \in 1 .. n : i < j => s[i] < s[j]
               /\ \A k \in LiveKeys(Es) : \E i \in 1 .. n : s[i] = k
               /\ Listing(Stored(V)) \in Seq(Key \X Value)
               /\ Len(Listing(Stored(V))) = n
               /\ \A i \in 1 .. n : Listing(Stored(V))[i] = <<s[i], V[s[i]]>>
<1>1. PICK L : L = LiveKeys(Es)
  OBVIOUS
<1>2. L \in SUBSET Key /\ L \in SUBSET Nat
  BY <1>1, KeyAssumption DEF LiveKeys
<1>3. IsFiniteSet(L) /\ Cardinality(L) <= Cardinality(Key)
  BY <1>2, KeyAssumption, FS_Subset
<1>4. PICK n \in Nat : n = Cardinality(L)
  BY <1>3, FS_CardinalityType
<1>5. PICK s : s = Ascending(L)
  OBVIOUS
<1>6. s \in [1 .. n -> L] /\ IsAscending(s) /\ \A x \in L : \E i \in 1 .. n : s[i] = x
  BY <1>2, <1>3, <1>4, <1>5, AscendingLists
<1>7. \A i, j \in 1 .. n : i < j => s[i] < s[j]
  BY <1>6 DEF IsAscending
<1>8. PICK V : V = Stored(Overlay(Es))
  OBVIOUS
<1>9. LiveOf(V) = L /\ \A k \in L : V[k] = Overlay(Es)[k] /\ V[k] \in Value
  BY <1>1, <1>8, LiveOfStored
<1>10. PICK list : list = Listing(V)
  OBVIOUS
<1>11. list = [i \in 1 .. n |-> <<s[i], V[s[i]]>>]
  BY <1>5, <1>6, <1>9, <1>10 DEF Listing
<1>12. \A i \in 1 .. n : list[i] = <<s[i], Overlay(Es)[s[i]]>> /\ list[i] \in Key \X Value
  BY <1>2, <1>6, <1>9, <1>11
<1>13. list \in Seq(Key \X Value) /\ Len(list) = n
  BY <1>11, <1>12
<1>14. Cardinality(Key) \in Nat
  BY KeyAssumption, FS_CardinalityType
<1>15. s \in [1 .. n -> Nat]
  BY <1>2, <1>6
<1> QED
  BY <1>1, <1>3, <1>4, <1>5, <1>6, <1>7, <1>8, <1>10, <1>12, <1>13, <1>14, <1>15

\* The next item is the next live key with its value; without one the listing
\* is complete.
LEMMA TakesOne ==
    ASSUME NEW Es \in Sources, NEW p, NEW j, NEW x, Taken(p, Es, j, x)
    PROVE  /\ Exhausted(p.left.children) => j = Cardinality(LiveKeys(Es)) /\ TakeOne(p) = p
           /\ ~Exhausted(p.left.children) => \E y \in Nat : Taken(TakeOne(p), Es, j + 1, y)
<1>1. PICK s : s = Ascending(LiveKeys(Es))
  OBVIOUS
<1>2. PICK n : n = Cardinality(LiveKeys(Es))
  OBVIOUS
<1>3. PICK list : list = Listing(Stored(Overlay(Es)))
  OBVIOUS
<1>4. PICK V : V = Overlay(Es)
  OBVIOUS
<1>5. /\ n \in Nat /\ s \in [1 .. n -> LiveKeys(Es)] /\ s \in [1 .. n -> Nat]
      /\ \A i, k \in 1 .. n : i < k => s[i] < s[k]
      /\ \A k \in LiveKeys(Es) : \E i \in 1 .. n : s[i] = k
      /\ list \in Seq(Key \X Value) /\ Len(list) = n
      /\ \A i \in 1 .. n : list[i] = <<s[i], V[s[i]]>>
  BY <1>1, <1>2, <1>3, <1>4, ListingIs
<1>6. PICK cs : cs = p.left.children
  OBVIOUS
<1>7. /\ j \in 0 .. n /\ x \in Nat /\ p \in Collecting(Es)
      /\ Positioned(cs, Es, x)
      /\ p.items = [i \in 1 .. j |-> list[i]]
      /\ \A i \in 1 .. n : s[i] < x <=> i <= j
  BY <1>1, <1>2, <1>3, <1>6 DEF Taken
<1>8. PICK r : r = p.left
  OBVIOUS
<1>9. r = [children |-> cs, end |-> Unbounded] /\ r.children = cs /\ r.end.kind = "unbounded"
  BY <1>6, <1>7, <1>8 DEF Collecting, Unbounded
<1>10. ValidRange(r) <=> ~Exhausted(cs)
  BY <1>9 DEF ValidRange, WithinEnd
<1>11. CASE Exhausted(cs)
  <2>1. \A i \in 1 .. n : s[i] < x
    BY <1>5, <1>7, <1>11 DEF Positioned
  <2>2. j = n
    <3> SUFFICES ASSUME j # n PROVE FALSE
      OBVIOUS
    <3>1. n \in 1 .. n /\ ~(n <= j)
      BY <1>5, <1>7
    <3> QED
      BY <1>7, <2>1, <3>1
  <2>3. TakeOne(p) = p
    BY <1>8, <1>10, <1>11 DEF TakeOne
  <2> QED
    BY <1>2, <1>6, <1>11, <2>2, <2>3
<1>12. CASE ~Exhausted(cs)
  <2>1. PICK m \in LiveKeys(Es) : /\ m = MergedKey(cs) /\ x <= m /\ MergedEntry(cs) = V[m]
                                  /\ \A k \in LiveKeys(Es) : k < m => k < x
    BY <1>4, <1>7, <1>12 DEF Positioned
  <2>2. PICK q \in 1 .. n : s[q] = m
    BY <1>5
  <2>3. m \in Nat /\ q \in Nat /\ j \in Nat
    BY <1>5, <1>7, <2>2
  <2>4. q = j + 1
    <3>1. ~(q <= j)
      <4>1. ~(m < x)
        BY <1>7, <2>1, <2>3
      <4> QED
        BY <1>7, <2>2, <4>1
    <3>2. ~(j + 1 < q)
      <4> SUFFICES ASSUME j + 1 < q PROVE FALSE
        OBVIOUS
      <4>1. j + 1 \in 1 .. n
        BY <2>3, <1>5
      <4>2. s[j + 1] < m /\ s[j + 1] \in LiveKeys(Es)
        BY <1>5, <2>2, <4>1
      <4>3. s[j + 1] < x
        BY <2>1, <4>2
      <4>4. j + 1 <= j
        BY <1>7, <4>1, <4>3
      <4> QED
        BY <2>3, <4>4
    <3> QED
      BY <2>3, <3>1, <3>2
  <2>5. j + 1 \in 0 .. n /\ m + 1 \in Nat
    BY <1>5, <2>2, <2>3, <2>4
  <2>6. PICK new : new = MergeAdvance(cs, FALSE)
    OBVIOUS
  <2>7. Positioned(new, Es, m + 1)
    BY <1>7, <1>12, <2>1, <2>6, MovedAt
  <2>8. new \in [DOMAIN Es -> Cursors]
    BY <2>7 DEF Positioned, AllAt
  <2>9. V[m] \in Value
    BY <1>4 DEF LiveKeys
  <2>10. Item(r) = <<m, V[m]>> /\ Item(r) = list[j + 1]
    <3>1. Item(r) = <<m, Answer(V[m])>>
      BY <1>9, <1>10, <1>12, <2>1 DEF Item
    <3>2. Answer(V[m]) = V[m]
      BY <2>9 DEF Answer
    <3>3. list[j + 1] = <<m, V[m]>>
      BY <1>5, <2>2, <2>4
    <3> QED
      BY <3>1, <3>2, <3>3
  <2>11. Item(r) \in Key \X Value
    BY <2>9, <2>10 DEF LiveKeys
  <2>12. PICK items \in Seq(Key \X Value) : items = p.items /\ Len(items) = j
    <3>1. p.items \in Seq(Key \X Value)
      BY <1>7 DEF Collecting
    <3>2. Len(p.items) = j
      BY <1>7, <2>3
    <3> QED
      BY <3>1, <3>2
  <2>13. Append(items, Item(r)) = [i \in 1 .. j + 1 |-> list[i]]
    <3>1. \A i \in 1 .. j : items[i] = list[i]
      BY <1>7, <2>12
    <3>6. PICK item \in Key \X Value : item = Item(r)
      BY <2>11
    <3>8. PICK D : D = Key \X Value
      OBVIOUS
    <3>9. items \in Seq(D) /\ item \in D
      BY <3>8
    <3>10. Append(items, item) \in Seq(D)
      BY <3>9
    <3>2. PICK longer \in Seq(D) : longer = Append(items, item)
      BY <3>10
    <3>7. Len(longer) = j + 1 /\ longer[j + 1] = item
          /\ \A i \in 1 .. j : longer[i] = items[i]
      BY <2>12, <3>2, <3>9
    <3>3. Len(longer) = j + 1 /\ longer[j + 1] = list[j + 1]
          /\ \A i \in 1 .. j : longer[i] = list[i]
      BY <2>10, <3>1, <3>6, <3>7
    <3>4. \A i \in 1 .. j + 1 : longer[i] = list[i]
      BY <2>3, <3>3
    <3>5. longer = [i \in 1 .. j + 1 |-> longer[i]]
      BY <3>3
    <3> QED
      BY <3>2, <3>4, <3>5, <3>6
  <2>14. PICK t : t = TakeOne(p)
    OBVIOUS
  <2>15. t = [left |-> [children |-> new, end |-> Unbounded], items |-> Append(items, Item(r))]
    <3>1. t = [left  |-> [r EXCEPT !.children = MergeAdvance(r.children, FALSE)],
               items |-> Append(p.items, Item(r))]
      BY <1>8, <1>10, <1>12, <2>14 DEF TakeOne
    <3>2. [r EXCEPT !.children = new] = [children |-> new, end |-> Unbounded]
      BY <1>9
    <3> QED
      BY <1>9, <2>6, <2>12, <3>1, <3>2
  <2>16. t \in Collecting(Es)
    BY <2>8, <2>11, <2>12, <2>15 DEF Collecting
  <2>17. ASSUME NEW i \in 1 .. n PROVE s[i] < m + 1 <=> i <= j + 1
    <3>1. i \in Nat /\ s[i] \in Nat
      BY <1>5
    <3>2. CASE i < q
      BY <1>5, <2>2, <2>3, <2>4, <3>1, <3>2
    <3>3. CASE i = q
      BY <2>2, <2>3, <2>4, <3>3
    <3>4. CASE q < i
      BY <1>5, <2>2, <2>3, <2>4, <3>1, <3>4
    <3> QED
      BY <2>3, <3>1, <3>2, <3>3, <3>4
  <2>18. t.left.children = new /\ t.items = [i \in 1 .. j + 1 |-> list[i]]
    BY <2>13, <2>15
  <2>19. Taken(t, Es, j + 1, m + 1)
    BY <1>1, <1>2, <1>3, <2>5, <2>7, <2>16, <2>17, <2>18 DEF Taken
  <2> QED
    BY <1>6, <1>12, <2>5, <2>14, <2>19
<1> QED
  BY <1>6, <1>11, <1>12

\* A range over these sources, from its beginning and without an end, gives
\* the listing of them.
LEMMA CollectedIs ==
    ASSUME NEW Es \in Sources, NEW r, NEW cs,
           r = [children |-> cs, end |-> Unbounded], Positioned(cs, Es, 0)
    PROVE  Collected(r) = Listing(Stored(Overlay(Es)))
<1> DEFINE N == Cardinality(Key)
           base == [left |-> r, items |-> <<>>]
           Eq(f) == f = [n \in 0 .. N |-> IF n = 0 THEN base ELSE TakeOne(f[n - 1])]
           after == CHOOSE f : Eq(f)
           S == {p \in Collecting(Es) : \E j, x \in Nat : Taken(p, Es, j, x)}
           step == [q \in Nat \X S |-> TakeOne(q[2])]
<1>1. PICK s : s = Ascending(LiveKeys(Es))
  OBVIOUS
<1>2. PICK n \in Nat : n = Cardinality(LiveKeys(Es))
  BY ListingIs
<1>3. PICK list : list = Listing(Stored(Overlay(Es)))
  OBVIOUS
<1>4. /\ n <= Cardinality(Key) /\ Cardinality(Key) \in Nat
      /\ s \in [1 .. n -> Nat] /\ list \in Seq(Key \X Value) /\ Len(list) = n
  BY <1>1, <1>2, <1>3, ListingIs
<1>5. N \in Nat /\ n <= N
  BY <1>4
<1>6. Collected(r) = after[N].items
  BY DEF Collected, TakeOne
<1> HIDE DEF N
<1>7. \A p : \A j \in Nat, x \in Nat : Taken(p, Es, j, x) => p \in S
  BY DEF Taken
<1>8. Taken(base, Es, 0, 0)
  <2>1. cs \in [DOMAIN Es -> Cursors]
    BY DEF Positioned, AllAt
  <2>2. base \in Collecting(Es)
    BY <2>1 DEF Collecting
  <2>3. base.left.children = cs
    OBVIOUS
  <2>4. base.items = [i \in 1 .. 0 |-> list[i]]
    OBVIOUS
  <2>5. \A i \in 1 .. n : ~(s[i] < 0) /\ ~(i <= 0)
    BY <1>4
  <2>6. 0 \in 0 .. n /\ 0 \in Nat
    BY <1>2
  <2> QED
    BY <1>1, <1>2, <1>3, <2>2, <2>3, <2>4, <2>5, <2>6 DEF Taken
<1> HIDE DEF base
<1>9. ASSUME NEW p, NEW j \in Nat, NEW x \in Nat, Taken(p, Es, j, x)
      PROVE  \E i \in Nat, y \in Nat : Taken(TakeOne(p), Es, i, y)
  <2>1. CASE Exhausted(p.left.children)
    <3>1. TakeOne(p) = p
      BY <1>9, <2>1, TakesOne
    <3> QED
      BY <1>9, <3>1
  <2>2. CASE ~Exhausted(p.left.children)
    <3>1. PICK y \in Nat : Taken(TakeOne(p), Es, j + 1, y)
      BY <1>9, <2>2, TakesOne
    <3>2. j + 1 \in Nat
      OBVIOUS
    <3> QED
      BY <3>1, <3>2
  <2> QED
    BY <2>1, <2>2
<1>10. step \in [Nat \X S -> S]
  <2>1. ASSUME NEW p \in S PROVE TakeOne(p) \in S
    <3>1. PICK j \in Nat, x \in Nat : Taken(p, Es, j, x)
      OBVIOUS
    <3>2. \E i \in Nat, y \in Nat : Taken(TakeOne(p), Es, i, y)
      BY <1>9, <3>1
    <3> HIDE DEF S
    <3> QED
      BY <1>7, <3>2
  <2> HIDE DEF S
  <2> QED
    BY <2>1
<1>11. \E f : Eq(f)
  <2>1. base \in S
    <3>1. 0 \in Nat
      OBVIOUS
    <3> HIDE DEF S
    <3> QED
      BY <1>7, <1>8, <3>1
  <2>2. PICK f \in [0 .. N -> S] : Iterates(f, base, step, N)
    <3> HIDE DEF S, step
    <3> QED
      BY <1>5, <1>10, <2>1, Iteration
  <2>3. ASSUME NEW i \in 1 .. N PROVE f[i] = TakeOne(f[i - 1])
    <3>1. i \in Nat /\ i - 1 \in 0 .. N
      BY <1>5
    <3>2. f[i - 1] \in S
      <4> HIDE DEF S
      <4> QED
        BY <2>2, <3>1
    <3>3. f[i] = step[<<i, f[i - 1]>>]
      BY <2>2 DEF Iterates
    <3> HIDE DEF S
    <3> QED
      BY <3>1, <3>2, <3>3
  <2>4. f[0] = base /\ f = [i \in 0 .. N |-> f[i]]
    BY <2>2 DEF Iterates
  <2>5. ASSUME NEW i \in 0 .. N
        PROVE  f[i] = IF i = 0 THEN base ELSE TakeOne(f[i - 1])
    <3>1. CASE i = 0
      BY <2>4, <3>1
    <3>2. CASE i # 0
      <4>1. i \in 1 .. N
        BY <1>5, <3>2
      <4> QED
        BY <2>3, <3>2, <4>1
    <3> QED
      BY <3>1, <3>2
  <2>6. Eq(f)
    BY <2>4, <2>5
  <2> QED
    BY <2>6
<1>12. Eq(after)
  <2> HIDE DEF Eq
  <2> QED
    BY <1>11
<1>13. after[0] = base /\ \A i \in 1 .. N : after[i] = TakeOne(after[i - 1])
  <2> HIDE DEF after
  <2>1. \A i \in 0 .. N : after[i] = IF i = 0 THEN base ELSE TakeOne(after[i - 1])
    BY <1>12
  <2> QED
    BY <1>5, <2>1
<1> HIDE DEF after, Eq, S, step
<1> DEFINE T == {i \in 0 .. N : \E j \in Nat, x \in Nat :
                   /\ Taken(after[i], Es, j, x)
                   /\ Exhausted(after[i].left.children) \/ j = i}
<1>14. 0 \in T
  <2>1. 0 \in 0 .. N /\ 0 \in Nat
    BY <1>5
  <2>2. Taken(after[0], Es, 0, 0)
    BY <1>8, <1>13
  <2> QED
    BY <2>1, <2>2
<1>15. ASSUME NEW i \in 0 .. N - 1, i \in T PROVE i + 1 \in T
  <2>1. i + 1 \in 1 .. N /\ i + 1 \in 0 .. N /\ i + 1 - 1 = i /\ i \in Nat
    BY <1>5
  <2>2. PICK p : p = after[i]
    OBVIOUS
  <2>3. after[i + 1] = TakeOne(p)
    BY <1>13, <2>1, <2>2
  <2>4. PICK j \in Nat, x \in Nat : /\ Taken(p, Es, j, x)
                                    /\ Exhausted(p.left.children) \/ j = i
    BY <1>15, <2>2
  <2>5. CASE Exhausted(p.left.children)
    <3>1. after[i + 1] = p
      BY <2>3, <2>4, <2>5, TakesOne
    <3> QED
      BY <2>1, <2>4, <2>5, <3>1
  <2>6. CASE ~Exhausted(p.left.children)
    <3>1. PICK y \in Nat : Taken(after[i + 1], Es, j + 1, y)
      BY <2>3, <2>4, <2>6, TakesOne
    <3>2. j + 1 = i + 1 /\ j + 1 \in Nat
      BY <2>4, <2>6
    <3> QED
      BY <2>1, <3>1, <3>2
  <2> QED
    BY <2>5, <2>6
<1>16. 0 .. N \subseteq T /\ N \in 0 .. N
  <2> HIDE DEF T
  <2> QED
    BY <1>5, <1>14, <1>15, CountUp
<1>17. PICK last : last = after[N]
  OBVIOUS
<1>18. PICK j \in Nat, x \in Nat : /\ Taken(last, Es, j, x)
                                   /\ Exhausted(last.left.children) \/ j = N
  BY <1>16, <1>17
<1>19. j = n
  <2>1. CASE Exhausted(last.left.children)
    BY <1>2, <1>18, <2>1, TakesOne
  <2>2. CASE j = N
    <3>1. j \in 0 .. n
      BY <1>2, <1>18 DEF Taken
    <3> QED
      BY <1>2, <1>5, <2>2, <3>1
  <2> QED
    BY <1>18, <2>1, <2>2
<1>20. last.items = [i \in 1 .. n |-> list[i]]
  BY <1>3, <1>18, <1>19 DEF Taken
<1>21. last.items = list
  BY <1>4, <1>20
<1> QED
  BY <1>3, <1>6, <1>17, <1>21

\* keys and scan read a range opened on the layers as they are.
LEMMA ScanOf == IInv => ScanIsComplete
<1> SUFFICES ASSUME IInv PROVE ScanIsComplete
  OBVIOUS
<1>1. DatabaseHolds /\ Unbounded \in Bound
  BY DEF IInv, Bound
<1>2. StartOf(Unbounded) = 0
  BY DEF StartOf, Unbounded
<1>3. PICK r : r = RangeIterator(Unbounded, Unbounded)
  OBVIOUS
<1>4. PICK cs : cs = r.children
  OBVIOUS
<1>5. r = [children |-> cs, end |-> Unbounded]
  BY <1>1, <1>3, <1>4, OpenedAt
<1>6. PICK Es \in Sources : Positioned(cs, Es, 0) /\ store = Stored(Overlay(Es))
  BY <1>1, <1>2, <1>3, <1>4, OpenedAt
<1>7. Scan = Listing(store)
  BY <1>3, <1>5, <1>6, CollectedIs DEF Scan
<1> QED
  BY <1>7 DEF ScanIsComplete, Listing, LiveOf

\* keys and scan list every live key once, in order, with its last value.
THEOREM ScanListsAll ==
    ASSUME LargeTablesFail
    PROVE  Spec => []ScanIsComplete
BY Invariance, ScanOf, PTL
=============================================================================
