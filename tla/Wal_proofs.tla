----------------------------- MODULE Wal_proofs -----------------------------
(***************************************************************************)
(* Proofs about Wal, for any lengths of records, any capacity of the       *)
(* buffer and any number of crashes and of damaged cells.                  *)
(*                                                                         *)
(* The types hold whatever fails, and no step but emptying the log takes   *)
(* a record away from what the log replays to.  What the log promises of   *)
(* its records needs one assumption, that a record written past the        *)
(* buffer does not fail half-way: after such a failure the next append     *)
(* goes behind half a record.  The invariant then says what the cells of   *)
(* an open log are, whole records in the order of their ids with every     *)
(* acknowledged one in the file, and that a log nobody has open is such a  *)
(* log, cut and damaged.                                                   *)
(*                                                                         *)
(* A scan is a recursive function of the position, so that what it finds   *)
(* is proved from the least position at which a statement about it would   *)
(* be wrong.                                                               *)
(***************************************************************************)
EXTENDS Wal, SequenceTheorems, WellFoundedInduction, TLAPS

-----------------------------------------------------------------------------
\* Every set of numbers that is not empty has a least one.
LEMMA Least ==
    ASSUME NEW S, S \subseteq Nat, S # {}
    PROVE  \E m \in S : \A n \in S : m <= n
<1>1. PICK m \in S : \A n \in S : ~ (<<n, m>> \in OpToRel(<, Nat))
  BY NatLessThanWellFounded, WFMin
<1>2. \A n \in S : ~ (n < m)
  BY <1>1 DEF OpToRel
<1> QED
  BY <1>2

\* What holds of 1 and of the successor of each number it holds of holds up
\* to n: T is the set of the numbers it holds of.
LEMMA UpTo ==
    ASSUME NEW n \in Nat, NEW T,
           1 \in T, \A i \in 1 .. n - 1 : i \in T => i + 1 \in T
    PROVE  1 .. n \subseteq T
<1> DEFINE S == (1 .. n) \ T
<1>1. SUFFICES ASSUME S # {} PROVE FALSE
  OBVIOUS
<1>2. PICK m \in S : \A i \in S : m <= i
  <2>1. S \subseteq Nat
    OBVIOUS
  <2> HIDE DEF S
  <2> QED
    BY <1>1, <2>1, Least
<1>3. m - 1 \in 1 .. n - 1 /\ m - 1 \notin S
  BY <1>2
<1> QED
  BY <1>2, <1>3

\* Positions of a log, and the search for the next record from one of them.
Positions(cells) == 0 .. Len(cells)

IsScanFrom(cells, p, scan) ==
    /\ scan \in Seq(Positions(cells)) /\ Len(scan) >= 1
    /\ scan[1] = p
    /\ \A i \in 1 .. Len(scan) - 1 :
         /\ RecordAt(cells, scan[i])
         /\ scan[i + 1] = scan[i] + Declared(cells, scan[i])
    /\ ~RecordAt(cells, scan[Len(scan)])

\* A record lies within the log and has cells.
LEMMA RecordFits ==
    ASSUME NEW cells \in Seq(Cell), NEW p \in Positions(cells),
           RecordAt(cells, p)
    PROVE  /\ p < Len(cells) /\ Declared(cells, p) \in Nat
           /\ Declared(cells, p) >= ShortestRecord
           /\ p + Declared(cells, p) \in Positions(cells)
           /\ p + Declared(cells, p) > p
<1>1. p + 1 \in 1 .. Len(cells) /\ Len(cells) \in Nat
  BY DEF RecordAt, Positions
<1>2. Declared(cells, p) \in Nat
  <2>1. cells[p + 1] \in Cell
    BY <1>1, ElementOfSeq
  <2> QED
    BY <2>1 DEF Cell, Declared
<1>3. p < Len(cells) /\ ~TooShort(cells, p) /\ ~PastTheEnd(cells, p)
  BY DEF RecordAt, TailAt
<1> QED
  BY <1>1, <1>2, <1>3 DEF Positions, TooShort, PastTheEnd, ShortestRecord

\* A record followed by a scan is a scan.
LEMMA ScanCons ==
    ASSUME NEW cells \in Seq(Cell), NEW p \in Positions(cells),
           RecordAt(cells, p), NEW rest,
           IsScanFrom(cells, p + Declared(cells, p), rest)
    PROVE  IsScanFrom(cells, p, <<p>> \o rest)
<1> DEFINE scan == <<p>> \o rest
<1>1. rest \in Seq(Positions(cells)) /\ <<p>> \in Seq(Positions(cells))
      /\ Len(<<p>>) = 1 /\ <<p>>[1] = p
  BY DEF IsScanFrom
<1>2. /\ scan \in Seq(Positions(cells)) /\ Len(scan) = Len(rest) + 1
      /\ Len(rest) \in Nat /\ Len(rest) >= 1
      /\ scan[1] = p
      /\ \A i \in 1 .. Len(rest) : scan[i + 1] = rest[i]
  <2>1. Len(rest) \in Nat /\ Len(rest) >= 1
    BY <1>1 DEF IsScanFrom
  <2>2. /\ scan \in Seq(Positions(cells)) /\ Len(scan) = Len(rest) + 1
        /\ \A i \in 1 .. 1 + Len(rest) :
             scan[i] = IF i <= 1 THEN <<p>>[i] ELSE rest[i - 1]
    BY <1>1, ConcatProperties
  <2> QED
    BY <1>1, <2>1, <2>2
<1> HIDE DEF scan
<1>3. ASSUME NEW i \in 1 .. Len(scan) - 1
      PROVE  /\ RecordAt(cells, scan[i])
             /\ scan[i + 1] = scan[i] + Declared(cells, scan[i])
  <2>1. CASE i = 1
    BY <1>2, <2>1 DEF IsScanFrom
  <2>2. CASE i > 1
    <3>1. i - 1 \in 1 .. Len(rest) - 1
      BY <1>2, <2>2
    <3>2. scan[i] = rest[i - 1] /\ scan[i + 1] = rest[(i - 1) + 1]
      BY <1>2, <3>1
    <3> QED
      BY <3>1, <3>2 DEF IsScanFrom
  <2> QED
    BY <1>2, <2>1, <2>2
<1>4. scan[Len(scan)] = rest[Len(rest)]
  BY <1>2
<1>5. IsScanFrom(cells, p, scan)
  BY <1>2, <1>3, <1>4 DEF IsScanFrom
<1> QED
  BY <1>5 DEF scan

\* A position that is no record is a scan.
LEMMA ScanEnd ==
    ASSUME NEW cells \in Seq(Cell), NEW p \in Positions(cells),
           ~RecordAt(cells, p)
    PROVE  IsScanFrom(cells, p, <<p>>)
BY DEF IsScanFrom

\* Induction from the end of the log towards its start.
LEMMA FromTheEnd ==
    ASSUME NEW cells \in Seq(Cell), NEW T,
           \A p \in Positions(cells) :
             (\A q \in Positions(cells) : q > p => q \in T) => p \in T
    PROVE  Positions(cells) \subseteq T
<1> DEFINE S == {n \in Nat : n <= Len(cells) /\ Len(cells) - n \notin T}
<1>1. SUFFICES ASSUME NEW p \in Positions(cells), p \notin T PROVE FALSE
  OBVIOUS
<1>2. Len(cells) \in Nat
  OBVIOUS
<1>3. Len(cells) - p \in S
  BY <1>1, <1>2 DEF Positions
<1>4. PICK m \in S : \A n \in S : m <= n
  <2>1. S \subseteq Nat /\ S # {}
    BY <1>3
  <2> HIDE DEF S
  <2> QED
    BY <2>1, Least
<1>5. Len(cells) - m \in Positions(cells) /\ Len(cells) - m \notin T
  BY <1>2, <1>4 DEF Positions
<1>6. PICK q \in Positions(cells) : q > Len(cells) - m /\ q \notin T
  BY <1>5
<1>7. Len(cells) - q \in S /\ Len(cells) - q < m
  BY <1>2, <1>4, <1>6 DEF Positions
<1> QED
  BY <1>4, <1>7

\* From every position there is a scan ...
LEMMA SomeScan ==
    ASSUME NEW cells \in Seq(Cell)
    PROVE  \A p \in Positions(cells) : \E s : IsScanFrom(cells, p, s)
<1> DEFINE T == {p \in Positions(cells) : \E s : IsScanFrom(cells, p, s)}
<1>1. ASSUME NEW p \in Positions(cells),
             \A q \in Positions(cells) : q > p => q \in T
      PROVE  p \in T
  <2>1. CASE RecordAt(cells, p)
    <3>1. p + Declared(cells, p) \in T
      BY <1>1, <2>1, RecordFits
    <3> QED
      BY <2>1, <3>1, ScanCons
  <2>2. CASE ~RecordAt(cells, p)
    BY <2>2, ScanEnd
  <2> QED
    BY <2>1, <2>2
<1>2. Positions(cells) \subseteq T
  <2> HIDE DEF T
  <2> QED
    BY <1>1, FromTheEnd
<1> QED
  BY <1>2

\* ... and a scan is a start of one from the same position in a longer log.
LEMMA ScanStarts ==
    ASSUME NEW cells, NEW more, NEW p, NEW s, NEW t,
           IsScanFrom(cells, p, s), IsScanFrom(more, p, t),
           \A q \in Positions(cells) :
             RecordAt(cells, q) => /\ RecordAt(more, q)
                                  /\ Declared(more, q) = Declared(cells, q)
    PROVE  \A i \in 1 .. Len(s) : i <= Len(t) /\ s[i] = t[i]
<1> DEFINE T == {i \in 1 .. Len(s) : i <= Len(t) /\ s[i] = t[i]}
<1>1. Len(s) \in Nat /\ Len(t) \in Nat /\ 1 \in T
  BY DEF IsScanFrom
<1>2. ASSUME NEW i \in 1 .. Len(s) - 1, i \in T
      PROVE  i + 1 \in T
  <2>1. /\ s[i] \in Positions(cells) /\ RecordAt(cells, s[i])
        /\ s[i + 1] = s[i] + Declared(cells, s[i])
    BY <1>1, ElementOfSeq DEF IsScanFrom
  <2>2. RecordAt(more, t[i]) /\ Declared(more, t[i]) = Declared(cells, s[i])
    BY <1>2, <2>1
  <2>3. i \in 1 .. Len(t) - 1
    BY <1>1, <1>2, <2>2 DEF IsScanFrom
  <2>4. t[i + 1] = t[i] + Declared(more, t[i])
    BY <2>3 DEF IsScanFrom
  <2> QED
    BY <1>1, <1>2, <2>1, <2>2, <2>3, <2>4
<1>3. 1 .. Len(s) \subseteq T
  <2> HIDE DEF T
  <2> QED
    BY <1>1, <1>2, UpTo
<1> QED
  BY <1>3

\* So there is only one scan from a position.
LEMMA OneScan ==
    ASSUME NEW cells, NEW p, NEW s, NEW t,
           IsScanFrom(cells, p, s), IsScanFrom(cells, p, t)
    PROVE  s = t
<1>1. /\ \A i \in 1 .. Len(s) : i <= Len(t) /\ s[i] = t[i]
      /\ \A i \in 1 .. Len(t) : i <= Len(s) /\ t[i] = s[i]
  BY ScanStarts
<1>2. /\ s \in Seq(Positions(cells)) /\ t \in Seq(Positions(cells))
      /\ Len(s) \in Nat /\ Len(s) >= 1 /\ Len(t) \in Nat /\ Len(t) >= 1
  BY DEF IsScanFrom
<1>3. Len(s) = Len(t)
  BY <1>1, <1>2
<1> QED
  BY <1>1, <1>2, <1>3, SeqEqual

\* The recursion of Scan has a solution, and every solution scans.
LEMMA ScanIsScan ==
    ASSUME NEW cells \in Seq(Cell)
    PROVE  IsScanFrom(cells, 0, Scan(cells))
<1> DEFINE step(f) == [p \in 0 .. Len(cells) |->
                         IF RecordAt(cells, p)
                         THEN <<p>> \o f[p + Declared(cells, p)]
                         ELSE <<p>>]
           some == [p \in 0 .. Len(cells) |-> CHOOSE s : IsScanFrom(cells, p, s)]
           from == CHOOSE f : f = step(f)
           T == {p \in Positions(cells) : IsScanFrom(cells, p, from[p])}
<1>1. \A p \in Positions(cells) : IsScanFrom(cells, p, some[p])
  BY SomeScan DEF Positions
<1>2. some = step(some)
  <2>1. ASSUME NEW p \in 0 .. Len(cells) PROVE some[p] = step(some)[p]
    <3>1. p \in Positions(cells)
      BY DEF Positions
    <3>2. CASE RecordAt(cells, p)
      <4>1. IsScanFrom(cells, p, <<p>> \o some[p + Declared(cells, p)])
        <5> HIDE DEF some
        <5> QED
          BY <1>1, <3>1, <3>2, RecordFits, ScanCons
      <4>2. some[p] = <<p>> \o some[p + Declared(cells, p)]
        <5> HIDE DEF some
        <5> QED
          BY <1>1, <3>1, <4>1, OneScan
      <4> QED
        BY <3>2, <4>2
    <3>3. CASE ~RecordAt(cells, p)
      <4>1. some[p] = <<p>>
        <5> HIDE DEF some
        <5> QED
          BY <1>1, <3>1, <3>3, ScanEnd, OneScan
      <4> QED
        BY <3>3, <4>1
    <3> QED
      BY <3>2, <3>3
  <2> QED
    BY <2>1
<1>3. from = step(from)
  <2> HIDE DEF some, step
  <2> QED
    BY <1>2
<1>4. ASSUME NEW p \in Positions(cells),
             \A q \in Positions(cells) : q > p => q \in T
      PROVE  p \in T
  <2> HIDE DEF from
  <2>1. from[p] = IF RecordAt(cells, p)
                  THEN <<p>> \o from[p + Declared(cells, p)]
                  ELSE <<p>>
    <3>1. p \in 0 .. Len(cells)
      BY DEF Positions
    <3>2. step(from)[p] = IF RecordAt(cells, p)
                          THEN <<p>> \o from[p + Declared(cells, p)]
                          ELSE <<p>>
      BY <3>1
    <3> QED
      BY <1>3, <3>2
  <2>2. CASE RecordAt(cells, p)
    <3>1. IsScanFrom(cells, p + Declared(cells, p), from[p + Declared(cells, p)])
      BY <1>4, <2>2, RecordFits
    <3> QED
      BY <2>1, <2>2, <3>1, ScanCons
  <2>3. CASE ~RecordAt(cells, p)
    BY <2>1, <2>3, ScanEnd
  <2> QED
    BY <2>2, <2>3
<1>5. Positions(cells) \subseteq T
  <2> HIDE DEF T
  <2> QED
    BY <1>4, FromTheEnd
<1>6. 0 \in Positions(cells)
  BY DEF Positions
<1>7. IsScanFrom(cells, 0, from[0])
  BY <1>5, <1>6
<1>8. Scan(cells) = from[0]
  BY DEF Scan
<1> QED
  BY <1>7, <1>8

-----------------------------------------------------------------------------
(***************************************************************************)
(* A log as it was written: whole records one after the other, with        *)
(* growing ids, of which the last may be cut.  Each cell has the cells of  *)
(* its record around it, as far as the log goes.                           *)
(***************************************************************************)
Whole(cell) == cell.at = cell.len

CellOf(id, n, j) == [id |-> id, len |-> n, at |-> j]

InPlace(g, i) ==
    /\ g[i].len >= ShortestRecord
    /\ 1 <= g[i].at /\ g[i].at <= g[i].len /\ g[i].at <= i
    /\ \A j \in 1 .. g[i].len :
         i - g[i].at + j <= Len(g) =>
           g[i - g[i].at + j] = CellOf(g[i].id, g[i].len, j)

InOrder(g, i, j) == IF Whole(g[i]) THEN g[i].id < g[j].id ELSE g[i].id <= g[j].id

Laid(g) ==
    /\ g \in Seq(Cell)
    /\ \A i \in 1 .. Len(g) : InPlace(g, i)
    /\ \A i, j \in 1 .. Len(g) : i < j => InOrder(g, i, j)

\* Where a record ends and the next may begin.
Boundary(g, p) == p \in Positions(g) /\ (p = 0 \/ Whole(g[p]))

\* What DamageCell makes of a log: lengths changed at the start of records,
\* and cells behind the prefix that no checksum fits.
Scarred(c, g) ==
    /\ c \in Seq(Cell) /\ Len(c) = Len(g)
    /\ \A i \in 1 .. Len(g) :
         /\ c[i].id = g[i].id
         /\ c[i].at = g[i].at \/ (c[i].at = Damaged /\ g[i].at > PrefixCells)
         /\ c[i].len = g[i].len \/ g[i].at = 1

\* The fields of a cell are numbers.
LEMMA CellFields ==
    ASSUME NEW c \in Seq(Cell), NEW i \in 1 .. Len(c)
    PROVE  c[i] \in Cell /\ c[i].id \in Nat /\ c[i].len \in Nat /\ c[i].at \in Nat
<1>1. c[i] \in Cell
  BY ElementOfSeq
<1> QED
  BY <1>1 DEF Cell

\* The record that begins at a boundary lies behind it cell by cell.
LEMMA NextRecord ==
    ASSUME NEW g, Laid(g), NEW p, Boundary(g, p), p < Len(g)
    PROVE  /\ p + 1 \in 1 .. Len(g)
           /\ g[p + 1].at = 1 /\ g[p + 1].len \in Nat
           /\ g[p + 1].len >= ShortestRecord
           /\ \A j \in 1 .. g[p + 1].len :
                p + j <= Len(g) =>
                  g[p + j] = CellOf(g[p + 1].id, g[p + 1].len, j)
<1>1. p \in Nat /\ p + 1 \in 1 .. Len(g) /\ Len(g) \in Nat
  BY DEF Boundary, Positions, Laid
<1>2. /\ g[p + 1].id \in Nat /\ g[p + 1].len \in Nat /\ g[p + 1].at \in Nat
      /\ InPlace(g, p + 1)
  BY <1>1, CellFields DEF Laid
<1>3. g[p + 1].at = 1
  <2>1. CASE p = 0
    BY <1>2, <2>1 DEF InPlace
  <2>2. CASE p > 0
    <3>1. SUFFICES ASSUME g[p + 1].at > 1 PROVE FALSE
      BY <1>2 DEF InPlace
    <3>2. g[p] = CellOf(g[p + 1].id, g[p + 1].len, g[p + 1].at - 1)
      <4>1. g[p + 1].at - 1 \in 1 .. g[p + 1].len
        BY <1>2, <3>1 DEF InPlace
      <4>2. (p + 1) - g[p + 1].at + (g[p + 1].at - 1) = p /\ p <= Len(g)
        BY <1>1, <1>2
      <4> QED
        BY <1>2, <4>1, <4>2 DEF InPlace
    <3>3. g[p].id = g[p + 1].id
      BY <3>2 DEF CellOf
    <3>4. Whole(g[p]) /\ p \in 1 .. Len(g) /\ p < p + 1
      BY <1>1, <2>2 DEF Boundary
    <3>5. g[p].id < g[p + 1].id
      BY <1>1, <3>4 DEF Laid, InOrder
    <3> QED
      BY <1>2, <3>3, <3>5
  <2> QED
    BY <1>1, <2>1, <2>2
<1>4. ASSUME NEW j \in 1 .. g[p + 1].len, p + j <= Len(g)
      PROVE  g[p + j] = CellOf(g[p + 1].id, g[p + 1].len, j)
  <2>1. (p + 1) - g[p + 1].at + j = p + j
    BY <1>1, <1>2, <1>3
  <2> QED
    BY <1>2, <1>4, <2>1 DEF InPlace
<1> QED
  BY <1>1, <1>2, <1>3, <1>4 DEF InPlace

\* It ends at the next boundary.
LEMMA NextBoundary ==
    ASSUME NEW g, Laid(g), NEW p, Boundary(g, p), p < Len(g)
    PROVE  /\ p + g[p + 1].len <= Len(g) => Boundary(g, p + g[p + 1].len)
           /\ \A q : Boundary(g, q) /\ q > p => q >= p + g[p + 1].len
<1> DEFINE n == g[p + 1].len
<1>1. /\ p \in Nat /\ Len(g) \in Nat /\ n \in Nat /\ n >= 4
      /\ \A j \in 1 .. n :
           p + j <= Len(g) => g[p + j] = CellOf(g[p + 1].id, n, j)
  <2>1. p \in Nat /\ Len(g) \in Nat
    BY DEF Boundary, Positions, Laid
  <2>2. n \in Nat /\ n >= 4
    BY NextRecord DEF ShortestRecord
  <2>3. \A j \in 1 .. n :
          p + j <= Len(g) => g[p + j] = CellOf(g[p + 1].id, n, j)
    BY NextRecord
  <2> QED
    BY <2>1, <2>2, <2>3
<1> HIDE DEF n
<1>2. ASSUME p + n <= Len(g) PROVE Boundary(g, p + n)
  <2>1. g[p + n] = CellOf(g[p + 1].id, n, n)
    BY <1>1, <1>2
  <2> QED
    BY <1>1, <1>2, <2>1 DEF Boundary, Positions, Whole, CellOf
<1>3. ASSUME NEW q, Boundary(g, q), q > p, q < p + n PROVE FALSE
  <2>1. q \in Nat /\ q <= Len(g) /\ Whole(g[q])
    BY <1>1, <1>3 DEF Boundary, Positions
  <2>2. q - p \in 1 .. n /\ p + (q - p) = q
    BY <1>1, <1>3, <2>1
  <2>3. g[q] = CellOf(g[p + 1].id, n, q - p)
    BY <1>1, <2>1, <2>2
  <2>4. q - p = n
    BY <2>1, <2>3 DEF Whole, CellOf
  <2> QED
    BY <1>1, <1>3, <2>1, <2>4
<1>4. \A q : Boundary(g, q) => q \in Nat
  BY DEF Boundary, Positions, Laid
<1> QED
  BY <1>1, <1>2, <1>3, <1>4 DEF n

-----------------------------------------------------------------------------
\* The checksum, cell by cell.
LEMMA Checksum ==
    ASSUME NEW c \in Seq(Cell), NEW p \in Positions(c), RecordAt(c, p)
    PROVE  \A j \in 1 .. Declared(c, p) :
             c[p + j] = CellOf(c[p + 1].id, Declared(c, p), j)
<1> DEFINE n == Declared(c, p)
<1>1. /\ n \in Nat /\ n >= 4 /\ p \in Nat /\ Len(c) \in Nat /\ p + n <= Len(c)
  BY RecordFits DEF Positions, ShortestRecord
<1>2. SubSeq(c, p + 1, p + n) = Encode(c[p + 1].id, n)
  BY DEF RecordAt, ChecksumHolds
<1> HIDE DEF n
<1>3. ASSUME NEW j \in 1 .. n
      PROVE  SubSeq(c, p + 1, p + n)[j] = c[p + j]
  <2>1. \A i \in p + 1 .. p + n : c[i] \in Cell
    BY <1>1, CellFields
  <2>2. p + 1 \in Int /\ p + n \in Int /\ j \in 1 .. (p + n) - (p + 1) + 1
        /\ (p + 1) + j - 1 = p + j
    BY <1>1
  <2>3. \A i \in 1 .. (p + n) - (p + 1) + 1 :
          SubSeq(c, p + 1, p + n)[i] = c[(p + 1) + i - 1]
    BY <2>1, <2>2, SubSeqProperties
  <2> QED
    BY <2>2, <2>3
<1>4. \A j \in 1 .. n : Encode(c[p + 1].id, n)[j] = CellOf(c[p + 1].id, n, j)
  BY DEF Encode, CellOf
<1>5. \A j \in 1 .. n : c[p + j] = CellOf(c[p + 1].id, n, j)
  BY <1>2, <1>3, <1>4
<1> QED
  BY <1>5 DEF n

\* And back: cells that fit make a record.
LEMMA RecordIf ==
    ASSUME NEW c \in Seq(Cell), NEW p \in Nat, NEW n \in Nat,
           n >= ShortestRecord, p + n <= Len(c), Declared(c, p) = n,
           \A j \in 1 .. n : c[p + j] = CellOf(c[p + 1].id, n, j)
    PROVE  RecordAt(c, p)
<1>1. /\ Len(c) \in Nat /\ n >= 4
  BY DEF ShortestRecord
<1>2. p < Len(c) /\ ~TailAt(c, p)
  BY <1>1 DEF TailAt, PrefixCut, PrefixCells, TooShort, PastTheEnd, ShortestRecord
<1>3. SubSeq(c, p + 1, p + n) = Encode(c[p + 1].id, n)
  <2>1. \A i \in p + 1 .. p + n : c[i] \in Cell
    BY <1>1, CellFields
  <2>2. /\ SubSeq(c, p + 1, p + n) \in Seq(Cell)
        /\ Len(SubSeq(c, p + 1, p + n)) = n
        /\ \A i \in 1 .. n : SubSeq(c, p + 1, p + n)[i] = c[p + i]
    <3>1. p + 1 \in Int /\ p + n \in Int /\ (p + n) - (p + 1) + 1 = n
          /\ \A i \in Int : (p + 1) + i - 1 = p + i
      BY <1>1
    <3>2. /\ SubSeq(c, p + 1, p + n) \in Seq(Cell)
          /\ Len(SubSeq(c, p + 1, p + n)) =
               IF p + 1 <= p + n THEN (p + n) - (p + 1) + 1 ELSE 0
          /\ \A i \in 1 .. (p + n) - (p + 1) + 1 :
               SubSeq(c, p + 1, p + n)[i] = c[(p + 1) + i - 1]
      BY <2>1, <3>1, SubSeqProperties
    <3>3. p + 1 <= p + n
      BY <1>1
    <3> QED
      BY <3>1, <3>2, <3>3
  <2>3. /\ Encode(c[p + 1].id, n) \in [1 .. n -> Cell]
        /\ \A i \in 1 .. n : Encode(c[p + 1].id, n)[i] = CellOf(c[p + 1].id, n, i)
    <3>1. c[p + 1].id \in Nat
      BY <1>1, CellFields
    <3> QED
      BY <3>1 DEF Encode, Cell, CellOf
  <2>4. Encode(c[p + 1].id, n) \in Seq(Cell) /\ Len(Encode(c[p + 1].id, n)) = n
    BY <2>3
  <2> QED
    BY <2>2, <2>3, <2>4, SeqEqual
<1> QED
  BY <1>2, <1>3 DEF RecordAt, ChecksumHolds

-----------------------------------------------------------------------------
\* What a scan is made of.
LEMMA ScanFacts ==
    ASSUME NEW c \in Seq(Cell)
    PROVE  /\ Len(Scan(c)) \in Nat /\ Len(Scan(c)) >= 1
           /\ Scan(c)[1] = 0
           /\ \A i \in 1 .. Len(Scan(c)) : Scan(c)[i] \in Positions(c)
           /\ \A i \in 1 .. Len(Scan(c)) - 1 :
                /\ RecordAt(c, Scan(c)[i])
                /\ Scan(c)[i + 1] = Scan(c)[i] + Declared(c, Scan(c)[i])
                /\ Scan(c)[i + 1] > Scan(c)[i]
           /\ ValidLen(c) \in Positions(c) /\ ~RecordAt(c, ValidLen(c))
<1> DEFINE S == Scan(c)
<1>1. IsScanFrom(c, 0, S)
  BY ScanIsScan
<1> HIDE DEF S
<1>2. /\ S \in Seq(Positions(c)) /\ Len(S) \in Nat /\ Len(S) >= 1 /\ S[1] = 0
      /\ \A i \in 1 .. Len(S) - 1 :
           RecordAt(c, S[i]) /\ S[i + 1] = S[i] + Declared(c, S[i])
      /\ ~RecordAt(c, S[Len(S)])
  BY <1>1 DEF IsScanFrom
<1>3. \A i \in 1 .. Len(S) : S[i] \in Positions(c)
  BY <1>2, ElementOfSeq
<1>4. \A i \in 1 .. Len(S) - 1 : S[i + 1] > S[i]
  <2>1. TAKE i \in 1 .. Len(S) - 1
  <2>2. S[i] \in Positions(c) /\ RecordAt(c, S[i])
    BY <1>2, <1>3
  <2>3. S[i] + Declared(c, S[i]) > S[i]
    BY <2>2, RecordFits
  <2> QED
    BY <1>2, <2>3
<1>5. ValidLen(c) = S[Len(S)]
  BY DEF ValidLen, S
<1> QED
  BY <1>2, <1>3, <1>4, <1>5 DEF S

\* The scan reaches every cell before its end within a record it accepts.
LEMMA ScanPasses ==
    ASSUME NEW c \in Seq(Cell), NEW x \in 1 .. ValidLen(c)
    PROVE  \E i \in 1 .. Len(Scan(c)) - 1 :
             Scan(c)[i] < x /\ x <= Scan(c)[i + 1]
<1> DEFINE S == Scan(c)
           T == {i \in 1 .. Len(S) : x <= S[i]}
<1>1. /\ Len(S) \in Nat /\ Len(S) >= 1 /\ S[1] = 0 /\ ValidLen(c) = S[Len(S)]
      /\ \A i \in 1 .. Len(S) : S[i] \in Nat
  BY ScanFacts DEF Positions, ValidLen
<1>2. x \in Nat /\ x >= 1 /\ x <= S[Len(S)]
  BY <1>1
<1> HIDE DEF S
<1>3. PICK i \in T : \A j \in T : i <= j
  <2>1. T \subseteq Nat /\ T # {}
    BY <1>1, <1>2
  <2> HIDE DEF T
  <2> QED
    BY <2>1, Least
<1>4. i # 1
  BY <1>1, <1>2, <1>3
<1>5. i - 1 \in 1 .. Len(S) - 1 /\ i - 1 \notin T
  BY <1>1, <1>3, <1>4
<1>6. S[i - 1] < x /\ x <= S[(i - 1) + 1]
  BY <1>1, <1>2, <1>3, <1>5
<1> QED
  BY <1>5, <1>6 DEF S

\* A record that the scan accepts at a boundary is the record that was
\* written there: a length that fits its checksum was not damaged.
LEMMA AcceptedRecord ==
    ASSUME NEW g, Laid(g), NEW c, Scarred(c, g), NEW p, Boundary(g, p),
           RecordAt(c, p)
    PROVE  /\ Boundary(g, p + Declared(c, p))
           /\ p < Len(g) /\ Declared(c, p) = g[p + 1].len
           /\ \A j \in 1 .. Declared(c, p) : c[p + j] = g[p + j]
<1> DEFINE n == Declared(c, p)
<1>1. c \in Seq(Cell) /\ Len(c) = Len(g) /\ Len(g) \in Nat /\ p \in Nat
      /\ p \in Positions(c)
  BY DEF Scarred, Laid, Boundary, Positions
<1>2. n \in Nat /\ n >= 4 /\ p + n <= Len(g) /\ p < Len(g)
  BY <1>1, RecordFits DEF Positions, ShortestRecord
<1>3. \A j \in 1 .. n : c[p + j] = CellOf(c[p + 1].id, n, j)
  BY <1>1, Checksum
<1>4. /\ g[p + 1].len \in Nat /\ g[p + 1].len >= 4
      /\ \A j \in 1 .. g[p + 1].len :
           p + j <= Len(g) => g[p + j] = CellOf(g[p + 1].id, g[p + 1].len, j)
  BY <1>2, NextRecord DEF ShortestRecord
<1> HIDE DEF n
<1>5. n = g[p + 1].len
  <2>1. c[p + 2].len = n
    <3>1. 2 \in 1 .. n
      BY <1>2
    <3>2. c[p + 2] = CellOf(c[p + 1].id, n, 2)
      BY <1>3, <3>1
    <3> QED
      BY <3>2 DEF CellOf
  <2>2. g[p + 2].len = g[p + 1].len /\ g[p + 2].at = 2
    <3>1. 2 \in 1 .. g[p + 1].len /\ p + 2 <= Len(g)
      BY <1>1, <1>2, <1>4
    <3>2. g[p + 2] = CellOf(g[p + 1].id, g[p + 1].len, 2)
      BY <1>4, <3>1
    <3> QED
      BY <3>2 DEF CellOf
  <2>3. p + 2 \in 1 .. Len(g)
    BY <1>1, <1>2
  <2> QED
    BY <2>1, <2>2, <2>3 DEF Scarred
<1>6. c[p + 1].id = g[p + 1].id
  BY <1>1, <1>2 DEF Scarred
<1>7. \A j \in 1 .. n : c[p + j] = g[p + j]
  BY <1>1, <1>2, <1>3, <1>4, <1>5, <1>6
<1>8. Boundary(g, p + n)
  BY <1>2, <1>5, NextBoundary
<1> QED
  BY <1>2, <1>5, <1>7, <1>8 DEF n

\* So the scan stops only at boundaries, and what it has passed is as it was
\* written.
LEMMA ScanKeepsToRecords ==
    ASSUME NEW g, Laid(g), NEW c, Scarred(c, g)
    PROVE  \A i \in 1 .. Len(Scan(c)) :
             /\ Boundary(g, Scan(c)[i])
             /\ \A x \in 1 .. Scan(c)[i] : c[x] = g[x]
<1> DEFINE S == Scan(c)
           T == {i \in 1 .. Len(S) :
                   Boundary(g, S[i]) /\ \A x \in 1 .. S[i] : c[x] = g[x]}
<1>1. /\ c \in Seq(Cell)
      /\ Len(S) \in Nat /\ Len(S) >= 1 /\ S[1] = 0
      /\ \A i \in 1 .. Len(S) : S[i] \in Positions(c)
      /\ \A i \in 1 .. Len(S) - 1 :
           RecordAt(c, S[i]) /\ S[i + 1] = S[i] + Declared(c, S[i])
  BY ScanFacts DEF Scarred
<1> HIDE DEF S
<1>2. 1 \in T
  BY <1>1 DEF Boundary, Positions, Laid
<1>3. ASSUME NEW i \in 1 .. Len(S) - 1, i \in T PROVE i + 1 \in T
  <2>1. /\ Boundary(g, S[i + 1]) /\ S[i + 1] = S[i] + Declared(c, S[i])
        /\ \A j \in 1 .. Declared(c, S[i]) : c[S[i] + j] = g[S[i] + j]
    BY <1>1, <1>3, AcceptedRecord
  <2>2. S[i] \in Nat /\ S[i + 1] \in Nat /\ i + 1 \in 1 .. Len(S)
    BY <1>1, <1>3 DEF Positions
  <2>3. ASSUME NEW x \in 1 .. S[i + 1] PROVE c[x] = g[x]
    <3>1. CASE x <= S[i]
      BY <1>3, <2>2, <3>1
    <3>2. CASE x > S[i]
      <4>1. S[i] \in Positions(c) /\ RecordAt(c, S[i])
        BY <1>1
      <4>2. Declared(c, S[i]) \in Nat
        BY <1>1, <4>1, RecordFits
      <4>3. x - S[i] \in 1 .. Declared(c, S[i]) /\ S[i] + (x - S[i]) = x
        BY <2>1, <2>2, <3>2, <4>2
      <4> QED
        BY <2>1, <4>3
    <3> QED
      BY <2>2, <3>1, <3>2
  <2> QED
    BY <2>1, <2>2, <2>3
<1>4. 1 .. Len(S) \subseteq T
  <2> HIDE DEF T
  <2> QED
    BY <1>1, <1>2, <1>3, UpTo
<1> QED
  BY <1>4 DEF S

-----------------------------------------------------------------------------
\* A log that was written down whole has its last cells' record complete.
Holds(g, a) == \E i \in 1 .. Len(g) : g[i].id = a /\ Whole(g[i])

\* A complete record that the scan passes is one that it returns.
LEMMA PassedIsFound ==
    ASSUME NEW g, Laid(g), NEW c, Scarred(c, g), NEW x \in 1 .. ValidLen(c),
           Whole(g[x])
    PROVE  g[x].id \in RecordSet(c)
<1> DEFINE S == Scan(c)
<1>1. c \in Seq(Cell) /\ Len(c) = Len(g) /\ Len(g) \in Nat
  BY DEF Scarred, Laid
<1>2. PICK i \in 1 .. Len(S) - 1 : S[i] < x /\ x <= S[i + 1]
  BY <1>1, ScanPasses
<1>3. /\ RecordAt(c, S[i]) /\ S[i + 1] = S[i] + Declared(c, S[i])
      /\ Len(S) \in Nat /\ S[i] \in Positions(c) /\ S[i + 1] \in Positions(c)
  BY <1>1, ScanFacts
<1>4. Boundary(g, S[i])
  BY <1>3, ScanKeepsToRecords
<1>5. /\ S[i] < Len(g) /\ Declared(c, S[i]) = g[S[i] + 1].len
      /\ g[S[i] + 1].len \in Nat /\ g[S[i] + 1].len >= 4
  BY <1>3, <1>4, AcceptedRecord, NextRecord DEF ShortestRecord
<1> HIDE DEF S
<1>6. x = S[i] + g[S[i] + 1].len
  <2>1. Boundary(g, x)
    BY <1>1, <1>2, <1>3 DEF Boundary, Positions
  <2>2. x >= S[i] + g[S[i] + 1].len
    BY <1>2, <1>4, <1>5, <2>1, NextBoundary
  <2> QED
    BY <1>1, <1>2, <1>3, <1>5, <2>2 DEF Positions
<1>7. g[x].id = c[S[i] + 1].id
  <2>1. g[S[i] + g[S[i] + 1].len] =
          CellOf(g[S[i] + 1].id, g[S[i] + 1].len, g[S[i] + 1].len)
    <3>1. g[S[i] + 1].len \in 1 .. g[S[i] + 1].len
      BY <1>5
    <3>2. x <= Len(g)
      BY <1>2, <1>3, <1>6, <1>5, <1>1 DEF Positions
    <3> QED
      BY <1>4, <1>5, <1>6, <3>1, <3>2, NextRecord
  <2>2. g[S[i] + 1].id = c[S[i] + 1].id
    <3>1. S[i] + 1 \in 1 .. Len(g)
      BY <1>1, <1>3, <1>5 DEF Positions
    <3> QED
      BY <3>1 DEF Scarred
  <2> QED
    BY <1>6, <2>1, <2>2 DEF CellOf
<1>8. i \in DOMAIN Records(c) /\ Records(c)[i] = c[S[i] + 1].id
  BY DEF Records, S
<1> QED
  BY <1>7, <1>8 DEF RecordSet

\* Where the scan ends, if not at the end of the log, the record that should
\* follow is cut or has a damaged length, or the log is refused.
LEMMA ScanEndsAtTail ==
    ASSUME NEW g, Laid(g), NEW c, Scarred(c, g),
           ~Refused(c), ValidLen(c) < Len(c)
    PROVE  /\ TailAt(c, ValidLen(c))
           /\ Boundary(g, ValidLen(c))
           /\ \/ ValidLen(c) + g[ValidLen(c) + 1].len > Len(c)
              \/ LengthDamagedAt(c, ValidLen(c) + 1)
<1> DEFINE p == ValidLen(c)
<1>1. c \in Seq(Cell) /\ Len(c) = Len(g) /\ Len(g) \in Nat
  BY DEF Scarred, Laid
<1>2. p \in Nat /\ p < Len(g) /\ ~RecordAt(c, p) /\ p = Scan(c)[Len(Scan(c))]
  BY <1>1, ScanFacts DEF ValidLen, Positions
<1>3. Boundary(g, p)
  BY <1>1, <1>2, ScanFacts, ScanKeepsToRecords
<1>4. TailAt(c, p)
  BY <1>1, <1>2 DEF Refused, CorruptAt, RecordAt
<1> HIDE DEF p
<1>5. /\ g[p + 1].at = 1 /\ g[p + 1].len \in Nat /\ g[p + 1].len >= 4
      /\ \A j \in 1 .. g[p + 1].len :
           p + j <= Len(g) => g[p + j] = CellOf(g[p + 1].id, g[p + 1].len, j)
  BY <1>2, <1>3, NextRecord DEF ShortestRecord
<1>6. ASSUME p + g[p + 1].len <= Len(c)
      PROVE  LengthDamagedAt(c, p + 1)
  <2>1. p + 1 \in 1 .. Len(g) /\ p + 2 \in 1 .. Len(g) /\ 2 \in 1 .. g[p + 1].len
    BY <1>1, <1>2, <1>5, <1>6
  <2>2. g[p + 2] = CellOf(g[p + 1].id, g[p + 1].len, 2)
    BY <1>5, <2>1
  <2>3. /\ g[p + 2].id = g[p + 1].id /\ g[p + 2].len = g[p + 1].len
        /\ g[p + 2].at = 2
    BY <2>2 DEF CellOf
  <2>4. c[p + 1].id = c[p + 2].id /\ c[p + 2].len = g[p + 1].len
    BY <2>1, <2>3 DEF Scarred
  <2>5. c[p + 1].at = 1
    BY <1>5, <2>1 DEF Scarred, PrefixCells
  <2>6. c[p + 1].len # g[p + 1].len
    <3>1. SUFFICES ASSUME c[p + 1].len = g[p + 1].len PROVE FALSE
      OBVIOUS
    <3>2. ~PrefixCut(c, p) /\ ~TooShort(c, p) /\ ~PastTheEnd(c, p)
      BY <1>1, <1>2, <1>5, <1>6, <3>1
         DEF PrefixCut, PrefixCells, TooShort, PastTheEnd, Declared, ShortestRecord
    <3> QED
      BY <1>4, <3>2 DEF TailAt
  <2>7. (p + 1) + 1 = p + 2 /\ p + 2 \in DOMAIN c
    BY <1>1, <1>2, <2>1
  <2> QED
    BY <2>4, <2>5, <2>6, <2>7 DEF LengthDamagedAt
<1>7. p + g[p + 1].len > Len(c) \/ LengthDamagedAt(c, p + 1)
  BY <1>1, <1>2, <1>5, <1>6
<1> QED
  BY <1>3, <1>4, <1>7 DEF p

\* A complete record that the scan does not pass is behind a damaged length.
LEMMA MissedIsBehind ==
    ASSUME NEW g, Laid(g), NEW c, Scarred(c, g), ~Refused(c),
           NEW x \in 1 .. Len(g), Whole(g[x]), x > ValidLen(c)
    PROVE  g[x].id \in BehindDamagedLength(c)
<1> DEFINE p == ValidLen(c)
<1>1. /\ c \in Seq(Cell) /\ Len(c) = Len(g) /\ Len(g) \in Nat /\ p \in Nat
      /\ p < Len(c) /\ x \in DOMAIN c
  <2>1. c \in Seq(Cell) /\ Len(c) = Len(g) /\ Len(g) \in Nat
    BY DEF Scarred, Laid
  <2>2. p \in Nat
    BY <2>1, ScanFacts DEF Positions
  <2> QED
    BY <2>1, <2>2
<1>2. /\ Boundary(g, p)
      /\ p + g[p + 1].len > Len(c) \/ LengthDamagedAt(c, p + 1)
  BY <1>1, ScanEndsAtTail
<1> HIDE DEF p
<1>3. Boundary(g, x)
  BY <1>1 DEF Boundary, Positions
<1>4. x >= p + g[p + 1].len /\ g[p + 1].len \in Nat
  BY <1>1, <1>2, <1>3, NextBoundary, NextRecord DEF p
<1>5. LengthDamagedAt(c, p + 1)
  BY <1>1, <1>2, <1>4
<1>6. p + 1 \in 1 .. x
  BY <1>1 DEF p
<1>7. c[x].id = g[x].id
  BY DEF Scarred
<1> QED
  BY <1>1, <1>5, <1>6, <1>7 DEF BehindDamagedLength

\* So a record that was written whole is found, unless it is behind a damaged
\* length or the log is refused.
LEMMA Survives ==
    ASSUME NEW g, Laid(g), NEW c, Scarred(c, g), ~Refused(c),
           NEW a, Holds(g, a), a \notin BehindDamagedLength(c)
    PROVE  a \in RecordSet(c)
<1>1. PICK x \in 1 .. Len(g) : g[x].id = a /\ Whole(g[x])
  BY DEF Holds
<1>2. ValidLen(c) \in Nat /\ Len(g) \in Nat
  BY ScanFacts DEF Scarred, Positions, Laid
<1>3. x <= ValidLen(c)
  BY <1>1, <1>2, MissedIsBehind
<1>4. x \in 1 .. ValidLen(c)
  BY <1>2, <1>3
<1> QED
  BY <1>1, <1>4, PassedIsFound

-----------------------------------------------------------------------------
\* A log that nothing damaged.
LEMMA Unscarred ==
    ASSUME NEW g, Laid(g)
    PROVE  /\ g \in Seq(Cell) /\ Scarred(g, g)
           /\ \A i \in DOMAIN g : ~LengthDamagedAt(g, i)
           /\ BehindDamagedLength(g) = {}
           /\ ~Refused(g)
<1>1. g \in Seq(Cell) /\ Len(g) \in Nat /\ Scarred(g, g) /\ DOMAIN g = 1 .. Len(g)
  BY DEF Laid, Scarred
<1>2. ASSUME NEW i \in DOMAIN g, LengthDamagedAt(g, i) PROVE FALSE
  <2>1. /\ i \in 1 .. Len(g) /\ i + 1 \in 1 .. Len(g) /\ g[i].at = 1
        /\ g[i].len # g[i + 1].len
    BY <1>1, <1>2 DEF LengthDamagedAt
  <2>2. InPlace(g, i) /\ g[i].len \in Nat
    BY <2>1, CellFields DEF Laid
  <2>3. 2 \in 1 .. g[i].len /\ i - g[i].at + 2 = i + 1 /\ i + 1 <= Len(g)
    BY <1>1, <2>1, <2>2 DEF InPlace, ShortestRecord
  <2>4. g[i - g[i].at + 2] = CellOf(g[i].id, g[i].len, 2)
    BY <2>2, <2>3 DEF InPlace
  <2>5. g[i + 1] = CellOf(g[i].id, g[i].len, 2)
    BY <2>3, <2>4
  <2> QED
    BY <2>1, <2>5 DEF CellOf
<1>3. BehindDamagedLength(g) = {}
  <2>1. \A k \in DOMAIN g : \A i \in 1 .. k : ~LengthDamagedAt(g, i)
    BY <1>1, <1>2
  <2> QED
    BY <2>1 DEF BehindDamagedLength
<1>4. ASSUME Refused(g) PROVE FALSE
  <2> DEFINE p == ValidLen(g)
             n == g[p + 1].len
  <2>1. p \in Nat /\ p < Len(g) /\ ~TailAt(g, p) /\ ~RecordAt(g, p)
    BY <1>1, <1>4, ScanFacts DEF Refused, CorruptAt, Positions
  <2>2. Boundary(g, p)
    BY <1>1, ScanFacts, ScanKeepsToRecords DEF ValidLen
  <2> HIDE DEF p
  <2>3. /\ n \in Nat /\ n >= ShortestRecord
        /\ \A j \in 1 .. n : p + j <= Len(g) => g[p + j] = CellOf(g[p + 1].id, n, j)
    BY <2>1, <2>2, NextRecord
  <2>4. Declared(g, p) = n
    BY DEF Declared
  <2> HIDE DEF n
  <2>5. CASE p + n <= Len(g)
    <3>1. \A j \in 1 .. n : g[p + j] = CellOf(g[p + 1].id, n, j)
      BY <1>1, <2>1, <2>3, <2>5
    <3>2. RecordAt(g, p)
      BY <1>1, <2>1, <2>3, <2>4, <2>5, <3>1, RecordIf
    <3> QED
      BY <2>1, <3>2
  <2>6. CASE p + n > Len(g)
    BY <2>1, <2>4, <2>6 DEF TailAt, PastTheEnd
  <2> QED
    BY <1>1, <2>1, <2>3, <2>5, <2>6
<1> QED
  BY <1>1, <1>2, <1>3, <1>4

-----------------------------------------------------------------------------
\* s is the start of t, cell by cell.
Starts(s, t) == Len(s) <= Len(t) /\ \A i \in 1 .. Len(s) : s[i] = t[i]

\* The start of a log as it was written is one too.
LEMMA StartIsLaid ==
    ASSUME NEW g, Laid(g), NEW s \in Seq(Cell), Starts(s, g)
    PROVE  Laid(s)
<1>1. /\ Len(s) \in Nat /\ Len(g) \in Nat /\ Len(s) <= Len(g)
      /\ \A i \in 1 .. Len(s) : i \in 1 .. Len(g) /\ s[i] = g[i]
  BY DEF Starts, Laid
<1>2. ASSUME NEW i \in 1 .. Len(s) PROVE InPlace(s, i)
  <2>1. InPlace(g, i) /\ s[i] = g[i]
    BY <1>1 DEF Laid
  <2>2. s[i].len \in Nat /\ s[i].at \in Nat
    BY CellFields
  <2>3. ASSUME NEW j \in 1 .. s[i].len, i - s[i].at + j <= Len(s)
        PROVE  s[i - s[i].at + j] = CellOf(s[i].id, s[i].len, j)
    <3>1. i - s[i].at + j \in 1 .. Len(s)
      BY <1>1, <2>1, <2>2, <2>3 DEF InPlace
    <3>2. g[i - g[i].at + j] = CellOf(g[i].id, g[i].len, j)
      BY <1>1, <2>1, <2>2, <2>3 DEF InPlace
    <3> QED
      BY <1>1, <2>1, <3>1, <3>2
  <2> QED
    BY <2>1, <2>3 DEF InPlace
<1>3. ASSUME NEW i \in 1 .. Len(s), NEW j \in 1 .. Len(s), i < j
      PROVE  InOrder(s, i, j)
  BY <1>1, <1>3 DEF Laid, InOrder
<1> QED
  BY <1>2, <1>3 DEF Laid

\* The first n cells.
LEMMA Cut ==
    ASSUME NEW s \in Seq(Cell), NEW n \in 0 .. Len(s)
    PROVE  /\ SubSeq(s, 1, n) \in Seq(Cell) /\ Len(SubSeq(s, 1, n)) = n
           /\ \A i \in 1 .. n : SubSeq(s, 1, n)[i] = s[i]
           /\ Starts(SubSeq(s, 1, n), s)
<1>1. Len(s) \in Nat /\ n \in Nat /\ n <= Len(s) /\ n - 1 + 1 = n
  OBVIOUS
<1>2. \A i \in 1 .. n : s[i] \in Cell
  BY <1>1, ElementOfSeq
<1>3. /\ SubSeq(s, 1, n) \in Seq(Cell)
      /\ Len(SubSeq(s, 1, n)) = IF 1 <= n THEN n - 1 + 1 ELSE 0
      /\ \A i \in 1 .. n - 1 + 1 : SubSeq(s, 1, n)[i] = s[1 + i - 1]
  BY <1>1, <1>2, SubSeqProperties
<1>4. Len(SubSeq(s, 1, n)) = n
  BY <1>1, <1>3
<1>5. \A i \in 1 .. n : SubSeq(s, 1, n)[i] = s[i]
  BY <1>1, <1>3
<1> QED
  BY <1>1, <1>3, <1>4, <1>5 DEF Starts

\* What recovery keeps of a damaged log is as it was written, ends with a
\* whole record, and has every record that is not behind a damaged length.
LEMMA RecoveryKeeps ==
    ASSUME NEW g, Laid(g), NEW c, Scarred(c, g), ~Refused(c)
    PROVE  LET kept == SubSeq(c, 1, ValidLen(c))
           IN  /\ kept \in Seq(Cell) /\ Laid(kept) /\ Starts(kept, g)
               /\ kept # <<>> => Whole(kept[Len(kept)])
               /\ \A a : Holds(g, a) /\ a \notin BehindDamagedLength(c)
                           => Holds(kept, a)
<1> DEFINE p == ValidLen(c)
           kept == SubSeq(c, 1, p)
<1>1. c \in Seq(Cell) /\ Len(c) = Len(g) /\ Len(g) \in Nat
  BY DEF Scarred, Laid
<1>2. p \in 0 .. Len(c) /\ Boundary(g, p) /\ \A x \in 1 .. p : c[x] = g[x]
  BY <1>1, ScanFacts, ScanKeepsToRecords DEF ValidLen, Positions
<1>3. ASSUME NEW x \in 1 .. Len(g), Whole(g[x]), x > p
      PROVE  g[x].id \in BehindDamagedLength(c)
  BY <1>3, MissedIsBehind
<1> HIDE DEF p
<1>4. /\ kept \in Seq(Cell) /\ Len(kept) = p
      /\ \A i \in 1 .. p : kept[i] = c[i]
  BY <1>1, <1>2, Cut
<1> HIDE DEF kept
<1>5. \A i \in 1 .. p : kept[i] = g[i]
  BY <1>2, <1>4
<1>6. Starts(kept, g)
  BY <1>1, <1>2, <1>4, <1>5 DEF Starts
<1>7. Laid(kept)
  BY <1>4, <1>6, StartIsLaid
<1>8. kept # <<>> => Whole(kept[Len(kept)])
  <2>1. kept # <<>> => p > 0
    BY <1>2, <1>4
  <2> QED
    BY <1>2, <1>4, <1>5, <2>1 DEF Boundary
<1>9. ASSUME NEW a, Holds(g, a), a \notin BehindDamagedLength(c)
      PROVE  Holds(kept, a)
  <2>1. PICK x \in 1 .. Len(g) : g[x].id = a /\ Whole(g[x])
    BY <1>9 DEF Holds
  <2>2. x \in 1 .. p
    BY <1>1, <1>2, <1>3, <1>9, <2>1
  <2>3. kept[x].id = a /\ Whole(kept[x])
    BY <1>5, <2>1, <2>2
  <2> QED
    BY <1>4, <2>2, <2>3 DEF Holds
<1> QED
  BY <1>4, <1>6, <1>7, <1>8, <1>9 DEF p, kept

-----------------------------------------------------------------------------
\* A scan goes forward.
LEMMA ScanForward ==
    ASSUME NEW c \in Seq(Cell), NEW i \in 1 .. Len(Scan(c))
    PROVE  \A j \in 1 .. Len(Scan(c)) :
             /\ i < j => Scan(c)[i] < Scan(c)[j]
             /\ i <= j => Scan(c)[i] <= Scan(c)[j]
<1> DEFINE S == Scan(c)
           T == {j \in 1 .. Len(S) : i < j => S[i] < S[j]}
<1>1. /\ Len(S) \in Nat /\ Len(S) >= 1
      /\ \A j \in 1 .. Len(S) : S[j] \in Nat
      /\ \A j \in 1 .. Len(S) - 1 : S[j + 1] > S[j]
  BY ScanFacts DEF Positions
<1> HIDE DEF S
<1>2. i \in 1 .. Len(S)
  BY DEF S
<1>3. 1 \in T
  BY <1>1, <1>2
<1>4. ASSUME NEW j \in 1 .. Len(S) - 1, j \in T PROVE j + 1 \in T
  <2>1. j \in 1 .. Len(S) /\ j + 1 \in 1 .. Len(S) /\ S[j + 1] > S[j]
        /\ S[j] \in Nat /\ S[j + 1] \in Nat /\ S[i] \in Nat
    BY <1>1, <1>2
  <2> QED
    BY <1>2, <1>4, <2>1
<1>5. 1 .. Len(S) \subseteq T
  <2> HIDE DEF T
  <2> QED
    BY <1>1, <1>3, <1>4, UpTo
<1>6. \A j \in 1 .. Len(S) : i <= j => i = j \/ i < j
  BY <1>2
<1>7. ASSUME NEW j \in 1 .. Len(S), i <= j PROVE S[i] <= S[j]
  <2>1. S[i] \in Nat /\ S[j] \in Nat /\ (i = j \/ S[i] < S[j])
    BY <1>1, <1>2, <1>5, <1>6, <1>7
  <2> HIDE DEF T
  <2> QED
    BY <2>1
<1> QED
  BY <1>5, <1>7 DEF S

\* The records of a log, one for each position of its scan but the last.
LEMMA RecordFacts ==
    ASSUME NEW c \in Seq(Cell)
    PROVE  /\ Records(c) \in Seq(Nat) /\ Len(Records(c)) = Len(Scan(c)) - 1
           /\ DOMAIN Records(c) = 1 .. Len(Scan(c)) - 1
           /\ \A i \in 1 .. Len(Scan(c)) - 1 :
                /\ Records(c)[i] = c[Scan(c)[i] + 1].id
                /\ Scan(c)[i] + 1 \in 1 .. Len(c)
<1>1. /\ Len(Scan(c)) \in Nat /\ Len(Scan(c)) >= 1
      /\ \A i \in 1 .. Len(Scan(c)) - 1 :
           RecordAt(c, Scan(c)[i]) /\ Scan(c)[i] \in Positions(c)
  BY ScanFacts
<1>2. \A i \in 1 .. Len(Scan(c)) - 1 : Scan(c)[i] + 1 \in 1 .. Len(c)
  <2>1. TAKE i \in 1 .. Len(Scan(c)) - 1
  <2>2. Scan(c)[i] < Len(c) /\ Scan(c)[i] \in Nat /\ Len(c) \in Nat
    BY <1>1, RecordFits DEF Positions
  <2> QED
    BY <2>2
<1>3. \A i \in 1 .. Len(Scan(c)) - 1 : c[Scan(c)[i] + 1].id \in Nat
  BY <1>2, CellFields
<1>4. Len(Scan(c)) - 1 \in Nat
  BY <1>1
<1>5. /\ Records(c) \in [1 .. Len(Scan(c)) - 1 -> Nat]
      /\ \A i \in 1 .. Len(Scan(c)) - 1 : Records(c)[i] = c[Scan(c)[i] + 1].id
  BY <1>3 DEF Records
<1> DEFINE r == Records(c)
           n == Len(Scan(c)) - 1
<1>6. r \in Seq(Nat) /\ Len(r) = n /\ DOMAIN r = 1 .. n
  <2>1. n \in Nat /\ r \in [1 .. n -> Nat]
    BY <1>4, <1>5
  <2> HIDE DEF n, r
  <2> QED
    BY <2>1
<1> QED
  BY <1>2, <1>5, <1>6

\* Ids grow from each record of a scan to the later ones.
LEMMA RecordsIncrease ==
    ASSUME NEW g, Laid(g), NEW c, Scarred(c, g),
           NEW i \in DOMAIN Records(c), NEW j \in DOMAIN Records(c), i < j
    PROVE  Records(c)[i] < Records(c)[j]
<1> DEFINE S == Scan(c)
<1>1. /\ c \in Seq(Cell) /\ Len(c) = Len(g) /\ Len(g) \in Nat /\ Len(S) \in Nat
      /\ i \in 1 .. Len(S) - 1 /\ j \in 1 .. Len(S) - 1
      /\ Records(c)[i] = c[S[i] + 1].id /\ Records(c)[j] = c[S[j] + 1].id
      /\ S[j] + 1 \in 1 .. Len(c) /\ S[i] + 1 \in 1 .. Len(c)
  <2>1. c \in Seq(Cell) /\ Len(c) = Len(g) /\ Len(g) \in Nat
    BY DEF Scarred, Laid
  <2> QED
    BY <2>1, RecordFacts, ScanFacts
<1>2. /\ S[i] \in Nat /\ S[i + 1] \in Nat /\ S[j] \in Nat
      /\ S[i] < S[i + 1] /\ S[i + 1] <= S[j]
      /\ RecordAt(c, S[i]) /\ S[i + 1] = S[i] + Declared(c, S[i])
      /\ S[i + 1] \in Positions(c)
  <2>1. i + 1 \in 1 .. Len(S) /\ (i + 1 = j \/ i + 1 < j) /\ j \in 1 .. Len(S)
    BY <1>1
  <2>2. S[i + 1] <= S[j]
    <3>1. i + 1 <= j
      BY <1>1
    <3> QED
      BY <1>1, <2>1, <3>1, ScanForward
  <2> QED
    <3>1. /\ \A k \in 1 .. Len(S) : S[k] \in Nat
          /\ \A k \in 1 .. Len(S) - 1 :
               /\ RecordAt(c, S[k]) /\ S[k + 1] = S[k] + Declared(c, S[k])
               /\ S[k + 1] > S[k] /\ S[k + 1] \in Positions(c)
      BY <1>1, ScanFacts DEF Positions
    <3> HIDE DEF S
    <3>2. /\ S[i] \in Nat /\ S[i + 1] \in Nat /\ S[j] \in Nat
      BY <1>1, <2>1, <3>1
    <3>3. /\ RecordAt(c, S[i]) /\ S[i + 1] = S[i] + Declared(c, S[i])
          /\ S[i + 1] > S[i] /\ S[i + 1] \in Positions(c)
      BY <1>1, <3>1
    <3> QED
      BY <2>2, <3>2, <3>3
<1>3. Boundary(g, S[i]) /\ Boundary(g, S[i + 1])
  BY <1>1, ScanKeepsToRecords
<1>4. /\ S[i] < Len(g) /\ Declared(c, S[i]) = g[S[i] + 1].len
      /\ g[S[i] + 1].len \in Nat /\ g[S[i] + 1].len >= 4
      /\ \A x \in 1 .. g[S[i] + 1].len :
           S[i] + x <= Len(g) =>
             g[S[i] + x] = CellOf(g[S[i] + 1].id, g[S[i] + 1].len, x)
  <2>1. S[i] < Len(g) /\ Declared(c, S[i]) = g[S[i] + 1].len
    BY <1>2, <1>3, AcceptedRecord
  <2> QED
    BY <1>3, <2>1, NextRecord DEF ShortestRecord
<1> HIDE DEF S
<1>5. g[S[i + 1]].id = g[S[i] + 1].id
  <2>1. g[S[i] + 1].len \in 1 .. g[S[i] + 1].len /\ S[i + 1] <= Len(g)
    <3>1. S[i + 1] <= Len(c)
      BY <1>1, <1>2 DEF Positions
    <3> QED
      BY <1>1, <1>4, <3>1
  <2>2. g[S[i + 1]] = CellOf(g[S[i] + 1].id, g[S[i] + 1].len, g[S[i] + 1].len)
    BY <1>2, <1>4, <2>1
  <2> QED
    BY <2>2 DEF CellOf
<1>6. g[S[i + 1]].id < g[S[j] + 1].id
  <2>1. S[i + 1] \in 1 .. Len(g) /\ S[j] + 1 \in 1 .. Len(g) /\ S[i + 1] < S[j] + 1
    <3>1. S[i + 1] <= Len(g)
      BY <1>1, <1>2 DEF Positions
    <3>2. S[i + 1] >= 1 /\ S[i + 1] < S[j] + 1
      BY <1>2
    <3> QED
      BY <1>1, <1>2, <3>1, <3>2
  <2>2. Whole(g[S[i + 1]])
    BY <1>2, <1>3 DEF Boundary
  <2> QED
    BY <2>1, <2>2 DEF Laid, InOrder
<1>7. c[S[i] + 1].id = g[S[i] + 1].id /\ c[S[j] + 1].id = g[S[j] + 1].id
  BY <1>1 DEF Scarred
<1> QED
  BY <1>1, <1>5, <1>6, <1>7

\* Two scans of which one is the start of the other.
LEMMA RecordsStartIf ==
    ASSUME NEW c \in Seq(Cell), NEW d \in Seq(Cell),
           Len(Scan(c)) <= Len(Scan(d)),
           \A i \in 1 .. Len(Scan(c)) - 1 :
             c[Scan(c)[i] + 1].id = d[Scan(d)[i] + 1].id
    PROVE  IsStartOf(Records(c), Records(d))
<1>1. /\ Records(c) \in Seq(Nat) /\ Len(Records(c)) = Len(Scan(c)) - 1
      /\ Records(d) \in Seq(Nat) /\ Len(Records(d)) = Len(Scan(d)) - 1
      /\ \A i \in 1 .. Len(Scan(c)) - 1 : Records(c)[i] = c[Scan(c)[i] + 1].id
      /\ \A i \in 1 .. Len(Scan(d)) - 1 : Records(d)[i] = d[Scan(d)[i] + 1].id
      /\ Len(Scan(c)) \in Nat /\ Len(Scan(d)) \in Nat /\ Len(Scan(c)) >= 1
  BY RecordFacts, ScanFacts
<1> DEFINE n == Len(Records(c))
           start == SubSeq(Records(d), 1, n)
<1>2. n \in Nat /\ n <= Len(Records(d)) /\ n - 1 + 1 = n
  BY <1>1
<1>3. /\ start \in Seq(Nat) /\ Len(start) = n
      /\ \A i \in 1 .. n : start[i] = Records(d)[i]
  <2>1. ASSUME NEW i \in 1 .. n PROVE Records(d)[i] \in Nat
    <3>1. Records(d) \in Seq(Nat) /\ Len(Records(d)) \in Nat
      BY <1>1
    <3> HIDE DEF n
    <3>2. i \in 1 .. Len(Records(d))
      BY <1>2, <3>1
    <3> QED
      BY <3>1, <3>2, ElementOfSeq
  <2>2. /\ start \in Seq(Nat)
        /\ Len(start) = IF 1 <= n THEN n - 1 + 1 ELSE 0
        /\ \A i \in 1 .. n - 1 + 1 : start[i] = Records(d)[1 + i - 1]
    BY <1>2, <2>1, SubSeqProperties
  <2> HIDE DEF start, n
  <2>3. Len(start) = n
    BY <1>2, <2>2
  <2>4. \A i \in 1 .. n : start[i] = Records(d)[i]
    BY <1>2, <2>2
  <2> QED
    BY <2>2, <2>3, <2>4
<1>4. \A i \in 1 .. n : start[i] = Records(c)[i]
  BY <1>1, <1>3
<1> HIDE DEF start
<1>5. start = Records(c)
  BY <1>1, <1>3, <1>4, SeqEqual
<1> QED
  BY <1>2, <1>5 DEF IsStartOf, start

\* A record stays one in every log that has the same cells in its place.
LEMMA RecordStays ==
    ASSUME NEW c \in Seq(Cell), NEW d \in Seq(Cell), NEW p \in Positions(c),
           RecordAt(c, p), p + Declared(c, p) <= Len(d),
           \A i \in 1 .. p + Declared(c, p) : c[i] = d[i]
    PROVE  RecordAt(d, p) /\ Declared(d, p) = Declared(c, p)
<1> DEFINE n == Declared(c, p)
<1>1. /\ n \in Nat /\ n >= ShortestRecord /\ n >= 4 /\ p \in Nat
  BY RecordFits DEF Positions, ShortestRecord
<1>2. \A j \in 1 .. n : c[p + j] = CellOf(c[p + 1].id, n, j)
  BY Checksum
<1>3. \A j \in 1 .. n : d[p + j] = c[p + j]
  <2>1. \A j \in 1 .. n : p + j \in 1 .. p + n
    <3> HIDE DEF n
    <3> QED
      BY <1>1
  <2> QED
    BY <2>1
<1>4. d[p + 1] = c[p + 1]
  <2> HIDE DEF n
  <2> QED
    BY <1>1, <1>3
<1>5. Declared(d, p) = n
  BY <1>4 DEF Declared
<1> HIDE DEF n
<1>6. \A j \in 1 .. n : d[p + j] = CellOf(d[p + 1].id, n, j)
  BY <1>2, <1>3, <1>4
<1>7. RecordAt(d, p)
  BY <1>1, <1>5, <1>6, RecordIf DEF n
<1> QED
  BY <1>5, <1>7 DEF n

\* A log that goes on with other cells keeps its records.
LEMMA LongerLog ==
    ASSUME NEW c \in Seq(Cell), NEW d \in Seq(Cell), Starts(c, d)
    PROVE  /\ IsStartOf(Records(c), Records(d))
           /\ \A i \in 1 .. Len(Scan(c)) :
                i <= Len(Scan(d)) /\ Scan(c)[i] = Scan(d)[i]
<1>1. ASSUME NEW q \in Positions(c), RecordAt(c, q)
      PROVE  RecordAt(d, q) /\ Declared(d, q) = Declared(c, q)
  <2>1. q + Declared(c, q) \in Nat /\ q + Declared(c, q) <= Len(c)
        /\ Len(c) \in Nat /\ Len(d) \in Nat /\ Len(c) <= Len(d)
    BY <1>1, RecordFits DEF Positions, Starts
  <2>2. \A i \in 1 .. q + Declared(c, q) : c[i] = d[i]
    BY <2>1 DEF Starts
  <2> QED
    BY <1>1, <2>1, <2>2, RecordStays
<1>2. \A i \in 1 .. Len(Scan(c)) : i <= Len(Scan(d)) /\ Scan(c)[i] = Scan(d)[i]
  BY <1>1, ScanIsScan, ScanStarts
<1>3. Len(Scan(c)) <= Len(Scan(d))
  BY <1>2, ScanFacts
<1>4. \A i \in 1 .. Len(Scan(c)) - 1 :
        c[Scan(c)[i] + 1].id = d[Scan(d)[i] + 1].id
  <2>1. TAKE i \in 1 .. Len(Scan(c)) - 1
  <2>2. i \in 1 .. Len(Scan(c)) /\ Scan(c)[i] + 1 \in 1 .. Len(c)
    BY RecordFacts, ScanFacts
  <2> QED
    BY <1>2, <2>2 DEF Starts
<1> QED
  BY <1>2, <1>3, <1>4, RecordsStartIf

\* The tail that recovery cuts off has no record.
LEMMA CutTail ==
    ASSUME NEW c \in Seq(Cell)
    PROVE  IsStartOf(Records(c), Records(SubSeq(c, 1, ValidLen(c))))
<1> DEFINE p == ValidLen(c)
           d == SubSeq(c, 1, p)
           S == Scan(c)
           T == Scan(d)
<1>1. /\ Len(S) \in Nat /\ Len(S) >= 1 /\ p = S[Len(S)] /\ p \in 0 .. Len(c)
      /\ Len(c) \in Nat
  BY ScanFacts DEF ValidLen, Positions
<1>2. d \in Seq(Cell) /\ Len(d) = p /\ Starts(d, c)
  BY <1>1, Cut
<1> HIDE DEF p, d
<1>3. \A i \in 1 .. Len(T) : i <= Len(S) /\ T[i] = S[i]
  BY <1>2, LongerLog
<1>4. Len(T) \in Nat /\ Len(T) >= 1 /\ ~RecordAt(d, T[Len(T)])
  BY <1>2, ScanFacts DEF ValidLen
<1>5. Len(T) = Len(S)
  <2>1. SUFFICES ASSUME Len(T) < Len(S) PROVE FALSE
    BY <1>1, <1>3, <1>4
  <2> DEFINE m == Len(T)
  <2>2. /\ m \in 1 .. Len(S) - 1 /\ RecordAt(c, S[m]) /\ S[m] \in Positions(c)
        /\ S[m + 1] = S[m] + Declared(c, S[m]) /\ T[m] = S[m]
    BY <1>1, <1>3, <1>4, <2>1, ScanFacts
  <2> HIDE DEF m
  <2>3. S[m + 1] <= p
    <3>1. m + 1 \in 1 .. Len(S) /\ Len(S) \in 1 .. Len(S) /\ m + 1 <= Len(S)
      BY <1>1, <2>2
    <3> QED
      BY <1>1, <3>1, ScanForward
  <2>4. \A i \in 1 .. S[m + 1] : c[i] = d[i]
    <3>1. S[m] + Declared(c, S[m]) \in Positions(c)
      BY <2>2, RecordFits
    <3> QED
      BY <1>1, <1>2, <2>2, <2>3, <3>1 DEF Starts, Positions
  <2>5. RecordAt(d, S[m])
    BY <1>2, <2>2, <2>3, <2>4, RecordStays
  <2> QED
    BY <1>4, <2>2, <2>5 DEF m
<1>6. \A i \in 1 .. Len(S) - 1 : c[S[i] + 1].id = d[T[i] + 1].id
  <2>1. TAKE i \in 1 .. Len(S) - 1
  <2>2. i \in 1 .. Len(T) /\ T[i] = S[i]
    BY <1>1, <1>3, <1>5
  <2>3. T[i] + 1 \in 1 .. Len(d)
    BY <1>2, <1>5, RecordFacts
  <2> QED
    BY <1>2, <2>2, <2>3 DEF Starts
<1>7. IsStartOf(Records(c), Records(d))
  <2>1. Len(S) <= Len(T)
    BY <1>1, <1>5
  <2> QED
    BY <1>2, <1>6, <2>1, RecordsStartIf
<1> QED
  BY <1>7 DEF p, d

-----------------------------------------------------------------------------
\* The types, and that an append under way has an id.
TypeInv == TypeOK /\ (pc = "writing" => current >= 1)

\* A record as it is encoded.
LEMMA Encoded ==
    ASSUME NEW id \in Nat, NEW n \in Lengths
    PROVE  /\ Encode(id, n) \in Seq(Cell) /\ Len(Encode(id, n)) = n
           /\ n \in Nat /\ n >= 4
           /\ \A j \in 1 .. n : Encode(id, n)[j] = CellOf(id, n, j)
<1>1. n \in Nat /\ n >= 4
  BY WalAssumption DEF ShortestRecord
<1>2. Encode(id, n) \in [1 .. n -> Cell]
  BY <1>1 DEF Encode, Cell
<1>3. \A j \in 1 .. n : Encode(id, n)[j] = CellOf(id, n, j)
  BY DEF Encode, CellOf
<1> QED
  BY <1>1, <1>2, <1>3

\* Appending and moving cells from one sequence to the end of another.
LEMMA Joined ==
    ASSUME NEW s \in Seq(Cell), NEW t \in Seq(Cell)
    PROVE  /\ s \o t \in Seq(Cell) /\ Starts(s, s \o t)
           /\ Len(s \o t) = Len(s) + Len(t)
           /\ \A i \in 1 .. Len(t) : (s \o t)[Len(s) + i] = t[i]
           /\ s \o <<>> = s
<1>1. Len(s) \in Nat /\ Len(t) \in Nat
  OBVIOUS
<1>2. /\ s \o t \in Seq(Cell) /\ Len(s \o t) = Len(s) + Len(t)
      /\ \A i \in 1 .. Len(s) + Len(t) :
           (s \o t)[i] = IF i <= Len(s) THEN s[i] ELSE t[i - Len(s)]
  BY ConcatProperties
<1>3. \A i \in 1 .. Len(s) : (s \o t)[i] = s[i]
  BY <1>1, <1>2
<1>4. \A i \in 1 .. Len(t) : (s \o t)[Len(s) + i] = t[i]
  <2>1. TAKE i \in 1 .. Len(t)
  <2>2. /\ Len(s) + i \in 1 .. Len(s) + Len(t) /\ ~(Len(s) + i <= Len(s))
        /\ (Len(s) + i) - Len(s) = i
    BY <1>1
  <2> QED
    BY <1>2, <2>2
<1>5. s \o <<>> = s
  BY ConcatEmptySeq
<1> QED
  BY <1>1, <1>2, <1>3, <1>4, <1>5 DEF Starts

\* Moving the first cell of one part to the end of the part before it keeps the
\* two joined.
LEMMA CellMoved ==
    ASSUME NEW s \in Seq(Cell), NEW t \in Seq(Cell), t # <<>>
    PROVE  /\ Append(s, Head(t)) \in Seq(Cell) /\ Tail(t) \in Seq(Cell)
           /\ Starts(s, Append(s, Head(t)))
           /\ Append(s, Head(t)) \o Tail(t) = s \o t
<1>1. Head(t) \in Cell /\ Tail(t) \in Seq(Cell)
  BY HeadTailProperties
<1>2. /\ Append(s, Head(t)) \in Seq(Cell)
      /\ Append(s, Head(t)) = s \o <<Head(t)>>
      /\ <<Head(t)>> \in Seq(Cell)
  BY <1>1, AppendProperties, AppendIsConcat
<1>3. Starts(s, Append(s, Head(t)))
  BY <1>2, Joined
<1>4. <<Head(t)>> \o Tail(t) = t
  <2>1. Len(t) \in Nat /\ 1 \in 1 .. Len(t) /\ Len(t) \in 1 .. Len(t)
    BY EmptySeq
  <2>2. SubSeq(t, 1, Len(t)) = <<t[1]>> \o SubSeq(t, 2, Len(t))
    <3>1. SubSeq(t, 1, Len(t)) = <<t[1]>> \o SubSeq(t, 1 + 1, Len(t))
      BY <2>1, SubSeqRecursiveFirst
    <3> QED
      BY <3>1
  <2>3. SubSeq(t, 1, Len(t)) = t /\ Tail(t) = SubSeq(t, 2, Len(t))
    BY SubSeqFull, TailIsSubSeq
  <2>4. Head(t) = t[1]
    OBVIOUS
  <2> QED
    BY <2>2, <2>3, <2>4
<1>5. (s \o <<Head(t)>>) \o Tail(t) = s \o (<<Head(t)>> \o Tail(t))
  BY <1>1, <1>2, ConcatAssociative
<1> QED
  BY <1>1, <1>2, <1>3, <1>4, <1>5

\* Every step keeps the types.
LEMMA NextTypeInv == TypeInv /\ [Next]_vars => TypeInv'
<1> SUFFICES ASSUME TypeInv, [Next]_vars PROVE TypeInv'
  OBVIOUS
<1>1. ASSUME NEW n \in Lengths, AppendRecord(n) PROVE TypeInv'
  <2>1. lastId + 1 \in Nat /\ lastId + 1 >= 1 /\ pc = "open" /\ direct = <<>>
        /\ acked \subseteq 1 .. lastId + 1
    BY <1>1 DEF TypeInv, TypeOK, AppendRecord
  <2>2. /\ Encode(lastId + 1, n) \in Seq(Cell)
        /\ buffer \o Encode(lastId + 1, n) \in Seq(Cell)
    BY <2>1, Encoded, ConcatProperties DEF TypeInv, TypeOK
  <2>3. buffer' \in Seq(Cell) /\ direct' \in Seq(Cell)
    BY <1>1, <2>2 DEF TypeInv, TypeOK, AppendRecord
  <2>4. /\ lastId' = lastId + 1 /\ current' = lastId + 1 /\ pc' = "writing"
        /\ UNCHANGED <<file, acked, crashes, damage>>
    BY <1>1 DEF AppendRecord
  <2> QED
    BY <2>1, <2>3, <2>4 DEF TypeInv, TypeOK
<1>2. CASE WriteCell
  <2>1. /\ file' \in Seq(Cell) /\ buffer' \in Seq(Cell) /\ direct' \in Seq(Cell)
        /\ direct' # <<>> => direct # <<>>
    <3>1. CASE buffer # <<>>
      BY <1>2, <3>1, CellMoved DEF WriteCell, TypeInv, TypeOK
    <3>2. CASE buffer = <<>>
      BY <1>2, <3>2, CellMoved DEF WriteCell, TypeInv, TypeOK
    <3> QED
      BY <3>1, <3>2
  <2>2. UNCHANGED <<pc, current, lastId, acked, crashes, damage>>
    BY <1>2 DEF WriteCell
  <2> QED
    BY <2>1, <2>2 DEF TypeInv, TypeOK
<1>3. CASE Acknowledge
  BY <1>3 DEF TypeInv, TypeOK, Acknowledge
<1>4. CASE Truncate
  BY <1>4 DEF TypeInv, TypeOK, Truncate
<1>5. CASE SetLen
  BY <1>5 DEF TypeInv, TypeOK, SetLen
<1>6. CASE WriteFails
  BY <1>6 DEF TypeInv, TypeOK, WriteFails
<1>7. CASE Crash
  BY <1>7 DEF TypeInv, TypeOK, Crash, LoseWriter
<1>8. CASE Drop
  <2>1. PICK n \in 0 .. Len(buffer) : file' = file \o SubSeq(buffer, 1, n)
    BY <1>8 DEF Drop
  <2>2. SubSeq(buffer, 1, n) \in Seq(Cell)
    BY Cut DEF TypeInv, TypeOK
  <2>3. file' \in Seq(Cell)
    BY <2>1, <2>2, ConcatProperties DEF TypeInv, TypeOK
  <2> QED
    BY <1>8, <2>3 DEF TypeInv, TypeOK, Drop, LoseWriter
<1>9. ASSUME NEW i \in DOMAIN file, DamageCell(i) PROVE TypeInv'
  <2>1. i \in 1 .. Len(file) /\ file \in Seq(Cell) /\ file[i] \in Cell
        /\ Len(file) \in Nat
    BY ElementOfSeq DEF TypeInv, TypeOK
  <2>2. PICK e \in Cell : file' = [file EXCEPT ![i] = e]
    <3>1. CASE file' = [file EXCEPT ![i].at = Damaged]
      <4>1. [file[i] EXCEPT !.at = Damaged] \in Cell
        BY <2>1 DEF Cell, Damaged
      <4>2. file' = [file EXCEPT ![i] = [file[i] EXCEPT !.at = Damaged]]
        BY <3>1
      <4> QED
        BY <4>1, <4>2
    <3>2. ASSUME NEW n \in 0 .. Len(file) + 1, file' = [file EXCEPT ![i].len = n]
          PROVE  \E e \in Cell : file' = [file EXCEPT ![i] = e]
      <4>1. [file[i] EXCEPT !.len = n] \in Cell
        <5>1. n \in Nat
          BY <2>1
        <5> QED
          BY <2>1, <5>1 DEF Cell
      <4> QED
        BY <3>2, <4>1
    <3> QED
      BY <1>9, <3>1, <3>2 DEF DamageCell
  <2>3. file' \in Seq(Cell)
    BY <2>1, <2>2, ExceptSeq
  <2> QED
    BY <1>9, <2>3 DEF TypeInv, TypeOK, DamageCell
<1>10. CASE Recover
  <2>1. ValidLen(file) \in 0 .. Len(file)
    BY ScanFacts DEF TypeInv, TypeOK, Positions
  <2>2. SubSeq(file, 1, ValidLen(file)) \in Seq(Cell)
    BY <2>1, Cut DEF TypeInv, TypeOK
  <2> QED
    BY <1>10, <2>2 DEF TypeInv, TypeOK, Recover
<1>11. CASE TakeRecord
  BY <1>11 DEF TypeInv, TypeOK, TakeRecord
<1>12. CASE UNCHANGED vars
  BY <1>12 DEF TypeInv, TypeOK, vars
<1> QED
  BY <1>1, <1>2, <1>3, <1>4, <1>5, <1>6, <1>7, <1>8, <1>9, <1>10, <1>11, <1>12
     DEF Next, Refuse

\* The types hold of the empty log.
LEMMA InitTypeInv == Init => TypeInv
BY DEF Init, TypeInv, TypeOK

\* Each variable holds what its comment says, also while a write has failed
\* half-way, and only a call under way has cells to write past the buffer.
THEOREM WalTypes == Spec => []TypeOK
<1>1. TypeInv => TypeOK
  BY DEF TypeInv
<1> QED
  BY <1>1, InitTypeInv, NextTypeInv, PTL DEF Spec

-----------------------------------------------------------------------------
\* A log of whole records with ids up to top.
Written(g, top) ==
    /\ Laid(g)
    /\ g # <<>> => Whole(g[Len(g)])
    /\ \A i \in 1 .. Len(g) : g[i].id \in 1 .. top

\* The start of a start is a start.
LEMMA StartsAgain ==
    ASSUME NEW s \in Seq(Cell), NEW t \in Seq(Cell), NEW u \in Seq(Cell),
           Starts(s, t), Starts(t, u)
    PROVE  Starts(s, u)
<1>1. Len(s) \in Nat /\ Len(t) \in Nat /\ Len(u) \in Nat
  OBVIOUS
<1> QED
  BY <1>1 DEF Starts

\* A log holds every record that a start of it holds.
LEMMA HoldsLonger ==
    ASSUME NEW s \in Seq(Cell), NEW t \in Seq(Cell), Starts(s, t),
           NEW a, Holds(s, a)
    PROVE  Holds(t, a)
<1>1. Len(s) \in Nat /\ Len(t) \in Nat
  OBVIOUS
<1>2. PICK i \in 1 .. Len(s) : s[i].id = a /\ Whole(s[i])
  BY DEF Holds
<1>3. i \in 1 .. Len(t) /\ t[i] = s[i]
  BY <1>1, <1>2 DEF Starts
<1> QED
  BY <1>2, <1>3 DEF Holds

\* Each cell's record is complete, if the last one's is.
LEMMA WithinWhole ==
    ASSUME NEW g, Laid(g), g # <<>>, Whole(g[Len(g)]),
           NEW i \in 1 .. Len(g), NEW j \in 1 .. g[i].len
    PROVE  i - g[i].at + j \in 1 .. Len(g)
<1>1. /\ Len(g) \in Nat /\ i \in Nat /\ i <= Len(g)
      /\ g[i].at \in Nat /\ g[i].len \in Nat /\ g[i].at <= i /\ g[i].at >= 1
      /\ g[i].at <= g[i].len /\ j \in Nat /\ j >= 1 /\ j <= g[i].len
  <2>1. g \in Seq(Cell) /\ InPlace(g, i)
    BY DEF Laid
  <2> QED
    BY <2>1, CellFields DEF InPlace
<1>2. i - g[i].at + j \in Nat /\ i - g[i].at + j >= 1
  BY <1>1
<1>3. SUFFICES ASSUME i - g[i].at + j > Len(g) PROVE FALSE
  BY <1>1, <1>2
<1>4. PICK y \in Nat : /\ i - g[i].at + y = Len(g)
                      /\ y >= 1 /\ y < g[i].len
  <2> DEFINE a == g[i].at
             n == g[i].len
             m == Len(g)
             y == m - (i - a)
  <2>1. /\ m \in Nat /\ i \in Nat /\ i <= m /\ a \in Nat /\ a >= 1 /\ a <= i
        /\ n \in Nat /\ j \in Nat /\ j <= n /\ i - a + j > m
    BY <1>1, <1>3
  <2> HIDE DEF a, n, m
  <2>2. y \in Nat /\ i - a + y = m /\ y >= 1 /\ y < j
    BY <2>1
  <2>3. y < n
    BY <2>1, <2>2
  <2> HIDE DEF y
  <2> QED
    BY <2>2, <2>3 DEF a, n, m
<1>6. g[i - g[i].at + y] = CellOf(g[i].id, g[i].len, y)
  <2>1. y \in 1 .. g[i].len
    BY <1>1, <1>4
  <2>3. i - g[i].at + y <= Len(g)
    <3>1. Len(g) <= Len(g)
      BY <1>1
    <3> QED
      BY <1>4, <3>1
  <2>2. InPlace(g, i)
    BY DEF Laid
  <2> QED
    BY <2>1, <2>2, <2>3 DEF InPlace
<1>7. g[Len(g)] = CellOf(g[i].id, g[i].len, y)
  BY <1>4, <1>6
<1>8. y = g[i].len
  BY <1>7 DEF Whole, CellOf
<1> QED
  BY <1>1, <1>4, <1>8

\* The next record goes behind them.
LEMMA Extend ==
    ASSUME NEW m \in Nat, NEW g, Written(g, m), NEW n \in Lengths
    PROVE  LET h == g \o Encode(m + 1, n)
           IN  Written(h, m + 1) /\ h # <<>> /\ h[Len(h)].id = m + 1
<1> DEFINE e == Encode(m + 1, n)
           h == g \o e
           L == Len(g)
<1>1. /\ g \in Seq(Cell) /\ L \in Nat /\ e \in Seq(Cell) /\ Len(e) = n
      /\ n \in Nat /\ n >= 4 /\ \A j \in 1 .. n : e[j] = CellOf(m + 1, n, j)
  <2>1. g \in Seq(Cell) /\ L \in Nat /\ m + 1 \in Nat
    BY DEF Written, Laid
  <2> QED
    BY <2>1, Encoded
<1>2. /\ h \in Seq(Cell) /\ Len(h) = L + n
      /\ \A i \in 1 .. L : h[i] = g[i]
      /\ \A j \in 1 .. n : h[L + j] = e[j]
  <2> HIDE DEF e
  <2>1. /\ h \in Seq(Cell) /\ Len(h) = L + Len(e) /\ Starts(g, h)
        /\ \A j \in 1 .. Len(e) : h[L + j] = e[j]
    BY <1>1, Joined
  <2> QED
    BY <1>1, <2>1 DEF Starts
<1> HIDE DEF e, h
<1>3. \A j \in 1 .. n : h[L + j] = CellOf(m + 1, n, j)
  BY <1>1, <1>2
<1>4. ASSUME NEW i \in 1 .. L + n, ~(i \in 1 .. L)
      PROVE  /\ i - L \in 1 .. n /\ h[i] = CellOf(m + 1, n, i - L)
             /\ h[i].id = m + 1 /\ h[i].len = n /\ h[i].at = i - L
  <2>1. i - L \in 1 .. n /\ L + (i - L) = i
    BY <1>1, <1>4
  <2>2. h[i] = CellOf(m + 1, n, i - L)
    BY <1>3, <2>1
  <2> QED
    BY <2>1, <2>2 DEF CellOf
<1>5. ASSUME NEW i \in 1 .. L + n PROVE InPlace(h, i)
  <2>1. CASE i \in 1 .. L
    <3>1. h[i] = g[i] /\ InPlace(g, i) /\ g # <<>> /\ Whole(g[L])
      BY <1>1, <1>2, <2>1 DEF Written, Laid
    <3>2. ASSUME NEW j \in 1 .. g[i].len
          PROVE  h[i - g[i].at + j] = CellOf(g[i].id, g[i].len, j)
      <4>1. i - g[i].at + j \in 1 .. L
        BY <2>1, <3>1, WithinWhole DEF Written
      <4>2. g[i - g[i].at + j] = CellOf(g[i].id, g[i].len, j)
        BY <1>1, <3>1, <4>1 DEF InPlace
      <4> QED
        BY <1>2, <4>1, <4>2
    <3> QED
      BY <3>1, <3>2 DEF InPlace
  <2>2. CASE ~(i \in 1 .. L)
    <3>1. /\ i - L \in 1 .. n /\ h[i].id = m + 1 /\ h[i].len = n
          /\ h[i].at = i - L /\ i - (i - L) = L
      BY <1>1, <1>4, <2>2
    <3>2. \A j \in 1 .. n : i - h[i].at + j = L + j
      BY <1>1, <3>1
    <3>3. \A j \in 1 .. h[i].len : h[i - h[i].at + j] = CellOf(h[i].id, h[i].len, j)
      BY <1>3, <3>1, <3>2
    <3> QED
      BY <1>1, <3>1, <3>3 DEF InPlace, ShortestRecord
  <2> QED
    BY <2>1, <2>2
<1>6. ASSUME NEW i \in 1 .. L + n PROVE h[i].id \in 1 .. m + 1
  <2>1. CASE i \in 1 .. L
    BY <1>2, <2>1 DEF Written
  <2>2. CASE ~(i \in 1 .. L)
    BY <1>4, <2>2
  <2> QED
    BY <2>1, <2>2
<1>7. ASSUME NEW i \in 1 .. L + n, NEW j \in 1 .. L + n, i < j
      PROVE  InOrder(h, i, j)
  <2>1. CASE j \in 1 .. L
    <3>1. i \in 1 .. L
      BY <1>1, <1>7, <2>1
    <3> QED
      BY <1>2, <1>7, <2>1, <3>1 DEF Written, Laid, InOrder
  <2>2. CASE i \in 1 .. L /\ ~(j \in 1 .. L)
    <3>1. h[i].id \in 1 .. m /\ h[j].id = m + 1
      BY <1>2, <1>4, <2>2 DEF Written
    <3> QED
      BY <3>1 DEF InOrder
  <2>3. CASE ~(i \in 1 .. L)
    <3>1. ~(j \in 1 .. L)
      BY <1>1, <1>7, <2>3
    <3>2. h[i].id = m + 1 /\ h[j].id = m + 1 /\ h[i].len = n /\ h[i].at = i - L
      BY <1>4, <2>3, <3>1
    <3>3. i - L # n
      BY <1>1, <1>7
    <3> QED
      BY <3>2, <3>3 DEF InOrder, Whole
  <2> QED
    BY <2>1, <2>2, <2>3
<1>8. h # <<>> /\ Whole(h[L + n]) /\ h[L + n].id = m + 1
  <2>1. L + n \in 1 .. L + n /\ ~(L + n \in 1 .. L) /\ (L + n) - L = n
    BY <1>1
  <2>2. h[L + n].len = n /\ h[L + n].at = n /\ h[L + n].id = m + 1
    BY <1>4, <2>1
  <2>3. h # <<>>
    BY <1>1, <1>2
  <2> QED
    BY <2>2, <2>3 DEF Whole
<1>9. Laid(h)
  BY <1>2, <1>5, <1>7 DEF Laid
<1>10. Written(h, m + 1) /\ h # <<>> /\ h[Len(h)].id = m + 1
  BY <1>2, <1>6, <1>8, <1>9 DEF Written
<1> QED
  BY <1>10 DEF h, e

\* Before the first cell of a record the one in front of it is complete.
LEMMA WholeBefore ==
    ASSUME NEW g, Laid(g), NEW x \in 1 .. Len(g), x + 1 <= Len(g),
           g[x + 1].at <= 1
    PROVE  Whole(g[x])
<1>1. /\ g \in Seq(Cell) /\ Len(g) \in Nat /\ InPlace(g, x)
      /\ x + 1 \in 1 .. Len(g) /\ x \in Nat
      /\ g[x].at \in Nat /\ g[x].len \in Nat
  BY CellFields DEF Laid
<1>2. SUFFICES ASSUME g[x].at # g[x].len PROVE FALSE
  BY DEF Whole
<1>3. g[x].at + 1 \in 1 .. g[x].len /\ x - g[x].at + (g[x].at + 1) = x + 1
  BY <1>1, <1>2 DEF InPlace
<1>4. g[x + 1] = CellOf(g[x].id, g[x].len, g[x].at + 1)
  BY <1>1, <1>3 DEF InPlace
<1>5. g[x + 1].at = g[x].at + 1
  BY <1>4 DEF CellOf
<1> QED
  BY <1>1, <1>5 DEF InPlace

-----------------------------------------------------------------------------
(***************************************************************************)
(* The inductive invariant.  While the log is open, the file, the buffer   *)
(* and the cells on their way past it are whole records one after the      *)
(* other, and every acknowledged one is in the file.  While it is closed,  *)
(* the file is what the disk has made of the start of such a log.  No      *)
(* write may fail half-way past the buffer: the rest of that record would  *)
(* be lost and the next be appended to its torn start.                     *)
(***************************************************************************)
Log == file \o buffer \o direct

OpenInv ==
    /\ Written(Log, lastId)
    /\ \A a \in acked : Holds(file, a)
    /\ pc = "writing" => Log # <<>> /\ Log[Len(Log)].id = current

Intact(g) ==
    /\ Laid(g) /\ Scarred(file, g) /\ (damage = 0 => g = file)
    /\ \A i \in 1 .. Len(g) : g[i].id \in 1 .. lastId
    /\ \A a \in acked : Holds(g, a)

WalInv ==
    /\ TypeInv
    /\ pc # "down" => OpenInv
    /\ pc = "down" => buffer = <<>> /\ \E g : Intact(g)

\* The file is the start of the log.
LEMMA FileStarts ==
    ASSUME TypeInv
    PROVE  /\ file \in Seq(Cell) /\ buffer \in Seq(Cell) /\ direct \in Seq(Cell)
           /\ file \o buffer \in Seq(Cell) /\ Log \in Seq(Cell)
           /\ Starts(file, file \o buffer) /\ Starts(file \o buffer, Log)
           /\ Starts(file, Log)
<1>1. file \in Seq(Cell) /\ buffer \in Seq(Cell) /\ direct \in Seq(Cell)
  BY DEF TypeInv, TypeOK
<1>2. file \o buffer \in Seq(Cell) /\ Starts(file, file \o buffer)
  BY <1>1, Joined
<1>3. Log \in Seq(Cell) /\ Starts(file \o buffer, Log)
  BY <1>1, <1>2, Joined DEF Log
<1> QED
  BY <1>1, <1>2, <1>3, StartsAgain

\* While the log is open its file is a laid log, with ids given out so far.
LEMMA FileIsLaid ==
    ASSUME TypeInv, OpenInv
    PROVE  /\ Laid(file) /\ Laid(file \o buffer)
           /\ \A i \in 1 .. Len(file) : file[i].id \in 1 .. lastId
<1>1. Laid(file) /\ Laid(file \o buffer)
  BY FileStarts, StartIsLaid DEF OpenInv, Written
<1>2. \A i \in 1 .. Len(file) : i \in 1 .. Len(Log) /\ Log[i] = file[i]
  <2>1. Len(file) \in Nat /\ Len(Log) \in Nat /\ Starts(file, Log)
    BY FileStarts
  <2> QED
    BY <2>1 DEF Starts
<1>3. \A i \in 1 .. Len(file) : file[i].id \in 1 .. lastId
  BY <1>2 DEF OpenInv, Written
<1> QED
  BY <1>1, <1>3

\* append_record puts a whole record behind the others.
LEMMA AppendRecordInv ==
    ASSUME WalInv, TypeInv', NEW n \in Lengths, AppendRecord(n)
    PROVE  WalInv'
<1>1. OpenInv /\ TypeInv /\ lastId \in Nat /\ direct = <<>>
  BY DEF WalInv, TypeInv, TypeOK, AppendRecord
<1>2. /\ file \in Seq(Cell) /\ buffer \in Seq(Cell) /\ file \o buffer \in Seq(Cell)
      /\ Encode(lastId + 1, n) \in Seq(Cell)
  BY <1>1, FileStarts, Encoded
<1>3. Log = file \o buffer
  BY <1>1, <1>2, Joined DEF Log
<1>4. Log' = Log \o Encode(lastId + 1, n)
  <2>1. CASE n < Capacity /\ Len(buffer) + n <= Capacity
    <3>1. Log' = (file \o (buffer \o Encode(lastId + 1, n))) \o <<>>
      BY <1>1, <2>1 DEF AppendRecord, Log
    <3>2. file \o (buffer \o Encode(lastId + 1, n))
            = (file \o buffer) \o Encode(lastId + 1, n)
      BY <1>2, ConcatAssociative
    <3>3. (file \o buffer) \o Encode(lastId + 1, n) \in Seq(Cell)
      BY <1>2, Joined
    <3> QED
      BY <1>3, <3>1, <3>2, <3>3, Joined
  <2>2. CASE ~(n < Capacity /\ Len(buffer) + n <= Capacity)
    BY <1>3, <2>2 DEF AppendRecord, Log
  <2> QED
    BY <2>1, <2>2
<1>5. /\ Written(Log', lastId + 1) /\ Log' # <<>>
      /\ Log'[Len(Log')].id = lastId + 1
  BY <1>1, <1>4, Extend DEF OpenInv
<1>6. /\ lastId' = lastId + 1 /\ current' = lastId + 1 /\ pc' = "writing"
      /\ file' = file /\ acked' = acked
  BY DEF AppendRecord
<1>7. OpenInv'
  BY <1>1, <1>5, <1>6 DEF OpenInv
<1> QED
  BY <1>6, <1>7 DEF WalInv

\* A record that goes into the buffer stays where it is in the log.
LEMMA TakeRecordInv ==
    ASSUME WalInv, TypeInv', TakeRecord
    PROVE  WalInv'
<1>1. /\ OpenInv /\ TypeInv /\ pc = "writing" /\ buffer = <<>>
      /\ buffer' = direct /\ direct' = <<>>
      /\ UNCHANGED <<file, pc, current, lastId, acked>>
  BY DEF WalInv, TakeRecord
<1>2. file \in Seq(Cell) /\ direct \in Seq(Cell)
  BY <1>1, FileStarts
<1>3. file \o <<>> = file /\ (file \o direct) \o <<>> = file \o direct
  <2>1. file \o direct \in Seq(Cell)
    BY <1>2, Joined
  <2> QED
    BY <1>2, <2>1, Joined
<1>4. Log' = Log
  BY <1>1, <1>3 DEF Log
<1> QED
  BY <1>1, <1>4 DEF WalInv, OpenInv

\* Writing a cell moves it from one part of the log to the next.
LEMMA WriteCellInv ==
    ASSUME WalInv, TypeInv', WriteCell
    PROVE  WalInv'
<1>1. /\ OpenInv /\ TypeInv /\ pc' = pc /\ pc # "down"
      /\ UNCHANGED <<current, lastId, acked>>
  BY DEF WalInv, WriteCell
<1>2. file \in Seq(Cell) /\ buffer \in Seq(Cell) /\ direct \in Seq(Cell)
  BY <1>1, FileStarts
<1>3. Log' = Log /\ Starts(file, file') /\ file' \in Seq(Cell)
  <2>1. CASE buffer # <<>>
    <3>1. file' = Append(file, Head(buffer)) /\ buffer' = Tail(buffer)
          /\ direct' = direct
      BY <2>1 DEF WriteCell
    <3>2. file' \o buffer' = file \o buffer /\ Starts(file, file')
          /\ file' \in Seq(Cell)
      BY <1>2, <2>1, <3>1, CellMoved
    <3> QED
      BY <3>1, <3>2 DEF Log
  <2>2. CASE buffer = <<>>
    <3>1. file' = Append(file, Head(direct)) /\ buffer' = <<>>
          /\ direct' = Tail(direct) /\ direct # <<>>
      BY <2>2 DEF WriteCell
    <3>2. file' \o direct' = file \o direct /\ Starts(file, file')
          /\ file' \in Seq(Cell)
      BY <1>2, <3>1, CellMoved
    <3>3. file \o <<>> = file /\ file' \o <<>> = file'
      BY <1>2, <3>2, Joined
    <3> QED
      BY <2>2, <3>1, <3>2, <3>3 DEF Log
  <2> QED
    BY <2>1, <2>2
<1>4. \A a \in acked : Holds(file', a)
  BY <1>1, <1>2, <1>3, HoldsLonger DEF OpenInv
<1> QED
  BY <1>1, <1>3, <1>4 DEF WalInv, OpenInv

\* A record is acknowledged when all of it is in the file.
LEMMA AcknowledgeInv ==
    ASSUME WalInv, TypeInv', Acknowledge
    PROVE  WalInv'
<1>1. /\ OpenInv /\ TypeInv /\ pc = "writing" /\ pc' = "open"
      /\ buffer = <<>> /\ direct = <<>> /\ acked' = acked \cup {current}
      /\ UNCHANGED <<file, buffer, direct, lastId>>
  BY DEF WalInv, Acknowledge
<1>2. file \in Seq(Cell)
  BY <1>1, FileStarts
<1>3. Log = file /\ Log' = Log
  <2>1. file \o <<>> = file
    BY <1>2, Joined
  <2> QED
    BY <1>1, <2>1 DEF Log
<1>4. file # <<>> /\ Whole(file[Len(file)]) /\ file[Len(file)].id = current
  BY <1>1, <1>3 DEF OpenInv, Written
<1>5. Holds(file, current)
  <2>1. Len(file) \in 1 .. Len(file)
    BY <1>2, <1>4, EmptySeq
  <2> QED
    BY <1>4, <2>1 DEF Holds
<1> QED
  BY <1>1, <1>3, <1>5 DEF WalInv, OpenInv

\* An empty log.
LEMMA EmptyLog ==
    ASSUME NEW top
    PROVE  Written(<<>>, top) /\ <<>> \o <<>> \o <<>> = <<>>
<1>1. <<>> \in Seq(Cell) /\ Len(<<>>) = 0
  OBVIOUS
<1>2. <<>> \o <<>> = <<>>
  BY <1>1, Joined
<1> QED
  BY <1>1, <1>2 DEF Written, Laid

\* Emptying the file leaves no record, and none that must be there.
LEMMA SetLenInv ==
    ASSUME WalInv, TypeInv', SetLen
    PROVE  WalInv'
<1>1. /\ file' = <<>> /\ buffer' = <<>> /\ direct' = <<>> /\ pc' = "open"
      /\ acked' = {}
  BY DEF SetLen, WalInv, TypeInv, TypeOK
<1>2. Log' = <<>>
  BY <1>1, EmptyLog DEF Log
<1>3. OpenInv'
  BY <1>1, <1>2, EmptyLog DEF OpenInv
<1> QED
  BY <1>1, <1>3 DEF WalInv

\* A write that fails with nothing of a large record in the file leaves the
\* buffer to finish the record it has begun.
LEMMA WriteFailsInv ==
    ASSUME "direct" \notin FailingWrites, WalInv, TypeInv', WriteFails
    PROVE  WalInv'
<1>1. /\ OpenInv /\ TypeInv /\ pc' = "open" /\ direct' = <<>> /\ ~HalfDirect
      /\ UNCHANGED <<file, buffer, lastId, acked>>
  BY DEF WalInv, WriteFails, MayFail
<1> DEFINE fb == file \o buffer
<1>2. /\ fb \in Seq(Cell) /\ direct \in Seq(Cell) /\ Log = fb \o direct
      /\ Laid(fb) /\ Starts(fb, Log) /\ Log \in Seq(Cell)
      /\ Len(fb) \in Nat /\ Len(Log) \in Nat
  BY <1>1, FileStarts, FileIsLaid DEF Log
<1>3. Log' = fb
  <2>1. Log' = fb \o <<>>
    BY <1>1 DEF Log
  <2> HIDE DEF fb
  <2> QED
    BY <1>2, <2>1, Joined
<1> HIDE DEF fb
<1>4. \A i \in 1 .. Len(fb) : fb[i] = Log[i] /\ i \in 1 .. Len(Log)
  BY <1>2 DEF Starts
<1>5. ASSUME fb # <<>> PROVE Whole(fb[Len(fb)])
  <2>1. Len(fb) \in 1 .. Len(fb)
    BY <1>2, <1>5, EmptySeq
  <2>2. CASE direct = <<>>
    <3>1. Log = fb
      BY <1>2, <2>2, Joined
    <3> QED
      BY <1>1, <1>5, <3>1 DEF OpenInv, Written
  <2>3. CASE direct # <<>>
    <3>1. /\ 1 \in 1 .. Len(direct) /\ Head(direct) = direct[1]
          /\ direct[1].at \in Nat
      <4>1. 1 \in 1 .. Len(direct) /\ Head(direct) = direct[1]
        BY <1>2, <2>3, EmptySeq
      <4> QED
        BY <1>2, <4>1, CellFields
    <3>2. direct[1].at <= 1
      BY <1>1, <2>3, <3>1 DEF HalfDirect
    <3>3. Log[Len(fb) + 1] = direct[1] /\ Len(Log) = Len(fb) + Len(direct)
      BY <1>2, <3>1, Joined
    <3>4. Len(fb) + 1 <= Len(Log) /\ Len(fb) \in 1 .. Len(Log)
      BY <1>2, <2>1, <3>1, <3>3
    <3>5. Whole(Log[Len(fb)])
      BY <1>1, <3>2, <3>3, <3>4, WholeBefore DEF OpenInv, Written
    <3> QED
      BY <1>4, <2>1, <3>5
  <2> QED
    BY <2>2, <2>3
<1>6. \A i \in 1 .. Len(fb) : fb[i].id \in 1 .. lastId
  BY <1>1, <1>4 DEF OpenInv, Written
<1>7. Written(fb, lastId)
  BY <1>2, <1>5, <1>6 DEF Written
<1> QED
  BY <1>1, <1>3, <1>7 DEF WalInv, OpenInv

\* The process dies, or drops the writer: what is in the file is the start
\* of the log.
LEMMA StoppedInv ==
    ASSUME WalInv, TypeInv', pc # "down", LoseWriter,
           file' \in Seq(Cell), Starts(file, file'), Starts(file', Log)
    PROVE  WalInv'
<1>1. /\ OpenInv /\ TypeInv /\ pc' = "down" /\ buffer' = <<>>
      /\ UNCHANGED <<lastId, acked, damage>>
  BY DEF WalInv, LoseWriter
<1>2. Laid(file')
  BY <1>1, StartIsLaid DEF OpenInv, Written
<1>3. Scarred(file', file')
  BY <1>2, Unscarred
<1>4. \A i \in 1 .. Len(file') : file'[i].id \in 1 .. lastId
  <2>1. \A i \in 1 .. Len(file') : i \in 1 .. Len(Log) /\ Log[i] = file'[i]
    <3>1. Len(file') \in Nat /\ Len(Log) \in Nat
      BY <1>1, FileStarts
    <3> QED
      BY <3>1 DEF Starts
  <2> QED
    BY <1>1, <2>1 DEF OpenInv, Written
<1>5. \A a \in acked : Holds(file', a)
  BY <1>1, FileStarts, HoldsLonger DEF OpenInv
<1>6. PICK g : g = file'
  OBVIOUS
<1>7. Intact(g)'
  BY <1>1, <1>2, <1>3, <1>4, <1>5, <1>6 DEF Intact
<1> QED
  BY <1>1, <1>7 DEF WalInv

\* A crash in a call leaves in the file a start of the log, with every record
\* that was acknowledged.
LEMMA CrashInv ==
    ASSUME WalInv, TypeInv', Crash
    PROVE  WalInv'
<1>1. file' = file /\ LoseWriter /\ pc # "down" /\ TypeInv
  BY DEF Crash, WalInv
<1>2. file \in Seq(Cell) /\ Starts(file, Log) /\ Starts(file, file)
  <2>1. file \in Seq(Cell) /\ Starts(file, Log)
    BY <1>1, FileStarts
  <2>2. Len(file) \in Nat
    BY <2>1
  <2> QED
    BY <2>1, <2>2 DEF Starts
<1> QED
  BY <1>1, <1>2, StoppedInv

\* So does closing the handle, with what the buffer can still write.
LEMMA DropInv ==
    ASSUME WalInv, TypeInv', Drop
    PROVE  WalInv'
<1>1. LoseWriter /\ pc = "open" /\ TypeInv
  BY DEF Drop, WalInv
<1>2. PICK n \in 0 .. Len(buffer) : file' = file \o SubSeq(buffer, 1, n)
  BY DEF Drop
<1> DEFINE b == SubSeq(buffer, 1, n)
<1>3. /\ file \in Seq(Cell) /\ buffer \in Seq(Cell) /\ file \o buffer \in Seq(Cell)
      /\ Starts(file \o buffer, Log) /\ Log \in Seq(Cell)
  BY <1>1, FileStarts
<1>4. b \in Seq(Cell) /\ Len(b) = n /\ \A i \in 1 .. n : b[i] = buffer[i]
  BY <1>3, Cut
<1> HIDE DEF b
<1>5. /\ file' \in Seq(Cell) /\ Starts(file, file')
      /\ Len(file') = Len(file) + n
      /\ \A i \in 1 .. n : file'[Len(file) + i] = b[i]
  <2>1. file' = file \o b
    BY <1>2 DEF b
  <2> QED
    BY <1>3, <1>4, <2>1, Joined
<1>6. /\ Starts(file, file \o buffer)
      /\ Len(file \o buffer) = Len(file) + Len(buffer)
      /\ \A i \in 1 .. Len(buffer) : (file \o buffer)[Len(file) + i] = buffer[i]
  BY <1>3, Joined
<1>7. Starts(file', file \o buffer)
  <2>1. Len(file) \in Nat /\ Len(buffer) \in Nat /\ n \in Nat /\ n <= Len(buffer)
    BY <1>3
  <2>2. ASSUME NEW i \in 1 .. Len(file')
        PROVE  file'[i] = (file \o buffer)[i]
    <3>0. i \in Nat /\ (i <= Len(file) \/ i > Len(file))
      BY <1>5, <2>1
    <3>1. CASE i <= Len(file)
      <4>1. i \in 1 .. Len(file)
        BY <2>1, <3>0, <3>1
      <4> QED
        BY <1>5, <1>6, <4>1 DEF Starts
    <3>2. CASE i > Len(file)
      <4>1. PICK j \in Nat : j = i - Len(file)
        BY <2>1, <3>0, <3>2
      <4>2. j \in 1 .. n /\ j \in 1 .. Len(buffer) /\ i = Len(file) + j
        BY <1>5, <2>1, <3>0, <3>2, <4>1
      <4> QED
        BY <1>4, <1>5, <1>6, <4>2
    <3> QED
      BY <3>0, <3>1, <3>2
  <2>3. Len(file') <= Len(file \o buffer)
    BY <1>5, <1>6, <2>1
  <2> QED
    BY <2>2, <2>3 DEF Starts
<1>8. Starts(file', Log)
  BY <1>3, <1>5, <1>7, StartsAgain
<1> QED
  BY <1>1, <1>5, <1>8, StoppedInv

\* Damage keeps the shape of the log.
LEMMA DamageCellInv ==
    ASSUME WalInv, TypeInv', NEW i \in DOMAIN file, DamageCell(i)
    PROVE  WalInv'
<1>1. /\ TypeInv /\ pc = "down" /\ buffer = <<>> /\ file \in Seq(Cell)
      /\ UNCHANGED <<buffer, pc, lastId, acked>> /\ damage' = damage + 1
      /\ damage \in Nat /\ file' \in Seq(Cell)
  BY DEF WalInv, DamageCell, TypeInv, TypeOK
<1>2. PICK g : Intact(g)
  BY <1>1 DEF WalInv
<1>3. /\ i \in 1 .. Len(file) /\ Len(file) \in Nat /\ Len(file) = Len(g)
      /\ file[i] \in Cell /\ file[i].at \in Nat
  BY <1>1, <1>2, CellFields DEF Intact, Scarred
<1>4. \A j \in 1 .. Len(g) :
        /\ file[j].id = g[j].id
        /\ file[j].at = g[j].at \/ (file[j].at = Damaged /\ g[j].at > PrefixCells)
        /\ file[j].len = g[j].len \/ g[j].at = 1
  BY <1>2 DEF Intact, Scarred
<1>5. PICK e \in Cell :
        /\ file' = [file EXCEPT ![i] = e]
        /\ e.id = g[i].id
        /\ e.at = g[i].at \/ (e.at = Damaged /\ g[i].at > PrefixCells)
        /\ e.len = g[i].len \/ g[i].at = 1
  <2>1. file[i].at # Damaged /\ file[i].at = g[i].at
    BY <1>3, <1>4 DEF DamageCell
  <2>2. CASE PartOf(file[i]) = "body" /\ file' = [file EXCEPT ![i].at = Damaged]
    <3>1. PICK e \in Cell : e = [file[i] EXCEPT !.at = Damaged]
      BY <1>3 DEF Cell, Damaged
    <3>2. e.at = Damaged /\ e.id = file[i].id /\ e.len = file[i].len
      BY <1>3, <3>1 DEF Cell
    <3>3. g[i].at > PrefixCells
      BY <1>3, <2>1, <2>2 DEF PartOf, PrefixCells
    <3>4. file' = [file EXCEPT ![i] = e]
      BY <2>2, <3>1
    <3> QED
      BY <1>3, <1>4, <3>2, <3>3, <3>4
  <2>3. ASSUME file[i].at = 1, NEW n \in 0 .. Len(file) + 1,
               file' = [file EXCEPT ![i].len = n]
        PROVE  \E e \in Cell :
                 /\ file' = [file EXCEPT ![i] = e]
                 /\ e.id = g[i].id
                 /\ e.at = g[i].at
                 /\ g[i].at = 1
    <3>1. PICK e \in Cell : e = [file[i] EXCEPT !.len = n]
      BY <1>3, <2>3 DEF Cell
    <3>2. e.at = file[i].at /\ e.id = file[i].id
      BY <1>3, <3>1 DEF Cell
    <3>3. file' = [file EXCEPT ![i] = e]
      BY <2>3, <3>1
    <3> QED
      BY <1>3, <1>4, <2>1, <2>3, <3>2, <3>3
  <2>4. CASE file[i].at = 1 /\ \E n \in 0 .. Len(file) + 1 :
               n # file[i].len /\ file' = [file EXCEPT ![i].len = n]
    BY <2>3, <2>4
  <2> QED
    BY <2>2, <2>4 DEF DamageCell
<1>6. /\ Len(file') = Len(file)
      /\ \A j \in 1 .. Len(file) : file'[j] = IF j = i THEN e ELSE file[j]
  BY <1>1, <1>3, <1>5, ExceptSeq
<1>7. Scarred(file', g)
  <2>1. \A j \in 1 .. Len(g) :
          /\ file'[j].id = g[j].id
          /\ file'[j].at = g[j].at \/ (file'[j].at = Damaged /\ g[j].at > PrefixCells)
          /\ file'[j].len = g[j].len \/ g[j].at = 1
    BY <1>3, <1>4, <1>5, <1>6
  <2> QED
    BY <1>1, <1>3, <1>6, <2>1 DEF Scarred
<1>8. damage' # 0
  BY <1>1
<1>9. Intact(g)'
  BY <1>1, <1>2, <1>7, <1>8 DEF Intact
<1> QED
  BY <1>1, <1>9 DEF WalInv

\* Recovery opens a log of whole records again.
LEMMA RecoverInv ==
    ASSUME WalInv, TypeInv', Recover
    PROVE  WalInv'
<1>1. /\ TypeInv /\ pc = "down" /\ pc' = "open" /\ buffer = <<>>
      /\ direct = <<>> /\ ~Refused(file)
      /\ file' = SubSeq(file, 1, ValidLen(file))
      /\ acked' = acked \ BehindDamagedLength(file)
      /\ UNCHANGED <<buffer, direct, lastId>>
  BY DEF WalInv, Recover, TypeInv, TypeOK
<1>2. PICK g : Intact(g)
  BY <1>1 DEF WalInv
<1>3. /\ file' \in Seq(Cell) /\ Laid(file') /\ Starts(file', g)
      /\ file' # <<>> => Whole(file'[Len(file')])
      /\ \A a : Holds(g, a) /\ a \notin BehindDamagedLength(file)
                  => Holds(file', a)
  BY <1>1, <1>2, RecoveryKeeps DEF Intact
<1>4. \A i \in 1 .. Len(file') : file'[i].id \in 1 .. lastId
  <2>1. \A i \in 1 .. Len(file') : i \in 1 .. Len(g) /\ g[i] = file'[i]
    <3>1. Len(file') \in Nat /\ Len(g) \in Nat
      BY <1>2, <1>3 DEF Intact, Laid
    <3> QED
      BY <1>3, <3>1 DEF Starts
  <2> QED
    BY <1>2, <2>1 DEF Intact
<1>5. Log' = file'
  <2>1. Log' = (file' \o <<>>) \o <<>>
    BY <1>1 DEF Log
  <2> QED
    BY <1>3, <2>1, Joined
<1>6. \A a \in acked' : Holds(file', a)
  BY <1>1, <1>2, <1>3 DEF Intact
<1> QED
  BY <1>1, <1>3, <1>4, <1>5, <1>6 DEF WalInv, OpenInv, Written

\* Every step keeps the invariant, if no write past the buffer fails half-way.
LEMMA NextWalInv ==
    ASSUME "direct" \notin FailingWrites
    PROVE  WalInv /\ [Next]_vars => WalInv'
<1> SUFFICES ASSUME WalInv, [Next]_vars PROVE WalInv'
  OBVIOUS
<1>1. TypeInv'
  BY NextTypeInv DEF WalInv
<1>2. CASE Truncate
  BY <1>1, <1>2 DEF WalInv, Truncate, OpenInv, Log
<1>3. CASE UNCHANGED vars
  BY <1>1, <1>3 DEF vars, WalInv, OpenInv, Intact, Log
<1> QED
  BY <1>1, <1>2, <1>3, AppendRecordInv, TakeRecordInv, WriteCellInv, AcknowledgeInv, SetLenInv,
     WriteFailsInv, CrashInv, DropInv, DamageCellInv, RecoverInv
     DEF Next, Refuse

\* It holds of the empty log.
LEMMA InitWalInv == Init => WalInv
<1> SUFFICES ASSUME Init PROVE WalInv
  OBVIOUS
<1>1. TypeInv
  BY InitTypeInv
<1>2. Log = <<>> /\ pc = "open" /\ acked = {}
  BY EmptyLog DEF Init, Log
<1>3. OpenInv
  BY <1>2, EmptyLog DEF OpenInv
<1> QED
  BY <1>1, <1>2, <1>3 DEF WalInv

\* It holds in every state.
LEMMA WalInvHolds ==
    ASSUME "direct" \notin FailingWrites
    PROVE  Spec => []WalInv
BY InitWalInv, NextWalInv, PTL DEF Spec

\* In every state the file is what the disk has made of a log that has the
\* acknowledged records.
LEMMA FileWas ==
    ASSUME WalInv
    PROVE  \E g : /\ Laid(g) /\ Scarred(file, g)
                  /\ damage = 0 \/ pc # "down" => g = file
                  /\ \A a \in acked : Holds(g, a)
<1>1. CASE pc = "down"
  BY <1>1 DEF WalInv, Intact
<1>2. CASE pc # "down"
  <2>1. Laid(file) /\ \A a \in acked : Holds(file, a)
    BY <1>2, FileIsLaid DEF WalInv, OpenInv
  <2> QED
    BY <2>1, Unscarred
<1> QED
  BY <1>1, <1>2

-----------------------------------------------------------------------------
\* A record whose append returned Ok is found by every later recovery, or the
\* log is refused; only a damaged length prefix ever hides what is behind it.
THEOREM AckedRecordsSurvive ==
    ASSUME "direct" \notin FailingWrites
    PROVE  Spec => []AckedSurvive
<1>1. WalInv => AckedSurvive
  BY FileWas, Survives DEF AckedSurvive
<1> QED
  BY <1>1, WalInvHolds, PTL

\* No crash, failed write or retry makes a log that recovery refuses.
THEOREM RefusalNeedsDamage ==
    ASSUME "direct" \notin FailingWrites
    PROVE  Spec => []RefusedOnlyIfDamaged
<1>1. WalInv => RefusedOnlyIfDamaged
  <2> SUFFICES ASSUME WalInv, Refused(file) PROVE damage > 0
    BY DEF RefusedOnlyIfDamaged
  <2>1. damage \in Nat
    BY DEF WalInv, TypeInv, TypeOK
  <2>2. damage # 0
    BY FileWas, Unscarred
  <2> QED
    BY <2>1, <2>2
<1> QED
  BY <1>1, WalInvHolds, PTL

\* Recovery replays the records once each and in the order of the calls.
THEOREM ReplayInOrder ==
    ASSUME "direct" \notin FailingWrites
    PROVE  Spec => []RecordsInOrder
<1>1. WalInv => RecordsInOrder
  BY FileWas, RecordsIncrease DEF RecordsInOrder
<1> QED
  BY <1>1, WalInvHolds, PTL

\* The last cell of a log whose scan stops short is inside a record.
LEMMA TornEnd ==
    ASSUME NEW g, Laid(g), ValidLen(g) < Len(g)
    PROVE  /\ TailAt(g, ValidLen(g))
           /\ g # <<>> /\ Len(g) \in 1 .. Len(g) /\ ~Whole(g[Len(g)])
<1>1. g \in Seq(Cell) /\ Scarred(g, g) /\ ~Refused(g)
      /\ BehindDamagedLength(g) = {}
  BY Unscarred
<1>2. Len(g) \in Nat /\ ValidLen(g) \in Nat
  BY <1>1, ScanFacts DEF Positions
<1>3. Len(g) \in 1 .. Len(g) /\ g # <<>>
  BY <1>1, <1>2, EmptySeq
<1>4. ~Whole(g[Len(g)])
  BY <1>1, <1>3, MissedIsBehind
<1>5. TailAt(g, ValidLen(g))
  BY <1>1, ScanEndsAtTail
<1> QED
  BY <1>3, <1>4, <1>5

\* After a failed append the buffer holds exactly the rest of the record that
\* the file has the start of, so that the next append completes it.
THEOREM TornAppendsAreMended ==
    ASSUME "direct" \notin FailingWrites
    PROVE  Spec => []TearsAreMended
<1>1. WalInv => TearsAreMended
  <2> SUFFICES ASSUME WalInv, pc = "open", ValidLen(file) < Len(file)
               PROVE  /\ buffer # <<>>
                      /\ TailAt(file, ValidLen(file))
                      /\ Head(buffer).id = file[Len(file)].id
                      /\ Head(buffer).at = file[Len(file)].at + 1
    BY DEF TearsAreMended
  <2> DEFINE n == Len(file)
  <2>1. /\ TypeInv /\ OpenInv /\ direct = <<>> /\ file \in Seq(Cell)
        /\ buffer \in Seq(Cell) /\ Laid(file) /\ Laid(file \o buffer)
        /\ file \o buffer \in Seq(Cell)
    BY FileStarts, FileIsLaid DEF WalInv, TypeInv, TypeOK
  <2>2. /\ TailAt(file, ValidLen(file)) /\ n \in 1 .. n /\ file # <<>>
        /\ ~Whole(file[n]) /\ n \in Nat
    BY <2>1, TornEnd
  <2>3. Log = file \o buffer
    BY <2>1, Joined DEF Log
  <2>4. buffer # <<>>
    <3>1. SUFFICES ASSUME buffer = <<>> PROVE FALSE
      OBVIOUS
    <3>2. Log = file
      BY <2>1, <2>3, <3>1, Joined
    <3> QED
      BY <2>1, <2>2, <3>2 DEF OpenInv, Written
  <2>5. /\ 1 \in 1 .. Len(buffer) /\ Head(buffer) = buffer[1]
        /\ Log[n + 1] = buffer[1] /\ Log[n] = file[n]
        /\ n + 1 \in 1 .. Len(Log)
    <3>1. 1 \in 1 .. Len(buffer) /\ Head(buffer) = buffer[1]
      BY <2>1, <2>4, EmptySeq
    <3>2. /\ Len(Log) = n + Len(buffer) /\ Starts(file, Log)
          /\ \A i \in 1 .. Len(buffer) : Log[n + i] = buffer[i]
      BY <2>1, <2>3, Joined
    <3>3. n + 1 \in 1 .. Len(Log)
      BY <2>2, <3>1, <3>2
    <3> QED
      BY <2>2, <3>1, <3>2, <3>3 DEF Starts
  <2>6. /\ InPlace(file, n) /\ file[n].at \in Nat /\ file[n].len \in Nat
        /\ n \in 1 .. Len(Log) /\ InPlace(Log, n)
    <3>1. n \in 1 .. Len(Log)
      BY <2>2, <2>5
    <3> QED
      BY <2>1, <2>2, <3>1, CellFields DEF Laid, OpenInv, Written
  <2>7. Log[n + 1] = CellOf(file[n].id, file[n].len, file[n].at + 1)
    <3>1. file[n].at + 1 \in 1 .. file[n].len
      BY <2>2, <2>6 DEF InPlace, Whole
    <3>2. n - file[n].at + (file[n].at + 1) = n + 1
      BY <2>2, <2>6
    <3>3. n + 1 <= Len(Log)
      BY <2>5
    <3> QED
      BY <2>5, <2>6, <3>1, <3>2, <3>3 DEF InPlace
  <2> QED
    BY <2>2, <2>4, <2>5, <2>7 DEF CellOf
<1> QED
  BY <1>1, WalInvHolds, PTL

\* read_all, which takes no tail for granted, succeeds exactly on a log that
\* ends with a whole record, and then returns every acknowledged one.
THEOREM StrictReadsAreWhole ==
    ASSUME "direct" \notin FailingWrites
    PROVE  Spec => []StrictReaderNoticesTears
<1>1. WalInv => StrictReaderNoticesTears
  <2> SUFFICES ASSUME WalInv, pc \in {"open", "down"}, damage = 0
               PROVE  /\ ReadAll(file).ok <=> ValidLen(file) = Len(file)
                      /\ ReadAll(file).ok =>
                           acked \subseteq {ReadAll(file).records[i] :
                                              i \in DOMAIN ReadAll(file).records}
    BY DEF StrictReaderNoticesTears
  <2> DEFINE p == ValidLen(file)
  <2>1. Laid(file) /\ \A a \in acked : Holds(file, a)
    BY FileWas
  <2>2. /\ file \in Seq(Cell) /\ Scarred(file, file) /\ ~Refused(file)
        /\ BehindDamagedLength(file) = {} /\ Len(file) \in Nat
    BY <2>1, Unscarred
  <2>3. p \in Nat /\ p <= Len(file)
    BY <2>2, ScanFacts DEF Positions
  <2>4. acked \subseteq RecordSet(file)
    BY <2>1, <2>2, Survives
  <2>5. CASE p = Len(file)
    <3>1. ~TailAt(file, p)
      BY <2>3, <2>5 DEF TailAt
    <3>2. ReadAll(file) = [ok |-> TRUE, records |-> Records(file)]
      BY <2>2, <3>1 DEF ReadAll
    <3> QED
      BY <2>4, <2>5, <3>2 DEF RecordSet
  <2>6. CASE p # Len(file)
    <3>1. p < Len(file)
      BY <2>2, <2>3, <2>6
    <3>2. TailAt(file, p) /\ Boundary(file, p)
      BY <2>1, <2>2, <3>1, ScanEndsAtTail
    <3>3. ~TooShort(file, p)
      <4> HIDE DEF p
      <4>1. file[p + 1].len \in Nat /\ file[p + 1].len >= ShortestRecord
        BY <2>1, <3>1, <3>2, NextRecord
      <4> QED
        BY <4>1 DEF TooShort, Declared, ShortestRecord
    <3>4. ReadAll(file) = [ok |-> FALSE, records |-> <<>>]
      BY <2>2, <3>2, <3>3 DEF ReadAll, StopAtTail
    <3> QED
      BY <2>6, <3>4
  <2> QED
    BY <2>5, <2>6
<1> QED
  BY <1>1, WalInvHolds, PTL

\* Seen through recovery the log grows at its end or is emptied whole: no
\* append, failed append, crash or recovery takes back, repeats or reorders a
\* record.  It holds whichever writes may fail.
THEOREM ReplayOnlyGrows == Spec => LogGrowsOrEmpties
<1>1. TypeInv /\ [Next]_vars
        => [\/ IsStartOf(Records(file), Records(file'))
            \/ file' = <<>>
            \/ damage' > damage]_vars
  <2> SUFFICES ASSUME TypeInv, Next
               PROVE  \/ IsStartOf(Records(file), Records(file'))
                      \/ file' = <<>>
                      \/ damage' > damage
    OBVIOUS
  <2>1. TypeInv' /\ file \in Seq(Cell) /\ file' \in Seq(Cell)
    <3>1. TypeInv'
      BY NextTypeInv
    <3> QED
      BY <3>1 DEF TypeInv, TypeOK
  <2>2. CASE UNCHANGED file
    <3>1. Starts(file, file')
      BY <2>1, <2>2 DEF Starts
    <3> QED
      BY <2>1, <3>1, LongerLog
  <2>3. CASE WriteCell
    <3>1. Starts(file, file')
      BY <2>3, CellMoved DEF WriteCell, TypeInv, TypeOK
    <3> QED
      BY <2>1, <3>1, LongerLog
  <2>4. CASE SetLen
    BY <2>4 DEF SetLen
  <2>5. CASE Drop
    <3>1. PICK n \in 0 .. Len(buffer) : file' = file \o SubSeq(buffer, 1, n)
      BY <2>5 DEF Drop
    <3>2. SubSeq(buffer, 1, n) \in Seq(Cell)
      BY Cut DEF TypeInv, TypeOK
    <3>3. Starts(file, file')
      BY <2>1, <3>1, <3>2, Joined
    <3> QED
      BY <2>1, <3>3, LongerLog
  <2>6. ASSUME NEW i \in DOMAIN file, DamageCell(i)
        PROVE  damage' > damage
    BY <2>6 DEF DamageCell, TypeInv, TypeOK
  <2>7. CASE Recover
    BY <2>1, <2>7, CutTail DEF Recover
  <2> QED
    BY <2>2, <2>3, <2>4, <2>5, <2>6, <2>7
       DEF Next, AppendRecord, TakeRecord, Acknowledge, Truncate, WriteFails, Crash,
           Refuse, vars
<1> QED
  BY <1>1, InitTypeInv, NextTypeInv, PTL DEF Spec, LogGrowsOrEmpties
=============================================================================
