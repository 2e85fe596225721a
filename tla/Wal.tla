-------------------------------- MODULE Wal --------------------------------
(***************************************************************************)
(* The write-ahead log (wal.rs) below the level of records: a record is    *)
(* encoded as cells, the writer is a BufWriter over a file opened for      *)
(* append, a write may stop in the middle, and recovery scans the cells.   *)
(*                                                                         *)
(* A cell carries the record it was encoded from, that record's number of  *)
(* cells and its place in it.  The first two cells are the length prefix,  *)
(* the last is the checksum.  A checksum of 32 bits is taken to tell any   *)
(* two encodings apart.                                                    *)
(***************************************************************************)
EXTENDS Integers, Sequences, FiniteSets

CONSTANTS
    Lengths,       \* how many cells a record may have
    Capacity,      \* the BufWriter's: a record this long bypasses the buffer
    FailingWrites, \* which writes may fail while the handle lives on
    DamagedParts,  \* which parts of a record the disk may damage
    MaxRecords,    \* bound: how many records are ever appended
    MaxCrashes,    \* bound: how often the process dies at work
    MaxDamage      \* bound: how many cells are damaged

PrefixCells == 2
ShortestRecord == 4      \* prefix, payload, checksum: total_len >= 9

ASSUME WalAssumption ==
    /\ Lengths \subseteq Nat /\ \A n \in Lengths : n >= ShortestRecord
    /\ Capacity \in Nat
    /\ FailingWrites \subseteq {"buffered", "direct"}
    /\ DamagedParts \subseteq {"length", "body"}
    /\ MaxRecords \in Nat /\ MaxCrashes \in Nat /\ MaxDamage \in Nat

VARIABLES
    file,      \* the cells of wal.log
    buffer,    \* cells the BufWriter holds
    direct,    \* cells of a record that waits for room in the buffer or,
               \* if it is large, goes past it
    pc,
    current,   \* id of the record being appended, 0 if none
    lastId,    \* ids are given in the order of the calls
    acked,     \* history: the records whose append returned Ok
    crashes, damage

vars == <<file, buffer, direct, pc, current, lastId, acked, crashes, damage>>

Cell == [id : Nat, len : Nat, at : Nat]

Damaged == 0

\* WalRecord::encode.
Encode(id, n) == [i \in 1 .. n |-> [id |-> id, len |-> n, at |-> i]]

-----------------------------------------------------------------------------
\* WalReader::recover on the cells from position p + 1 on.

\* The length the prefix at p declares: a damaged one may say anything.
Declared(cells, p) == cells[p + 1].len

PrefixCut(cells, p) == Len(cells) - p < PrefixCells

\* "total_len < 9", and "valid_len + 8 + total_len > file_len".
TooShort(cells, p) == Declared(cells, p) < ShortestRecord
PastTheEnd(cells, p) == p + Declared(cells, p) > Len(cells)

TailAt(cells, p) ==
    p < Len(cells)
        /\ (PrefixCut(cells, p) \/ TooShort(cells, p) \/ PastTheEnd(cells, p))

\* The checksum of the n cells after p is that of one whole record.
ChecksumHolds(cells, p) ==
    LET n == Declared(cells, p)
    IN  SubSeq(cells, p + 1, p + n) = Encode(cells[p + 1].id, n)

RecordAt(cells, p) ==
    p < Len(cells) /\ ~TailAt(cells, p) /\ ChecksumHolds(cells, p)

CorruptAt(cells, p) ==
    p < Len(cells) /\ ~TailAt(cells, p) /\ ~ChecksumHolds(cells, p)

\* The loop of read_records: the position after each record it accepts.
Scan(cells) ==
    LET from[p \in 0 .. Len(cells)] ==
          IF RecordAt(cells, p)
          THEN <<p>> \o from[p + Declared(cells, p)]
          ELSE <<p>>
    IN  from[0]

ValidLenLate(cells) ==    \* mutant: valid_len lags one record behind
    IF Len(Scan(cells)) = 1 THEN 0 ELSE Scan(cells)[Len(Scan(cells)) - 1]

ValidLen(cells) == Scan(cells)[Len(Scan(cells))]

\* WalRecovery::records, as ids.
Records(cells) ==
    [i \in 1 .. Len(Scan(cells)) - 1 |-> cells[Scan(cells)[i] + 1].id]

NeverRefused(cells) == FALSE    \* mutant: a bad checksum ends the log

\* recover returns WalCorruption.
Refused(cells) == CorruptAt(cells, ValidLen(cells))

\* stop_at_tail: recovery takes what it has, the strict reader gives up.
StopAtTailTolerant(records) == [ok |-> TRUE, records |-> records]    \* mutant
StopAtTail(records) == [ok |-> FALSE, records |-> <<>>]

\* read_all.  A length too short for a record ends it as the end would.
ReadAll(cells) ==
    LET p == ValidLen(cells)
    IN  CASE Refused(cells) -> [ok |-> FALSE, records |-> <<>>]
          [] TailAt(cells, p) /\ (PrefixCut(cells, p) \/ ~TooShort(cells, p)) ->
                StopAtTail(Records(cells))
          [] OTHER -> [ok |-> TRUE, records |-> Records(cells)]

RecordSet(cells) == {Records(cells)[i] : i \in DOMAIN Records(cells)}

\* The records from the first damaged length prefix on.
LengthDamagedAt(cells, i) ==
    /\ i + 1 \in DOMAIN cells
    /\ cells[i].at = 1
    /\ cells[i].id = cells[i + 1].id
    /\ cells[i].len # cells[i + 1].len

BehindDamagedLength(cells) ==
    {cells[j].id : j \in {k \in DOMAIN cells :
                            \E i \in 1 .. k : LengthDamagedAt(cells, i)}}

-----------------------------------------------------------------------------
Init ==
    /\ file = <<>> /\ buffer = <<>> /\ direct = <<>>
    /\ pc = "open" /\ current = 0 /\ lastId = 0
    /\ acked = {} /\ crashes = 0 /\ damage = 0

AppendInFront(n) ==    \* mutant: the new record overtakes what is buffered
    /\ pc = "open"
    /\ lastId < MaxRecords
    /\ lastId' = lastId + 1
    /\ current' = lastId + 1
    /\ buffer' = Encode(lastId + 1, n) \o buffer
    /\ pc' = "writing"
    /\ UNCHANGED <<file, direct, acked, crashes, damage>>

\* append_record: write_all puts a record into the buffer if there is room.  If
\* not, what the buffer holds is written first.
AppendRecord(n) ==
    /\ pc = "open"
    /\ lastId < MaxRecords
    /\ lastId' = lastId + 1
    /\ current' = lastId + 1
    /\ IF n < Capacity /\ Len(buffer) + n <= Capacity
       THEN buffer' = buffer \o Encode(lastId + 1, n) /\ UNCHANGED direct
       ELSE direct' = Encode(lastId + 1, n) /\ UNCHANGED buffer
    /\ pc' = "writing"
    /\ UNCHANGED <<file, acked, crashes, damage>>

\* A record that waits for the buffer to be written, and then goes into it.
Waits == direct # <<>> /\ Head(direct).len < Capacity

\* There is room now.
TakeRecord ==
    /\ pc = "writing"
    /\ Waits /\ buffer = <<>>
    /\ buffer' = direct
    /\ direct' = <<>>
    /\ UNCHANGED <<file, pc, current, lastId, acked, crashes, damage>>

\* The operating system takes one more cell; the buffer goes first.
WriteCell ==
    /\ pc \in {"writing", "truncating"}
    /\ \/ /\ buffer # <<>>
          /\ file' = Append(file, Head(buffer))
          /\ buffer' = Tail(buffer)
          /\ UNCHANGED direct
       \/ /\ buffer = <<>> /\ direct # <<>> /\ ~Waits
          /\ file' = Append(file, Head(direct))
          /\ direct' = Tail(direct)
          /\ UNCHANGED buffer
    /\ UNCHANGED <<pc, current, lastId, acked, crashes, damage>>

AcknowledgeEarly ==    \* mutant: a large record is not waited for
    /\ pc = "writing"
    /\ buffer = <<>>
    /\ acked' = acked \cup {current}
    /\ current' = 0
    /\ pc' = "open"
    /\ UNCHANGED <<file, buffer, direct, lastId, crashes, damage>>

\* Everything is written and synced: the append returns Ok.
Acknowledge ==
    /\ pc = "writing"
    /\ buffer = <<>> /\ direct = <<>>
    /\ acked' = acked \cup {current}
    /\ current' = 0
    /\ pc' = "open"
    /\ UNCHANGED <<file, buffer, direct, lastId, crashes, damage>>

\* truncate: flush the buffer, then set_len(0).  By then every record of the
\* log is in an SSTable.
Truncate ==
    /\ pc = "open"
    /\ file # <<>>
    /\ pc' = "truncating"
    /\ UNCHANGED <<file, buffer, direct, current, lastId, acked, crashes, damage>>

SetLen ==
    /\ pc = "truncating"
    /\ buffer = <<>>
    /\ file' = <<>>
    /\ acked' = {}
    /\ pc' = "open"
    /\ UNCHANGED <<buffer, direct, current, lastId, crashes, damage>>

\* Some of a large record is in the file and some is not.
HalfDirect == direct # <<>> /\ Head(direct).at > 1

MayFail ==
    \/ "buffered" \in FailingWrites /\ ~HalfDirect /\ ~(Waits /\ buffer = <<>>)
    \/ "direct" \in FailingWrites /\ HalfDirect

\* A write or the sync fails: the buffer keeps what it could not write, a
\* record that is not in it is gone, or the rest of it, and the caller gets the
\* error.
WriteFailsForgetting ==    \* mutant: the buffer is dropped as well
    /\ pc \in {"writing", "truncating"}
    /\ MayFail
    /\ buffer' = <<>>
    /\ direct' = <<>>
    /\ current' = 0
    /\ pc' = "open"
    /\ UNCHANGED <<file, lastId, acked, crashes, damage>>

WriteFails ==
    /\ pc \in {"writing", "truncating"}
    /\ MayFail
    /\ direct' = <<>>
    /\ current' = 0
    /\ pc' = "open"
    /\ UNCHANGED <<file, buffer, lastId, acked, crashes, damage>>

LoseWriter ==
    /\ buffer' = <<>> /\ direct' = <<>> /\ current' = 0
    /\ pc' = "down"
    /\ UNCHANGED <<lastId, acked, damage>>

Crash ==
    /\ pc \in {"writing", "truncating"}
    /\ crashes < MaxCrashes
    /\ crashes' = crashes + 1
    /\ UNCHANGED file
    /\ LoseWriter

\* The handle is dropped between two calls; the BufWriter tries to write
\* what it still holds.
Drop ==
    /\ pc = "open"
    /\ \E n \in 0 .. Len(buffer) : file' = file \o SubSeq(buffer, 1, n)
    /\ UNCHANGED crashes
    /\ LoseWriter

\* The disk damages a cell of a log nobody has open.
PartOf(cell) == IF cell.at <= PrefixCells THEN "length" ELSE "body"

DamageCell(i) ==
    /\ pc = "down"
    /\ damage < MaxDamage
    /\ file[i].at # Damaged /\ PartOf(file[i]) \in DamagedParts
    /\ \/ /\ PartOf(file[i]) = "body"
          /\ file' = [file EXCEPT ![i].at = Damaged]
       \/ /\ file[i].at = 1
          /\ \E n \in 0 .. Len(file) + 1 :
               n # file[i].len /\ file' = [file EXCEPT ![i].len = n]
    /\ damage' = damage + 1
    /\ UNCHANGED <<buffer, direct, pc, current, lastId, acked, crashes>>

\* open_with_options: scan, cut the torn tail, open for append.  A length
\* that points past the end, or is too short for a record, is by the policy
\* of the README the start of a tail: what is behind it is given up.
RecoverUncut ==    \* mutant: truncate_wal is forgotten
    /\ pc = "down"
    /\ ~Refused(file)
    /\ pc' = "open"
    /\ UNCHANGED <<file, buffer, direct, current, lastId, acked, crashes, damage>>

Recover ==
    /\ pc = "down"
    /\ ~Refused(file)
    /\ file' = SubSeq(file, 1, ValidLen(file))
    /\ acked' = acked \ BehindDamagedLength(file)
    /\ pc' = "open"
    /\ UNCHANGED <<buffer, direct, current, lastId, crashes, damage>>

\* open returns WalCorruption and leaves the log as it is.
Refuse ==
    /\ pc = "down"
    /\ Refused(file)
    /\ UNCHANGED vars

Next ==
    \/ \E n \in Lengths : AppendRecord(n)
    \/ TakeRecord \/ WriteCell \/ Acknowledge
    \/ Truncate \/ SetLen
    \/ WriteFails \/ Crash \/ Drop
    \/ \E i \in DOMAIN file : DamageCell(i)
    \/ Recover \/ Refuse

Spec == Init /\ [][Next]_vars

-----------------------------------------------------------------------------
\* Properties.

\* Each variable holds what its comment says, and only a call under way has
\* cells that are not in the buffer.
TypeOK ==
    /\ file \in Seq(Cell) /\ buffer \in Seq(Cell) /\ direct \in Seq(Cell)
    /\ pc \in {"open", "writing", "truncating", "down"}
    /\ lastId \in Nat /\ current \in 0 .. lastId
    /\ acked \subseteq 1 .. lastId
    /\ crashes \in Nat /\ damage \in Nat
    /\ direct # <<>> => pc = "writing"

\* A record whose append returned Ok is found by recovery, or recovery says
\* that the log is corrupt: it is never dropped in silence, unless the disk
\* damaged its length prefix or one in front of it.
AckedSurvive ==
    \/ Refused(file)
    \/ acked \ BehindDamagedLength(file) \subseteq RecordSet(file)

\* Recovery refuses a log only when the disk has damaged it: an interrupted
\* append never looks like corruption.
RefusedOnlyIfDamaged == Refused(file) => damage > 0

\* Seen through recovery the log only ever grows at the end or is emptied
\* whole: no append, crash or recovery loses, repeats or reorders a record.
\* This is the log that PebbleDB.tla works with; a disk that damages it is
\* the exception.
IsStartOf(s, t) == Len(s) <= Len(t) /\ SubSeq(t, 1, Len(s)) = s

LogGrowsOrEmpties ==
    [][\/ IsStartOf(Records(file), Records(file'))
       \/ file' = <<>>
       \/ damage' > damage]_vars

\* A record is in the log once and in the order of the calls, also when an
\* append failed and the next call writes its rest.
RecordsInOrder ==
    \A i, j \in DOMAIN Records(file) : i < j => Records(file)[i] < Records(file)[j]

\* While the log is open a partly written record is the last one and the
\* buffer holds its rest, so that nothing is ever appended after a tear.
TearsAreMended ==
    pc = "open" /\ ValidLen(file) < Len(file) =>
        /\ buffer # <<>>
        /\ TailAt(file, ValidLen(file))
        /\ Head(buffer).id = file[Len(file)].id
        /\ Head(buffer).at = file[Len(file)].at + 1

\* A reader that opens the log between two calls finds exactly the records
\* recovery would, and one that finds it torn, by a crash or by an append that
\* failed, says so and passes nothing off as the whole log.
StrictReaderNoticesTears ==
    pc \in {"open", "down"} /\ damage = 0 =>
        /\ ReadAll(file).ok <=> ValidLen(file) = Len(file)
        /\ ReadAll(file).ok => acked \subseteq {ReadAll(file).records[i] :
                                                i \in DOMAIN ReadAll(file).records}
=============================================================================
