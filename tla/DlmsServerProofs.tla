--------------------------- MODULE DlmsServerProofs ---------------------------
(***************************************************************************)
(* For every file, PDU size and set of reads, with and without ciphering:  *)
(* what DlmsServer's runs check of the row counters and the blocks.        *)
(* BlocksJoinUp and ReadToEndIsComplete are not inductive: they need to    *)
(* know what the server's transaction and counters say of a client's       *)
(* unfinished read, as long as nothing disturbed it.                       *)
(***************************************************************************)
EXTENDS DlmsServer, TLAPS

(* Products, which the provers do not combine with other arithmetic.       *)
LEMMA ProductType == \A a, b \in Nat : a * b \in Nat
  OBVIOUS

LEMMA Distributivity == \A a, b, c \in Int : (a + b) * c = a * c + b * c
  OBVIOUS

LEMMA Sizes ==
  /\ RowCount \in Nat \ {0} /\ RowSize \in Nat \ {0} /\ HeaderSize \in Nat \ {0}
  /\ RowsToPdu \in Nat \ {0} /\ MaxBlock \in Nat \ {0}
  /\ SizeBytes \in Nat \ {0} /\ MaxPduSize \in Nat /\ CipherHeader \in Nat
  /\ MaxPduSize > 9 + SizeBytes + CipherHeader
  BY DlmsAssumption

LEMMA IntervalType ==
  ASSUME NEW c \in Channels, NEW q \in Reads[c]
  PROVE  /\ q[1] \in 0 .. RowCount /\ q[2] \in 0 .. RowCount /\ q[1] <= q[2]
         /\ q[2] - q[1] \in 0 .. RowCount
<1>1. q \in {r \in (0 .. RowCount) \X (1 .. RowCount) : r[1] <= r[2]}
  BY DlmsAssumption
<1>2. q[1] \in 0 .. RowCount /\ q[2] \in 1 .. RowCount /\ q[1] <= q[2]
  BY <1>1
<1> QED BY <1>2, Sizes

USE Sizes

------------------------------------------------------------------------------
(* What the operators on rows and blocks return.                           *)

LEMMA RowsReadType ==
  ASSUME NEW begin \in 0 .. RowCount, NEW end \in 0 .. RowCount
  PROVE  /\ RowsRead(begin, end) \in Nat
         /\ begin + RowsRead(begin, end) <= RowCount
  BY DEF RowsRead, Least

(* The room that a reply may have is enough for a block.                   *)
IsRoom(room) ==
  /\ room \in Nat /\ room > 9 + SizeBytes /\ room <= MaxPduSize
  /\ room - 9 - SizeBytes >= ShortestBlock

LEMMA RoomType ==
  ASSUME NEW ciphers \in BOOLEAN
  PROVE  IsRoom(Room(ciphers)) /\ ShortestBlock \in Nat
  BY DEF IsRoom, Room, ShortestBlock

LEMMA BlockLengthType ==
  ASSUME NEW bytes \in Nat, NEW room, IsRoom(room)
  PROVE  /\ BlockLength(bytes, room) \in Nat
         /\ Fits(bytes, room) => BlockLength(bytes, room) = bytes
         /\ ~Fits(bytes, room) => /\ BlockLength(bytes, room) < bytes
                                  /\ BlockLength(bytes, room) >= ShortestBlock
<1>1. ShortestBlock \in Nat
  BY RoomType
<1> QED BY <1>1 DEF BlockLength, Fits, IsRoom

(* A part of the file is not longer than the file.                         *)
LEMMA SizesAreOrdered ==
  ASSUME NEW m \in Nat, NEW n \in Nat, m <= n
  PROVE  m * RowSize \in Nat /\ m * RowSize <= n * RowSize
<1>1. n * RowSize = m * RowSize + (n - m) * RowSize
  <2>1. (m + (n - m)) * RowSize = m * RowSize + (n - m) * RowSize
    BY Distributivity
  <2> QED BY <2>1
<1>2. n - m \in Nat /\ RowSize \in Nat
  OBVIOUS
<1>3. m * RowSize \in Nat /\ (n - m) * RowSize \in Nat
  BY <1>2, ProductType
<1> QED BY <1>1, <1>3

LEMMA FileSize == MaxBytes \in Nat
  BY DEF MaxBytes

(* The first reply to a read of an interval: it is sent completely, or the *)
(* rest of the rows read is kept.                                          *)
LEMMA FirstLengthType ==
  ASSUME NEW rows \in Nat, NEW wanted \in Nat, NEW bytes \in Nat, NEW room, IsRoom(room)
  PROVE  /\ FirstLength(rows, wanted, bytes, room) \in 0 .. bytes
         /\ ~Ordinary(rows, wanted, bytes, room) /\ ~Fits(bytes, room) =>
              FirstLength(rows, wanted, bytes, room) < bytes
<1>1. CASE Ordinary(rows, wanted, bytes, room)
  BY <1>1 DEF FirstLength, Least, IsRoom
<1>2. CASE ~Ordinary(rows, wanted, bytes, room)
  <2>1. FirstLength(rows, wanted, bytes, room) = BlockLength(bytes, room)
    BY <1>2 DEF FirstLength
  <2> QED BY <2>1, BlockLengthType
<1> QED BY <1>1, <1>2

(* The rows left to read up to the end of the file come in full portions,  *)
(* which do not fit into a reply, and a rest, which is all of them.        *)
LEMMA RowsToTheEnd ==
  ASSUME NEW begin \in 0 .. RowCount
  PROVE  \/ RowsRead(begin, RowCount) = RowCount - begin
         \/ /\ RowsRead(begin, RowCount) = RowsToPdu
            /\ RowsToPdu < RowCount - begin
            /\ RowsRead(begin, RowCount) * RowSize > MaxPduSize - 3
  BY RowsFillReply DEF RowsRead, Least

------------------------------------------------------------------------------
(* The inductive invariant.                                                *)

(* A transaction of a read has read the rows from .. begin - 1; when rows  *)
(* are pending, index counts them.                                         *)
RowsInv ==
  transaction.kind = "rows" =>
    /\ transaction.from <= transaction.begin
    /\ Sent(transaction) >= 0
    /\ count # index => index = transaction.begin - transaction.from

(* What the server knows of a client's unfinished read: either nothing any *)
(* more, or its transaction is of this read, and when the client has the   *)
(* last block sent, it has all bytes sent.                                 *)
PartialInv(c) ==
  read[c].status = "partial" /\ transaction # None =>
    /\ transaction.kind = "rows"
    /\ transaction.from = read[c].from /\ transaction.end = read[c].end
    /\ count = transaction.end - transaction.from
    /\ index = transaction.begin - transaction.from
    /\ blockIndex >= read[c].blocks
    /\ blockIndex = read[c].blocks => Sent(transaction) = read[c].got

(* A read up to the end of the file is complete when it is done.           *)
DoneInv(c) ==
  read[c].status = "done" /\ read[c].end = RowCount =>
    read[c].got = ReadLength(read[c]) \/ LosesByte(read[c])

(* Nothing is said of what a disturbed read gets.                          *)
ReadInv(c) ==
  ~read[c].disturbed => read[c].sound /\ PartialInv(c) /\ DoneInv(c)

IInv ==
  /\ TypeOK
  /\ RowsPendingOnlyInTransaction
  /\ RowsInv
  /\ \A c \in Channels : ReadInv(c)

------------------------------------------------------------------------------
(* Steps that read nothing.                                                *)

ReadRecord == [status : {"none", "partial", "done"}, from : 0 .. RowCount,
               end : 0 .. RowCount, blocks : Nat, got : Nat, sound : BOOLEAN,
               disturbed : BOOLEAN]

TransactionRecord ==
  [kind : {"none", "rows", "write"}, from : 0 .. RowCount, begin : 0 .. RowCount,
   end : 0 .. RowCount, left : 0 .. MaxBytes]

LEMMA ConstantRecords ==
  /\ None \in TransactionRecord /\ WriteData \in TransactionRecord
  /\ NoRead \in ReadRecord /\ ShortRead \in ReadRecord
  /\ None.kind = "none" /\ WriteData.kind = "write" /\ WriteData # None
<1>1. None \in TransactionRecord /\ None.kind = "none"
  BY FileSize DEF None, TransactionRecord
<1>2. WriteData \in TransactionRecord /\ WriteData.kind = "write"
  BY <1>1 DEF WriteData, None, TransactionRecord
<1>3. NoRead \in ReadRecord
  BY DEF NoRead, ReadRecord
<1>4. ShortRead \in ReadRecord
  BY <1>3 DEF NoRead, ShortRead, ReadRecord
<1> QED BY <1>1, <1>2, <1>3, <1>4

(* A client without an unfinished read expects nothing of the server.      *)
LEMMA NotReading ==
  ASSUME NEW c \in Channels, read'[c] \in {NoRead, ShortRead}
  PROVE  ReadInv(c)'
<1>1. /\ read'[c].status # "partial" /\ read'[c].sound
      /\ read'[c].end = 0
  BY DEF NoRead, ShortRead
<1>2. 0 # RowCount
  OBVIOUS
<1> QED BY <1>1, <1>2 DEF ReadInv, PartialInv, DoneInv

(* A read that a step of somebody else disturbs.                           *)
LEMMA DisturbType ==
  ASSUME NEW r \in ReadRecord
  PROVE  /\ Disturb(r) \in ReadRecord
         /\ \/ Disturb(r) = NoRead
            \/ Disturb(r) = r /\ settings' = settings
            \/ Disturb(r).disturbed /\ Disturb(r).status = "partial"
<1> DEFINE sound == r.sound
           blocks == r.blocks
           d == [NoRead EXCEPT !.status = "partial", !.blocks = blocks,
                               !.sound = sound, !.disturbed = TRUE]
<1>1. sound \in BOOLEAN /\ blocks \in Nat
  BY DEF ReadRecord
<1>2. d = [NoRead EXCEPT !.status = "partial", !.blocks = r.blocks,
                         !.sound = r.sound, !.disturbed = TRUE]
  OBVIOUS
<1>3. d.disturbed /\ d.status = "partial"
  BY DEF NoRead
<1> HIDE DEF sound, blocks
<1>4. d \in ReadRecord
  BY <1>1, ConstantRecords DEF ReadRecord
<1> HIDE DEF d
<1>5. \/ Disturb(r) = NoRead
      \/ Disturb(r) = r /\ settings' = settings
      \/ Disturb(r) = d
  BY <1>2 DEF Disturb
<1> QED BY <1>3, <1>4, <1>5, ConstantRecords

LEMMA DisturbKeeps ==
  ASSUME IInv, NEW d \in Channels, read'[d] = Disturb(read[d])
  PROVE  ReadInv(d)'
<1>1. read[d] \in ReadRecord
  BY DEF IInv, TypeOK, ReadRecord
<1>2. CASE read'[d] = NoRead
  BY <1>2, NotReading
<1>3. CASE read'[d] = read[d] /\ settings' = settings
  BY <1>3 DEF IInv, ReadInv, PartialInv, DoneInv, ReadLength, LosesByte, Sent, settings
<1>4. CASE read'[d].disturbed
  BY <1>4 DEF ReadInv
<1> QED BY <1>1, <1>2, <1>3, <1>4, DisturbType

(* After a call of c, c has r, and the other channel what is left to it.   *)
LEMMA OneReader ==
  ASSUME IInv, NEW c \in Channels, NEW r \in ReadRecord, ReadBecomes(c, r)
  PROVE  /\ read' \in [Channels -> ReadRecord]
         /\ read'[c] = r
         /\ \A d \in Channels \ {c} : ReadInv(d)'
<1>1. \A d \in Channels : read[d] \in ReadRecord
  BY DEF IInv, TypeOK, ReadRecord
<1>2. \A d \in Channels : Disturb(read[d]) \in ReadRecord
  BY <1>1, DisturbType
<1>3. /\ read' \in [Channels -> ReadRecord]
      /\ read'[c] = r
      /\ \A d \in Channels \ {c} : read'[d] = Disturb(read[d])
  BY <1>2 DEF ReadBecomes
<1> QED BY <1>3, DisturbKeeps

(* The steps below keep, forget or disturb what a client has.              *)
KeepsOrForgets ==
  /\ read' \in [Channels -> ReadRecord]
  /\ \A c \in Channels : \/ read'[c] \in {read[c], NoRead}
                         \/ read'[c].disturbed /\ read'[c].status = "partial"

LEMMA Keeps ==
  ASSUME TypeOK, NEW c, NEW delivered \in BOOLEAN,
         \/ Fails(c, delivered)
         \/ ReadBecomes(c, read[c])
         \/ ReadBecomes(c, NoRead)
         \/ UNCHANGED read
  PROVE  KeepsOrForgets
<1> NoRead \in ReadRecord
  BY ConstantRecords
<1> read \in [Channels -> ReadRecord]
  BY DEF TypeOK, ReadRecord
<1>1. ASSUME NEW r, r = read[c] \/ r = NoRead, ReadBecomes(c, r)
      PROVE  KeepsOrForgets
  <2>1. \A d \in Channels : read'[d] = IF d = c THEN r ELSE Disturb(read[d])
    BY <1>1 DEF ReadBecomes
  <2>2. ASSUME NEW d \in Channels
        PROVE  /\ read'[d] \in ReadRecord
               /\ \/ read'[d] \in {read[d], NoRead}
                  \/ read'[d].disturbed /\ read'[d].status = "partial"
    BY <1>1, <2>1, DisturbType
  <2>3. read' \in [Channels -> ReadRecord]
    BY <1>1, <2>2 DEF ReadBecomes
  <2> QED BY <2>2, <2>3 DEF KeepsOrForgets
<1>2. CASE Fails(c, delivered)
  BY <1>1, <1>2 DEF Fails
<1>3. CASE UNCHANGED read
  BY <1>3 DEF KeepsOrForgets
<1> QED BY <1>1, <1>2, <1>3

(* The variables that only say when a step can happen.                     *)
OtherTypes ==
  /\ initialized \in BOOLEAN /\ inactive \in BOOLEAN
  /\ titled \in BOOLEAN /\ secured \in BOOLEAN
  /\ received \in {"empty", "mixed"} \cup Channels
  /\ socket \in {"none", "open", "failing", "closed"}

LEMMA KeptRead ==
  ASSUME IInv, KeepsOrForgets, NEW c \in Channels, read'[c] # read[c]
  PROVE  ReadInv(c)'
<1>1. CASE read'[c] = NoRead
  BY <1>1, NotReading
<1>2. CASE read'[c].disturbed
  BY <1>2 DEF ReadInv
<1> QED BY <1>1, <1>2 DEF KeepsOrForgets

(* A step that leaves the transaction and the counters alone.              *)
LEMMA NoProgress ==
  ASSUME IInv, KeepsOrForgets, OtherTypes',
         UNCHANGED <<associated, transaction, count, index>>,
         blockIndex' \in Nat \ {0},
         blockIndex' = blockIndex \/ transaction.kind = "none"
  PROVE  IInv'
<1>1. TypeOK'
  BY DEF IInv, TypeOK, OtherTypes, KeepsOrForgets, ReadRecord
<1>2. RowsPendingOnlyInTransaction' /\ RowsInv'
  BY DEF IInv, RowsPendingOnlyInTransaction, RowsInv, Sent
<1>3. ASSUME NEW c \in Channels
      PROVE  ReadInv(c)'
  <2>1. CASE read'[c] # read[c]
    BY <2>1, KeptRead
  <2>2. CASE read'[c] = read[c]
    BY <2>2 DEF IInv, ReadInv, PartialInv, DoneInv, ReadLength, LosesByte, Sent
  <2> QED BY <2>1, <2>2
<1> QED BY <1>1, <1>2, <1>3 DEF IInv

(* A step that drops the transaction and the counters.                     *)
LEMMA Dropped ==
  ASSUME IInv, KeepsOrForgets, OtherTypes', associated' \in BOOLEAN,
         transaction' = None, count' = 0, index' = 0, UNCHANGED blockIndex
  PROVE  IInv'
<1>1. TypeOK'
  BY ConstantRecords DEF IInv, TypeOK, OtherTypes, KeepsOrForgets, ReadRecord,
                         TransactionRecord
<1>2. RowsPendingOnlyInTransaction' /\ RowsInv'
  BY DEF RowsPendingOnlyInTransaction, RowsInv, None
<1>3. ASSUME NEW c \in Channels
      PROVE  ReadInv(c)'
  <2>1. CASE read'[c] # read[c]
    BY <2>1, KeptRead
  <2>2. CASE read'[c] = read[c]
    BY <2>2 DEF IInv, ReadInv, PartialInv, DoneInv, ReadLength, LosesByte
  <2> QED BY <2>1, <2>2
<1> QED BY <1>1, <1>2, <1>3 DEF IInv

------------------------------------------------------------------------------
(* The steps of an association.                                            *)

LEMMA ServesTypes ==
  ASSUME TypeOK, NEW c \in Channels, NEW delivered \in BOOLEAN, Serves(c, delivered),
         titled' \in BOOLEAN, secured' \in BOOLEAN
  PROVE  OtherTypes'
<1>1. /\ received' = "empty" /\ inactive' = FALSE /\ initialized' = initialized
      /\ socket' \in {"none", "open", "failing", "closed"}
  BY DEF TypeOK, Serves, Receives, Replies
<1>2. initialized' \in BOOLEAN
  BY <1>1 DEF TypeOK
<1> QED BY <1>1, <1>2 DEF OtherTypes

LEMMA HandlesTypes ==
  ASSUME TypeOK, NEW c \in Channels, NEW ciphered \in BOOLEAN, NEW delivered \in BOOLEAN,
         Handles(c, ciphered, delivered)
  PROVE  OtherTypes'
<1>1. titled' = titled /\ (secured' \in BOOLEAN \/ secured' = secured)
  BY DEF Handles, Deciphers
<1>2. titled' \in BOOLEAN /\ secured' \in BOOLEAN
  BY <1>1 DEF TypeOK
<1> QED BY <1>2, ServesTypes DEF Handles

LEMMA AarqKeeps ==
  ASSUME IInv, NEW c \in Channels, NEW accepted \in BOOLEAN, NEW delivered \in BOOLEAN,
         Aarq(c, accepted, delivered)
  PROVE  IInv'
<1>1. OtherTypes'
  <2>1. titled' \in {titled, TRUE} /\ secured' \in {FALSE, titled'}
    BY DEF Aarq
  <2>2. titled' \in BOOLEAN
    BY <2>1 DEF IInv, TypeOK
  <2>3. secured' \in BOOLEAN
    BY <2>1, <2>2
  <2> QED BY <2>2, <2>3, ServesTypes DEF Aarq, IInv
<1>2. KeepsOrForgets
  BY Keeps DEF Aarq, IInv
<1>3. associated' \in BOOLEAN
  BY DEF Aarq
<1> QED BY <1>1, <1>2, <1>3, Dropped DEF Aarq

(* A reply that fits: the counters agree, the read is over.                *)
LEMMA GetShortKeeps ==
  ASSUME IInv, NEW c \in Channels, NEW ciphered \in BOOLEAN, NEW delivered \in BOOLEAN,
         GetShort(c, ciphered, delivered)
  PROVE  IInv'
<1> DEFINE r == IF delivered THEN ShortRead ELSE NoRead
<1>1. r \in ReadRecord /\ r \in {NoRead, ShortRead} /\ ReadBecomes(c, r)
  BY ConstantRecords DEF GetShort
<1> HIDE DEF r
<1>2. read' \in [Channels -> ReadRecord]
  BY <1>1, OneReader
<1>3. \A d \in Channels : ReadInv(d)'
  <2>1. ReadInv(c)'
    BY <1>1, OneReader, NotReading
  <2> QED BY <1>1, <2>1, OneReader
<1>4. OtherTypes'
  BY HandlesTypes DEF GetShort, HandlesGet, IInv
<1>5. TypeOK'
  BY <1>2, <1>4 DEF IInv, GetShort, TypeOK, OtherTypes, ReadRecord
<1>6. RowsPendingOnlyInTransaction' /\ RowsInv'
  BY DEF IInv, GetShort, RowsPendingOnlyInTransaction, RowsInv, Sent
<1> QED BY <1>3, <1>5, <1>6 DEF IInv

(* A write: what it opens is not a read, and it disturbs every read when   *)
(* it changes what the server keeps.                                       *)
LEMMA SetKeeps ==
  ASSUME IInv, NEW c \in Channels, NEW ciphered \in BOOLEAN, NEW delivered \in BOOLEAN,
         Set(c, ciphered, delivered)
  PROVE  IInv'
<1>1. read[c] \in ReadRecord
  BY DEF IInv, TypeOK, ReadRecord
<1>2. Disturb(read[c]) \in ReadRecord /\ ReadBecomes(c, Disturb(read[c]))
  BY <1>1, DisturbType DEF Set
<1>3. read' \in [Channels -> ReadRecord] /\ read'[c] = Disturb(read[c])
  BY <1>2, OneReader
<1>4. \A d \in Channels : ReadInv(d)'
  BY <1>2, <1>3, DisturbKeeps, OneReader
<1>5. OtherTypes'
  BY HandlesTypes DEF Set, IInv
<1>6. transaction' \in {transaction, WriteData}
  BY DEF Set
<1>7. TypeOK'
  <2>1. transaction' \in TransactionRecord
    BY <1>6, ConstantRecords DEF IInv, TypeOK, TransactionRecord
  <2> QED BY <1>3, <1>5, <2>1 DEF IInv, Set, TypeOK, OtherTypes, ReadRecord, TransactionRecord
<1>8. RowsPendingOnlyInTransaction'
  BY <1>6, ConstantRecords DEF IInv, Set, RowsPendingOnlyInTransaction
<1>9. RowsInv'
  <2>1. CASE transaction' = WriteData
    BY <2>1, ConstantRecords DEF RowsInv
  <2>2. CASE transaction' = transaction
    BY <2>2 DEF IInv, Set, RowsInv, Sent
  <2> QED BY <1>6, <2>1, <2>2
<1> QED BY <1>4, <1>7, <1>8, <1>9 DEF IInv

(* The first reply to a read: an ordinary one, a last block, or a block    *)
(* after which the client and the transaction agree.                       *)
LEMMA GetKeeps ==
  ASSUME IInv, NEW c \in Channels, NEW q \in Reads[c], NEW ciphered \in BOOLEAN,
         NEW delivered \in BOOLEAN, Get(c, q[1], q[2], ciphered, delivered)
  PROVE  IInv'
<1> DEFINE from == q[1]
           to == q[2]
           room == Room(secured')
           rows == RowsRead(from, to)
           wanted == to - from
           bytes == HeaderSize + rows * RowSize
           length == FirstLength(rows, wanted, bytes, room)
           ordinary == Ordinary(rows, wanted, bytes, room)
           fits == Fits(bytes, room)
           t == RowData(from, from + rows, to, bytes - length)
           r == IF ~delivered THEN NoRead
                ELSE [status |-> IF ordinary \/ fits THEN "done" ELSE "partial",
                      from |-> from, end |-> to, blocks |-> 1,
                      got |-> length, sound |-> TRUE, disturbed |-> FALSE]
<1>1. /\ from \in 0 .. RowCount /\ to \in 0 .. RowCount /\ from <= to
      /\ wanted \in 0 .. RowCount
  BY IntervalType
<1>2. rows \in Nat /\ from + rows <= RowCount
  <2> HIDE DEF from, to
  <2> QED BY <1>1, RowsReadType
<1>3. rows * RowSize \in Nat /\ bytes \in 0 .. MaxBytes /\ bytes \in Nat
  BY <1>2, <1>1, SizesAreOrdered DEF MaxBytes
<1>4. OtherTypes' /\ IsRoom(room)
  <2>1. OtherTypes'
    BY HandlesTypes DEF Get, HandlesGet, IInv
  <2>2. secured' \in BOOLEAN
    BY <2>1 DEF OtherTypes
  <2> QED BY <2>1, <2>2, RoomType
<1>5. length \in 0 .. bytes /\ (~ordinary /\ ~fits => length < bytes)
  <2>1. rows \in Nat /\ wanted \in Nat /\ bytes \in Nat
    BY <1>1, <1>2, <1>3
  <2> HIDE DEF rows, wanted, bytes, room
  <2> QED BY <2>1, <1>4, FirstLengthType
<1>6. /\ associated' = associated
      /\ blockIndex' = 1
      /\ (fits /\ ~ordinary) => count' = 0 /\ index' = 0
      /\ ~(fits /\ ~ordinary) => count' = wanted /\ index' = rows
      /\ length = bytes => transaction' = transaction
      /\ length # bytes => transaction' = t
      /\ ReadBecomes(c, r)
  BY DEF Get
<1>7. ordinary => rows = wanted /\ bytes <= room - 3 /\ length = Least(bytes, MaxPduSize - 4)
  BY DEF Ordinary, FirstLength
<1>8. t \in TransactionRecord /\ t.kind = "rows" /\ t.from = from
      /\ t.begin = from + rows /\ t.end = to /\ t.left = bytes - length
  <2> HIDE DEF rows, wanted, bytes, length, ordinary, fits, room, from, to
  <2> QED BY <1>1, <1>2, <1>3, <1>5, FileSize DEF RowData, TransactionRecord
<1>9. t # None /\ Sent(t) = length
  <2>1. from + rows - from = rows
    BY <1>1, <1>2
  <2>2. Sent(t) = HeaderSize + rows * RowSize - (bytes - length)
    <3>1. Sent(t) = HeaderSize + (t.begin - t.from) * RowSize - t.left
      BY DEF Sent
    <3> HIDE DEF rows, wanted, bytes, length, ordinary, fits, t, r, room, from, to
    <3>2. t.begin - t.from = rows
      BY <1>1, <1>2, <1>8
    <3> QED BY <1>8, <3>1, <3>2
  <2>3. t # None
    BY <1>8, ConstantRecords
  <2> QED BY <2>2, <2>3, <1>3, <1>5
<1>10. ~delivered => r = NoRead
  OBVIOUS
<1>11. delivered => /\ r.status = (IF ordinary \/ fits THEN "done" ELSE "partial")
                    /\ r.from = from /\ r.end = to /\ r.blocks = 1 /\ r.got = length
                    /\ r.sound /\ ~r.disturbed
  OBVIOUS
<1>12. r \in ReadRecord
  <2> DEFINE status == IF ordinary \/ fits THEN "done" ELSE "partial"
             begun == [status |-> status, from |-> from, end |-> to, blocks |-> 1,
                       got |-> length, sound |-> TRUE, disturbed |-> FALSE]
  <2>1. status \in {"none", "partial", "done"}
    OBVIOUS
  <2>2. r = begun \/ r = NoRead
    OBVIOUS
  <2>3. length \in Nat
    <3> HIDE DEF length, bytes
    <3> QED BY <1>3, <1>5
  <2> HIDE DEF status, r, rows, wanted, bytes, length, ordinary, fits, room, from, to
  <2>4. begun \in ReadRecord
    BY <2>1, <2>3, <1>1 DEF ReadRecord
  <2> HIDE DEF begun
  <2> QED BY <2>2, <2>4, ConstantRecords
<1>13. bytes = HeaderSize + rows * RowSize /\ wanted = to - from
  OBVIOUS
<1>14. \/ to # RowCount
       \/ rows = RowCount - from
       \/ /\ RowsToPdu < RowCount - from /\ rows = RowsToPdu
          /\ rows * RowSize > MaxPduSize - 3
  <2> HIDE DEF from, to
  <2> QED BY <1>1, RowsToTheEnd
<1>15. fits <=> bytes <= room - 9
  BY DEF Fits
<1>16. ~ordinary => rows # wanted \/ bytes > room - 3
  <2> HIDE DEF rows, wanted, room
  <2>1. bytes <= room - 3 \/ bytes > room - 3
    BY <1>3, <1>4 DEF IsRoom
  <2> QED BY <2>1 DEF Ordinary
<1> HIDE DEF rows, wanted, bytes, length, ordinary, fits, t, r, room, from, to
<1>17. TypeOK'
  <2>1. count' \in 0 .. RowCount /\ index' \in 0 .. RowCount
    BY <1>1, <1>2, <1>6
  <2>2. transaction' \in TransactionRecord
    BY <1>6, <1>8 DEF IInv, TypeOK, TransactionRecord
  <2>3. read' \in [Channels -> ReadRecord]
    BY <1>6, <1>12, OneReader
  <2> QED BY <1>4, <1>6, <2>1, <2>2, <2>3
          DEF IInv, TypeOK, OtherTypes, ReadRecord, TransactionRecord
<1>18. RowsPendingOnlyInTransaction'
  <2>1. CASE length = bytes
    <3>1. count' = index'
      BY <2>1, <1>5, <1>6, <1>7, <1>3
    <3> QED BY <3>1 DEF RowsPendingOnlyInTransaction
  <2>2. CASE length # bytes
    BY <2>2, <1>6, <1>9 DEF RowsPendingOnlyInTransaction
  <2> QED BY <2>1, <2>2
<1>19. RowsInv'
  <2>1. CASE length = bytes
    <3>1. count' = index' /\ transaction' = transaction
      BY <2>1, <1>5, <1>6, <1>7, <1>3
    <3> QED BY <3>1 DEF IInv, RowsInv, Sent
  <2>2. CASE length # bytes
    <3>1. transaction' = t
      BY <2>2, <1>6
    <3>2. Sent(transaction)' = length
      BY <3>1, <1>9 DEF Sent
    <3>3. count' # index' => index' = rows
      BY <1>6
    <3> QED BY <3>1, <3>2, <3>3, <1>1, <1>2, <1>5, <1>8, <1>3 DEF RowsInv
  <2> QED BY <2>1, <2>2
<1>20. ReadInv(c)'
  <2>1. read'[c] = r
    BY <1>6, <1>12, OneReader
  <2>2. CASE ~delivered
    BY <2>1, <2>2, <1>10, NotReading
  <2>3. CASE delivered /\ ~ordinary /\ ~fits
    <3>1. length # bytes /\ transaction' = t
      BY <2>3, <1>5, <1>6, <1>3
    <3>2. Sent(transaction)' = length
      BY <3>1, <1>9 DEF Sent
    <3>3. count' = wanted /\ index' = rows
      BY <2>3, <1>6
    <3>4. PartialInv(c)'
      BY <2>1, <2>3, <3>1, <3>2, <3>3, <1>1, <1>2, <1>6, <1>8, <1>11, <1>13 DEF PartialInv
    <3>5. DoneInv(c)'
      BY <2>1, <2>3, <1>11 DEF DoneInv
    <3> QED BY <2>1, <2>3, <3>4, <3>5, <1>11 DEF ReadInv
  <2>4. CASE delivered /\ (ordinary \/ fits)
    <3>1. ASSUME to = RowCount
          PROVE  \/ length = HeaderSize + (to - from) * RowSize
                 \/ /\ HeaderSize + (to - from) * RowSize = MaxPduSize - 3
                    /\ length = MaxPduSize - 4
      <4>1. CASE rows = RowCount - from
        <5>1. bytes = HeaderSize + (to - from) * RowSize
          BY <3>1, <4>1, <1>13
        <5>2. ordinary
          BY <3>1, <4>1, <2>4, <1>3, <1>4, <1>13, <1>15, <1>16 DEF IsRoom
        <5>3. bytes <= MaxPduSize - 3 /\ length = Least(bytes, MaxPduSize - 4)
          BY <5>2, <1>3, <1>4, <1>7 DEF IsRoom
        <5> QED BY <5>1, <5>3, <1>3 DEF Least
      <4>2. CASE RowsToPdu < RowCount - from /\ rows = RowsToPdu
                 /\ rows * RowSize > MaxPduSize - 3
        <5>1. rows # wanted
          BY <3>1, <4>2, <1>1, <1>13
        <5>2. ~(bytes <= room - 9)
          BY <4>2, <1>3, <1>4, <1>13 DEF IsRoom
        <5> QED BY <2>4, <5>1, <5>2, <1>7, <1>15
      <4> QED BY <3>1, <4>1, <4>2, <1>14
    <3>2. DoneInv(c)'
      BY <2>1, <2>4, <3>1, <1>11 DEF DoneInv, ReadLength, LosesByte
    <3>3. PartialInv(c)'
      BY <2>1, <2>4, <1>11 DEF PartialInv
    <3> QED BY <2>1, <2>4, <3>2, <3>3, <1>11 DEF ReadInv
  <2> QED BY <2>2, <2>3, <2>4
<1>21. \A d \in Channels : ReadInv(d)'
  BY <1>6, <1>12, <1>20, OneReader
<1> QED BY <1>17, <1>18, <1>19, <1>21 DEF IInv

(* A read that is not disturbed, with one block more.                      *)
OneMore(c, number, t, opens, length, last, r) ==
  /\ read[c].status = "partial" /\ ~read[c].disturbed /\ number = read[c].blocks
  /\ r.status = (IF last THEN "done" ELSE "partial")
  /\ r.from = read[c].from /\ r.end = read[c].end
  /\ r.blocks = number + 1 /\ r.got = read[c].got + length
  /\ r.sound = (/\ read[c].sound /\ t.kind = "rows"
                /\ t.from = read[c].from /\ t.end = read[c].end
                /\ Sent(t) = read[c].got)
  /\ last => opens

(* What a client has after a further block: nothing, a disturbed read, or  *)
(* one block more.                                                         *)
LEMMA WithBlockCases ==
  ASSUME NEW c \in Channels, NEW number \in Nat, NEW t, NEW opens \in BOOLEAN,
         NEW length \in Nat, NEW last \in BOOLEAN, read[c] \in ReadRecord,
         NEW r, r = WithBlock(c, number, t, opens, length, last)
  PROVE  /\ r \in ReadRecord
         /\ \/ r = NoRead
            \/ r.disturbed
            \/ OneMore(c, number, t, opens, length, last, r)
<1> DEFINE status == IF last THEN "done" ELSE "partial"
           sound == /\ read[c].sound /\ t.kind = "rows"
                    /\ t.from = read[c].from /\ t.end = read[c].end
                    /\ Sent(t) = read[c].got
           disturbed == last /\ ~opens
           other == [read[c] EXCEPT !.status = status, !.blocks = number + 1, !.sound = FALSE]
           more == [read[c] EXCEPT !.status = status, !.blocks = number + 1,
                                   !.got = read[c].got + length,
                                   !.sound = sound, !.disturbed = disturbed]
<1>1. /\ status \in {"none", "partial", "done"} /\ sound \in BOOLEAN
      /\ disturbed \in BOOLEAN /\ number + 1 \in Nat
  OBVIOUS
<1>2. read[c].got + length \in Nat
  BY DEF ReadRecord
<1>3. \/ r = NoRead
      \/ r = other /\ read[c].disturbed
      \/ r = more /\ read[c].status = "partial" /\ ~read[c].disturbed /\ number = read[c].blocks
  BY DEF WithBlock
<1>4. status = (IF last THEN "done" ELSE "partial") /\ (last /\ ~disturbed => opens)
      /\ sound = (/\ read[c].sound /\ t.kind = "rows"
                  /\ t.from = read[c].from /\ t.end = read[c].end
                  /\ Sent(t) = read[c].got)
  OBVIOUS
<1> HIDE DEF status, sound, disturbed
<1>5. other \in ReadRecord /\ other.disturbed = read[c].disturbed
  BY <1>1 DEF ReadRecord
<1>6. /\ more \in ReadRecord
      /\ more.status = status /\ more.from = read[c].from /\ more.end = read[c].end
      /\ more.blocks = number + 1 /\ more.got = read[c].got + length
      /\ more.sound = sound /\ more.disturbed = disturbed
  BY <1>1, <1>2 DEF ReadRecord
<1> HIDE DEF other, more
<1>7. r \in ReadRecord
  BY <1>3, <1>5, <1>6, ConstantRecords
<1>8. CASE r = more /\ read[c].status = "partial" /\ ~read[c].disturbed
           /\ number = read[c].blocks
  BY <1>4, <1>6, <1>7, <1>8 DEF OneMore
<1>9. CASE r = other /\ read[c].disturbed
  BY <1>5, <1>7, <1>9
<1>10. CASE r = NoRead
  BY <1>7, <1>10
<1> QED BY <1>3, <1>8, <1>9, <1>10

(* What the next block is made of, and what the step leaves: after the     *)
(* last block nothing, before it the transaction that sent it.  More rows  *)
(* are read unless none are due, or DATAFILE does not open.                *)
NextRows(t, rows, left) == RowData(t.from, t.begin + rows, t.end, left)

BlockStep(c, number, opens, delivered, room, rows, bytes, length, last) ==
  LET t == transaction IN
  /\ \/ rows = RowsRead(t.begin, t.end)
     \/ rows = 0 /\ ~opens
     \/ rows = 0 /\ ~(index # count /\ t.left < MaxPduSize /\ t.kind = "rows")
  /\ rows # 0 => index # count
  /\ t.begin + rows <= RowCount
  /\ rows * RowSize \in Nat /\ bytes = t.left + rows * RowSize
  /\ last => t.kind = "write" \/ (bytes <= room - 9 /\ length = bytes)
  /\ ~last => t.kind = "rows" /\ length >= ShortestBlock /\ length < bytes
  /\ OtherTypes' /\ associated' = associated /\ number = blockIndex
  /\ last => blockIndex' = 1 /\ count' = 0 /\ index' = 0 /\ transaction' = None
  /\ ~last => /\ blockIndex' = blockIndex + 1 /\ count' = count
              /\ index' = index + rows
              /\ transaction' = NextRows(t, rows, bytes - length)
  /\ ReadBecomes(c, IF delivered THEN WithBlock(c, number, t, opens, length, last)
                    ELSE read[c])

LEMMA BlockFacts ==
  ASSUME IInv, NEW c \in Channels, NEW number \in 1 .. MaxBlock, NEW opens \in BOOLEAN,
         NEW ciphered \in BOOLEAN, NEW delivered \in BOOLEAN,
         NextBlock(c, number, opens, ciphered, delivered)
  PROVE  \E room, rows, bytes, length \in Nat, last \in BOOLEAN :
           /\ IsRoom(room)
           /\ BlockStep(c, number, opens, delivered, room, rows, bytes, length, last)
<1> DEFINE room   == Room(secured')
           t      == transaction
           due    == index # count /\ t.left < MaxPduSize /\ t.kind = "rows"
           rows   == IF due /\ opens THEN RowsRead(t.begin, t.end) ELSE 0
           bytes  == t.left + rows * RowSize
           length == BlockLength(bytes, room)
           last   == LastBlock(t, rows, bytes, room)
           r      == IF delivered THEN WithBlock(c, number, t, opens, length, last)
                     ELSE read[c]
<1>1. /\ t \in TransactionRecord /\ t.kind # "none"
      /\ t.begin \in 0 .. RowCount /\ t.end \in 0 .. RowCount /\ t.left \in Nat
  <2>1. t \in TransactionRecord /\ t.kind # "none"
    BY DEF IInv, TypeOK, TransactionRecord, NextBlock
  <2> QED BY <2>1, FileSize DEF TransactionRecord
<1>2. OtherTypes' /\ IsRoom(room)
  <2>1. OtherTypes'
    BY HandlesTypes DEF NextBlock, HandlesGet, IInv
  <2>2. secured' \in BOOLEAN
    BY <2>1 DEF OtherTypes
  <2> QED BY <2>1, <2>2, RoomType
<1>3. \/ rows = RowsRead(t.begin, t.end) /\ index # count
      \/ rows = 0 /\ ~opens
      \/ rows = 0 /\ ~(index # count /\ t.left < MaxPduSize /\ t.kind = "rows")
  OBVIOUS
<1>4. rows \in Nat /\ t.begin + rows <= RowCount
  <2>1. /\ RowsRead(t.begin, t.end) \in Nat
        /\ t.begin + RowsRead(t.begin, t.end) <= RowCount
    BY <1>1, RowsReadType
  <2> HIDE DEF rows
  <2> QED BY <2>1, <1>1, <1>3
<1>5. rows * RowSize \in Nat /\ bytes \in Nat /\ bytes = t.left + rows * RowSize
  <2>1. rows * RowSize \in Nat
    BY <1>4, ProductType
  <2> HIDE DEF rows
  <2> QED BY <2>1, <1>1
<1>6. /\ associated' = associated /\ number = blockIndex
      /\ last => blockIndex' = 1 /\ count' = 0 /\ index' = 0 /\ transaction' = None
      /\ ~last => /\ blockIndex' = blockIndex + 1 /\ count' = count
                  /\ index' = index + rows /\ transaction' = NextRows(t, rows, bytes - length)
      /\ ReadBecomes(c, r)
  BY DEF NextBlock, Expected, NextRows
<1>7. (last <=> t.kind = "write" \/ Fits(bytes, room)) /\ last \in BOOLEAN
  BY DEF LastBlock
<1>8. length = BlockLength(bytes, room)
      /\ r = IF delivered THEN WithBlock(c, number, t, opens, length, last) ELSE read[c]
  OBVIOUS
<1> HIDE DEF rows, bytes, length, last, room
<1>9. /\ length \in Nat
      /\ Fits(bytes, room) => length = bytes
      /\ ~Fits(bytes, room) => length < bytes /\ length >= ShortestBlock
      /\ Fits(bytes, room) => bytes <= room - 9
  BY <1>2, <1>5, <1>8, BlockLengthType DEF Fits
<1>10. room \in Nat
  BY <1>2 DEF IsRoom
<1>11. t.kind = "rows" \/ t.kind = "write"
  BY <1>1 DEF TransactionRecord
<1>12. /\ last => t.kind = "write" \/ (bytes <= room - 9 /\ length = bytes)
       /\ ~last => t.kind = "rows" /\ length >= ShortestBlock /\ length < bytes
  BY <1>7, <1>9, <1>11
<1>13. rows # 0 => index # count
  BY <1>3
<1> HIDE DEF r
<1>14. BlockStep(c, number, opens, delivered, room, rows, bytes, length, last)
  BY <1>2, <1>3, <1>4, <1>5, <1>6, <1>8, <1>12, <1>13 DEF BlockStep
<1> HIDE DEF t
<1> QED BY <1>2, <1>4, <1>5, <1>7, <1>9, <1>10, <1>14

(* A further block.  What the client gets starts where the transaction     *)
(* is, and a last block empties it.                                        *)
LEMMA NextBlockKeeps ==
  ASSUME IInv, NEW c \in Channels, NEW number \in 1 .. MaxBlock, NEW opens \in BOOLEAN,
         NEW ciphered \in BOOLEAN, NEW delivered \in BOOLEAN,
         NextBlock(c, number, opens, ciphered, delivered)
  PROVE  IInv'
<1>1. PICK room, rows, bytes, length \in Nat, last \in BOOLEAN :
        /\ IsRoom(room)
        /\ BlockStep(c, number, opens, delivered, room, rows, bytes, length, last)
  BY BlockFacts
<1> DEFINE t == transaction
           next == NextRows(t, rows, bytes - length)
           r == IF delivered THEN WithBlock(c, number, t, opens, length, last) ELSE read[c]
<1>2. /\ t \in TransactionRecord
      /\ t.from \in 0 .. RowCount /\ t.begin \in 0 .. RowCount /\ t.end \in 0 .. RowCount
      /\ t.left \in 0 .. MaxBytes /\ t.left \in Nat
      /\ transaction # None
  <2>1. t \in TransactionRecord /\ t.kind # "none"
    BY DEF IInv, TypeOK, TransactionRecord, NextBlock
  <2> QED BY <2>1, ConstantRecords, FileSize DEF TransactionRecord
<1>3. /\ \/ rows = RowsRead(t.begin, t.end)
         \/ rows = 0 /\ ~opens
         \/ rows = 0 /\ ~(index # count /\ t.left < MaxPduSize /\ t.kind = "rows")
      /\ rows # 0 => index # count
      /\ t.begin + rows <= RowCount
      /\ rows * RowSize \in Nat /\ bytes = t.left + rows * RowSize
      /\ last => t.kind = "write" \/ (bytes <= room - 9 /\ length = bytes)
      /\ ~last => t.kind = "rows" /\ length >= ShortestBlock /\ length < bytes
  BY <1>1 DEF BlockStep
<1>4. /\ OtherTypes' /\ associated' = associated /\ number = blockIndex
      /\ last => blockIndex' = 1 /\ count' = 0 /\ index' = 0 /\ transaction' = None
      /\ ~last => /\ blockIndex' = blockIndex + 1 /\ count' = count
                  /\ index' = index + rows /\ transaction' = next
      /\ ReadBecomes(c, r)
  BY <1>1 DEF BlockStep
<1>5. /\ next.kind = "rows" /\ next.from = t.from /\ next.begin = t.begin + rows
      /\ next.end = t.end /\ next.left = bytes - length
      /\ next = [kind |-> "rows", from |-> t.from, begin |-> t.begin + rows,
                  end |-> t.end, left |-> bytes - length]
  BY DEF NextRows, RowData
<1>6. Sent(t) = HeaderSize + (t.begin - t.from) * RowSize - t.left
  BY DEF Sent
<1>7. r = read[c] \/ r = WithBlock(c, number, t, opens, length, last)
  OBVIOUS
<1>8. read[c] \in ReadRecord /\ ReadInv(c)
  BY DEF IInv, TypeOK, ReadRecord
<1> HIDE DEF next, r
<1>9. next # None
  BY <1>5, ConstantRecords
<1>10. Sent(t) \in Int
  <2>1. (t.begin - t.from) * RowSize \in Int
    BY <1>2
  <2> QED BY <2>1, <1>2, <1>6
<1>11. Sent(next) = Sent(t) + length
  <2>1. next.begin - next.from = (t.begin - t.from) + rows
    BY <1>2, <1>5
  <2>2. (next.begin - next.from) * RowSize = (t.begin - t.from) * RowSize + rows * RowSize
    BY <2>1, <1>2, Distributivity
  <2>3. (t.begin - t.from) * RowSize \in Int
    BY <1>2
  <2>4. Sent(next) = HeaderSize + (next.begin - next.from) * RowSize - next.left
    BY DEF Sent
  <2> QED BY <2>2, <2>3, <2>4, <1>2, <1>3, <1>5, <1>6
<1>12. ~last => /\ t.from <= t.begin /\ Sent(t) >= 0
                /\ index # count => index = t.begin - t.from
  BY <1>3 DEF IInv, RowsInv
<1>13. ASSUME ~last
       PROVE  next \in TransactionRecord /\ Sent(next) >= 0
  <2>1. Sent(next) >= 0
    BY <1>10, <1>11, <1>12, <1>13
  <2>2. next.begin - next.from \in Nat /\ next.begin - next.from <= RowCount
    BY <1>2, <1>3, <1>5, <1>12, <1>13
  <2>3. /\ (next.begin - next.from) * RowSize \in Nat
        /\ (next.begin - next.from) * RowSize <= RowCount * RowSize
    BY <2>2, SizesAreOrdered
  <2>4. next.left \in Nat
    BY <1>3, <1>5, <1>13
  <2>5. next.left <= MaxBytes
    <3>1. Sent(next) = HeaderSize + (next.begin - next.from) * RowSize - next.left
      BY DEF Sent
    <3>2. RowCount * RowSize \in Nat
      BY ProductType
    <3> QED BY <3>1, <3>2, <2>1, <2>3, <2>4 DEF MaxBytes
  <2>6. bytes - length \in 0 .. MaxBytes /\ t.begin + rows \in 0 .. RowCount
    BY <2>4, <2>5, <1>2, <1>3, <1>5, FileSize
  <2> QED BY <2>1, <2>6, <1>2, <1>5 DEF TransactionRecord
<1>14. index' \in 0 .. RowCount /\ count' \in 0 .. RowCount /\ blockIndex' \in Nat \ {0}
  <2>1. index \in 0 .. RowCount /\ count \in 0 .. RowCount /\ blockIndex \in Nat \ {0}
    BY DEF IInv, TypeOK
  <2>2. CASE last
    BY <2>2, <1>4
  <2>3. CASE ~last
    BY <2>1, <2>3, <1>2, <1>3, <1>4, <1>12
  <2> QED BY <2>2, <2>3
<1>15. ASSUME r = read[c]
       PROVE  r \in ReadRecord /\ ReadInv(c)'
  <2>1. r \in ReadRecord /\ read'[c] = read[c]
    BY <1>4, <1>8, <1>15, OneReader
  <2>2. CASE read[c].disturbed
    BY <2>1, <2>2 DEF ReadInv
  <2>3. CASE ~read[c].disturbed
    <3>1. DoneInv(c)' /\ read'[c].sound
      BY <2>1, <2>3, <1>8 DEF ReadInv, DoneInv, ReadLength, LosesByte
    <3>2. PartialInv(c)'
      <4>1. CASE last \/ read[c].status # "partial"
        BY <2>1, <4>1, <1>4 DEF PartialInv
      <4>2. CASE ~last /\ read[c].status = "partial"
        <5>1. /\ t.from = read[c].from /\ t.end = read[c].end
              /\ count = t.end - t.from /\ index = t.begin - t.from
              /\ blockIndex >= read[c].blocks
          BY <2>3, <4>2, <1>2, <1>8 DEF ReadInv, PartialInv
        <5>2. blockIndex \in Nat /\ read[c].blocks \in Nat
          BY <1>8 DEF IInv, TypeOK, ReadRecord
        <5>3. blockIndex' > read'[c].blocks /\ blockIndex' # read'[c].blocks
              /\ blockIndex' >= read'[c].blocks
          BY <2>1, <4>2, <5>1, <5>2, <1>4
        <5>4. index' = next.begin - next.from /\ count' = next.end - next.from
          BY <4>2, <5>1, <1>2, <1>4, <1>5
        <5> QED BY <2>1, <4>2, <5>1, <5>3, <5>4, <1>4, <1>5 DEF PartialInv
      <4> QED BY <4>1, <4>2
    <3> QED BY <2>1, <3>1, <3>2 DEF ReadInv
  <2> QED BY <2>1, <2>2, <2>3
<1>16. ASSUME r = WithBlock(c, number, t, opens, length, last)
       PROVE  r \in ReadRecord /\ ReadInv(c)'
  <2>1. /\ r \in ReadRecord
        /\ \/ r = NoRead
           \/ r.disturbed
           \/ OneMore(c, number, t, opens, length, last, r)
    <3>1. number \in Nat /\ read[c] \in ReadRecord
      BY <1>8
    <3> HIDE DEF t
    <3> QED BY <3>1, <1>16, WithBlockCases
  <2>2. read'[c] = r
    BY <2>1, <1>4, OneReader
  <2>3. CASE r = NoRead
    BY <2>1, <2>2, <2>3, NotReading
  <2>4. CASE r.disturbed
    BY <2>1, <2>2, <2>4 DEF ReadInv
  <2>5. CASE OneMore(c, number, t, opens, length, last, r)
    <3>1. /\ t.kind = "rows" /\ t.from = read[c].from /\ t.end = read[c].end
          /\ Sent(t) = read[c].got
          /\ count = t.end - t.from /\ index = t.begin - t.from
      BY <2>5, <1>2, <1>4, <1>8 DEF OneMore, ReadInv, PartialInv
    <3>2. r.sound /\ r.from = t.from /\ r.end = t.end /\ r.got = Sent(t) + length
      BY <2>5, <3>1, <1>8 DEF OneMore, ReadInv
    <3>3. CASE last
      <4>1. ASSUME t.end = RowCount
            PROVE  r.got = HeaderSize + (r.end - r.from) * RowSize
        <5>1. length = bytes /\ bytes <= MaxPduSize - 9
          BY <3>1, <3>3, <1>1, <1>3 DEF IsRoom
        <5>2. t.begin + rows = RowCount
          <6>1. CASE rows = 0 /\ ~(index # count /\ t.left < MaxPduSize /\ t.kind = "rows")
            <7>1. t.left < MaxPduSize
              BY <5>1, <6>1, <1>2, <1>3
            <7> QED BY <3>1, <4>1, <6>1, <7>1, <1>2
          <6>2. CASE rows = RowsRead(t.begin, t.end)
            <7>1. rows * RowSize <= MaxPduSize - 9
              BY <5>1, <1>2, <1>3
            <7>2. ~(rows * RowSize > MaxPduSize - 3)
              BY <7>1, <1>3
            <7> QED BY <4>1, <6>2, <7>2, <1>2, RowsToTheEnd
          <6> QED BY <2>5, <3>3, <6>1, <6>2, <1>3 DEF OneMore
        <5>3. (t.begin - t.from) * RowSize + rows * RowSize = (t.end - t.from) * RowSize
          <6>1. (t.begin - t.from) + rows = t.end - t.from
            BY <4>1, <5>2, <1>2
          <6> QED BY <6>1, <1>2, Distributivity
        <5>4. (t.begin - t.from) * RowSize \in Int
          BY <1>2
        <5> QED BY <3>2, <5>1, <5>3, <5>4, <1>2, <1>3, <1>6
      <4>2. DoneInv(c)'
        BY <2>2, <3>2, <4>1 DEF DoneInv, ReadLength
      <4>3. PartialInv(c)'
        BY <2>2, <2>5, <3>3 DEF OneMore, PartialInv
      <4> QED BY <2>1, <2>2, <3>2, <4>2, <4>3 DEF ReadInv
    <3>4. CASE ~last
      <4>1. transaction' = next /\ count' = count /\ index' = index + rows
            /\ blockIndex' = r.blocks
        BY <2>5, <3>4, <1>4 DEF OneMore
      <4>2. Sent(transaction)' = r.got
        BY <3>2, <4>1, <1>11 DEF Sent
      <4>3. index' = next.begin - next.from /\ count' = next.end - next.from
        BY <3>1, <4>1, <1>2, <1>5
      <4>4. blockIndex' \in Nat /\ blockIndex' >= r.blocks
        BY <4>1, <1>14
      <4>5. PartialInv(c)'
        BY <2>2, <3>2, <4>1, <4>2, <4>3, <4>4, <1>5 DEF PartialInv
      <4>6. DoneInv(c)'
        BY <2>2, <2>5, <3>4 DEF OneMore, DoneInv
      <4> QED BY <2>1, <2>2, <3>2, <4>5, <4>6 DEF ReadInv
    <3> QED BY <3>3, <3>4
  <2> QED BY <2>1, <2>3, <2>4, <2>5
<1>17. r \in ReadRecord /\ ReadInv(c)'
  BY <1>7, <1>15, <1>16
<1>18. TypeOK'
  <2>1. transaction' \in TransactionRecord
    BY <1>4, <1>13, ConstantRecords
  <2>2. read' \in [Channels -> ReadRecord]
    BY <1>4, <1>17, OneReader
  <2> QED BY <2>1, <2>2, <1>4, <1>14 DEF IInv, TypeOK, OtherTypes, ReadRecord, TransactionRecord
<1>19. RowsPendingOnlyInTransaction'
  BY <1>4, <1>9 DEF RowsPendingOnlyInTransaction
<1>20. RowsInv'
  <2>1. CASE last
    BY <2>1, <1>4, ConstantRecords DEF RowsInv
  <2>2. CASE ~last
    <3>1. transaction' = next /\ count' = count /\ index' = index + rows
      BY <2>2, <1>4
    <3>2. Sent(transaction)' = Sent(next)
      BY <3>1 DEF Sent
    <3>3. next.from <= next.begin
      BY <2>2, <1>2, <1>5, <1>12
    <3>4. index \in Nat /\ count \in Nat
      BY DEF IInv, TypeOK
    <3>5. count' # index' => index' = next.begin - next.from
      <4>1. CASE index # count
        BY <2>2, <3>1, <4>1, <1>2, <1>5, <1>12
      <4>2. CASE index = count
        BY <3>1, <3>4, <4>2, <1>3
      <4> QED BY <4>1, <4>2
    <3> QED BY <2>2, <3>1, <3>2, <3>3, <3>5, <1>13 DEF RowsInv
  <2> QED BY <2>1, <2>2
<1>21. \A d \in Channels : ReadInv(d)'
  BY <1>4, <1>17, OneReader
<1> QED BY <1>18, <1>19, <1>20, <1>21 DEF IInv

------------------------------------------------------------------------------
(* The theorems.                                                           *)

LEMMA InitInv == Init => IInv
<1> SUFFICES ASSUME Init PROVE IInv
  OBVIOUS
<1>1. TypeOK
  <2>1. transaction \in TransactionRecord /\ read \in [Channels -> ReadRecord]
    BY ConstantRecords DEF Init
  <2>2. /\ initialized \in BOOLEAN /\ associated \in BOOLEAN /\ inactive \in BOOLEAN
        /\ titled \in BOOLEAN /\ secured \in BOOLEAN
        /\ received \in {"empty", "mixed"} \cup Channels
        /\ socket \in {"none", "open", "failing", "closed"}
    BY DEF Init
  <2>3. blockIndex \in Nat \ {0} /\ count \in 0 .. RowCount /\ index \in 0 .. RowCount
    BY DEF Init
  <2> QED BY <2>1, <2>2, <2>3 DEF TypeOK, ReadRecord, TransactionRecord
<1>2. RowsPendingOnlyInTransaction /\ RowsInv
  BY ConstantRecords DEF Init, RowsPendingOnlyInTransaction, RowsInv
<1>3. ASSUME NEW c \in Channels
      PROVE  ReadInv(c)
  <2>1. read[c].status = "none" /\ read[c].sound
    BY DEF Init, NoRead
  <2> QED BY <2>1 DEF ReadInv, PartialInv, DoneInv
<1> QED BY <1>1, <1>2, <1>3 DEF IInv

LEMMA ListenerKeeps == ASSUME IInv, Listener PROVE IInv'
<1>1. TypeOK
  BY DEF IInv
<1>2. CASE Accept \/ SendFails \/ Hangup
  <2>1. Reset /\ ReadBecomes("tcp", NoRead) /\ UNCHANGED <<initialized, security, inactive>>
        /\ socket' \in {"none", "open", "closed"}
    BY <1>2 DEF Accept, SendFails, Hangup
  <2>2. KeepsOrForgets
    BY <2>1, <1>1, Keeps
  <2>3. OtherTypes'
    BY <2>1, <1>1 DEF Reset, security, TypeOK, OtherTypes
  <2> QED BY <2>1, <2>2, <2>3, Dropped DEF Reset
<1>3. CASE RefuseTcp
  <2>1. OtherTypes' /\ blockIndex' \in Nat \ {0} /\ UNCHANGED read
    BY <1>1, <1>3 DEF RefuseTcp, settings, security, TypeOK, OtherTypes
  <2>2. KeepsOrForgets
    BY <2>1, <1>1 DEF KeepsOrForgets, TypeOK, ReadRecord
  <2> QED BY <1>3, <2>1, <2>2, NoProgress DEF RefuseTcp, settings
<1> QED BY <1>2, <1>3 DEF Listener

(* A part of a request, bytes that are none, and what cannot be            *)
(* deciphered leave the server's settings alone.                           *)
LEMMA NoRequestKeeps ==
  ASSUME IInv, NEW c \in Channels, NEW delivered \in BOOLEAN,
         Incomplete(c) \/ BadFrame(c, delivered) \/ NotDeciphered(c, delivered)
  PROVE  IInv'
<1>1. TypeOK
  BY DEF IInv
<1>2. KeepsOrForgets
  BY <1>1, Keeps DEF Incomplete, BadFrame, NotDeciphered
<1>3. settings' = settings
  BY DEF Incomplete, BadFrame, NotDeciphered
<1>4. CASE Incomplete(c) \/ BadFrame(c, delivered)
  <2>1. OtherTypes'
    BY <1>1, <1>4 DEF Incomplete, BadFrame, Replies, security, TypeOK, OtherTypes
  <2> QED BY <1>1, <1>2, <1>3, <2>1, NoProgress DEF settings, TypeOK
<1>5. CASE NotDeciphered(c, delivered)
  <2>1. titled' \in BOOLEAN /\ secured' \in BOOLEAN
    BY <1>1, <1>5 DEF NotDeciphered, TypeOK
  <2>2. OtherTypes'
    BY <1>1, <1>5, <2>1, ServesTypes DEF NotDeciphered
  <2> QED BY <1>1, <1>2, <1>3, <2>2, NoProgress DEF settings, TypeOK
<1> QED BY <1>4, <1>5

LEMMA RequestKeeps ==
  ASSUME IInv, NEW c \in Channels, NEW ciphered \in BOOLEAN, NEW delivered \in BOOLEAN
  PROVE  /\ Release(c, ciphered, delivered) => IInv'
         /\ NotAssociated(c, ciphered, delivered) => IInv'
         /\ \A number \in 1 .. MaxBlock :
              NextBlockFails(c, number, ciphered, delivered) => IInv'
<1>1. TypeOK /\ blockIndex \in Nat \ {0}
  BY DEF IInv, TypeOK
<1>2. ASSUME Release(c, ciphered, delivered)
      PROVE  IInv'
  <2>1. KeepsOrForgets /\ OtherTypes'
    BY <1>1, <1>2, Keeps, HandlesTypes DEF Release
  <2> QED BY <1>2, <2>1, Dropped DEF Release, Reset
<1>3. ASSUME NotAssociated(c, ciphered, delivered)
      PROVE  IInv'
  <2>1. KeepsOrForgets /\ OtherTypes'
    BY <1>1, <1>3, Keeps, HandlesTypes DEF NotAssociated
  <2> QED BY <1>1, <1>3, <2>1, NoProgress DEF NotAssociated, settings
<1>4. ASSUME NEW number \in 1 .. MaxBlock, NextBlockFails(c, number, ciphered, delivered)
      PROVE  IInv'
  <2>1. KeepsOrForgets /\ OtherTypes'
    BY <1>1, <1>4, Keeps, HandlesTypes DEF NextBlockFails, HandlesGet
  <2>2. blockIndex' = blockIndex \/ transaction.kind = "none"
    BY <1>4 DEF NextBlockFails
  <2>3. blockIndex' \in Nat \ {0}
    BY <1>1, <1>4 DEF NextBlockFails
  <2> QED BY <1>4, <2>1, <2>2, <2>3, NoProgress DEF NextBlockFails
<1> QED BY <1>2, <1>3, <1>4

LEMMA CallKeeps == ASSUME IInv, NEW c \in Channels, Call(c) PROVE IInv'
<1>1. CASE TimedOut(c)
  <2>1. TypeOK
    BY DEF IInv
  <2>2. KeepsOrForgets
    BY <1>1, <2>1, Keeps DEF TimedOut
  <2>3. OtherTypes'
    <3>1. /\ received' = "empty" /\ titled' = titled /\ secured' \in BOOLEAN
          /\ inactive' = inactive /\ socket' = socket /\ initialized' = initialized
      BY <1>1 DEF TimedOut, Receives, Reset
    <3> QED BY <2>1, <3>1 DEF TypeOK, OtherTypes
  <2> QED BY <1>1, <2>2, <2>3, Dropped DEF TimedOut, Reset
<1>2. CASE Incomplete(c) \/ \E delivered \in BOOLEAN : BadFrame(c, delivered)
  BY <1>2, NoRequestKeeps
<1>3. CASE Request(c)
  <2>1. PICK ciphered, delivered \in BOOLEAN :
          \/ \E accepted \in BOOLEAN : Aarq(c, accepted, delivered)
          \/ Release(c, ciphered, delivered)
          \/ NotDeciphered(c, delivered)
          \/ NotAssociated(c, ciphered, delivered)
          \/ \E q \in Reads[c] : Get(c, q[1], q[2], ciphered, delivered)
          \/ GetShort(c, ciphered, delivered)
          \/ \E number \in 1 .. MaxBlock :
               \/ NextBlockFails(c, number, ciphered, delivered)
               \/ \E opens \in BOOLEAN : NextBlock(c, number, opens, ciphered, delivered)
          \/ Set(c, ciphered, delivered)
    BY <1>3 DEF Request
  <2> QED BY <2>1, AarqKeeps, RequestKeeps, NoRequestKeeps, GetKeeps, GetShortKeeps,
             NextBlockKeeps, SetKeeps
<1> QED BY <1>1, <1>2, <1>3 DEF Call

LEMMA NextKeeps == IInv /\ [Next]_vars => IInv'
<1> SUFFICES ASSUME IInv, [Next]_vars PROVE IInv'
  OBVIOUS
<1>1. TypeOK
  BY DEF IInv
<1>2. CASE Initialize \/ Silence \/ UNCHANGED vars
  <2>1. OtherTypes' /\ UNCHANGED <<settings, read>>
    BY <1>1, <1>2 DEF Initialize, Silence, vars, settings, security, TypeOK, OtherTypes
  <2>2. KeepsOrForgets /\ blockIndex' \in Nat \ {0}
    BY <1>1, <2>1 DEF KeepsOrForgets, TypeOK, ReadRecord, settings
  <2> QED BY <2>1, <2>2, NoProgress DEF settings
<1> QED BY <1>2, ListenerKeeps, CallKeeps DEF Next

(* For every file, PDU size and reads, the types, when rows are pending,   *)
(* and what clients have read.                                             *)
THEOREM Safety == Spec => []IInv
  BY InitInv, NextKeeps, PTL DEF Spec

(* Every step of either channel and of the listener keeps the types: the   *)
(* row counters and the rows of a transaction stay within the file.        *)
THEOREM TypeCorrect == Spec => []TypeOK
  BY Safety, PTL DEF IInv

(* Writes are only taken for blocks while a transaction is open.           *)
THEOREM RowsPending == Spec => []RowsPendingOnlyInTransaction
  BY Safety, PTL DEF IInv

(* For every number of lost replies, repetitions, parts of requests and    *)
(* requests out of turn, a block a client takes for the next one of its    *)
(* read is that block, unless the other channel or a write of its own      *)
(* changed what the server keeps of it.                                    *)
THEOREM Blocks == Spec => []BlocksJoinUp
<1>1. IInv => BlocksJoinUp
  BY DEF IInv, ReadInv, BlocksJoinUp
<1> QED BY <1>1, Safety, PTL

(* For every row size, PDU size and ciphering header, a finished read up   *)
(* to the end of the file is complete, but for the byte an ordinary reply  *)
(* may lose.                                                               *)
THEOREM CompleteReads == Spec => []ReadToEndIsComplete
<1>1. IInv => ReadToEndIsComplete
  BY DEF IInv, ReadInv, DoneInv, Undisturbed, ReadToEndIsComplete
<1> QED BY <1>1, Safety, PTL

------------------------------------------------------------------------------
(* How long a read can get, and that it does not end too early.            *)

Bounded(r) ==
  ~r.disturbed =>
    /\ r.status = "partial" => /\ r.got >= r.blocks * ShortestBlock
                               /\ r.got < LengthToFileEnd(r)
    /\ r.status = "done" => r.got <= LengthToFileEnd(r)
    /\ r.status = "done" /\ r.blocks > 0 => r.got >= ReadLength(r) \/ LosesByte(r)

AllBounded == \A c \in Channels : Bounded(read[c])

(* A portion of rows that fits into a reply reaches the end of the         *)
(* interval.                                                               *)
LEMMA PortionReachesEnd ==
  ASSUME NEW begin \in 0 .. RowCount, NEW end \in 0 .. RowCount,
         RowsRead(begin, end) * RowSize <= MaxPduSize - 3
  PROVE  begin + RowsRead(begin, end) >= end
<1>1. RowsRead(begin, end) # RowsToPdu
  <2>1. RowsToPdu * RowSize \in Nat
    BY ProductType
  <2> QED BY <2>1, RowsFillReply
<1>2. RowsRead(begin, end) \in {RowsToPdu, end - begin + 1, RowCount - begin}
  BY DEF RowsRead, Least
<1> QED BY <1>1, <1>2

LEMMA ConstantsAreBounded == Bounded(NoRead) /\ Bounded(ShortRead)
<1>1. RowCount * RowSize \in Nat
  BY ProductType
<1>2. LengthToFileEnd(ShortRead) = HeaderSize + RowCount * RowSize
  BY DEF LengthToFileEnd, ShortRead, NoRead
<1> QED BY <1>1, <1>2 DEF Bounded, NoRead, ShortRead

(* Steps after which the caller has r.                                     *)
LEMMA OneBounded ==
  ASSUME IInv, AllBounded, NEW c \in Channels, NEW r, ReadBecomes(c, r), Bounded(r)
  PROVE  AllBounded'
<1>1. ASSUME NEW d \in Channels
      PROVE  Bounded(read'[d])
  <2>1. read'[d] = r \/ read'[d] = Disturb(read[d])
    BY DEF ReadBecomes
  <2>2. read[d] \in ReadRecord
    BY DEF IInv, TypeOK, ReadRecord
  <2>3. CASE read'[d] = Disturb(read[d])
    <3>1. read'[d] = NoRead \/ read'[d] = read[d] \/ read'[d].disturbed
      BY <2>2, <2>3, DisturbType
    <3>2. CASE read'[d].disturbed
      BY <3>2 DEF Bounded
    <3> QED BY <3>1, <3>2, ConstantsAreBounded DEF AllBounded
  <2> QED BY <2>1, <2>3
<1>2. \A d \in Channels : Bounded(read[d])' <=> Bounded(read'[d])
  BY DEF Bounded, ReadLength, LosesByte, LengthToFileEnd
<1> QED BY <1>1, <1>2 DEF AllBounded

LEMMA KeptBounded == ASSUME AllBounded, KeepsOrForgets PROVE AllBounded'
<1>1. ASSUME NEW d \in Channels
      PROVE  Bounded(read'[d])
  <2>1. CASE read'[d].disturbed
    BY <2>1 DEF Bounded
  <2> QED BY <2>1, ConstantsAreBounded DEF KeepsOrForgets, AllBounded
<1>2. \A d \in Channels : Bounded(read[d])' <=> Bounded(read'[d])
  BY DEF Bounded, ReadLength, LosesByte, LengthToFileEnd
<1> QED BY <1>1, <1>2 DEF AllBounded

(* The first reply.                                                        *)
LEMMA GetBounded ==
  ASSUME IInv, AllBounded, NEW c \in Channels, NEW q \in Reads[c],
         NEW ciphered \in BOOLEAN, NEW delivered \in BOOLEAN,
         Get(c, q[1], q[2], ciphered, delivered)
  PROVE  AllBounded'
<1> DEFINE from == q[1]
           to == q[2]
           room == Room(secured')
           rows == RowsRead(from, to)
           wanted == to - from
           bytes == HeaderSize + rows * RowSize
           length == FirstLength(rows, wanted, bytes, room)
           last == Ordinary(rows, wanted, bytes, room) \/ Fits(bytes, room)
           r == IF ~delivered THEN NoRead
                ELSE [status |-> IF last THEN "done" ELSE "partial",
                      from |-> from, end |-> to, blocks |-> 1,
                      got |-> length, sound |-> TRUE, disturbed |-> FALSE]
<1>1. /\ from \in 0 .. RowCount /\ to \in 0 .. RowCount /\ from <= to
      /\ wanted \in 0 .. RowCount
  BY IntervalType
<1>2. IsRoom(room)
  <2>1. OtherTypes'
    BY HandlesTypes DEF Get, HandlesGet, IInv
  <2>2. secured' \in BOOLEAN
    BY <2>1 DEF OtherTypes
  <2> QED BY <2>2, RoomType
<1>3. rows \in Nat /\ rows <= RowCount - from
  <2> HIDE DEF from, to
  <2> QED BY <1>1, RowsReadType
<1>4. rows * RowSize \in Nat /\ rows * RowSize <= (RowCount - from) * RowSize
  <2>1. RowCount - from \in Nat
    BY <1>1
  <2> HIDE DEF rows
  <2> QED BY <1>3, <2>1, SizesAreOrdered
<1>5. ReadBecomes(c, r)
  BY DEF Get
<1>6. bytes \in Nat /\ bytes = HeaderSize + rows * RowSize
  BY <1>4
<1>7. delivered => /\ r.status = (IF last THEN "done" ELSE "partial")
                   /\ r.from = from /\ r.end = to /\ r.blocks = 1 /\ r.got = length
  OBVIOUS
<1>8. ~delivered => r = NoRead
  OBVIOUS
<1>9. rows * RowSize <= MaxPduSize - 3 => rows >= wanted
  <2> HIDE DEF from, to
  <2>1. rows * RowSize <= MaxPduSize - 3 => from + rows >= to
    BY <1>1, PortionReachesEnd
  <2> HIDE DEF rows
  <2> QED BY <2>1, <1>1, <1>3
<1>10. length = FirstLength(rows, wanted, bytes, room)
       /\ (last <=> Ordinary(rows, wanted, bytes, room) \/ Fits(bytes, room))
       /\ wanted = to - from
  OBVIOUS
<1>11. wanted * RowSize \in Nat /\ (rows >= wanted => wanted * RowSize <= rows * RowSize)
  <2> HIDE DEF rows, wanted
  <2>1. wanted \in Nat
    BY <1>1
  <2> QED BY <2>1, <1>3, SizesAreOrdered, ProductType
<1> HIDE DEF from, to, room, rows, wanted, bytes, length, last, r
<1>12. wanted \in Nat /\ length \in 0 .. bytes
  <2>1. wanted \in Nat
    BY <1>1
  <2> QED BY <2>1, <1>2, <1>3, <1>6, <1>10, FirstLengthType
<1>13. ASSUME delivered
       PROVE  Bounded(r)
  <2>1. LengthToFileEnd(r) = HeaderSize + (RowCount - from) * RowSize
        /\ ReadLength(r) = HeaderSize + wanted * RowSize
    BY <1>7, <1>10, <1>13 DEF LengthToFileEnd, ReadLength
  <2>2. LengthToFileEnd(r) \in Int /\ bytes <= LengthToFileEnd(r)
    <3>1. (RowCount - from) * RowSize \in Int
      BY <1>1
    <3> QED BY <1>4, <1>6, <2>1, <3>1
  <2>3. CASE ~last
    <3>1. length >= ShortestBlock /\ length < bytes
      <4>1. length = BlockLength(bytes, room) /\ ~Fits(bytes, room)
        BY <1>10, <2>3 DEF FirstLength
      <4> QED BY <1>2, <1>6, <4>1, BlockLengthType
    <3>2. 1 * ShortestBlock = ShortestBlock /\ ShortestBlock \in Nat
      BY RoomType
    <3>3. r.got < LengthToFileEnd(r) /\ r.got >= r.blocks * ShortestBlock
      BY <1>6, <1>7, <1>12, <1>13, <2>2, <3>1, <3>2
    <3> QED BY <1>7, <1>13, <2>3, <3>3 DEF Bounded
  <2>4. CASE last
    <3>1. ReadLength(r) \in Nat
      BY <1>11, <2>1
    <3>2. length >= ReadLength(r) \/ LosesByte(r)
      <4>1. CASE Ordinary(rows, wanted, bytes, room)
        <5>1. bytes = ReadLength(r) /\ bytes <= MaxPduSize - 3
          BY <1>2, <1>6, <2>1, <4>1 DEF Ordinary, IsRoom
        <5>2. length = Least(bytes, MaxPduSize - 4)
          BY <1>10, <4>1 DEF FirstLength
        <5>3. length >= bytes \/ (bytes = MaxPduSize - 3 /\ length = MaxPduSize - 4)
          BY <1>6, <5>1, <5>2 DEF Least
        <5> QED BY <1>7, <1>13, <5>1, <5>3 DEF LosesByte
      <4>2. CASE ~Ordinary(rows, wanted, bytes, room)
        <5>1. Fits(bytes, room) /\ length = bytes
          BY <1>2, <1>6, <1>10, <2>4, <4>2, BlockLengthType DEF FirstLength
        <5>2. rows >= wanted
          BY <1>2, <1>4, <1>6, <1>9, <5>1 DEF Fits, IsRoom
        <5> QED BY <1>4, <1>6, <1>11, <2>1, <5>1, <5>2
      <4> QED BY <4>1, <4>2
    <3>3. length <= LengthToFileEnd(r)
      BY <1>6, <1>12, <2>2
    <3> QED BY <1>7, <1>13, <2>4, <3>2, <3>3 DEF Bounded
  <2> QED BY <2>3, <2>4
<1>14. Bounded(r)
  BY <1>8, <1>13, ConstantsAreBounded
<1> QED BY <1>5, <1>14, OneBounded

(* A further block: a full one, or the rest of all rows read.              *)
LEMMA NextBlockBounded ==
  ASSUME IInv, AllBounded, NEW c \in Channels, NEW number \in 1 .. MaxBlock,
         NEW opens \in BOOLEAN, NEW ciphered \in BOOLEAN, NEW delivered \in BOOLEAN,
         NextBlock(c, number, opens, ciphered, delivered)
  PROVE  AllBounded'
<1>1. PICK room, rows, bytes, length \in Nat, last \in BOOLEAN :
        /\ IsRoom(room)
        /\ BlockStep(c, number, opens, delivered, room, rows, bytes, length, last)
  BY BlockFacts
<1> DEFINE t == transaction
           r == IF delivered THEN WithBlock(c, number, t, opens, length, last) ELSE read[c]
<1>2. /\ \/ rows = RowsRead(t.begin, t.end)
         \/ rows = 0 /\ ~opens
         \/ rows = 0 /\ ~(index # count /\ t.left < MaxPduSize /\ t.kind = "rows")
      /\ t.begin + rows <= RowCount
      /\ rows * RowSize \in Nat /\ bytes = t.left + rows * RowSize
      /\ last => t.kind = "write" \/ (bytes <= room - 9 /\ length = bytes)
      /\ ~last => t.kind = "rows" /\ length >= ShortestBlock /\ length < bytes
      /\ number = blockIndex /\ ReadBecomes(c, r)
  BY <1>1 DEF BlockStep
<1>3. /\ t # None
      /\ t.from \in 0 .. RowCount /\ t.begin \in 0 .. RowCount /\ t.end \in 0 .. RowCount
      /\ t.left \in Nat
  <2>1. t \in TransactionRecord /\ t.kind # "none"
    BY DEF IInv, TypeOK, TransactionRecord, NextBlock
  <2> QED BY <2>1, ConstantRecords, FileSize DEF TransactionRecord
<1>4. r = read[c] \/ r = WithBlock(c, number, t, opens, length, last)
  OBVIOUS
<1>5. Bounded(read[c]) /\ read[c] \in ReadRecord /\ ReadInv(c)
  BY DEF AllBounded, IInv, TypeOK, ReadRecord
<1>6. ShortestBlock \in Nat
  BY RoomType
<1> HIDE DEF r
<1>7. ASSUME OneMore(c, number, t, opens, length, last, r)
      PROVE  Bounded(r)
  <2>1. /\ read[c].status = "partial" /\ ~read[c].disturbed /\ number = read[c].blocks
        /\ r.status = (IF last THEN "done" ELSE "partial")
        /\ r.from = read[c].from /\ r.end = read[c].end
        /\ r.blocks = read[c].blocks + 1 /\ r.got = read[c].got + length
        /\ last => opens
    BY <1>7 DEF OneMore
  <2>2. /\ t.kind = "rows" /\ t.from = read[c].from /\ t.end = read[c].end
        /\ Sent(t) = read[c].got
        /\ count = t.end - t.from /\ index = t.begin - t.from
    BY <2>1, <1>2, <1>3, <1>5 DEF ReadInv, PartialInv
  <2>3. /\ read[c].blocks \in Nat /\ Sent(t) \in Nat
        /\ Sent(t) >= read[c].blocks * ShortestBlock
    BY <2>1, <2>2, <1>5 DEF ReadRecord, Bounded
  <2>4. /\ LengthToFileEnd(r) = HeaderSize + (RowCount - t.from) * RowSize
        /\ ReadLength(r) = HeaderSize + (t.end - t.from) * RowSize
        /\ r.got = Sent(t) + length
    BY <2>1, <2>2 DEF LengthToFileEnd, ReadLength
  <2>5. t.from <= t.begin
    BY <2>2 DEF IInv, RowsInv
  <2> DEFINE reached == t.begin + rows - t.from
  <2>6. reached \in Nat /\ reached <= RowCount - t.from /\ reached = (t.begin - t.from) + rows
    BY <1>2, <1>3, <2>5
  <2>7. Sent(t) = HeaderSize + (t.begin - t.from) * RowSize - t.left
    BY DEF Sent
  <2> HIDE DEF t, reached
  <2>8. reached * RowSize = (t.begin - t.from) * RowSize + rows * RowSize
    BY <2>6, <1>3, Distributivity
  <2>9. reached * RowSize \in Nat /\ reached * RowSize <= (RowCount - t.from) * RowSize
    <3>1. RowCount - t.from \in Nat
      BY <1>3
    <3> QED BY <2>6, <3>1, SizesAreOrdered
  <2>10. Sent(t) + bytes = HeaderSize + reached * RowSize
    <3>1. (t.begin - t.from) * RowSize \in Int
      BY <1>3
    <3> QED BY <1>2, <1>3, <2>7, <2>8, <3>1
  <2>11. LengthToFileEnd(r) \in Int /\ Sent(t) + bytes <= LengthToFileEnd(r)
    <3>1. (RowCount - t.from) * RowSize \in Int
      BY <1>3
    <3> QED BY <2>4, <2>9, <2>10, <3>1
  <2>12. CASE ~last
    <3>1. length >= ShortestBlock /\ length < bytes
      BY <1>2, <2>12
    <3>2. (read[c].blocks + 1) * ShortestBlock = read[c].blocks * ShortestBlock + ShortestBlock
      BY <2>3, <1>6, Distributivity
    <3>3. read[c].blocks * ShortestBlock \in Nat
      BY <2>3, <1>6, ProductType
    <3>4. r.got >= (read[c].blocks + 1) * ShortestBlock
      BY <2>3, <2>4, <3>1, <3>2, <3>3, <1>6
    <3>5. r.got < LengthToFileEnd(r)
      BY <2>3, <2>4, <2>11, <3>1
    <3>6. r.got >= r.blocks * ShortestBlock
      BY <2>1, <3>4
    <3> QED BY <2>1, <2>12, <3>5, <3>6 DEF Bounded
  <2>13. CASE last
    <3>1. bytes <= room - 9 /\ length = bytes /\ room <= MaxPduSize /\ room \in Nat
      BY <1>1, <1>2, <2>2, <2>13 DEF IsRoom
    <3>2. r.got <= LengthToFileEnd(r)
      BY <2>4, <2>11, <3>1
    <3>3. t.begin + rows >= t.end
      <4>1. CASE rows = 0 /\ ~(index # count /\ t.left < MaxPduSize /\ t.kind = "rows")
        <5>1. t.left < MaxPduSize
          BY <1>2, <1>3, <3>1, <4>1
        <5> QED BY <1>3, <2>2, <4>1, <5>1
      <4>2. CASE rows = RowsRead(t.begin, t.end)
        <5>1. rows * RowSize <= MaxPduSize - 3
          BY <1>2, <1>3, <3>1
        <5> QED BY <1>3, <4>2, <5>1, PortionReachesEnd
      <4> QED BY <1>2, <2>1, <2>13, <4>1, <4>2
    <3>4. r.got >= ReadLength(r)
      <4>1. r.got = HeaderSize + reached * RowSize
        BY <2>4, <2>10, <3>1
      <4>2. t.end - t.from \in Nat /\ t.end - t.from <= reached
        <5>1. count \in Nat
          BY DEF IInv, TypeOK
        <5> QED BY <1>2, <1>3, <2>2, <2>6, <3>3, <5>1
      <4>3. (t.end - t.from) * RowSize <= reached * RowSize
            /\ (t.end - t.from) * RowSize \in Nat
        BY <2>6, <4>2, SizesAreOrdered
      <4> QED BY <2>4, <2>9, <4>1, <4>3
    <3> QED BY <2>1, <2>13, <3>2, <3>4 DEF Bounded
  <2> QED BY <2>12, <2>13
<1>8. ASSUME r = WithBlock(c, number, t, opens, length, last)
      PROVE  Bounded(r)
  <2>1. r = NoRead \/ r.disturbed \/ OneMore(c, number, t, opens, length, last, r)
    <3>1. number \in Nat /\ read[c] \in ReadRecord
      BY <1>5
    <3> HIDE DEF t
    <3> QED BY <3>1, <1>8, WithBlockCases
  <2>2. CASE r.disturbed
    BY <2>2 DEF Bounded
  <2> QED BY <2>1, <2>2, <1>7, ConstantsAreBounded
<1>9. Bounded(r)
  BY <1>4, <1>5, <1>8
<1> QED BY <1>2, <1>9, OneBounded

LEMMA CallBounded ==
  ASSUME IInv, AllBounded, NEW c \in Channels, Call(c)
  PROVE  AllBounded'
<1>1. TypeOK
  BY DEF IInv
<1>2. CASE Incomplete(c) \/ TimedOut(c) \/ \E delivered \in BOOLEAN : BadFrame(c, delivered)
  BY <1>1, <1>2, Keeps, KeptBounded DEF Incomplete, TimedOut, BadFrame
<1>3. ASSUME NEW ciphered \in BOOLEAN, NEW delivered \in BOOLEAN,
             \/ \E accepted \in BOOLEAN : Aarq(c, accepted, delivered)
             \/ Release(c, ciphered, delivered)
             \/ NotDeciphered(c, delivered)
             \/ NotAssociated(c, ciphered, delivered)
             \/ \E number \in 1 .. MaxBlock : NextBlockFails(c, number, ciphered, delivered)
      PROVE  AllBounded'
  BY <1>1, <1>3, Keeps, KeptBounded
     DEF Aarq, Release, NotDeciphered, NotAssociated, NextBlockFails
<1>4. ASSUME NEW ciphered \in BOOLEAN, NEW delivered \in BOOLEAN,
             GetShort(c, ciphered, delivered)
      PROVE  AllBounded'
  <2>1. ReadBecomes(c, IF delivered THEN ShortRead ELSE NoRead)
    BY <1>4 DEF GetShort
  <2> QED BY <2>1, OneBounded, ConstantsAreBounded
<1>5. ASSUME NEW ciphered \in BOOLEAN, NEW delivered \in BOOLEAN, Set(c, ciphered, delivered)
      PROVE  AllBounded'
  <2>1. read[c] \in ReadRecord /\ ReadBecomes(c, Disturb(read[c]))
    BY <1>1, <1>5 DEF Set, TypeOK, ReadRecord
  <2>2. Disturb(read[c]) \in {NoRead, read[c]} \/ Disturb(read[c]).disturbed
    BY <2>1, DisturbType
  <2>3. Bounded(Disturb(read[c]))
    BY <2>2, ConstantsAreBounded DEF AllBounded, Bounded
  <2> QED BY <2>1, <2>3, OneBounded
<1>6. CASE Request(c)
  <2>1. PICK ciphered, delivered \in BOOLEAN :
          \/ \E accepted \in BOOLEAN : Aarq(c, accepted, delivered)
          \/ Release(c, ciphered, delivered)
          \/ NotDeciphered(c, delivered)
          \/ NotAssociated(c, ciphered, delivered)
          \/ \E q \in Reads[c] : Get(c, q[1], q[2], ciphered, delivered)
          \/ GetShort(c, ciphered, delivered)
          \/ \E number \in 1 .. MaxBlock :
               \/ NextBlockFails(c, number, ciphered, delivered)
               \/ \E opens \in BOOLEAN : NextBlock(c, number, opens, ciphered, delivered)
          \/ Set(c, ciphered, delivered)
    BY <1>6 DEF Request
  <2> QED BY <2>1, <1>3, <1>4, <1>5, GetBounded, NextBlockBounded
<1> QED BY <1>2, <1>6 DEF Call

LEMMA NextBounded == IInv /\ AllBounded /\ [Next]_vars => AllBounded'
<1> SUFFICES ASSUME IInv, AllBounded, [Next]_vars PROVE AllBounded'
  OBVIOUS
<1>1. TypeOK
  BY DEF IInv
<1>2. CASE Initialize \/ Silence \/ RefuseTcp \/ UNCHANGED vars
  <2>1. UNCHANGED read
    BY <1>2 DEF Initialize, Silence, RefuseTcp, vars
  <2>2. KeepsOrForgets
    BY <2>1, <1>1 DEF KeepsOrForgets, TypeOK, ReadRecord
  <2> QED BY <2>2, KeptBounded
<1>3. CASE Accept \/ SendFails \/ Hangup
  <2>1. ReadBecomes("tcp", NoRead)
    BY <1>3 DEF Accept, SendFails, Hangup
  <2>2. KeepsOrForgets
    BY <2>1, <1>1, Keeps
  <2> QED BY <2>2, KeptBounded
<1> QED BY <1>2, <1>3, CallBounded DEF Next, Listener

LEMMA BoundedAlways == Spec => []AllBounded
<1>1. Init => AllBounded
  BY ConstantsAreBounded DEF Init, AllBounded
<1> QED BY <1>1, NextBounded, Safety, PTL DEF Spec

(* Wherever the portions of rows and the blocks of a read end, a finished  *)
(* read of any interval has the bytes of all its rows.                     *)
THEOREM CompleteIntervals == Spec => []NoRowMissing
<1>1. AllBounded => NoRowMissing
  BY DEF AllBounded, Bounded, Undisturbed, NoRowMissing
<1> QED BY <1>1, BoundedAlways, PTL

(* Every block but the last is full, and a read never gets longer than the *)
(* rest of the file: a bound on what a client has to ask for.              *)
THEOREM BoundedReads == Spec => []ReadsAreBounded
<1>1. AllBounded => ReadsAreBounded
  BY DEF AllBounded, Bounded, Undisturbed, ReadsAreBounded
<1> QED BY <1>1, BoundedAlways, PTL
==============================================================================
