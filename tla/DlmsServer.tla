----------------------------- MODULE DlmsServer -----------------------------
(***************************************************************************)
(* The DLMS server of task-scheduler: one server object, CGXDLMSServer,    *)
(* called by two channels.  The listener thread serves one TCP client at a *)
(* time (src/src/task-scheduler/GXDLMSBase.cpp), the uplink passes the     *)
(* messages of the GPRS process (src/src/task-scheduler/main.cpp).  Both   *)
(* share the association, the open long transaction and its counters.      *)
(*                                                                         *)
(* The data read is the load profile: RowCount rows in a file, encoded and *)
(* sent in blocks.  Bytes are counted, not represented: the encoded reply  *)
(* to a read is a stream, and a block is an interval of it.  A step is one *)
(* call of HandleRequest or one branch of the listener.                    *)
(*                                                                         *)
(* Requests are plain or ciphered: the server always has a cipher, and a   *)
(* ciphered request is served without an association.  A call may also     *)
(* bring a part of a request, or bytes that are none.  Left out are calls  *)
(* that overlap (a data race in the code), general block transfer, GET of  *)
(* lists, ACTION, SET in blocks, and bytes of two requests that happen to  *)
(* parse as a third one.  The length field of a block is as long with      *)
(* ciphering as without.                                                   *)
(*                                                                         *)
(* main of this commit only creates the two queues.  The module calls the  *)
(* functions it is meant to: SVC_DlmsServerinit once, and then             *)
(* SVC_RecvUpLinkMsgQue whenever the uplink has a message.                 *)
(***************************************************************************)
EXTENDS Integers

CONSTANTS
  Channels,    \* who calls: "tcp", "uplink"
  Reads,       \* the row intervals <<from, to>> that each client asks for
  RowCount,    \* rows in DATAFILE
  RowSize,     \* bytes of an encoded row
  HeaderSize,  \* bytes of the array tag and of the row count
  RowsToPdu,   \* what GetRowsToPdu returns for the profile
  MaxPduSize,  \* negotiated size of a reply
  CipherHeader,\* CIPHERING_HEADER_SIZE: bytes that ciphering adds to a reply
  SizeBytes,   \* bytes of the length field of a block that is not the last
  MaxBlock     \* bound: clients ask for no block after this one

ASSUME DlmsAssumption ==
  /\ Channels \subseteq {"tcp", "uplink"}
  /\ RowCount \in Nat \ {0} /\ RowSize \in Nat \ {0} /\ HeaderSize \in Nat \ {0}
  /\ RowsToPdu \in Nat \ {0} /\ MaxBlock \in Nat \ {0}
  /\ \A c \in Channels : Reads[c] \subseteq
       {r \in (0 .. RowCount) \X (1 .. RowCount) : r[1] <= r[2]}
  /\ SizeBytes \in Nat \ {0} /\ MaxPduSize \in Nat /\ CipherHeader \in Nat
  /\ MaxPduSize > 9 + SizeBytes + CipherHeader

(* GetRowsToPdu divides the PDU by the sizes of the values alone, 14 bytes *)
(* a row; with the tags and lengths a row has 21.  So the rows it returns  *)
(* never fit into one reply, for every PDU size the server accepts.        *)
ASSUME RowsFillReply == RowsToPdu * RowSize > MaxPduSize - 3

VARIABLES
  initialized,  \* Initialize has run
  associated,   \* m_Settings.GetConnected() has the DLMS bit
  transaction,  \* m_Transaction
  blockIndex,   \* m_Settings.GetBlockIndex(): the number of the last block
  count, index, \* m_Settings.GetCount() and GetIndex(): rows asked and read
  titled,       \* m_Settings.GetSourceSystemTitle() is set
  secured,      \* the cipher's security is not DLMS_SECURITY_NONE
  received,     \* m_ReceivedData: empty, the beginning of a channel's request,
                \* or bytes of more than one ("mixed")
  inactive,     \* the inactivity timeout has passed since m_DataReceived
  socket,       \* of the listener: "none" in accept, "open", "failing"
                \* (send has failed) or "closed" (-1, recv will fail)
  read          \* auxiliary: what each client has of its latest read

settings == <<associated, transaction, blockIndex, count, index>>
security == <<titled, secured>>
vars == <<initialized, settings, security, received, inactive, socket, read>>

None == [kind |-> "none", from |-> 0, begin |-> 0, end |-> 0, left |-> 0]
WriteData == [None EXCEPT !.kind = "write"]

(* from is auxiliary: the first row of the read, where begin started.      *)
RowData(from, begin, end, left) ==
  [kind |-> "rows", from |-> from, begin |-> begin, end |-> end, left |-> left]

(* A read is sound when its blocks join up.  It is disturbed when what the *)
(* server keeps of it was changed by something else than its own requests, *)
(* or when DATAFILE could not be opened for its last rows.                 *)
NoRead ==
  [status |-> "none", from |-> 0, end |-> 0, blocks |-> 0, got |-> 0,
   sound |-> TRUE, disturbed |-> FALSE]
ShortRead == [NoRead EXCEPT !.status = "done"]

MaxBytes == HeaderSize + RowCount * RowSize

TypeOK ==
  /\ initialized \in BOOLEAN /\ associated \in BOOLEAN /\ inactive \in BOOLEAN
  /\ titled \in BOOLEAN /\ secured \in BOOLEAN
  /\ received \in {"empty", "mixed"} \cup Channels
  /\ transaction \in [kind : {"none", "rows", "write"}, from : 0 .. RowCount,
                      begin : 0 .. RowCount, end : 0 .. RowCount, left : 0 .. MaxBytes]
  /\ blockIndex \in Nat \ {0}
  /\ count \in 0 .. RowCount /\ index \in 0 .. RowCount
  /\ socket \in {"none", "open", "failing", "closed"}
  /\ read \in [Channels -> [status : {"none", "partial", "done"}, from : 0 .. RowCount,
                            end : 0 .. RowCount, blocks : Nat, got : Nat,
                            sound : BOOLEAN, disturbed : BOOLEAN]]

------------------------------------------------------------------------------
(* Rows and blocks.                                                        *)

Least(a, b) == IF a <= b THEN a ELSE b

(* Variant: PreRead without the end of the file.                           *)
RowsPastFile(begin, end) ==
  IF begin <= end /\ end - begin <= RowsToPdu THEN end - begin + 1 ELSE RowsToPdu

(* PreRead: the difference of the indexes plus one, or as many rows as fit *)
(* into a PDU when there are more; the indexes are unsigned, so there are  *)
(* also more when begin has passed end.  The file then ends the reading.   *)
RowsRead(begin, end) ==
  Least(IF begin <= end /\ end - begin <= RowsToPdu THEN end - begin + 1 ELSE RowsToPdu,
        RowCount - begin)

(* The bytes that a reply may have.                                        *)
Room(ciphers) == IF ciphers THEN MaxPduSize - CipherHeader ELSE MaxPduSize

(* MultipleBlocks: the data that fits into a last block.                   *)
Fits(bytes, room) == bytes <= room - 9

(* GetLNPdu: what one block carries.                                       *)
BlockLength(bytes, room) ==
  IF Fits(bytes, room) THEN bytes ELSE room - 9 - SizeBytes

(* The first reply is an ordinary one when all rows are read and there is  *)
(* room for them and 3 bytes; GetLNPdu then finds 4 bytes before the data  *)
(* and cuts it at the size of the PDU.                                     *)
Ordinary(rows, wanted, bytes, room) == rows = wanted /\ bytes <= room - 3

FirstLength(rows, wanted, bytes, room) ==
  IF Ordinary(rows, wanted, bytes, room) THEN Least(bytes, MaxPduSize - 4)
  ELSE BlockLength(bytes, room)

(* Bytes of the stream sent before the open transaction's next block.      *)
Sent(t) == HeaderSize + (t.begin - t.from) * RowSize - t.left

------------------------------------------------------------------------------
(* Variant of Reset.                                                       *)
ResetKeepsCounters ==
  /\ associated' = FALSE /\ transaction' = None /\ received' = "empty"
  /\ UNCHANGED <<blockIndex, count, index>>

(* CGXDLMSServer::Reset.  It leaves the title, and CGXCipher::Reset does   *)
(* nothing.                                                                *)
Reset ==
  /\ associated' = FALSE
  /\ transaction' = None
  /\ count' = 0 /\ index' = 0
  /\ received' = "empty"
  /\ UNCHANGED blockIndex

Init ==
  /\ initialized = FALSE /\ associated = FALSE
  /\ transaction = None /\ blockIndex = 1 /\ count = 0 /\ index = 0
  /\ titled = FALSE /\ secured = FALSE
  /\ received = "empty" /\ inactive = TRUE
  /\ socket = "none"
  /\ read = [c \in Channels |-> NoRead]

(* CGXDLMSBase::Init starts the listener first and initializes the server  *)
(* last; the uplink sees the server when Init has returned.                *)
Initialize ==
  /\ ~initialized
  /\ initialized' = TRUE
  /\ UNCHANGED <<settings, security, received, inactive, socket, read>>

(* Nothing is received for as long as the inactivity timeout.              *)
Silence ==
  /\ ~inactive
  /\ inactive' = TRUE
  /\ UNCHANGED <<initialized, settings, security, received, socket, read>>

(* What a call that is not part of a read does to it: nothing, or the      *)
(* client goes on with the block numbers it has, and what it got so far is *)
(* not followed any more.  A finished read is looked at until then.        *)
Disturb(r) ==
  IF r.status # "partial" THEN NoRead
  ELSE IF settings' = settings THEN r
  ELSE [NoRead EXCEPT !.status = "partial", !.blocks = r.blocks,
                      !.sound = r.sound, !.disturbed = TRUE]

(* c has r after this step, the other channel what the step leaves it.     *)
ReadBecomes(c, r) == read' = [d \in Channels |-> IF d = c THEN r ELSE Disturb(read[d])]

------------------------------------------------------------------------------
(* The listener.  Its steps end the read of the TCP client, and reset what *)
(* the uplink reads as well.                                               *)

Accept ==
  /\ "tcp" \in Channels /\ socket = "none"
  /\ Reset /\ ReadBecomes("tcp", NoRead)
  /\ socket' \in {"open", "none"}     \* getpeername may fail
  /\ UNCHANGED <<initialized, security, inactive>>

(* HandleRequest before Initialize fails: the socket is closed.            *)
RefuseTcp ==
  /\ socket = "open" /\ ~initialized
  /\ socket' = "closed"
  /\ UNCHANGED <<initialized, settings, security, received, inactive, read>>

SendFails ==
  /\ socket = "failing"
  /\ Reset /\ ReadBecomes("tcp", NoRead)
  /\ socket' = "closed"
  /\ UNCHANGED <<initialized, security, inactive>>

(* recv returns 0 or -1.                                                   *)
Hangup ==
  /\ socket \in {"open", "closed"}
  /\ Reset /\ ReadBecomes("tcp", NoRead)
  /\ socket' = "none"
  /\ UNCHANGED <<initialized, security, inactive>>

------------------------------------------------------------------------------
(* HandleRequest.  A client's reply may be lost: the uplink's queue is     *)
(* full, or send fails.                                                    *)

Calls(c) == initialized /\ (c = "tcp" => socket = "open")

Replies(c, delivered) ==
  socket' = IF c = "tcp" /\ ~delivered THEN "failing" ELSE socket

(* What an error means for c: it gives up its read.                        *)
Fails(c, delivered) == ReadBecomes(c, IF delivered THEN NoRead ELSE read[c])

(* The data of a call is appended to m_ReceivedData.  Without the end of a *)
(* request it stays there, whatever the other channel sends next.          *)
Incomplete(c) ==
  /\ Calls(c)
  /\ received' = IF received \in {"empty", c} THEN c ELSE "mixed"
  /\ UNCHANGED <<initialized, settings, security, inactive, socket, read>>

(* What has been received is no request, or cannot be deciphered: it is    *)
(* dropped, the reply is DLMS_COMMAND_UNACCEPTABLE_FRAME.                  *)
BadFrame(c, delivered) ==
  /\ Calls(c)
  /\ received' = "empty"
  /\ Replies(c, delivered)
  /\ UNCHANGED <<initialized, settings, security, inactive>>
  /\ Fails(c, delivered)

(* What has been received is a request, all of it of c.                    *)
Receives(c) ==
  /\ Calls(c) /\ received \in {"empty", c}
  /\ received' = "empty"
  /\ UNCHANGED initialized

(* Any command but AARQ after the timeout: no reply.  A ciphered one has   *)
(* been deciphered before.                                                 *)
TimedOut(c) ==
  /\ Receives(c) /\ inactive
  /\ Reset
  /\ secured' \in BOOLEAN
  /\ UNCHANGED <<titled, inactive, socket>>
  /\ ReadBecomes(c, read[c])

Serves(c, delivered) ==
  /\ Receives(c)
  /\ inactive' = FALSE
  /\ Replies(c, delivered)

(* HandleGloDedRequest: once a title is known a ciphered request is        *)
(* deciphered, and the replies get its security; a plain one leaves it.    *)
Deciphers(ciphered) ==
  /\ UNCHANGED titled
  /\ IF ciphered THEN titled /\ secured' \in BOOLEAN ELSE UNCHANGED secured

(* A request that is not AARQ, inside the inactivity timeout.              *)
Handles(c, ciphered, delivered) ==
  Serves(c, delivered) /\ ~inactive /\ Deciphers(ciphered)

(* A ciphered request before any title is known is passed on as it is, and *)
(* has an unknown command; the security is then read uninitialized.        *)
NotDeciphered(c, delivered) ==
  /\ Serves(c, delivered) /\ ~inactive /\ ~titled
  /\ secured' \in BOOLEAN
  /\ UNCHANGED <<settings, titled>>
  /\ Fails(c, delivered)

(* HandleAarqRequest.  It takes over the client's title, if there is one,  *)
(* and the security of a ciphered initiate request.                        *)
Aarq(c, accepted, delivered) ==
  /\ Serves(c, delivered)
  /\ transaction' = None /\ count' = 0 /\ index' = 0
  /\ associated' = accepted
  /\ titled' \in {titled, TRUE} /\ secured' \in {FALSE, titled'}
  /\ UNCHANGED blockIndex
  /\ ReadBecomes(c, NoRead)

(* HandleReleaseRequest, and Reset after it.                               *)
Release(c, ciphered, delivered) ==
  /\ Handles(c, ciphered, delivered)
  /\ Reset
  /\ ReadBecomes(c, NoRead)

(* Without an association a plain GET and any SET get a confirmed service  *)
(* error.                                                                  *)
NotAssociated(c, ciphered, delivered) ==
  /\ Handles(c, ciphered, delivered) /\ ~associated
  /\ UNCHANGED settings
  /\ Fails(c, delivered)

(* HandleGetRequest serves a ciphered GET without an association, too.     *)
HandlesGet(c, ciphered, delivered) ==
  Handles(c, ciphered, delivered) /\ (associated \/ ciphered)

(* GetRequestNormal for the rows from .. to - 1 of the profile.  An open   *)
(* transaction is only replaced when this read needs one.  DATAFILE is     *)
(* there when a read begins.                                               *)
Get(c, from, to, ciphered, delivered) ==
  LET room     == Room(secured')
      rows     == RowsRead(from, to)
      wanted   == to - from
      bytes    == HeaderSize + rows * RowSize
      length   == FirstLength(rows, wanted, bytes, room)
      ordinary == Ordinary(rows, wanted, bytes, room)
      last     == ordinary \/ Fits(bytes, room)
  IN
  /\ HandlesGet(c, ciphered, delivered)
  /\ blockIndex' = 1
  /\ count' = IF last /\ ~ordinary THEN 0 ELSE wanted
  /\ index' = IF last /\ ~ordinary THEN 0 ELSE rows
  /\ transaction' = IF length = bytes THEN transaction
                    ELSE RowData(from, from + rows, to, bytes - length)
  /\ UNCHANGED associated
  /\ ReadBecomes(c, IF ~delivered THEN NoRead
                    ELSE [status |-> IF last THEN "done" ELSE "partial",
                          from |-> from, end |-> to, blocks |-> 1,
                          got |-> length, sound |-> TRUE, disturbed |-> FALSE])

(* GetRequestNormal for a value that fits into one reply.                  *)
GetShort(c, ciphered, delivered) ==
  /\ HandlesGet(c, ciphered, delivered)
  /\ blockIndex' = 1 /\ count' = 0 /\ index' = 0
  /\ UNCHANGED <<associated, transaction>>
  /\ ReadBecomes(c, IF delivered THEN ShortRead ELSE NoRead)

(* Variant: the number of the block asked for is not looked at.            *)
AnyNumber(number) == TRUE

(* A client asks for the next block with the number of the last one.       *)
Expected(number) == number = blockIndex

(* Variant: a block is the last one when the row counters agree.           *)
LastByCounters(t, rows, bytes, room) == t.kind = "write" \/ index + rows = count

(* MultipleBlocks: the block that empties the buffer is the last one.      *)
(* What SET left behind (see Set) is short.                                *)
LastBlock(t, rows, bytes, room) == t.kind = "write" \/ Fits(bytes, room)

(* GetRequestNextDataBlock: the number is not the last block's, or nothing *)
(* is open.  The block index moves on in the second case.                  *)
NextBlockFails(c, number, ciphered, delivered) ==
  /\ HandlesGet(c, ciphered, delivered)
  /\ \/ ~Expected(number) /\ UNCHANGED blockIndex
     \/ /\ Expected(number) /\ transaction.kind = "none"
        /\ blockIndex' = blockIndex + 1
  /\ UNCHANGED <<associated, transaction, count, index>>
  /\ Fails(c, delivered)

(* What c has after it asked for the block after number.  A disturbed read *)
(* takes whatever has that number.                                         *)
WithBlock(c, number, t, opens, length, last) ==
  LET r == read[c] IN
  IF r.status # "partial" \/ number # r.blocks THEN NoRead
  ELSE IF r.disturbed
  THEN [r EXCEPT !.status = IF last THEN "done" ELSE "partial",
                 !.blocks = number + 1, !.sound = FALSE]
  ELSE [r EXCEPT !.status    = IF last THEN "done" ELSE "partial",
                 !.blocks    = number + 1,
                 !.got       = r.got + length,
                 !.sound     = /\ r.sound /\ t.kind = "rows"
                               /\ t.from = r.from /\ t.end = r.end
                               /\ Sent(t) = r.got,
                 !.disturbed = last /\ ~opens]

(* GetRequestNextDataBlock with an open transaction: more rows are read    *)
(* while there are and less than a PDU is left over, if DATAFILE opens,    *)
(* then one block is sent.                                                 *)
NextBlock(c, number, opens, ciphered, delivered) ==
  LET room   == Room(secured')
      t      == transaction
      due    == index # count /\ t.left < MaxPduSize /\ t.kind = "rows"
      rows   == IF due /\ opens THEN RowsRead(t.begin, t.end) ELSE 0
      bytes  == t.left + rows * RowSize
      length == BlockLength(bytes, room)
      last   == LastBlock(t, rows, bytes, room)
  IN
  /\ HandlesGet(c, ciphered, delivered) /\ t.kind # "none"
  /\ Expected(number)
  /\ due \/ opens
  /\ blockIndex' = IF last THEN 1 ELSE blockIndex + 1
  /\ count' = IF last THEN 0 ELSE count
  /\ index' = IF last THEN 0 ELSE index + rows
  /\ transaction' = IF last THEN None
                    ELSE RowData(t.from, t.begin + rows, t.end, bytes - length)
  /\ UNCHANGED associated
  /\ ReadBecomes(c, IF delivered THEN WithBlock(c, number, t, opens, length, last)
                    ELSE read[c])

(* HandleSetRequestNormal.  When the row counters differ the request is    *)
(* taken for a block of a longer one: it opens a transaction unless the    *)
(* attribute is unknown, nothing is written, and the reply says success.   *)
(* The block index stays, so that a client that reads on is sent what the  *)
(* write brought: its own read is disturbed, too.                          *)
Set(c, ciphered, delivered) ==
  /\ Handles(c, ciphered, delivered) /\ associated
  /\ \/ count = index /\ blockIndex' = 1 /\ UNCHANGED transaction
     \/ count # index /\ transaction' \in {transaction, WriteData} /\ UNCHANGED blockIndex
  /\ UNCHANGED <<associated, count, index>>
  /\ ReadBecomes(c, Disturb(read[c]))

------------------------------------------------------------------------------
Listener == Accept \/ RefuseTcp \/ SendFails \/ Hangup

Request(c) ==
  \E ciphered, delivered \in BOOLEAN :
    \/ \E accepted \in BOOLEAN : Aarq(c, accepted, delivered)
    \/ Release(c, ciphered, delivered)
    \/ NotDeciphered(c, delivered)
    \/ NotAssociated(c, ciphered, delivered)
    \/ \E r \in Reads[c] : Get(c, r[1], r[2], ciphered, delivered)
    \/ GetShort(c, ciphered, delivered)
    \/ \E number \in 1 .. MaxBlock :
         \/ NextBlockFails(c, number, ciphered, delivered)
         \/ \E opens \in BOOLEAN : NextBlock(c, number, opens, ciphered, delivered)
    \/ Set(c, ciphered, delivered)

Call(c) ==
  \/ Incomplete(c)
  \/ \E delivered \in BOOLEAN : BadFrame(c, delivered)
  \/ TimedOut(c)
  \/ Request(c)

Next ==
  \/ Initialize \/ Silence
  \/ Listener
  \/ \E c \in Channels : Call(c)

Spec == Init /\ [][Next]_vars

(* A client that goes on reading: it asks for the block after the last one *)
(* it has, whatever comes of it.                                           *)
GoesOn(c) ==
  /\ read[c].status = "partial" /\ read[c].blocks <= MaxBlock
  /\ \/ TimedOut(c)
     \/ \E ciphered, delivered \in BOOLEAN :
          \/ BadFrame(c, delivered)
          \/ NotDeciphered(c, delivered)
          \/ NotAssociated(c, ciphered, delivered)
          \/ NextBlockFails(c, read[c].blocks, ciphered, delivered)
          \/ \E opens \in BOOLEAN :
               NextBlock(c, read[c].blocks, opens, ciphered, delivered)

(* The listener thread does not stop, and the TCP client goes on with a    *)
(* read it has begun.                                                      *)
FairSpec == Spec /\ WF_vars(SendFails \/ GoesOn("tcp"))

------------------------------------------------------------------------------
(* Properties.                                                             *)

(* The row counters only differ while a transaction is open.  While they   *)
(* differ HandleSetRequestNormal acknowledges writes it does not execute:  *)
(* this bounds when that can happen.                                       *)
RowsPendingOnlyInTransaction == count # index => transaction # None

(* Every block a client takes for the continuation of its read is: it is   *)
(* of the same read and starts where the last one ended, even when replies *)
(* were lost and requests repeated, sent out of turn, cut in two, mixed    *)
(* with the other channel's or sent to an old transaction.  Two things can *)
(* break it, and nothing else: a SET of its own, and a step of the other   *)
(* channel that changed the state they share.                              *)
BlocksJoinUp == \A c \in Channels : read[c].sound \/ read[c].disturbed

Undisturbed(r) == r.status # "none" /\ ~r.disturbed

(* The bytes of a read's header and of the rows it asked for.              *)
ReadLength(r) == HeaderSize + (r.end - r.from) * RowSize

(* Data that is just one byte too long for an ordinary reply loses it.     *)
LosesByte(r) == ReadLength(r) = MaxPduSize - 3 /\ r.got = MaxPduSize - 4

(* A finished read up to the last row of the file has delivered every byte *)
(* of it, no more and no less, but for the byte just mentioned; also when  *)
(* some of its blocks were ciphered.                                       *)
ReadToEndIsComplete ==
  \A c \in Channels :
    Undisturbed(read[c]) /\ read[c].status = "done" /\ read[c].end = RowCount =>
      read[c].got = ReadLength(read[c]) \/ LosesByte(read[c])

(* No read ends too early: a finished read of any interval, wherever its   *)
(* portions and its blocks end, has the bytes of all rows asked for (but   *)
(* for the byte just mentioned).  What is wrong with reads that end before *)
(* the file does is only what follows them.                                *)
NoRowMissing ==
  \A c \in Channels :
    Undisturbed(read[c]) /\ read[c].status = "done" /\ read[c].blocks > 0 =>
      read[c].got >= ReadLength(read[c]) \/ LosesByte(read[c])

(* The bytes of a reply that goes on to the end of the file, and those of  *)
(* the shortest block that is not the last.                                *)
LengthToFileEnd(r) == HeaderSize + (RowCount - r.from) * RowSize
ShortestBlock == Room(TRUE) - 9 - SizeBytes

(* No read goes on for ever: every block but the last has at least the     *)
(* length of a full ciphered one, and all of them together never have more *)
(* than the rest of the file, so what a client has to ask for is bounded,  *)
(* also when the end of its interval was missed.                           *)
ReadsAreBounded ==
  \A c \in Channels : Undisturbed(read[c]) =>
    /\ read[c].status = "partial" =>
         /\ read[c].got >= read[c].blocks * ShortestBlock
         /\ read[c].got < LengthToFileEnd(read[c])
    /\ read[c].status = "done" => read[c].got <= LengthToFileEnd(read[c])

(* GXDLMSBase.cpp:758: "Return data using start and end indexes."  A       *)
(* finished read has delivered the rows of the interval it asked for and   *)
(* no others.                                                              *)
ReadStaysInInterval ==
  \A c \in Channels : Undisturbed(read[c]) /\ read[c].status = "done" =>
    read[c].got <= ReadLength(read[c])

(* A TCP client that goes on reading, and does not begin anew for ever,    *)
(* comes to an end: the last block, an error, the loss of its connection,  *)
(* or the end of the association (after the inactivity timeout the server  *)
(* does not answer it any more).                                           *)
BeginsAnew(c) ==
  \E r \in Reads[c], ciphered, delivered \in BOOLEAN : Get(c, r[1], r[2], ciphered, delivered)

ReadEnds ==
  \/ []<><<BeginsAnew("tcp")>>_vars
  \/ []<>(read["tcp"].status # "partial" \/ ~associated)
==============================================================================
