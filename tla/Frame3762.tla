------------------------------ MODULE Frame3762 ------------------------------
(***************************************************************************)
(* Frames of Q/GDW 376.2 (src/libs/protocol/stack3762/stack3762.cpp): how  *)
(* FormSendFrame builds one, how ParseRecvFrame takes one apart, and how   *)
(* AdParseRecvFrame looks for one in what the serial port has delivered.   *)
(* A byte is a number, a buffer a sequence of bytes.                       *)
(*                                                                         *)
(* One receive buffer is scanned, a step for each turn of the two loops:   *)
(* a frame with other bytes before and after it.                           *)
(***************************************************************************)
EXTENDS Integers, Sequences, SequencesExt

CONSTANTS
  Infos,        \* the frames that are sent: what they say
  Noise,        \* what the line puts before and after them
  MaxFrameLen   \* GDW3762_MAX_FRAME_LEN

StartFlag == 104
TailFlag == 22

VARIABLES
  sent,      \* auxiliary: what the frame in the buffer says
  buffer,    \* pInBuf
  i, j,      \* the loops' indexes into it, from 1
  recvFrame, \* recvFarme.data: what was copied last, over what was before
  recvInfo,  \* gdwRecvFarmeInfo
  res        \* what AdParseRecvFrame returns

vars == <<sent, buffer, i, j, recvFrame, recvInfo, res>>

------------------------------------------------------------------------------
(* GDW3762_EncodeFn and GDW3762_DecodeFn: the number of a function is a    *)
(* bit of dt1 and the group dt2.  fn - 1 is a byte.                        *)
Weight == <<1, 2, 4, 8, 16, 32, 64, 128>>

EncodeFn(fn) ==
  IF fn > 248 THEN [dt1 |-> 0, dt2 |-> 0]
  ELSE LET tmp == (fn + 255) % 256 IN
       [dt1 |-> Weight[(tmp % 8) + 1], dt2 |-> (tmp \div 8) % 32]

Bit(byte, b) == (byte \div Weight[b + 1]) % 2

Decodable(dt) == dt.dt2 <= 30 /\ dt.dt1 # 0

DecodeFn(dt) ==
  LET lowest == CHOOSE b \in 0 .. 7 :
                  Bit(dt.dt1, b) = 1 /\ \A c \in 0 .. 7 : Bit(dt.dt1, c) = 1 => b <= c
  IN  ((dt.dt2 * 8) % 256) + lowest + 1

CalcFcs(bytes) == FoldLeft(LAMBDA sum, byte : (sum + byte) % 256, 0, bytes)

------------------------------------------------------------------------------
(* A frame's fields.  link is DownInfo or UpInfo, six bytes either way.    *)
Cleared ==
  [control |-> 0, link |-> <<0, 0, 0, 0, 0, 0>>, src |-> <<>>, dest |-> <<>>,
   relays |-> <<>>, afn |-> 0, dt |-> [dt1 |-> 0, dt2 |-> 0], fn |-> 0, data |-> <<>>]

IsUp(control) == Bit(control, 7) = 1
CommModuleFlag(link) == Bit(link[1], 2) = 1
RelayLevel(link) == link[1] \div 16

FormSendFrame(info) ==
  LET dt        == EncodeFn(info.fn)
      addresses == IF CommModuleFlag(info.link)
                   THEN info.src
                        \o FlattenSeq(SubSeq(info.relays, 1, RelayLevel(info.link)))
                        \o info.dest
                   ELSE <<>>
      body      == <<info.control>> \o info.link \o addresses
                   \o <<info.afn, dt.dt1, dt.dt2>> \o info.data
      length    == Len(body) + 5
  IN  <<StartFlag, length % 256, length \div 256>> \o body \o <<CalcFcs(body), TailFlag>>

(* The frame is the first length bytes of data.                            *)
Legal(data, length) ==
  /\ length <= MaxFrameLen
  /\ data[1] = StartFlag /\ data[length] = TailFlag
  /\ length = data[2] + 256 * data[3]
  /\ data[length - 1] = CalcFcs(SubSeq(data, 4, length - 2))

(* The fields of a legal frame; a frame that is too short for them goes on *)
(* with what is behind it in data.                                         *)
Fields(data, length) ==
  LET Part(at, n)  == SubSeq(data, at, at + n - 1)
      link         == Part(5, 6)
      relayCnt     == IF IsUp(data[4]) THEN 0 ELSE RelayLevel(link)
      hasAddresses == CommModuleFlag(link)
      at           == 11 + IF hasAddresses THEN 6 * (relayCnt + 2) ELSE 0
      fields       == [Cleared EXCEPT
        !.control = data[4],
        !.link    = link,
        !.src     = IF hasAddresses THEN Part(11, 6) ELSE <<>>,
        !.relays  = IF hasAddresses
                    THEN [k \in 1 .. relayCnt |-> Part(11 + 6 * k, 6)] ELSE <<>>,
        !.dest    = IF hasAddresses THEN Part(at - 6, 6) ELSE <<>>,
        !.afn     = data[at],
        !.dt      = [dt1 |-> data[at + 1], dt2 |-> data[at + 2]]]
  IN  IF ~Decodable(fields.dt)
      THEN [ok |-> FALSE, info |-> fields]
      ELSE IF length < at + 4
      THEN [ok |-> FALSE, info |-> [fields EXCEPT !.fn = DecodeFn(fields.dt)]]
      ELSE [ok |-> TRUE, info |-> [fields EXCEPT !.fn   = DecodeFn(fields.dt),
                                                 !.data = Part(at + 3, length - at - 4)]]

(* The information is cleared first, and again whenever a frame is tried.  *)
ParseRecvFrame(data, length) ==
  IF Legal(data, length) THEN Fields(data, length) ELSE [ok |-> FALSE, info |-> Cleared]

------------------------------------------------------------------------------
Init ==
  /\ sent \in Infos
  /\ \E before, after \in Noise : buffer = before \o FormSendFrame(sent) \o after
  /\ i = 1 /\ j = Len(buffer)
  /\ recvFrame = [k \in 1 .. MaxFrameLen |-> 0] /\ recvInfo = Cleared
  /\ res = -1

Done == i > Len(buffer)

NextStart ==
  /\ ~Done
  /\ buffer[i] # StartFlag \/ j = i
  /\ i' = i + 1 /\ j' = Len(buffer)
  /\ UNCHANGED <<sent, buffer, recvFrame, recvInfo, res>>

NextTail ==
  /\ ~Done /\ buffer[i] = StartFlag /\ j > i
  /\ buffer[j] # TailFlag
  /\ j' = j - 1
  /\ UNCHANGED <<sent, buffer, i, recvFrame, recvInfo, res>>

Try ==
  /\ ~Done /\ buffer[i] = StartFlag /\ j > i
  /\ buffer[j] = TailFlag
  /\ LET length == j - i + 1
         data   == SubSeq(buffer, i, j) \o SubSeq(recvFrame, length + 1, MaxFrameLen)
         parsed == ParseRecvFrame(data, length)
     IN  /\ recvFrame' = data
         /\ recvInfo' = parsed.info
         /\ res' = IF parsed.ok THEN 0 ELSE res
  /\ j' = j - 1
  /\ UNCHANGED <<sent, buffer, i>>

AdParseRecvFrame == NextStart \/ NextTail \/ Try

Spec == Init /\ [][AdParseRecvFrame]_vars

------------------------------------------------------------------------------
(* Properties.                                                             *)

(* stack3762.cpp:233: AdParseRecvFrame is to find a legal frame in the     *)
(* buffer and parse it.  When it answers that it has, what it leaves in    *)
(* gdwRecvFarmeInfo is the frame that was sent.                            *)
FoundFrameIsKept ==
  Done /\ res = 0 => /\ recvInfo.afn = sent.afn /\ recvInfo.fn = sent.fn
                     /\ recvInfo.data = sent.data
==============================================================================
