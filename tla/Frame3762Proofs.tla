--------------------------- MODULE Frame3762Proofs ---------------------------
(***************************************************************************)
(* Theorems about Frame3762: the coding of functions, the way a frame goes *)
(* from FormSendFrame to ParseRecvFrame, and the scan of AdParseRecvFrame  *)
(* over a frame without flags inside.                                      *)
(***************************************************************************)
EXTENDS Frame3762, SequenceTheorems, TLAPS

LEMMA WeightValues ==
  /\ Weight[1] = 1 /\ Weight[2] = 2 /\ Weight[3] = 4 /\ Weight[4] = 8
  /\ Weight[5] = 16 /\ Weight[6] = 32 /\ Weight[7] = 64 /\ Weight[8] = 128
  BY DEF Weight

(* Of a byte with one bit DecodeFn finds that bit.                         *)
LEMMA OneBit ==
  ASSUME NEW r \in 0 .. 7, NEW c \in 0 .. 7
  PROVE  Bit(Weight[r + 1], c) = 1 <=> c = r
<1>1. /\ r = 0 \/ r = 1 \/ r = 2 \/ r = 3 \/ r = 4 \/ r = 5 \/ r = 6 \/ r = 7
      /\ c = 0 \/ c = 1 \/ c = 2 \/ c = 3 \/ c = 4 \/ c = 5 \/ c = 6 \/ c = 7
  OBVIOUS
<1>2. ASSUME r = 0 PROVE Bit(Weight[r + 1], c) = 1 <=> c = r
  BY <1>1, <1>2, WeightValues DEF Bit
<1>3. ASSUME r = 1 PROVE Bit(Weight[r + 1], c) = 1 <=> c = r
  BY <1>1, <1>3, WeightValues DEF Bit
<1>4. ASSUME r = 2 PROVE Bit(Weight[r + 1], c) = 1 <=> c = r
  BY <1>1, <1>4, WeightValues DEF Bit
<1>5. ASSUME r = 3 PROVE Bit(Weight[r + 1], c) = 1 <=> c = r
  BY <1>1, <1>5, WeightValues DEF Bit
<1>6. ASSUME r = 4 PROVE Bit(Weight[r + 1], c) = 1 <=> c = r
  BY <1>1, <1>6, WeightValues DEF Bit
<1>7. ASSUME r = 5 PROVE Bit(Weight[r + 1], c) = 1 <=> c = r
  BY <1>1, <1>7, WeightValues DEF Bit
<1>8. ASSUME r = 6 PROVE Bit(Weight[r + 1], c) = 1 <=> c = r
  BY <1>1, <1>8, WeightValues DEF Bit
<1>9. ASSUME r = 7 PROVE Bit(Weight[r + 1], c) = 1 <=> c = r
  BY <1>1, <1>9, WeightValues DEF Bit
<1> QED BY <1>1, <1>2, <1>3, <1>4, <1>5, <1>6, <1>7, <1>8, <1>9

(* Every function that has a code has one that is decoded to it, and the   *)
(* function 0, which EncodeFn accepts, has one that is refused.            *)
THEOREM FnRoundTrip ==
  ASSUME NEW fn \in 0 .. 248
  PROVE  /\ Decodable(EncodeFn(fn)) <=> fn # 0
         /\ fn # 0 => DecodeFn(EncodeFn(fn)) = fn
<1>1. CASE fn = 0
  <2>1. (fn + 255) % 256 = 255 BY <1>1
  <2> QED BY <1>1, <2>1 DEF EncodeFn, Decodable
<1>2. CASE fn # 0
  <2> DEFINE r == (fn - 1) % 8
             q == (fn - 1) \div 8
  <2>1. (fn + 255) % 256 = fn - 1 BY <1>2
  <2>2. r \in 0 .. 7 /\ q \in 0 .. 30 /\ fn - 1 = 8 * q + r BY <1>2
  <2>3. q % 32 = q BY <2>2
  <2>4. EncodeFn(fn) = [dt1 |-> Weight[r + 1], dt2 |-> q]
    BY <1>2, <2>1, <2>3 DEF EncodeFn
  <2> HIDE DEF r, q
  <2>5. Weight[r + 1] # 0 BY <2>2, WeightValues
  <2>6. Decodable(EncodeFn(fn)) BY <2>2, <2>4, <2>5 DEF Decodable
  <2> DEFINE Lowest(b) == /\ Bit(Weight[r + 1], b) = 1
                          /\ \A c \in 0 .. 7 : Bit(Weight[r + 1], c) = 1 => b <= c
  <2>7. \A b \in 0 .. 7 : Lowest(b) <=> b = r BY <2>2, OneBit
  <2> HIDE DEF Lowest
  <2>8. (CHOOSE b \in 0 .. 7 : Lowest(b)) = r BY <2>2, <2>7
  <2>9. DecodeFn(EncodeFn(fn)) = ((q * 8) % 256) + (CHOOSE b \in 0 .. 7 : Lowest(b)) + 1
    BY <2>4 DEF DecodeFn, Lowest
  <2>10. (q * 8) % 256 = q * 8 BY <2>2
  <2>11. DecodeFn(EncodeFn(fn)) = q * 8 + r + 1 BY <2>8, <2>9, <2>10
  <2>12. q * 8 + r + 1 = fn BY <2>2
  <2> QED BY <1>2, <2>6, <2>11, <2>12
<1> QED BY <1>1, <1>2

------------------------------------------------------------------------------
(* A frame without relays, from one side to the other.                     *)

Byte == 0 .. 255

(* What a place of a buffer holds: a number, or a sum.  A sum is a number  *)
(* too, but the provers have no induction to tell them so.                 *)
Cell == Nat \cup {CalcFcs(bytes) : bytes \in Seq(Byte)}

Sendable(info) ==
  /\ info.control \in Byte /\ info.afn \in Byte /\ info.fn \in 1 .. 248
  /\ info.link \in Seq(Byte) /\ Len(info.link) = 6
  /\ RelayLevel(info.link) = 0 /\ info.relays = <<>>
  /\ IF CommModuleFlag(info.link)
     THEN /\ info.src \in Seq(Byte) /\ Len(info.src) = 6
          /\ info.dest \in Seq(Byte) /\ Len(info.dest) = 6
     ELSE info.src = <<>> /\ info.dest = <<>>
  /\ info.data \in Seq(Byte)
  /\ Len(FormSendFrame(info)) <= MaxFrameLen

(* What is received is what was sent.                                      *)
Says(received, info) ==
  /\ received.control = info.control /\ received.link = info.link
  /\ received.src = info.src /\ received.dest = info.dest /\ received.relays = info.relays
  /\ received.afn = info.afn /\ received.fn = info.fn /\ received.data = info.data

Addresses(info) == IF CommModuleFlag(info.link) THEN info.src \o info.dest ELSE <<>>

Body(info) ==
  <<info.control>> \o info.link \o Addresses(info)
    \o <<info.afn, EncodeFn(info.fn).dt1, EncodeFn(info.fn).dt2>> \o info.data

Framed(body) ==
  <<StartFlag, (Len(body) + 5) % 256, (Len(body) + 5) \div 256>> \o body
    \o <<CalcFcs(body), TailFlag>>

(* A part of a sequence is known by its elements.                          *)
LEMMA PartIs ==
  ASSUME NEW T, NEW s \in Seq(T), NEW g \in Seq(T), NEW k \in Nat,
         k + Len(g) <= Len(s), \A q \in 1 .. Len(g) : s[k + q] = g[q]
  PROVE  SubSeq(s, k + 1, k + Len(g)) = g
<1> DEFINE t == SubSeq(s, k + 1, k + Len(g))
<1>1. Len(g) \in Nat OBVIOUS
<1>2. \A n \in (k + 1) .. (k + Len(g)) : s[n] \in T BY <1>1
<1>3. /\ t \in Seq(T)
      /\ Len(t) = IF k + 1 <= k + Len(g) THEN k + Len(g) - (k + 1) + 1 ELSE 0
      /\ \A n \in 1 .. k + Len(g) - (k + 1) + 1 : t[n] = s[k + 1 + n - 1]
  BY <1>1, <1>2, SubSeqProperties
<1>4. Len(t) = Len(g) BY <1>1, <1>3
<1>5. \A n \in 1 .. Len(g) : t[n] = g[n] BY <1>1, <1>3
<1>6. t = g
  <2> HIDE DEF t
  <2> QED BY <1>3, <1>4, <1>5, SeqEqual
<1> QED BY <1>6

LEMMA TwoParts ==
  ASSUME NEW T, NEW a \in Seq(T), NEW b \in Seq(T)
  PROVE  /\ a \o b \in Seq(T) /\ Len(a \o b) = Len(a) + Len(b)
         /\ \A q \in 1 .. Len(a) : (a \o b)[q] = a[q]
         /\ \A q \in 1 .. Len(b) : (a \o b)[Len(a) + q] = b[q]
<1>1. a \o b \in Seq(T) OBVIOUS
<1>2. Len(a \o b) = Len(a) + Len(b) OBVIOUS
<1>3. \A q \in 1 .. Len(a) : (a \o b)[q] = a[q] OBVIOUS
<1>4. \A q \in 1 .. Len(b) : (a \o b)[Len(a) + q] = b[q] OBVIOUS
<1> QED BY <1>1, <1>2, <1>3, <1>4, Zenon

BothSixes(c, a, b) == \A q \in 1 .. 6 : c[q] = a[q] /\ c[6 + q] = b[q]

LEMMA SixAndSix ==
  ASSUME NEW T, NEW a \in Seq(T), NEW b \in Seq(T)
  PROVE  Len(a) = 6 /\ Len(b) = 6 => BothSixes(a \o b, a, b)
<1> DEFINE c == a \o b
<1>1. /\ \A q \in 1 .. Len(a) : c[q] = a[q]
      /\ \A q \in 1 .. Len(b) : c[Len(a) + q] = b[q]
  <2>1. \A q \in 1 .. Len(a) : c[q] = a[q] OBVIOUS
  <2>2. \A q \in 1 .. Len(b) : c[Len(a) + q] = b[q] OBVIOUS
  <2> QED BY <2>1, <2>2, Zenon
<1> HIDE DEF c
<1>2. Len(a) = 6 /\ Len(b) = 6 => \A q \in 1 .. 6 : c[q] = a[q] /\ c[6 + q] = b[q]
  <2> SUFFICES ASSUME Len(a) = 6, Len(b) = 6
               PROVE  \A q \in 1 .. 6 : c[q] = a[q] /\ c[6 + q] = b[q]
    OBVIOUS
  <2>1. 1 .. Len(a) = 1 .. 6 /\ 1 .. Len(b) = 1 .. 6 BY Zenon
  <2>2. \A q : Len(a) + q = 6 + q BY Zenon
  <2> QED BY <1>1, <2>1, <2>2, Zenon
<1> QED BY <1>2, Zenon DEF c, BothSixes

LEMMA SixAt ==
  ASSUME NEW T, NEW s \in Seq(T), NEW g \in Seq(T), NEW k \in Nat,
         Len(g) = 6, Len(s) >= k + 6, \A q \in 1 .. 6 : s[k + q] = g[q]
  PROVE  SubSeq(s, k + 1, k + 6) = g
<1>1. SubSeq(s, k + 1, k + Len(g)) = g
  <2>1. k + Len(g) <= Len(s) OBVIOUS
  <2>2. \A q \in 1 .. Len(g) : s[k + q] = g[q] OBVIOUS
  <2> QED BY <2>1, <2>2, PartIs, Zenon
<1> QED BY <1>1, Zenon

(* Where the elements of five sequences are when they follow each other.   *)
FollowEachOther(s, T, a, b, c, d, e) ==
  /\ s \in Seq(T) /\ Len(s) = Len(a) + Len(b) + Len(c) + Len(d) + Len(e)
  /\ \A q \in 1 .. Len(a) : s[q] = a[q]
  /\ \A q \in 1 .. Len(b) : s[Len(a) + q] = b[q]
  /\ \A q \in 1 .. Len(c) : s[Len(a) + Len(b) + q] = c[q]
  /\ \A q \in 1 .. Len(d) : s[Len(a) + Len(b) + Len(c) + q] = d[q]
  /\ \A q \in 1 .. Len(e) : s[Len(a) + Len(b) + Len(c) + Len(d) + q] = e[q]

LEMMA FiveParts ==
  ASSUME NEW T, NEW a \in Seq(T), NEW b \in Seq(T), NEW c \in Seq(T), NEW d \in Seq(T),
         NEW e \in Seq(T)
  PROVE  FollowEachOther(a \o b \o c \o d \o e, T, a, b, c, d, e)
<1> DEFINE s == a \o b \o c \o d \o e
<1>1. s \in Seq(T) /\ Len(s) = Len(a) + Len(b) + Len(c) + Len(d) + Len(e) OBVIOUS
<1>2. \A q \in 1 .. Len(a) : s[q] = a[q] OBVIOUS
<1>3. \A q \in 1 .. Len(b) : s[Len(a) + q] = b[q] OBVIOUS
<1>4. \A q \in 1 .. Len(c) : s[Len(a) + Len(b) + q] = c[q] OBVIOUS
<1>5. \A q \in 1 .. Len(d) : s[Len(a) + Len(b) + Len(c) + q] = d[q] OBVIOUS
<1>6. \A q \in 1 .. Len(e) : s[Len(a) + Len(b) + Len(c) + Len(d) + q] = e[q] OBVIOUS
<1> QED BY <1>1, <1>2, <1>3, <1>4, <1>5, <1>6, Zenon DEF FollowEachOther

LEMMA FourParts ==
  ASSUME NEW T, NEW a \in Seq(T), NEW b \in Seq(T), NEW c \in Seq(T), NEW d \in Seq(T)
  PROVE  FollowEachOther(a \o b \o c \o d, T, a, b, c, d, <<>>)
<1> DEFINE s == a \o b \o c \o d
<1>1. s \in Seq(T) /\ Len(s) = Len(a) + Len(b) + Len(c) + Len(d) + Len(<<>>) OBVIOUS
<1>2. \A q \in 1 .. Len(a) : s[q] = a[q] OBVIOUS
<1>3. \A q \in 1 .. Len(b) : s[Len(a) + q] = b[q] OBVIOUS
<1>4. \A q \in 1 .. Len(c) : s[Len(a) + Len(b) + q] = c[q] OBVIOUS
<1>5. \A q \in 1 .. Len(d) : s[Len(a) + Len(b) + Len(c) + q] = d[q] OBVIOUS
<1>6. \A q \in 1 .. Len(<<>>) : s[Len(a) + Len(b) + Len(c) + Len(d) + q] = <<>>[q]
  OBVIOUS
<1> QED BY <1>1, <1>2, <1>3, <1>4, <1>5, <1>6, Zenon DEF FollowEachOther

LEMMA ThreeParts ==
  ASSUME NEW T, NEW a \in Seq(T), NEW b \in Seq(T), NEW c \in Seq(T)
  PROVE  FollowEachOther(a \o b \o c, T, a, b, c, <<>>, <<>>)
<1> DEFINE s == a \o b \o c
<1>1. s \in Seq(T) /\ Len(s) = Len(a) + Len(b) + Len(c) + Len(<<>>) + Len(<<>>) OBVIOUS
<1>2. \A q \in 1 .. Len(a) : s[q] = a[q] OBVIOUS
<1>3. \A q \in 1 .. Len(b) : s[Len(a) + q] = b[q] OBVIOUS
<1>4. \A q \in 1 .. Len(c) : s[Len(a) + Len(b) + q] = c[q] OBVIOUS
<1>5. \A q \in 1 .. Len(<<>>) : s[Len(a) + Len(b) + Len(c) + q] = <<>>[q] OBVIOUS
<1>6. \A q \in 1 .. Len(<<>>) : s[Len(a) + Len(b) + Len(c) + Len(<<>>) + q] = <<>>[q]
  OBVIOUS
<1> QED BY <1>1, <1>2, <1>3, <1>4, <1>5, <1>6, Zenon DEF FollowEachOther

LEMMA EncodedBytes ==
  ASSUME NEW fn \in 1 .. 248
  PROVE  EncodeFn(fn).dt1 \in Byte /\ EncodeFn(fn).dt2 \in Byte
<1> DEFINE r == (fn - 1) % 8
<1>1. (fn + 255) % 256 = fn - 1 OBVIOUS
<1>2. r \in 0 .. 7 /\ (((fn - 1) \div 8) % 32) \in 0 .. 31 OBVIOUS
<1>3. Weight[r + 1] \in Byte BY <1>2, WeightValues DEF Byte
<1>4. EncodeFn(fn) = [dt1 |-> Weight[r + 1], dt2 |-> ((fn - 1) \div 8) % 32]
  BY <1>1 DEF EncodeFn
<1> HIDE DEF r
<1> QED BY <1>2, <1>3, <1>4 DEF Byte

(* Where the fields of a body are.                                         *)
LEMMA BodyLayout ==
  ASSUME NEW info, Sendable(info)
  PROVE  LET body == Body(info)
             len  == Len(Addresses(info))
         IN  /\ body \in Seq(Byte) /\ Addresses(info) \in Seq(Byte)
             /\ len = IF CommModuleFlag(info.link) THEN 12 ELSE 0
             /\ Len(body) = 10 + len + Len(info.data)
             /\ body[1] = info.control
             /\ \A q \in 1 .. 6 : body[1 + q] = info.link[q]
             /\ \A q \in 1 .. len : body[7 + q] = Addresses(info)[q]
             /\ body[8 + len] = info.afn
             /\ body[9 + len] = EncodeFn(info.fn).dt1
             /\ body[10 + len] = EncodeFn(info.fn).dt2
             /\ \A q \in 1 .. Len(info.data) : body[10 + len + q] = info.data[q]
<1> DEFINE adr == Addresses(info)
           one == <<info.control>>
           code == <<info.afn, EncodeFn(info.fn).dt1, EncodeFn(info.fn).dt2>>
           body == Body(info)
           len == Len(adr)
           last == Len(info.data)
<1>1. /\ info.control \in Byte /\ info.afn \in Byte
      /\ info.link \in Seq(Byte) /\ Len(info.link) = 6 /\ info.data \in Seq(Byte)
  BY DEF Sendable
<1>2. adr \in Seq(Byte) /\ len = IF CommModuleFlag(info.link) THEN 12 ELSE 0
  <2>1. CASE CommModuleFlag(info.link)
    <3>1. /\ info.src \in Seq(Byte) /\ Len(info.src) = 6
          /\ info.dest \in Seq(Byte) /\ Len(info.dest) = 6
      BY <2>1 DEF Sendable
    <3>2. info.src \o info.dest \in Seq(Byte) /\ Len(info.src \o info.dest) = 12
      <4>1. /\ info.src \o info.dest \in Seq(Byte)
            /\ Len(info.src \o info.dest) = Len(info.src) + Len(info.dest)
        BY <3>1, TwoParts, Zenon
      <4>2. Len(info.src \o info.dest) = 6 + 6 BY <3>1, <4>1, Zenon
      <4>3. 6 + 6 = 12 OBVIOUS
      <4> QED BY <4>1, <4>2, <4>3, Zenon
    <3> QED BY <2>1, <3>2 DEF Addresses
  <2>2. CASE ~CommModuleFlag(info.link)
    BY <2>2, EmptySeq DEF Addresses
  <2> QED BY <2>1, <2>2
<1>3. /\ code \in Seq(Byte) /\ Len(code) = 3
      /\ code[1] = info.afn /\ code[2] = EncodeFn(info.fn).dt1
      /\ code[3] = EncodeFn(info.fn).dt2
  <2>1. EncodeFn(info.fn).dt1 \in Byte /\ EncodeFn(info.fn).dt2 \in Byte
    BY EncodedBytes DEF Sendable
  <2> QED BY <1>1, <2>1
<1>4. one \in Seq(Byte) /\ Len(one) = 1 /\ one[1] = info.control
  BY <1>1
<1>5. body = one \o info.link \o adr \o code \o info.data BY DEF Body
<1> HIDE DEF adr, one, code, body
<1>6. FollowEachOther(body, Byte, one, info.link, adr, code, info.data)
  <2>1. FollowEachOther(one \o info.link \o adr \o code \o info.data,
                        Byte, one, info.link, adr, code, info.data)
    BY <1>1, <1>2, <1>3, <1>4, FiveParts, Zenon
  <2> QED BY <1>5, <2>1, Zenon
<1>7. /\ body \in Seq(Byte) /\ Len(body) = Len(one) + Len(info.link) + len + Len(code) + last
      /\ \A q \in 1 .. Len(one) : body[q] = one[q]
      /\ \A q \in 1 .. Len(info.link) : body[Len(one) + q] = info.link[q]
      /\ \A q \in 1 .. len : body[Len(one) + Len(info.link) + q] = adr[q]
      /\ \A q \in 1 .. Len(code) : body[Len(one) + Len(info.link) + len + q] = code[q]
      /\ \A q \in 1 .. last :
           body[Len(one) + Len(info.link) + len + Len(code) + q] = info.data[q]
  BY <1>6, Zenon DEF FollowEachOther
<1>8. len \in Nat /\ last \in Nat BY <1>1, <1>2
<1> DEFINE link == info.link
           data == info.data
<1>9. /\ Len(one) = 1 /\ Len(link) = 6 /\ Len(code) = 3
  BY <1>1, <1>3, <1>4
<1> HIDE DEF link, data, len, last
<1>10. /\ Len(body) = 10 + len + last
       /\ \A q \in 1 .. 1 : body[q] = one[q]
       /\ \A q \in 1 .. 6 : body[1 + q] = link[q]
       /\ \A q \in 1 .. len : body[7 + q] = adr[q]
       /\ \A q \in 1 .. 3 : body[7 + len + q] = code[q]
       /\ \A q \in 1 .. last : body[10 + len + q] = data[q]
  <2>1. Len(one) + Len(link) = 7 /\ Len(one) + Len(link) + len = 7 + len
        /\ Len(one) + Len(link) + len + Len(code) = 10 + len
    BY <1>8, <1>9
  <2> QED BY <1>7, <1>8, <1>9, <2>1 DEF link, data
<1>11. body[1] = one[1] BY <1>10
<1>12. /\ body[8 + len] = code[1] /\ body[9 + len] = code[2]
       /\ body[10 + len] = code[3]
  <2>1. body[7 + len + 1] = code[1] /\ body[7 + len + 2] = code[2] /\ body[7 + len + 3] = code[3]
    BY <1>10
  <2>2. 7 + len + 1 = 8 + len /\ 7 + len + 2 = 9 + len /\ 7 + len + 3 = 10 + len
    BY <1>8
  <2> QED BY <2>1, <2>2
<1> QED BY <1>2, <1>3, <1>4, <1>7, <1>10, <1>11, <1>12, Zenon
        DEF body, adr, len, last, link, data

(* A frame f of a body, at the beginning of d.                             *)
BeginsWith(d, f, body) ==
  /\ d \in Seq(Cell) /\ f \in Seq(Cell) /\ Len(f) = Len(body) + 5 /\ Len(d) >= Len(f)
  /\ d[1] = StartFlag /\ d[2] = Len(f) % 256 /\ d[3] = Len(f) \div 256
  /\ \A q \in 1 .. Len(body) : d[3 + q] = body[q]
  /\ d[Len(f) - 1] = CalcFcs(body) /\ d[Len(f)] = TailFlag
  /\ \A q \in 1 .. Len(f) : d[q] = f[q]

LEMMA BytesAreCells ==
  ASSUME NEW s \in Seq(Byte)
  PROVE  s \in Seq(Cell)
<1>1. Nat \subseteq Cell BY DEF Cell
<1>2. \A q \in 1 .. Len(s) : s[q] \in Byte OBVIOUS
<1>3. Byte \subseteq Nat BY DEF Byte
<1>4. \A q \in 1 .. Len(s) : s[q] \in Cell BY <1>1, <1>2, <1>3, Zenon
<1> QED BY <1>4

LEMMA FrameLayout ==
  ASSUME NEW body \in Seq(Byte), NEW rest \in Seq(Cell)
  PROVE  BeginsWith(Framed(body) \o rest, Framed(body), body)
<1> DEFINE head == <<StartFlag, (Len(body) + 5) % 256, (Len(body) + 5) \div 256>>
           tail == <<CalcFcs(body), TailFlag>>
           f == Framed(body)
           d == f \o rest
<1>1. Nat \subseteq Cell /\ CalcFcs(body) \in Cell BY DEF Cell
<1>2. body \in Seq(Cell) BY BytesAreCells, Zenon
<1>3. Len(body) \in Nat OBVIOUS
<1>4. head \in Seq(Cell) /\ Len(head) = 3
  <2>1. StartFlag \in Nat /\ (Len(body) + 5) % 256 \in Nat /\ (Len(body) + 5) \div 256 \in Nat
    BY <1>3 DEF StartFlag
  <2>2. ASSUME NEW x \in Cell, NEW y \in Cell, NEW z \in Cell
        PROVE  <<x, y, z>> \in Seq(Cell) /\ Len(<<x, y, z>>) = 3
    OBVIOUS
  <2>3. StartFlag \in Cell /\ (Len(body) + 5) % 256 \in Cell /\ (Len(body) + 5) \div 256 \in Cell
    BY <1>1, <2>1, Zenon
  <2> QED BY <2>2, <2>3, Zenon
<1>5. tail \in Seq(Cell) /\ Len(tail) = 2
  BY <1>1 DEF TailFlag
<1>6. head[1] = StartFlag /\ head[2] = (Len(body) + 5) % 256
      /\ head[3] = (Len(body) + 5) \div 256
  OBVIOUS
<1>7. tail[1] = CalcFcs(body) /\ tail[2] = TailFlag
  OBVIOUS
<1>8. f = head \o body \o tail BY DEF Framed
<1> HIDE DEF head, tail, f
<1>9. FollowEachOther(d, Cell, head, body, tail, rest, <<>>)
  <2>1. FollowEachOther(head \o body \o tail \o rest, Cell, head, body, tail, rest, <<>>)
    BY <1>2, <1>4, <1>5, FourParts, Zenon
  <2> QED BY <1>8, <2>1, Zenon
<1>10. f \in Seq(Cell) /\ Len(f) = Len(head) + Len(body) + Len(tail)
  <2> DEFINE hb == head \o body
  <2>1. hb \in Seq(Cell) /\ Len(hb) = Len(head) + Len(body)
    BY <1>2, <1>4, TwoParts, Zenon
  <2> HIDE DEF hb
  <2>2. hb \o tail \in Seq(Cell) /\ Len(hb \o tail) = Len(hb) + Len(tail)
    BY <1>5, <2>1, TwoParts, Zenon
  <2>3. f = hb \o tail BY <1>8 DEF hb
  <2> QED BY <2>1, <2>2, <2>3, Zenon
<1>11. /\ d \in Seq(Cell) /\ Len(d) = Len(f) + Len(rest)
       /\ \A q \in 1 .. Len(f) : d[q] = f[q]
  <2>1. f \in Seq(Cell) BY <1>10, Zenon
  <2> QED BY <2>1, TwoParts, Zenon
<1> HIDE DEF d
<1>12. Len(f) = Len(body) + 5 BY <1>3, <1>4, <1>5, <1>10
<1>13. /\ \A q \in 1 .. Len(head) : d[q] = head[q]
       /\ \A q \in 1 .. Len(body) : d[Len(head) + q] = body[q]
       /\ \A q \in 1 .. Len(tail) : d[Len(head) + Len(body) + q] = tail[q]
  BY <1>9, Zenon DEF FollowEachOther
<1> DEFINE size == Len(body)
<1>14. size \in Nat BY <1>3
<1> HIDE DEF size
<1>15. /\ d[1] = StartFlag /\ d[2] = (size + 5) % 256 /\ d[3] = (size + 5) \div 256
  BY <1>4, <1>6, <1>13 DEF size
<1>16. \A q \in 1 .. size : d[3 + q] = body[q]
  BY <1>4, <1>13 DEF size
<1>17. d[Len(f) - 1] = CalcFcs(body) /\ d[Len(f)] = TailFlag
  <2>1. d[3 + size + 1] = tail[1] /\ d[3 + size + 2] = tail[2]
    BY <1>4, <1>5, <1>13 DEF size
  <2>2. 3 + size + 1 = Len(f) - 1 /\ 3 + size + 2 = Len(f)
    BY <1>12, <1>14 DEF size
  <2> QED BY <1>7, <2>1, <2>2
<1>18. d[2] = Len(f) % 256 /\ d[3] = Len(f) \div 256
  BY <1>12, <1>15 DEF size
<1>19. Len(d) >= Len(f)
  <2>1. Len(rest) \in Nat OBVIOUS
  <2> QED BY <1>3, <1>11, <1>12, <2>1
<1>20. BeginsWith(d, f, body)
  BY <1>10, <1>11, <1>12, <1>15, <1>16, <1>17, <1>18, <1>19, Zenon DEF size, BeginsWith
<1> QED BY <1>20, Zenon DEF d, f

(* What FormSendFrame makes of a frame without relays.                     *)
LEMMA FormIsFramed ==
  ASSUME NEW info, Sendable(info)
  PROVE  FormSendFrame(info) = Framed(Body(info))
<1> DEFINE dt == EncodeFn(info.fn)
           addresses == IF CommModuleFlag(info.link)
                        THEN info.src
                             \o FlattenSeq(SubSeq(info.relays, 1, RelayLevel(info.link)))
                             \o info.dest
                        ELSE <<>>
           body == <<info.control>> \o info.link \o addresses
                   \o <<info.afn, dt.dt1, dt.dt2>> \o info.data
<1>1. addresses = Addresses(info)
  <2>1. CASE CommModuleFlag(info.link)
    <3>1. info.relays = <<>> /\ RelayLevel(info.link) = 0 /\ info.src \in Seq(Byte)
      BY <2>1 DEF Sendable
    <3>2. SubSeq(<<>>, 1, 0) = <<>> OBVIOUS
    <3>3. FlattenSeq(<<>>) = <<>> BY DEF FlattenSeq
    <3>4. FlattenSeq(SubSeq(info.relays, 1, RelayLevel(info.link))) = <<>>
      BY <3>1, <3>2, <3>3, Zenon
    <3>5. info.src \o <<>> = info.src
      <4>1. ASSUME NEW x \in Seq(Byte) PROVE x \o <<>> = x OBVIOUS
      <4> QED BY <3>1, <4>1, Zenon
    <3> QED BY <2>1, <3>4, <3>5, Zenon DEF Addresses
  <2>2. CASE ~CommModuleFlag(info.link)
    BY <2>2, Zenon DEF Addresses
  <2> QED BY <2>1, <2>2, Zenon
<1>2. body = Body(info) BY <1>1, Zenon DEF Body
<1>3. FormSendFrame(info) =
        <<StartFlag, (Len(body) + 5) % 256, (Len(body) + 5) \div 256>> \o body
          \o <<CalcFcs(body), TailFlag>>
  BY Zenon DEF FormSendFrame
<1> HIDE DEF body
<1> QED BY <1>2, <1>3, Zenon DEF Framed

(* Where the fields of a frame are, in a buffer that begins with it.       *)
Placed(data, info) ==
  LET len  == IF CommModuleFlag(info.link) THEN 12 ELSE 0
      last == Len(info.data)
  IN  /\ data \in Seq(Cell) /\ Len(data) >= 15 + len + last
      /\ data[4] = info.control
      /\ \A q \in 1 .. 6 : data[4 + q] = info.link[q]
      /\ CommModuleFlag(info.link) =>
           /\ \A q \in 1 .. 6 : data[10 + q] = info.src[q]
           /\ \A q \in 1 .. 6 : data[16 + q] = info.dest[q]
      /\ data[11 + len] = info.afn
      /\ data[12 + len] = EncodeFn(info.fn).dt1
      /\ data[13 + len] = EncodeFn(info.fn).dt2
      /\ \A q \in 1 .. last : data[13 + len + q] = info.data[q]

LEMMA FrameIsPlaced ==
  ASSUME NEW info, Sendable(info), NEW rest \in Seq(Cell)
  PROVE  LET f == FormSendFrame(info)
         IN  /\ Placed(f \o rest, info)
             /\ Len(f) = 15 + (IF CommModuleFlag(info.link) THEN 12 ELSE 0) + Len(info.data)
<1> DEFINE body == Body(info)
           adr == Addresses(info)
           len == Len(adr)
           last == Len(info.data)
           f == Framed(body)
           d == f \o rest
<1>1. FormSendFrame(info) = f BY FormIsFramed, Zenon
<1>2. /\ body \in Seq(Byte) /\ adr \in Seq(Byte)
      /\ len = IF CommModuleFlag(info.link) THEN 12 ELSE 0
      /\ Len(body) = 10 + len + last
      /\ body[1] = info.control
      /\ \A q \in 1 .. 6 : body[1 + q] = info.link[q]
      /\ \A q \in 1 .. len : body[7 + q] = adr[q]
      /\ body[8 + len] = info.afn
      /\ body[9 + len] = EncodeFn(info.fn).dt1
      /\ body[10 + len] = EncodeFn(info.fn).dt2
      /\ \A q \in 1 .. last : body[10 + len + q] = info.data[q]
  BY BodyLayout, Zenon
<1>3. last \in Nat
  <2>1. info.data \in Seq(Byte) BY DEF Sendable
  <2> QED BY <2>1
<1>4. CommModuleFlag(info.link) => /\ \A q \in 1 .. 6 : adr[q] = info.src[q]
                                   /\ \A q \in 1 .. 6 : adr[6 + q] = info.dest[q]
  <2> SUFFICES ASSUME CommModuleFlag(info.link)
               PROVE  /\ \A q \in 1 .. 6 : adr[q] = info.src[q]
                      /\ \A q \in 1 .. 6 : adr[6 + q] = info.dest[q]
    OBVIOUS
  <2>1. adr = info.src \o info.dest BY Zenon DEF Addresses
  <2>2. /\ info.src \in Seq(Byte) /\ Len(info.src) = 6
        /\ info.dest \in Seq(Byte) /\ Len(info.dest) = 6
    BY DEF Sendable
  <2>3. BothSixes(info.src \o info.dest, info.src, info.dest)
    <3>1. info.src \in Seq(Byte) /\ info.dest \in Seq(Byte) BY <2>2, Zenon
    <3>2. Len(info.src) = 6 /\ Len(info.dest) = 6 BY <2>2, Zenon
    <3> QED BY <3>1, <3>2, SixAndSix, Zenon
  <2>4. \A q \in 1 .. 6 : adr[q] = info.src[q] /\ adr[6 + q] = info.dest[q]
    BY <2>1, <2>3, Zenon DEF BothSixes
  <2> QED BY <2>4, Zenon
<1> HIDE DEF body, adr
<1>5. BeginsWith(d, f, body) BY <1>2, FrameLayout, Zenon
<1> HIDE DEF d, f
<1>6. /\ Len(f) = Len(body) + 5 /\ d \in Seq(Cell) /\ Len(d) >= Len(f)
      /\ \A q \in 1 .. Len(body) : d[3 + q] = body[q]
  BY <1>5, Zenon DEF BeginsWith
<1> DEFINE data == info.data
           link == info.link
           src == info.src
           dest == info.dest
<1> HIDE DEF data, link, src, dest, len, last
<1>7. len \in {0, 12} BY <1>2
<1>8. \A p \in 1 .. 10 + len + last : d[3 + p] = body[p] BY <1>2, <1>6
<1>9. /\ \A q \in 1 .. 6 : body[1 + q] = link[q]
      /\ \A q \in 1 .. last : body[10 + len + q] = data[q]
      /\ \A q \in 1 .. len : body[7 + q] = adr[q]
  BY <1>2 DEF link, data
<1>10. d[4] = body[1] /\ d[11 + len] = body[8 + len] /\ d[12 + len] = body[9 + len]
       /\ d[13 + len] = body[10 + len]
  <2>1. /\ d[3 + 1] = body[1] /\ d[3 + (8 + len)] = body[8 + len]
        /\ d[3 + (9 + len)] = body[9 + len] /\ d[3 + (10 + len)] = body[10 + len]
    BY <1>3, <1>7, <1>8
  <2>2. 3 + 1 = 4 /\ 3 + (8 + len) = 11 + len /\ 3 + (9 + len) = 12 + len
        /\ 3 + (10 + len) = 13 + len
    BY <1>7
  <2> QED BY <2>1, <2>2
<1>11. \A q \in 1 .. 6 : d[4 + q] = link[q]
  <2> TAKE q \in 1 .. 6
  <2>1. d[3 + (1 + q)] = body[1 + q] BY <1>3, <1>7, <1>8
  <2>2. 3 + (1 + q) = 4 + q OBVIOUS
  <2> QED BY <1>9, <2>1, <2>2
<1>12. \A q \in 1 .. last : d[13 + len + q] = data[q]
  <2> TAKE q \in 1 .. last
  <2>1. d[3 + (10 + len + q)] = body[10 + len + q] BY <1>3, <1>7, <1>8
  <2>2. 3 + (10 + len + q) = 13 + len + q BY <1>3, <1>7
  <2> QED BY <1>9, <2>1, <2>2
<1>13. \A q \in 1 .. len : d[10 + q] = adr[q]
  <2> TAKE q \in 1 .. len
  <2>1. d[3 + (7 + q)] = body[7 + q] BY <1>3, <1>7, <1>8
  <2>2. 3 + (7 + q) = 10 + q BY <1>7
  <2> QED BY <1>9, <2>1, <2>2
<1>14. CommModuleFlag(info.link) => /\ \A q \in 1 .. 6 : d[10 + q] = src[q]
                                    /\ \A q \in 1 .. 6 : d[16 + q] = dest[q]
  <2> SUFFICES ASSUME CommModuleFlag(info.link), NEW q \in 1 .. 6
               PROVE  d[10 + q] = src[q] /\ d[16 + q] = dest[q]
    OBVIOUS
  <2>1. len = 12 BY <1>2
  <2>2. d[10 + q] = adr[q] /\ d[10 + (6 + q)] = adr[6 + q] BY <1>13, <2>1
  <2>3. 10 + (6 + q) = 16 + q OBVIOUS
  <2>4. adr[q] = src[q] /\ adr[6 + q] = dest[q] BY <1>4 DEF src, dest
  <2> QED BY <2>2, <2>3, <2>4
<1>15. Len(f) = 15 + len + last BY <1>2, <1>3, <1>6, <1>7
<1>16. Len(d) >= 15 + len + last BY <1>3, <1>6, <1>7, <1>15
<1>17. /\ d \in Seq(Cell) /\ d[4] = info.control
       /\ d[11 + len] = info.afn /\ d[12 + len] = EncodeFn(info.fn).dt1
       /\ d[13 + len] = EncodeFn(info.fn).dt2
  BY <1>2, <1>6, <1>10, Zenon
<1>18. len = IF CommModuleFlag(info.link) THEN 12 ELSE 0 BY <1>2, Zenon
<1>19. Placed(d, info)
  BY <1>11, <1>12, <1>14, <1>16, <1>17, <1>18, Zenon DEF Placed, link, src, dest, data, last
<1>20. Len(f) = 15 + (IF CommModuleFlag(info.link) THEN 12 ELSE 0) + Len(info.data)
  BY <1>15, <1>18, Zenon DEF last
<1> QED BY <1>1, <1>19, <1>20, Zenon DEF d

LEMMA FrameIsLegal ==
  ASSUME NEW info, Sendable(info), NEW rest \in Seq(Cell)
  PROVE  LET f == FormSendFrame(info) IN Legal(f \o rest, Len(f))
<1> DEFINE body == Body(info)
           f == Framed(body)
           d == f \o rest
<1>1. FormSendFrame(info) = f BY FormIsFramed, Zenon
<1>2. body \in Seq(Byte) BY BodyLayout, Zenon
<1>3. Len(f) <= MaxFrameLen BY <1>1, Zenon DEF Sendable
<1> HIDE DEF body
<1>4. BeginsWith(d, f, body) BY <1>2, FrameLayout, Zenon
<1> HIDE DEF d, f
<1>5. /\ f \in Seq(Cell) /\ Len(f) = Len(body) + 5
      /\ d \in Seq(Cell) /\ Len(d) >= Len(f)
      /\ d[1] = StartFlag /\ d[2] = Len(f) % 256 /\ d[3] = Len(f) \div 256
      /\ \A q \in 1 .. Len(body) : d[3 + q] = body[q]
      /\ d[Len(f) - 1] = CalcFcs(body) /\ d[Len(f)] = TailFlag
  BY <1>4, Zenon DEF BeginsWith
<1>6. Len(body) \in Nat BY <1>2
<1>7. body \in Seq(Cell) BY <1>2, BytesAreCells, Zenon
<1>8. SubSeq(d, 3 + 1, 3 + Len(body)) = body
  <2>1. 3 + Len(body) <= Len(d) BY <1>5, <1>6
  <2> QED BY <1>5, <1>7, <2>1, PartIs
<1>9. SubSeq(d, 4, Len(f) - 2) = body
  <2>1. 3 + 1 = 4 /\ 3 + Len(body) = Len(f) - 2 BY <1>5, <1>6
  <2> QED BY <1>8, <2>1
<1>10. Len(f) = (Len(f) % 256) + 256 * (Len(f) \div 256)
  <2>1. Len(f) \in Nat BY <1>5
  <2> QED BY <2>1
<1>11. Legal(d, Len(f))
  BY <1>3, <1>5, <1>9, <1>10 DEF Legal
<1> QED BY <1>1, <1>11, Zenon DEF d

(* The bytes of a legal frame are read back as what was sent.              *)
LEMMA PlacedIsParsed ==
  ASSUME NEW info, Sendable(info), NEW d, Placed(d, info)
  PROVE  LET n == 15 + (IF CommModuleFlag(info.link) THEN 12 ELSE 0) + Len(info.data)
         IN  Fields(d, n).ok /\ Says(Fields(d, n).info, info)
<1> DEFINE data == info.data
           link == info.link
           src == info.src
           dest == info.dest
           has == CommModuleFlag(info.link)
           len == IF has THEN 12 ELSE 0
           last == Len(data)
           n == 15 + len + last
           dt == EncodeFn(info.fn)
<1>1. /\ data \in Seq(Byte) /\ link \in Seq(Byte) /\ Len(link) = 6
      /\ RelayLevel(link) = 0 /\ info.relays = <<>> /\ info.fn \in 1 .. 248
      /\ has => src \in Seq(Byte) /\ Len(src) = 6 /\ dest \in Seq(Byte) /\ Len(dest) = 6
      /\ ~has => src = <<>> /\ dest = <<>>
  BY Zenon DEF Sendable
<1>2. /\ d \in Seq(Cell) /\ Len(d) >= n /\ d[4] = info.control
      /\ \A q \in 1 .. 6 : d[4 + q] = link[q]
      /\ has => /\ \A q \in 1 .. 6 : d[10 + q] = src[q]
                /\ \A q \in 1 .. 6 : d[16 + q] = dest[q]
      /\ d[11 + len] = info.afn /\ d[12 + len] = dt.dt1 /\ d[13 + len] = dt.dt2
      /\ \A q \in 1 .. last : d[13 + len + q] = data[q]
  BY Zenon DEF Placed
<1>3. last \in Nat /\ len \in {0, 12} BY <1>1
<1>4. /\ data \in Seq(Cell) /\ link \in Seq(Cell)
      /\ has => src \in Seq(Cell) /\ dest \in Seq(Cell)
  BY <1>1, BytesAreCells, Zenon
<1>5. Decodable(dt) /\ DecodeFn(dt) = info.fn
  <2>1. info.fn \in 1 .. 248 BY <1>1, Zenon
  <2>2. info.fn \in 0 .. 248 /\ info.fn # 0
    <3> HIDE DEF data, link, src, dest, has, len, last, n, dt
    <3> QED BY <2>1
  <2> QED BY <2>2, FnRoundTrip, Zenon
<1>6. dt = [dt1 |-> dt.dt1, dt2 |-> dt.dt2] BY <1>1 DEF EncodeFn
<1> HIDE DEF data, link, src, dest, has, len, last, n, dt
<1>7. Len(d) \in Nat /\ Len(d) >= 15 + len + last BY <1>2 DEF n
<1>8. SubSeq(d, 5, 10) = link
  <2>1. 4 \in Nat /\ Len(d) >= 4 + 6 BY <1>3, <1>7
  <2>2. SubSeq(d, 4 + 1, 4 + 6) = link
    <3>1. d \in Seq(Cell) /\ \A q \in 1 .. 6 : d[4 + q] = link[q] BY <1>2, Zenon
    <3>2. link \in Seq(Cell) /\ Len(link) = 6 BY <1>1, <1>4, Zenon
    <3> QED BY <2>1, <3>1, <3>2, SixAt, Zenon
  <2>3. 4 + 1 = 5 /\ 4 + 6 = 10 OBVIOUS
  <2> QED BY <2>2, <2>3, Zenon
<1>9. has => SubSeq(d, 11, 16) = src /\ SubSeq(d, 17, 22) = dest
  <2> SUFFICES ASSUME has PROVE SubSeq(d, 11, 16) = src /\ SubSeq(d, 17, 22) = dest
    OBVIOUS
  <2>1. 10 \in Nat /\ Len(d) >= 10 + 6 /\ 16 \in Nat /\ Len(d) >= 16 + 6
    BY <1>3, <1>7 DEF len
  <2>2. /\ src \in Seq(Cell) /\ Len(src) = 6 /\ \A q \in 1 .. 6 : d[10 + q] = src[q]
        /\ dest \in Seq(Cell) /\ Len(dest) = 6 /\ \A q \in 1 .. 6 : d[16 + q] = dest[q]
    BY <1>1, <1>2, <1>4, Zenon
  <2>3. SubSeq(d, 10 + 1, 10 + 6) = src
    <3>1. d \in Seq(Cell) /\ \A q \in 1 .. 6 : d[10 + q] = src[q] BY <1>2, <2>2, Zenon
    <3>2. src \in Seq(Cell) /\ Len(src) = 6 BY <2>2, Zenon
    <3>3. 10 \in Nat /\ Len(d) >= 10 + 6 BY <2>1, Zenon
    <3> QED BY <3>1, <3>2, <3>3, SixAt, Zenon
  <2>4. SubSeq(d, 16 + 1, 16 + 6) = dest
    <3>1. d \in Seq(Cell) /\ \A q \in 1 .. 6 : d[16 + q] = dest[q] BY <1>2, <2>2, Zenon
    <3>2. dest \in Seq(Cell) /\ Len(dest) = 6 BY <2>2, Zenon
    <3>3. 16 \in Nat /\ Len(d) >= 16 + 6 BY <2>1, Zenon
    <3> QED BY <3>1, <3>2, <3>3, SixAt, Zenon
  <2>5. 10 + 1 = 11 /\ 10 + 6 = 16 /\ 16 + 1 = 17 /\ 16 + 6 = 22 OBVIOUS
  <2> QED BY <2>3, <2>4, <2>5, Zenon
<1>10. SubSeq(d, 14 + len, 13 + len + last) = data
  <2>1. 13 + len \in Nat /\ 13 + len + last <= Len(d) BY <1>3, <1>7
  <2>2. SubSeq(d, 13 + len + 1, 13 + len + last) = data
    BY <1>2, <1>4, <2>1, PartIs, Zenon DEF last
  <2>3. 13 + len + 1 = 14 + len BY <1>3
  <2> QED BY <2>2, <2>3, Zenon
<1> DEFINE Part(p, m) == SubSeq(d, p, p + m - 1)
           lk == Part(5, 6)
           relayCnt == IF IsUp(d[4]) THEN 0 ELSE RelayLevel(lk)
           hasLk == CommModuleFlag(lk)
           at == 11 + IF hasLk THEN 6 * (relayCnt + 2) ELSE 0
           fields == [Cleared EXCEPT
             !.control = d[4], !.link = lk,
             !.src = IF hasLk THEN Part(11, 6) ELSE <<>>,
             !.relays = IF hasLk
                        THEN [k \in 1 .. relayCnt |-> Part(11 + 6 * k, 6)] ELSE <<>>,
             !.dest = IF hasLk THEN Part(at - 6, 6) ELSE <<>>,
             !.afn = d[at], !.dt = [dt1 |-> d[at + 1], dt2 |-> d[at + 2]]]
           parsed == IF ~Decodable(fields.dt)
                     THEN [ok |-> FALSE, info |-> fields]
                     ELSE IF n < at + 4
                     THEN [ok |-> FALSE, info |-> [fields EXCEPT !.fn = DecodeFn(fields.dt)]]
                     ELSE [ok |-> TRUE,
                           info |-> [fields EXCEPT !.fn = DecodeFn(fields.dt),
                                                   !.data = Part(at + 3, n - at - 4)]]
<1>11. Fields(d, n) = parsed BY DEF Fields
<1>12. lk = link BY <1>8
<1>13. hasLk = has BY <1>12, Zenon DEF has, link
<1> HIDE DEF lk, hasLk
<1>14. relayCnt = 0 BY <1>1, <1>12
<1>15. at = 11 + len BY <1>14, <1>13 DEF len
<1> HIDE DEF relayCnt
<1>16. (IF hasLk THEN [k \in 1 .. relayCnt |-> Part(11 + 6 * k, 6)] ELSE <<>>) = <<>>
  BY <1>14
<1>17. (IF hasLk THEN Part(11, 6) ELSE <<>>) = src BY <1>1, <1>9, <1>13
<1>18. (IF hasLk THEN Part(at - 6, 6) ELSE <<>>) = dest
  <2>1. CASE has
    <3>1. at - 6 = 17 /\ 17 + 6 - 1 = 22 BY <1>15, <2>1 DEF len
    <3> HIDE DEF at
    <3> QED BY <1>9, <1>13, <2>1, <3>1
  <2>2. CASE ~has BY <1>1, <1>13, <2>2
  <2> QED BY <2>1, <2>2
<1>19. /\ d[at] = info.afn /\ [dt1 |-> d[at + 1], dt2 |-> d[at + 2]] = dt
  <2>1. at + 1 = 12 + len /\ at + 2 = 13 + len BY <1>3, <1>15
  <2> HIDE DEF at
  <2> QED BY <1>2, <1>6, <1>15, <2>1
<1> HIDE DEF at
<1>20. fields = [Cleared EXCEPT !.control = info.control, !.link = link, !.src = src,
                   !.relays = <<>>, !.dest = dest, !.afn = info.afn, !.dt = dt]
  BY <1>2, <1>12, <1>16, <1>17, <1>18, <1>19, Zenon
<1>21. /\ n - at - 4 = last /\ ~(n < at + 4)
       /\ at + 3 = 14 + len /\ at + 3 + last - 1 = 13 + len + last
  BY <1>3, <1>15 DEF n
<1>22. Part(at + 3, n - at - 4) = data BY <1>10, <1>21
<1> HIDE DEF fields
<1>23. fields.dt = dt BY <1>20 DEF Cleared
<1>24. parsed = [ok |-> TRUE, info |-> [fields EXCEPT !.fn = info.fn, !.data = data]]
  BY <1>5, <1>21, <1>22, <1>23, Zenon
<1>25. Fields(d, n).ok BY <1>11, <1>24
<1>26. Says(Fields(d, n).info, info)
  <2>1. Fields(d, n).info = [fields EXCEPT !.fn = info.fn, !.data = data] BY <1>11, <1>24
  <2> QED BY <1>1, <1>20, <2>1 DEF Says, Cleared, link, src, dest, data
<1> QED BY <1>25, <1>26 DEF n, len, has, last, data

(* What FormSendFrame writes ParseRecvFrame reads: of every frame without  *)
(* relays that fits into the receive buffer, whatever is behind it there,  *)
(* it takes the length, the flags and the sum for good and every field for *)
(* what it was, up or down, with addresses or without, of every function.  *)
THEOREM FrameRoundTrip ==
  ASSUME NEW info, Sendable(info), NEW rest \in Seq(Cell)
  PROVE  LET parsed == ParseRecvFrame(FormSendFrame(info) \o rest, Len(FormSendFrame(info)))
         IN  parsed.ok /\ Says(parsed.info, info)
<1> DEFINE f == FormSendFrame(info)
           d == f \o rest
<1>1. Legal(d, Len(f)) BY FrameIsLegal, Zenon
<1>2. Placed(d, info) BY FrameIsPlaced, Zenon
<1>3. Len(f) = 15 + (IF CommModuleFlag(info.link) THEN 12 ELSE 0) + Len(info.data)
  BY FrameIsPlaced, Zenon
<1> HIDE DEF f, d
<1>4. Fields(d, Len(f)).ok /\ Says(Fields(d, Len(f)).info, info)
  BY <1>2, <1>3, PlacedIsParsed, Zenon
<1>5. ParseRecvFrame(d, Len(f)) = Fields(d, Len(f))
  BY <1>1, Zenon DEF ParseRecvFrame
<1> QED BY <1>4, <1>5, Zenon DEF f, d

------------------------------------------------------------------------------
(* The scan of AdParseRecvFrame.  It does find a frame and keep it when    *)
(* the frame has no flag between its own two, and what is before or behind *)
(* it no start flag that a tail flag follows.                              *)

NoFlagInside(f) ==
  \A q \in 2 .. Len(f) - 1 : f[q] # StartFlag /\ f[q] # TailFlag

Unframed(noise) ==
  \A p, q \in 1 .. Len(noise) : p < q => ~(noise[p] = StartFlag /\ noise[q] = TailFlag)

Clean ==
  /\ MaxFrameLen \in Nat
  /\ \A info \in Infos : Sendable(info) /\ NoFlagInside(FormSendFrame(info))
  /\ \A noise \in Noise : noise \in Seq(Byte) /\ Unframed(noise)

(* The frame f is in b behind k bytes.                                     *)
Stands(b, k, f) ==
  /\ b \in Seq(Cell) /\ k + Len(f) <= Len(b)
  /\ \A q \in 1 .. Len(f) : b[k + q] = f[q]
  /\ \A p, q \in (k + Len(f) + 1) .. Len(b) :
       p < q => ~(b[p] = StartFlag /\ b[q] = TailFlag)

(* The loops have passed the beginning and the end of the frame.           *)
Passed(k, f) == i > k + 1 \/ (i = k + 1 /\ j < k + Len(f))

Kept == res = 0 /\ Says(recvInfo, sent)

ScanTypes ==
  /\ sent \in Infos /\ i \in Nat \ {0} /\ j \in 0 .. Len(buffer)
  /\ recvFrame \in Seq(Cell) /\ Len(recvFrame) >= MaxFrameLen

ScanInv ==
  /\ ScanTypes
  /\ \E k \in Nat : /\ Stands(buffer, k, FormSendFrame(sent))
                    /\ Passed(k, FormSendFrame(sent)) => Kept

LEMMA FrameEnds ==
  ASSUME NEW info, Sendable(info)
  PROVE  LET f == FormSendFrame(info)
         IN  f \in Seq(Cell) /\ Len(f) \in Nat /\ Len(f) >= 5
             /\ f[1] = StartFlag /\ f[Len(f)] = TailFlag
<1> DEFINE body == Body(info)
           f == Framed(body)
           d == f \o <<>>
<1>1. FormSendFrame(info) = f BY FormIsFramed, Zenon
<1>2. body \in Seq(Byte) BY BodyLayout, Zenon
<1>3. <<>> \in Seq(Cell) OBVIOUS
<1> HIDE DEF body
<1>4. BeginsWith(d, f, body) BY <1>2, <1>3, FrameLayout, Zenon
<1> HIDE DEF d, f
<1>5. Len(body) \in Nat BY <1>2
<1>6. f \in Seq(Cell) /\ Len(f) = Len(body) + 5 BY <1>4, Zenon DEF BeginsWith
<1>7. Len(f) \in Nat /\ Len(f) >= 5 BY <1>5, <1>6
<1>8. f[1] = d[1] /\ f[Len(f)] = d[Len(f)]
  <2>1. \A q \in 1 .. Len(f) : d[q] = f[q] BY <1>4, Zenon DEF BeginsWith
  <2>2. 1 \in 1 .. Len(f) /\ Len(f) \in 1 .. Len(f) BY <1>7
  <2> QED BY <2>1, <2>2, Zenon
<1>9. d[1] = StartFlag /\ d[Len(f)] = TailFlag BY <1>4, Zenon DEF BeginsWith
<1> QED BY <1>1, <1>6, <1>7, <1>8, <1>9, Zenon

LEMMA ScanStarts ==
  ASSUME Clean, Init
  PROVE  ScanInv
<1> DEFINE f == FormSendFrame(sent)
<1>1. sent \in Infos /\ Sendable(sent) /\ MaxFrameLen \in Nat BY DEF Clean, Init
<1>2. f \in Seq(Cell) /\ Len(f) \in Nat /\ Len(f) >= 5 BY <1>1, FrameEnds, Zenon
<1>3. PICK before \in Noise, after \in Noise : buffer = before \o f \o after
  BY Zenon DEF Init
<1>4. before \in Seq(Byte) /\ after \in Seq(Byte) /\ Unframed(after)
  BY Zenon DEF Clean
<1>5. before \in Seq(Cell) /\ after \in Seq(Cell) BY <1>4, BytesAreCells, Zenon
<1> DEFINE k == Len(before)
<1> HIDE DEF f
<1>6. k \in Nat /\ Len(after) \in Nat BY <1>4
<1>7. FollowEachOther(buffer, Cell, before, f, after, <<>>, <<>>)
  <2>1. f \in Seq(Cell) BY <1>2, Zenon
  <2>2. FollowEachOther(before \o f \o after, Cell, before, f, after, <<>>, <<>>)
    BY <1>5, <2>1, ThreeParts, Zenon
  <2> QED BY <1>3, <2>2, Zenon
<1>8. /\ buffer \in Seq(Cell)
      /\ Len(buffer) = Len(before) + Len(f) + Len(after) + Len(<<>>) + Len(<<>>)
      /\ \A q \in 1 .. Len(f) : buffer[Len(before) + q] = f[q]
      /\ \A q \in 1 .. Len(after) : buffer[Len(before) + Len(f) + q] = after[q]
  BY <1>7, Zenon DEF FollowEachOther
<1> DEFINE b == buffer
           m == Len(f)
           l == Len(after)
<1>9. Len(b) = k + m + l
  <2>1. Len(<<>>) = 0 OBVIOUS
  <2>2. Len(b) = k + m + l + 0 + 0 BY <1>8, <2>1, Zenon
  <2> HIDE DEF k, m, l, b
  <2> QED BY <1>2, <1>6, <2>2 DEF m, l
<1>10. Stands(buffer, k, f)
  <2>1. k + m <= Len(b)
    <3> HIDE DEF k, b
    <3> QED BY <1>2, <1>6, <1>9
  <2>2. ASSUME NEW p \in (k + m + 1) .. Len(b), NEW q \in (k + m + 1) .. Len(b), p < q
        PROVE  ~(b[p] = StartFlag /\ b[q] = TailFlag)
    <3>1. /\ p - (k + m) \in 1 .. l /\ q - (k + m) \in 1 .. l
          /\ p - (k + m) < q - (k + m)
          /\ k + m + (p - (k + m)) = p /\ k + m + (q - (k + m)) = q
      <4> HIDE DEF k, m, l, b
      <4> QED BY <1>2, <1>6, <1>9, <2>2 DEF m, l
    <3>2. \A x \in 1 .. l : b[k + m + x] = after[x] BY <1>8, Zenon
    <3>3. b[p] = after[p - (k + m)] /\ b[q] = after[q - (k + m)]
      <4> HIDE DEF k, m, l, b
      <4> QED BY <3>1, <3>2, Zenon
    <3>4. \A x, y \in 1 .. l : x < y => ~(after[x] = StartFlag /\ after[y] = TailFlag)
      BY <1>4, Zenon DEF Unframed
    <3> HIDE DEF k, m, l, b
    <3> QED BY <3>1, <3>3, <3>4, Zenon
  <2>3. \A q \in 1 .. m : b[k + q] = f[q] BY <1>8, Zenon
  <2>4. b \in Seq(Cell) BY <1>8, Zenon
  <2> QED BY <2>1, <2>2, <2>3, <2>4, Zenon DEF Stands
<1>11. ScanTypes
  <2>1. recvFrame = [x \in 1 .. MaxFrameLen |-> 0] /\ i = 1 /\ j = Len(buffer)
    BY Zenon DEF Init
  <2>2. Nat \subseteq Cell BY DEF Cell
  <2>3. recvFrame \in Seq(Cell) /\ Len(recvFrame) = MaxFrameLen
    BY <1>1, <2>1, <2>2
  <2>4. j \in 0 .. Len(buffer) /\ i \in Nat \ {0} BY <1>8, <2>1
  <2>5. Len(recvFrame) >= MaxFrameLen BY <1>1, <2>3
  <2> QED BY <1>1, <2>3, <2>4, <2>5, Zenon DEF ScanTypes
<1>12. ~Passed(k, f)
  <2>1. i = 1 /\ j = Len(b) BY Zenon DEF Init
  <2> HIDE DEF k, b
  <2> QED BY <1>2, <1>6, <1>9, <2>1 DEF Passed
<1> QED BY <1>6, <1>10, <1>11, <1>12, Zenon DEF ScanInv, f

(* A part of the buffer and what the last try left behind it.              *)
LEMMA DataIsCells ==
  ASSUME NEW b \in Seq(Cell), NEW old \in Seq(Cell), NEW most \in Nat, Len(old) >= most,
         NEW x \in 1 .. Len(b), NEW y \in 1 .. Len(b), x < y
  PROVE  LET n == y - x + 1
             data == SubSeq(b, x, y) \o SubSeq(old, n + 1, most)
         IN  SubSeq(old, n + 1, most) \in Seq(Cell) /\ data \in Seq(Cell) /\ Len(data) >= most
<1> DEFINE n == y - x + 1
           new == SubSeq(b, x, y)
           rest == SubSeq(old, n + 1, most)
<1>1. n \in Nat \ {0} OBVIOUS
<1>2. new \in Seq(Cell) /\ Len(new) = n
  <2>1. \A q \in x .. y : b[q] \in Cell OBVIOUS
  <2>2. new \in Seq(Cell) /\ Len(new) = IF x <= y THEN y - x + 1 ELSE 0
    BY <2>1, SubSeqProperties
  <2> HIDE DEF new
  <2> QED BY <2>2
<1> HIDE DEF n, new
<1>3. rest \in Seq(Cell) /\ Len(rest) = IF n + 1 <= most THEN most - (n + 1) + 1 ELSE 0
  <2>1. \A q \in (n + 1) .. most : old[q] \in Cell BY <1>1
  <2> QED BY <1>1, <2>1, SubSeqProperties
<1> HIDE DEF rest
<1>4. new \o rest \in Seq(Cell) /\ Len(new \o rest) = Len(new) + Len(rest)
  <2>1. new \in Seq(Cell) /\ rest \in Seq(Cell) BY <1>2, <1>3, Zenon
  <2> QED BY <2>1, TwoParts, Zenon
<1> DEFINE data == new \o rest
<1> HIDE DEF data
<1>5. Len(data) >= most
  <2>1. Len(data) = Len(new) + Len(rest) BY <1>4, Zenon DEF data
  <2> QED BY <1>1, <1>2, <1>3, <2>1
<1> QED BY <1>3, <1>4, <1>5, Zenon DEF data, new, rest, n

(* The only try that comes once the frame is reached is the frame's own.   *)
LEMMA OwnTry ==
  ASSUME NEW b, NEW k \in Nat, NEW f \in Seq(Cell), Len(f) >= 5, Stands(b, k, f),
         NoFlagInside(f), f[Len(f)] = TailFlag,
         NEW x \in 1 .. Len(b), NEW y \in 1 .. Len(b), x < y, x >= k + 1,
         x = k + 1 => y <= k + Len(f), b[x] = StartFlag, b[y] = TailFlag
  PROVE  x = k + 1 /\ y = k + Len(f)
<1> DEFINE m == Len(f)
<1>1. m \in Nat /\ m >= 5 OBVIOUS
<1>2. /\ b \in Seq(Cell) /\ k + m <= Len(b)
      /\ \A q \in 1 .. m : b[k + q] = f[q]
      /\ \A p, q \in (k + m + 1) .. Len(b) :
           p < q => ~(b[p] = StartFlag /\ b[q] = TailFlag)
  BY Zenon DEF Stands
<1>3. \A q \in 2 .. m - 1 : f[q] # StartFlag /\ f[q] # TailFlag BY Zenon DEF NoFlagInside
<1> HIDE DEF m
<1>4. \A p \in (k + 1) .. (k + m) : b[p] = f[p - k]
  <2> TAKE p \in (k + 1) .. (k + m)
  <2>1. p - k \in 1 .. m /\ k + (p - k) = p BY <1>1
  <2> QED BY <1>2, <2>1
<1>5. Len(b) \in Nat BY <1>2
<1>6. x <= k + m
  <2> SUFFICES ASSUME ~(x <= k + m) PROVE FALSE OBVIOUS
  <2>1. x \in (k + m + 1) .. Len(b) /\ y \in (k + m + 1) .. Len(b) BY <1>1, <1>5
  <2> QED BY <1>2, <2>1
<1>7. x = k + 1
  <2> SUFFICES ASSUME x # k + 1 PROVE FALSE OBVIOUS
  <2>1. x \in (k + 1) .. (k + m) /\ x - k \in 2 .. m BY <1>1, <1>5, <1>6
  <2>2. f[x - k] = StartFlag BY <1>4, <2>1
  <2>3. x - k # m BY <2>2 DEF StartFlag, TailFlag, m
  <2>4. x - k \in 2 .. m - 1 BY <1>1, <2>1, <2>3
  <2> QED BY <1>3, <2>2, <2>4
<1>8. y = k + m
  <2> SUFFICES ASSUME y # k + m PROVE FALSE OBVIOUS
  <2>1. y \in (k + 1) .. (k + m) /\ y - k \in 2 .. m - 1 BY <1>1, <1>5, <1>7 DEF m
  <2>2. f[y - k] = TailFlag BY <1>4, <2>1
  <2> QED BY <1>3, <2>1, <2>2
<1> QED BY <1>7, <1>8, Zenon DEF m

LEMMA ScanStep ==
  ASSUME Clean, ScanInv, [AdParseRecvFrame]_vars
  PROVE  ScanInv'
<1> DEFINE f == FormSendFrame(sent)
<1>1. ScanTypes BY Zenon DEF ScanInv
<1>2. PICK k \in Nat : Stands(buffer, k, f) /\ (Passed(k, f) => Kept)
  BY Zenon DEF ScanInv
<1>3. Sendable(sent) /\ NoFlagInside(f) BY <1>1, Zenon DEF Clean, ScanTypes
<1>4. f \in Seq(Cell) /\ Len(f) \in Nat /\ Len(f) >= 5 /\ f[1] = StartFlag /\ f[Len(f)] = TailFlag
  BY <1>3, FrameEnds, Zenon
<1>5. MaxFrameLen \in Nat BY Zenon DEF Clean
<1> DEFINE m == Len(f)
<1>6. /\ buffer \in Seq(Cell) /\ k + m <= Len(buffer)
      /\ \A q \in 1 .. m : buffer[k + q] = f[q]
  BY <1>2, Zenon DEF Stands
<1>7. Len(buffer) \in Nat BY <1>6
<1>8. buffer[k + 1] = StartFlag /\ buffer[k + m] = TailFlag
  <2>1. 1 \in 1 .. m /\ m \in 1 .. m
    <3> HIDE DEF f
    <3> QED BY <1>4
  <2> QED BY <1>4, <1>6, <2>1, Zenon
<1>9. Kept <=> res = 0 /\ Says(recvInfo, sent) BY Zenon DEF Kept
<1>10. Passed(k, f) <=> (i > k + 1 \/ (i = k + 1 /\ j < k + m)) BY Zenon DEF Passed
<1>11. /\ i \in Nat \ {0} /\ j \in 0 .. Len(buffer)
       /\ recvFrame \in Seq(Cell) /\ Len(recvFrame) >= MaxFrameLen
  BY <1>1, Zenon DEF ScanTypes
<1>12. Passed(k, f) => Kept BY <1>2, Zenon
<1> DEFINE PassedNext == i' > k + 1 \/ (i' = k + 1 /\ j' < k + m)
           Goes == /\ sent' = sent /\ buffer' = buffer
                   /\ i' \in Nat \ {0} /\ j' \in 0 .. Len(buffer)
                   /\ recvFrame' \in Seq(Cell) /\ Len(recvFrame') >= MaxFrameLen
                   /\ PassedNext => res' = 0 /\ Says(recvInfo', sent)
           b == buffer
<1> HIDE DEF f, m, b
<1>13. m \in Nat /\ m >= 5 BY <1>4, Zenon DEF m
<1>14. ASSUME NextStart PROVE Goes
  <2>1. /\ i <= Len(b) /\ (b[i] # StartFlag \/ j = i)
        /\ i' = i + 1 /\ j' = Len(b)
        /\ sent' = sent /\ buffer' = buffer /\ recvFrame' = recvFrame
        /\ recvInfo' = recvInfo /\ res' = res
    <3>1. ~(i > Len(b)) BY <1>14, Zenon DEF NextStart, Done, b
    <3>2. i <= Len(b) BY <1>7, <1>11, <3>1 DEF b
    <3> QED BY <1>14, <3>2, Zenon DEF NextStart, b
  <2>2. i' \in Nat \ {0} /\ j' \in 0 .. Len(b) BY <1>7, <1>11, <2>1 DEF b
  <2>3. PassedNext => Passed(k, f)
    <3> SUFFICES ASSUME PassedNext PROVE i > k + 1 \/ (i = k + 1 /\ j < k + m)
      BY <1>10, Zenon
    <3>1. k + m <= Len(b) /\ Len(b) \in Nat BY <1>6, <1>7 DEF b
    <3>2. i > k BY <1>11, <1>13, <2>1, <3>1
    <3>3. CASE i = k + 1
      <4>1. j = i BY <1>8, <2>1, <3>3 DEF b
      <4> QED BY <1>13, <3>3, <4>1
    <3>4. CASE i # k + 1 BY <1>11, <3>2, <3>4
    <3> QED BY <3>3, <3>4
  <2>4. PassedNext => res' = 0 /\ Says(recvInfo', sent) BY <1>9, <1>12, <2>1, <2>3, Zenon
  <2>5. recvFrame' \in Seq(Cell) /\ Len(recvFrame') >= MaxFrameLen BY <1>11, <2>1, Zenon
  <2> QED BY <2>1, <2>2, <2>4, <2>5, Zenon DEF b
<1>15. ASSUME NextTail PROVE Goes
  <2>1. /\ j > i /\ b[j] # TailFlag /\ j' = j - 1 /\ i' = i
        /\ sent' = sent /\ buffer' = buffer /\ recvFrame' = recvFrame
        /\ recvInfo' = recvInfo /\ res' = res
    BY <1>15, Zenon DEF NextTail, b
  <2>2. i' \in Nat \ {0} /\ j' \in 0 .. Len(b) BY <1>7, <1>11, <2>1 DEF b
  <2>3. PassedNext => Passed(k, f)
    <3> SUFFICES ASSUME PassedNext PROVE i > k + 1 \/ (i = k + 1 /\ j < k + m)
      BY <1>10, Zenon
    <3>1. j # k + m BY <1>8, <2>1 DEF b
    <3>2. j \in Nat BY <1>7, <1>11
    <3> QED BY <1>11, <1>13, <2>1, <3>1, <3>2
  <2>4. PassedNext => res' = 0 /\ Says(recvInfo', sent) BY <1>9, <1>12, <2>1, <2>3, Zenon
  <2>5. recvFrame' \in Seq(Cell) /\ Len(recvFrame') >= MaxFrameLen BY <1>11, <2>1, Zenon
  <2> QED BY <2>1, <2>2, <2>4, <2>5, Zenon DEF b
<1>16. ASSUME Try PROVE Goes
  <2> DEFINE n == j - i + 1
             rest == SubSeq(recvFrame, n + 1, MaxFrameLen)
             data == SubSeq(b, i, j) \o rest
             parsed == ParseRecvFrame(data, n)
  <2>1. /\ b[i] = StartFlag /\ j > i /\ b[j] = TailFlag /\ j' = j - 1 /\ i' = i
        /\ sent' = sent /\ buffer' = buffer
        /\ recvFrame' = data /\ recvInfo' = parsed.info
        /\ res' = IF parsed.ok THEN 0 ELSE res
    BY <1>16, Zenon DEF Try, b
  <2> HIDE DEF parsed
  <2>2. i' \in Nat \ {0} /\ j' \in 0 .. Len(b) BY <1>7, <1>11, <2>1 DEF b
  <2>3. i \in 1 .. Len(b) /\ j \in 1 .. Len(b) /\ i < j BY <1>7, <1>11, <2>1 DEF b
  <2>4. b \in Seq(Cell) BY <1>6, Zenon DEF b
  <2>5. rest \in Seq(Cell) /\ data \in Seq(Cell) /\ Len(data) >= MaxFrameLen
    BY <1>5, <1>11, <2>3, <2>4, DataIsCells, Zenon
  <2> HIDE DEF n, rest, data
  <2>6. ASSUME PassedNext PROVE res' = 0 /\ Says(recvInfo', sent)
    <3>1. i >= k + 1 /\ (i = k + 1 => j <= k + m) BY <1>13, <2>1, <2>3, <2>6
    <3>2. i = k + 1 /\ j = k + m
      <4>1. /\ f \in Seq(Cell) /\ Len(f) >= 5 /\ f[Len(f)] = TailFlag BY <1>4, Zenon
      <4>2. Stands(b, k, f) /\ NoFlagInside(f) BY <1>2, <1>3, Zenon DEF b
      <4>3. i >= k + 1 /\ (i = k + 1 => j <= k + Len(f)) BY <3>1, Zenon DEF m
      <4>4. b[i] = StartFlag /\ b[j] = TailFlag BY <2>1, Zenon
      <4>5. i = k + 1 /\ j = k + Len(f) BY <2>3, <4>1, <4>2, <4>3, <4>4, OwnTry, Zenon
      <4> QED BY <4>5, Zenon DEF m
    <3>3. n = m BY <1>13, <3>2 DEF n
    <3>4. SubSeq(b, i, j) = f
      <4>1. k + Len(f) <= Len(b) BY <1>6, Zenon DEF m, b
      <4>2. \A q \in 1 .. Len(f) : b[k + q] = f[q] BY <1>6, Zenon DEF m, b
      <4>3. f \in Seq(Cell) BY <1>4, Zenon
      <4>4. SubSeq(b, k + 1, k + Len(f)) = f BY <2>4, <4>1, <4>2, <4>3, PartIs, Zenon
      <4> QED BY <3>2, <4>4, Zenon DEF m
    <3>5. data = f \o rest BY <3>4, Zenon DEF data
    <3>6. parsed = ParseRecvFrame(f \o rest, Len(f)) BY <3>3, <3>5, Zenon DEF parsed, m
    <3>7. parsed.ok /\ Says(parsed.info, sent)
      <4>1. rest \in Seq(Cell) BY <2>5, Zenon
      <4> QED BY <1>3, <3>6, <4>1, FrameRoundTrip, Zenon DEF f
    <3> QED BY <2>1, <3>7, Zenon
  <2>7. recvFrame' \in Seq(Cell) /\ Len(recvFrame') >= MaxFrameLen BY <2>1, <2>5, Zenon
  <2> QED BY <2>1, <2>2, <2>6, <2>7, Zenon DEF b
<1>17. ASSUME UNCHANGED vars PROVE Goes
  <2>1. /\ sent' = sent /\ buffer' = buffer /\ i' = i /\ j' = j
        /\ recvFrame' = recvFrame /\ recvInfo' = recvInfo /\ res' = res
    BY <1>17, Zenon DEF vars
  <2> QED BY <1>9, <1>10, <1>11, <1>12, <2>1, Zenon
<1>18. Goes BY <1>14, <1>15, <1>16, <1>17, Zenon DEF AdParseRecvFrame
<1>19. ScanTypes' BY <1>1, <1>18, Zenon DEF ScanTypes
<1>20. Stands(buffer', k, FormSendFrame(sent')) BY <1>2, <1>18, Zenon DEF f
<1>21. Passed(k, FormSendFrame(sent))' => Kept'
  BY <1>18, Zenon DEF Passed, Kept, f, m
<1> QED BY <1>18, <1>19, <1>20, <1>21, Zenon DEF ScanInv, Passed, f

(* When the scan has ended, a frame without flags inside has been found    *)
(* and what it says is kept, wherever it stands in what the serial port    *)
(* delivered and with whatever other bytes around it: only a flag inside   *)
(* the frame, or noise that looks like a frame, can have it lost.          *)
THEOREM CleanFrameFound ==
  ASSUME Clean
  PROVE  Spec => [](Done => res = 0 /\ Says(recvInfo, sent))
<1>1. Init => ScanInv BY ScanStarts, Zenon
<1>2. ScanInv /\ [AdParseRecvFrame]_vars => ScanInv' BY ScanStep, Zenon
<1>3. ScanInv => (Done => res = 0 /\ Says(recvInfo, sent))
  <2> SUFFICES ASSUME ScanInv, Done PROVE Kept
    BY Zenon DEF Kept
  <2> DEFINE f == FormSendFrame(sent)
  <2>1. PICK k \in Nat : Stands(buffer, k, f) /\ (Passed(k, f) => Kept)
    BY Zenon DEF ScanInv
  <2>2. sent \in Infos /\ i \in Nat BY DEF ScanInv, ScanTypes
  <2>3. Len(f) \in Nat /\ Len(f) >= 5 BY <2>2, FrameEnds, Zenon DEF Clean
  <2>4. buffer \in Seq(Cell) /\ k + Len(f) <= Len(buffer) BY <2>1, Zenon DEF Stands
  <2> HIDE DEF f
  <2>5. i > k + 1
    <3>1. i > Len(buffer) BY DEF Done
    <3>2. Len(buffer) \in Nat BY <2>4
    <3> QED BY <2>2, <2>3, <2>4, <3>1, <3>2
  <2>6. Passed(k, f) BY <2>5, Zenon DEF Passed
  <2> QED BY <2>1, <2>6, Zenon
<1> QED BY <1>1, <1>2, <1>3, PTL DEF Spec
=============================================================================
