--------------------------- MODULE FrameLinkProofs ---------------------------
(***************************************************************************)
(* The line and its receiver, for every set of messages and every bound on *)
(* the faults: the types; the checksum of a package; every frame that      *)
(* arrives whole is taken, whatever was lost or changed before it, for as  *)
(* long as nothing is stored behind the buffer; and with one fault at most *)
(* nothing ever is.                                                        *)
(***************************************************************************)
EXTENDS FrameLink, SequenceTheorems, WellFoundedInduction, TLAPS

ParserType == [status : Status, cmdType : Byte, cmdSize : Byte, cmd : Byte,
               checkSum : Byte, buffer : [BufferIndices -> Byte],
               bufferIndex : 0..PROTOCAL_MAX_PACKAGE_LENGTH]
ReplyType == [waitingStat : SUBSET WaitingBits, replyErr : Byte, replyLen : Byte]

(* The receiver, with whole messages in its events *)
RInv == ReceiverTypeOK /\ events \in Seq(Message)

WireByte(messages) == [byte : Byte, frame : DOMAIN messages, pos : Nat]

(* The line, whose bytes belong to frames that were sent *)
LineInv ==
    /\ sent \in Seq(Messages)
    /\ wire \in Seq(WireByte(sent))
    /\ faults \in 0..MaxFaults
    /\ damaged \subseteq DOMAIN sent /\ refused \subseteq DOMAIN sent
    /\ delivered \in Seq(DOMAIN sent) /\ contents \in Seq(Message)
    /\ Len(delivered) = Len(contents)

IInv == RInv /\ LineInv

-----------------------------------------------------------------------------
(* The checksum.  Induction over the bytes goes through the least index at
   which a statement fails. *)
LEMMA SmallestExists ==
  ASSUME NEW T, T \subseteq Nat, T # {}
  PROVE  \E x \in T : \A y \in T : x <= y
<1>1. PICK x \in T : \A y \in T : ~ (<<y, x>> \in OpToRel(<, Nat))
  BY NatLessThanWellFounded, WFMin, Zenon
<1>2. \A y, z \in Nat : y < z => <<y, z>> \in OpToRel(<, Nat)
  BY Zenon DEF OpToRel
<1>3. \A y \in T : ~ (y < x)
  BY <1>1, <1>2
<1> QED BY <1>3

(* s[i] is the sum of the first i bytes of b, for i up to n. *)
Sums(s, b, n) ==
    /\ s \in [0..n -> Byte]
    /\ s[0] = 0
    /\ \A i \in 1..n : s[i] = (s[i - 1] + b[i]) % 256

LEMMA SumsExist ==
  ASSUME NEW b \in Seq(Byte)
  PROVE  \E s : Sums(s, b, Len(b))
<1> DEFINE T == {n \in Nat : n <= Len(b) /\ ~ \E s : Sums(s, b, n)}
<1>1. ASSUME T # {} PROVE FALSE
  <2>1. PICK n \in T : \A m \in T : n <= m
    <3> HIDE DEF T
    <3>1. T \subseteq Nat
      BY DEF T
    <3> QED BY <1>1, <3>1, SmallestExists
  <2>2. n # 0
    <3>1. Sums([i \in 0..0 |-> 0], b, 0)
      BY DEF Sums, Byte
    <3> QED BY <3>1
  <2>3. PICK s : Sums(s, b, n - 1)
    BY <2>1, <2>2
  <2> DEFINE t == [i \in 0..n |-> IF i = n THEN (s[n - 1] + b[n]) % 256 ELSE s[i]]
  <2>4. n \in Nat \ {0} /\ n <= Len(b)
    BY <2>2
  <2>5. \A x, y \in Byte : (x + y) % 256 \in Byte
    BY DEF Byte
  <2> HIDE DEF T
  <2>6. b[n] \in Byte /\ s[n - 1] \in Byte /\ (s[n - 1] + b[n]) % 256 \in Byte
    BY <2>3, <2>4, <2>5 DEF Sums
  <2>7. Sums(t, b, n)
    BY <2>3, <2>4, <2>6 DEF Sums
  <2> QED BY <2>7 DEF T
<1>2. Len(b) \in Nat
  OBVIOUS
<1> QED BY <1>1, <1>2

LEMMA CheckSumIs ==
  ASSUME NEW b \in Seq(Byte), NEW t, Sums(t, b, Len(b))
  PROVE  CheckSum(b) = t[Len(b)]
<1> DEFINE rec(f) == [i \in 0..Len(b) |-> IF i = 0 THEN 0 ELSE (f[i - 1] + b[i]) % 256]
           sum == CHOOSE f : f = rec(f)
<1>1. Len(b) \in Nat
  OBVIOUS
<1>2. t = rec(t)
  BY <1>1 DEF Sums
<1>3. sum = rec(sum)
  <2> HIDE DEF rec
  <2> QED BY <1>2, Zenon
<1>4. \A i \in 0..Len(b) : sum[i] = t[i]
  <2> DEFINE T == {i \in 0..Len(b) : sum[i] # t[i]}
  <2> HIDE DEF sum
  <2> SUFFICES ASSUME T # {} PROVE FALSE
    OBVIOUS
  <2>1. PICK k \in T : \A j \in T : k <= j
    <3> HIDE DEF T
    <3>1. T \subseteq Nat
      BY DEF T
    <3> QED BY <3>1, SmallestExists
  <2>2. sum[k] = rec(sum)[k]
    BY <1>3
  <2>3. k # 0
    BY <1>1, <2>2 DEF Sums
  <2>4. sum[k - 1] = t[k - 1]
    BY <2>1, <2>3
  <2>5. sum[k] = (sum[k - 1] + b[k]) % 256
    BY <2>2, <2>3
  <2>6. t[k] = (t[k - 1] + b[k]) % 256
    BY <2>3 DEF Sums
  <2> QED BY <2>4, <2>5, <2>6
<1>5. CheckSum(b) = sum[Len(b)]
  BY DEF CheckSum
<1> QED BY <1>1, <1>4, <1>5

Body(m) == <<m.type, Len(m.data) + 2, m.cmd>> \o m.data
PartialSum(m, n) == CheckSum(SubSeq(Body(m), 1, n))

LEMMA PrefixSum ==
  ASSUME NEW b \in Seq(Byte), NEW s, Sums(s, b, Len(b)), NEW n \in 0..Len(b)
  PROVE  CheckSum(SubSeq(b, 1, n)) = s[n]
<1> DEFINE c == SubSeq(b, 1, n)
           t == [i \in 0..n |-> s[i]]
<1>1. c \in Seq(Byte) /\ Len(c) = n /\ \A i \in 1..n : c[i] = b[i]
  BY SubSeqProperties
<1>2. Sums(t, c, n)
  <2> HIDE DEF c
  <2>1. n \in Nat /\ n <= Len(b) /\ Len(b) \in Nat
    OBVIOUS
  <2>2. \A i \in 0..n : i \in 0..Len(b) /\ t[i] = s[i] /\ s[i] \in Byte
    BY <2>1 DEF Sums
  <2>3. \A i \in 1..n : s[i] = (s[i - 1] + b[i]) % 256 /\ i - 1 \in 0..n
    BY <2>1 DEF Sums
  <2>4. s[0] = 0 /\ 0 \in 0..n
    BY <2>1 DEF Sums
  <2>5. t \in [0..n -> Byte]
    BY <2>2
  <2> HIDE DEF t
  <2>6. ASSUME NEW i \in 1..n PROVE t[i] = (t[i - 1] + c[i]) % 256
    <3>1. t[i] = s[i] /\ t[i - 1] = s[i - 1]
      BY <2>1, <2>2, <2>3
    <3> QED BY <1>1, <2>3, <3>1
  <2>7. t[0] = 0
    BY <2>2, <2>4
  <2> QED BY <2>5, <2>6, <2>7 DEF Sums
<1>3. t[n] = s[n]
  OBVIOUS
<1> HIDE DEF c, t
<1>4. CheckSum(c) = t[n]
  BY <1>1, <1>2, CheckSumIs
<1> QED BY <1>3, <1>4 DEF c

(* A frame, byte by byte *)
LEMMA BodyBytes ==
  ASSUME NEW m \in Message, Len(m.data) <= PROTOCAL_MAX_DATA_LENGTH
  PROVE  /\ Body(m) \in Seq(Byte) /\ Len(Body(m)) = Len(m.data) + 3 /\ Len(m.data) \in Nat
         /\ Body(m)[1] = m.type /\ Body(m)[2] = Len(m.data) + 2 /\ Body(m)[3] = m.cmd
         /\ \A i \in 1..Len(m.data) : Body(m)[i + 3] = m.data[i]
<1>1. m.type \in Byte /\ m.cmd \in Byte /\ m.data \in Seq(Byte) /\ Len(m.data) \in Nat
  BY DEF Message
<1>2. Len(m.data) + 2 \in Byte
  <2>1. \A k \in Nat : k <= PROTOCAL_MAX_DATA_LENGTH => k + 2 \in Byte
    BY DEF Byte, PROTOCAL_MAX_DATA_LENGTH, PROTOCAL_MAX_PACKAGE_LENGTH
  <2> QED BY <1>1, <2>1
<1> DEFINE h == <<m.type, Len(m.data) + 2, m.cmd>>
<1>3. h \in Seq(Byte) /\ Len(h) = 3 /\ h[1] = m.type /\ h[2] = Len(m.data) + 2 /\ h[3] = m.cmd
  BY <1>1, <1>2
<1> HIDE DEF h
<1>4. /\ h \o m.data \in Seq(Byte) /\ Len(h \o m.data) = Len(m.data) + 3
      /\ \A i \in 1..(Len(m.data) + 3) : (h \o m.data)[i] = IF i <= 3 THEN h[i] ELSE m.data[i - 3]
  <2> DEFINE d == m.data
  <2>1. d \in Seq(Byte)
    BY <1>1
  <2> HIDE DEF d
  <2>2. /\ h \o d \in Seq(Byte) /\ Len(h \o d) = Len(h) + Len(d)
        /\ \A i \in 1..(Len(h) + Len(d)) :
             (h \o d)[i] = IF i <= Len(h) THEN h[i] ELSE d[i - Len(h)]
    BY <1>3, <2>1, ConcatProperties, Zenon
  <2> QED BY <1>1, <1>3, <2>2 DEF d
<1> QED BY <1>1, <1>3, <1>4 DEF Body, h

LEMMA PackageBytes ==
  ASSUME NEW m \in Message, Len(m.data) <= PROTOCAL_MAX_DATA_LENGTH
  PROVE  /\ Package(m) \in Seq(Byte) /\ Len(Package(m)) = Len(m.data) + 8
         /\ \A i \in 1..4 : Package(m)[i] = headerMagic[i]
         /\ \A i \in 1..(Len(m.data) + 3) : Package(m)[i + 4] = Body(m)[i]
         /\ Package(m)[Len(m.data) + 8] = CheckSum(Body(m))
<1> DEFINE n == Len(m.data)
           b == Body(m)
           c == CheckSum(b)
<1>1. b \in Seq(Byte) /\ Len(b) = n + 3 /\ n \in Nat
  BY BodyBytes
<1>2. c \in Byte
  <2> HIDE DEF b, c
  <2>1. PICK s : Sums(s, b, Len(b))
    BY <1>1, SumsExist
  <2> QED BY SMTT(30), <1>1, <2>1, CheckSumIs DEF Sums, c
<1>3. headerMagic \in Seq(Byte) /\ Len(headerMagic) = 4
  BY DEF headerMagic, Byte
<1>4. Package(m) = (headerMagic \o b) \o <<c>>
  BY Zenon DEF Package, Body
<1> HIDE DEF b, c, n
<1> DEFINE p == headerMagic \o b
           q == p \o <<c>>
<1>5. /\ p \in Seq(Byte) /\ Len(p) = n + 7
      /\ \A i \in 1..(n + 7) : p[i] = IF i <= 4 THEN headerMagic[i] ELSE b[i - 4]
  <2>1. /\ p \in Seq(Byte) /\ Len(p) = Len(headerMagic) + Len(b)
        /\ \A i \in 1..(Len(headerMagic) + Len(b)) :
             p[i] = IF i <= Len(headerMagic) THEN headerMagic[i] ELSE b[i - Len(headerMagic)]
    BY <1>1, <1>3, ConcatProperties, Zenon
  <2> HIDE DEF p
  <2>2. Len(headerMagic) + Len(b) = n + 7
    BY <1>1, <1>3
  <2> QED BY <1>3, <2>1, <2>2
<1>6. <<c>> \in Seq(Byte) /\ Len(<<c>>) = 1 /\ <<c>>[1] = c
  BY <1>2
<1> HIDE DEF p
<1>7. /\ q \in Seq(Byte) /\ Len(q) = n + 8
      /\ \A i \in 1..(n + 8) : q[i] = IF i <= n + 7 THEN p[i] ELSE <<c>>[i - (n + 7)]
  <2>1. /\ q \in Seq(Byte) /\ Len(q) = Len(p) + Len(<<c>>)
        /\ \A i \in 1..(Len(p) + Len(<<c>>)) :
             q[i] = IF i <= Len(p) THEN p[i] ELSE <<c>>[i - Len(p)]
    BY <1>5, <1>6, ConcatProperties, Zenon
  <2> HIDE DEF q
  <2>2. Len(p) + Len(<<c>>) = n + 8
    BY <1>1, <1>5, <1>6
  <2> QED BY <1>5, <2>1, <2>2
<1> HIDE DEF q
<1>8. \A i \in 1..4 : q[i] = headerMagic[i]
  BY <1>1, <1>5, <1>7
<1>9. \A i \in 1..(n + 3) : q[i + 4] = b[i]
  BY <1>1, <1>5, <1>7
<1>10. q[n + 8] = c
  BY <1>1, <1>6, <1>7
<1>11. Package(m) = q
  BY <1>4 DEF q, p
<1> QED BY <1>7, <1>8, <1>9, <1>10, <1>11 DEF n, b, c

LEMMA PartialSums ==
  ASSUME NEW m \in Message, Len(m.data) <= PROTOCAL_MAX_DATA_LENGTH
  PROVE  /\ PartialSum(m, 1) = m.type
         /\ \A n \in 1..(Len(m.data) + 2) :
              PartialSum(m, n + 1) = (PartialSum(m, n) + Body(m)[n + 1]) % 256
         /\ PartialSum(m, Len(m.data) + 3) = CheckSum(Body(m))
<1> DEFINE b == Body(m)
<1>1. b \in Seq(Byte) /\ Len(b) = Len(m.data) + 3 /\ Len(m.data) \in Nat /\ b[1] = m.type
  BY BodyBytes
<1>2. m.type \in Byte
  BY DEF Message
<1> HIDE DEF b
<1>3. PICK s : Sums(s, b, Len(b))
  BY <1>1, SumsExist
<1>4. \A n \in 0..Len(b) : CheckSum(SubSeq(b, 1, n)) = s[n]
  BY <1>1, <1>3, PrefixSum
<1>5. s[1] = m.type
  <2>1. s[0] = 0 /\ s[1] = (s[0] + b[1]) % 256
    BY <1>1, <1>3 DEF Sums
  <2>2. \A x \in Byte : (0 + x) % 256 = x
    BY DEF Byte
  <2> QED BY <1>1, <1>2, <2>1, <2>2
<1>6. \A n \in 1..(Len(m.data) + 2) : s[n + 1] = (s[n] + b[n + 1]) % 256
  <2> SUFFICES ASSUME NEW n \in 1..(Len(m.data) + 2) PROVE s[n + 1] = (s[n] + b[n + 1]) % 256
    OBVIOUS
  <2>1. n + 1 \in 1..Len(b) /\ (n + 1) - 1 = n
    BY <1>1
  <2> QED BY <1>3, <2>1 DEF Sums
<1>7. CheckSum(b) = s[Len(b)]
  BY <1>1, <1>3, CheckSumIs
<1>8. \A n \in 0..(Len(m.data) + 3) : PartialSum(m, n) = s[n]
  BY <1>1, <1>4 DEF PartialSum, b
<1>9. PartialSum(m, 1) = m.type
  BY <1>1, <1>5, <1>8
<1>10. \A n \in 1..(Len(m.data) + 2) : PartialSum(m, n + 1) = (PartialSum(m, n) + b[n + 1]) % 256
  BY SMTT(30), <1>1, <1>6, <1>8
<1>11. PartialSum(m, Len(m.data) + 3) = CheckSum(b)
  BY <1>1, <1>7, <1>8
<1> QED BY <1>9, <1>10, <1>11 DEF b

-----------------------------------------------------------------------------
(* The receiver *)

LEMMA ParserFields ==
  ASSUME ReceiverTypeOK
  PROVE  /\ parser \in ParserType /\ reply \in ReplyType
         /\ parser.status \in Status /\ parser.cmdType \in Byte /\ parser.cmdSize \in Byte
         /\ parser.cmd \in Byte /\ parser.checkSum \in Byte
         /\ parser.buffer \in [BufferIndices -> Byte]
         /\ parser.bufferIndex \in 0..PROTOCAL_MAX_PACKAGE_LENGTH
  BY DEF ReceiverTypeOK, ParserType, ReplyType

LEMMA ByteFacts ==
  /\ 0 \in Byte /\ CMD_ID_INVALID \in Byte /\ 0 \in 0..PROTOCAL_MAX_PACKAGE_LENGTH
  /\ 0 \in BufferIndices /\ 0..PROTOCAL_MAX_PACKAGE_LENGTH \subseteq Byte
  /\ \A i \in BufferIndices : i + 1 \in 0..PROTOCAL_MAX_PACKAGE_LENGTH
  /\ \A a, b \in Byte : (a + b) % 256 \in Byte
<1>1. \A a, b \in Byte : (a + b) % 256 \in Byte
  BY DEF Byte
<1>2. \A i \in BufferIndices : i + 1 \in 0..PROTOCAL_MAX_PACKAGE_LENGTH
  BY DEF PROTOCAL_MAX_PACKAGE_LENGTH, PROTOCAL_MAX_DATA_LENGTH, BufferIndices
<1>3. 0 \in BufferIndices
  BY DEF PROTOCAL_MAX_PACKAGE_LENGTH, PROTOCAL_MAX_DATA_LENGTH, BufferIndices
<1>4. /\ 0 \in Byte /\ CMD_ID_INVALID \in Byte
      /\ 0 \in 0..PROTOCAL_MAX_PACKAGE_LENGTH /\ 0..PROTOCAL_MAX_PACKAGE_LENGTH \subseteq Byte
  BY DEF Byte, CMD_ID_INVALID, PROTOCAL_MAX_PACKAGE_LENGTH, PROTOCAL_MAX_DATA_LENGTH
<1> QED BY <1>1, <1>2, <1>3, <1>4

LEMMA ShiftedIsHeader ==
  ASSUME NEW h \in [1..4 -> Byte], NEW ch \in Byte
  PROVE  Append(Tail(h), ch) \in [1..4 -> Byte]
<1>1. h \in Seq(Byte)
  BY 4 \in Nat, SeqDef
<1>2. Len(h) = 4
  BY <1>1, DOMAIN h = 1..4
<1>3. Tail(h) \in Seq(Byte) /\ Len(Tail(h)) = 3
  <2>1. h # << >>
    BY <1>2, Len(<< >>) = 0
  <2>2. Tail(h) \in Seq(Byte) /\ Len(Tail(h)) = Len(h) - 1
    BY <1>1, <2>1, HeadTailProperties, Zenon
  <2> QED BY <1>2, <2>2
<1> DEFINE t == Append(Tail(h), ch)
<1>4. t \in Seq(Byte) /\ Len(t) = 4
  BY <1>3, AppendProperties
<1> HIDE DEF t
<1>5. t \in [1..Len(t) -> Byte]
  BY <1>4, LenProperties, Zenon
<1> QED BY <1>4, <1>5 DEF t

LEMMA ReceivedIsMessage ==
  ASSUME ReceiverTypeOK
  PROVE  Received \in Message
<1> DEFINE n == Least(parser.bufferIndex, PROTOCAL_MAX_DATA_LENGTH)
<1>1. n \in 0..PROTOCAL_MAX_DATA_LENGTH
  BY ParserFields DEF Least, PROTOCAL_MAX_DATA_LENGTH, PROTOCAL_MAX_PACKAGE_LENGTH
<1> HIDE DEF n
<1>2. \A i \in 1..n : parser.buffer[i - 1] \in Byte
  BY <1>1, ParserFields DEF BufferIndices, PROTOCAL_MAX_DATA_LENGTH, PROTOCAL_MAX_PACKAGE_LENGTH
<1>3. Copied(n) \in [1..n -> Byte]
  BY <1>2 DEF Copied
<1>4. n \in Nat
  BY <1>1 DEF PROTOCAL_MAX_DATA_LENGTH, PROTOCAL_MAX_PACKAGE_LENGTH
<1>5. Copied(n) \in Seq(Byte)
  BY <1>3, <1>4, SeqDef
<1>6. Received = [type |-> parser.cmdType, cmd |-> parser.cmd, data |-> Copied(n)]
  BY DEF Received, n
<1> QED BY <1>5, <1>6, ParserFields DEF Message

(* A parser that is reset, or moved on *)
LEMMA ResetTyped ==
  ASSUME NEW p \in ParserType, NEW sum \in Byte
  PROVE  [p EXCEPT !.status = "header", !.bufferIndex = 0,
                   !.cmd = CMD_ID_INVALID, !.checkSum = sum] \in ParserType
  BY ByteFacts DEF ParserType, Status

LEMMA HeaderTyped ==
  ASSUME NEW p \in ParserType
  PROVE  [p EXCEPT !.status = "cmd_type", !.bufferIndex = 0, !.checkSum = 0,
                   !.cmd = CMD_ID_INVALID] \in ParserType
  BY ByteFacts DEF ParserType, Status

LEMMA CmdTypeTyped ==
  ASSUME NEW p \in ParserType, NEW ch \in Byte
  PROVE  [p EXCEPT !.status = "length", !.cmdType = ch, !.checkSum = ch,
                   !.bufferIndex = 0, !.cmd = CMD_ID_INVALID] \in ParserType
  BY ByteFacts DEF ParserType, Status

LEMMA SummedTyped ==
  ASSUME NEW p \in ParserType, NEW ch \in Byte, NEW sum \in Byte, NEW to \in Status
  PROVE  /\ [p EXCEPT !.checkSum = sum] \in ParserType
         /\ [p EXCEPT !.status = to, !.cmdSize = ch, !.checkSum = sum] \in ParserType
         /\ [p EXCEPT !.status = to, !.cmd = ch, !.checkSum = sum] \in ParserType
  BY DEF ParserType

LEMMA StoredTyped ==
  ASSUME NEW p \in ParserType, NEW ch \in Byte, NEW sum \in Byte, NEW to \in Status,
         NEW i \in BufferIndices, NEW j \in 0..PROTOCAL_MAX_PACKAGE_LENGTH
  PROVE  [p EXCEPT !.buffer[i] = ch, !.bufferIndex = j, !.status = to, !.checkSum = sum]
            \in ParserType
  BY DEF ParserType

LEMMA ParsesHolds ==
  ASSUME RInv, header' \in [1..4 -> Byte], NEW p \in ParserType, Parses(p)
  PROVE  RInv'
  BY DEF RInv, ReceiverTypeOK, Parses, ParserType, Outcome

LEMMA CompletesHolds ==
  ASSUME RInv, header' \in [1..4 -> Byte], parser' \in ParserType, reply' \in ReplyType,
         outcome' \in Outcome, UNCHANGED events
  PROVE  RInv'
  BY DEF RInv, ReceiverTypeOK, ParserType, ReplyType

LEMMA ReceiveCharHolds ==
  ASSUME RInv, NEW ch \in Byte, ReceiveChar(ch)
  PROVE  RInv'
<1>1. header' \in [1..4 -> Byte]
  BY ShiftedIsHeader DEF RInv, ReceiverTypeOK, ReceiveChar, Shifted
<1>2. /\ parser \in ParserType /\ reply \in ReplyType /\ Added(ch) \in Byte
      /\ parser.bufferIndex \in Byte /\ parser.buffer[0] \in Byte
  BY ParserFields, ByteFacts DEF RInv, Added
<1>3. {"checksum", "data", "cmd", "cmd_type", "overrun"} \subseteq Status
  BY DEF Status
<1>4. ASSUME ReceiveHeader(ch) PROVE RInv'
  BY <1>1, <1>2, <1>4, HeaderTyped, ParsesHolds DEF ReceiveHeader
<1>5. ASSUME ReceiveNoise(ch) PROVE RInv'
  BY <1>1, <1>2, <1>3, <1>5, SummedTyped, ParsesHolds DEF ReceiveNoise
<1>6. ASSUME ReceiveCmdType(ch) PROVE RInv'
  BY ZenonT(60), <1>1, <1>2, <1>6, CmdTypeTyped, ParsesHolds DEF ReceiveCmdType
<1>7. ASSUME ReceiveLength(ch) PROVE RInv'
  BY <1>1, <1>2, <1>3, <1>7, SummedTyped, ParsesHolds DEF ReceiveLength
<1>8. ASSUME ReceiveCmd(ch) PROVE RInv'
  <2> DEFINE to == IF parser.cmdSize = 2 THEN "checksum" ELSE "data"
             p == [parser EXCEPT !.status = to, !.cmd = ch, !.checkSum = Added(ch)]
  <2>1. Parses(p)
    BY <1>8, Zenon DEF ReceiveCmd
  <2>2. to \in Status
    BY SMTT(30), <1>3
  <2> HIDE DEF to
  <2>3. p \in ParserType
    BY <1>2, <2>2, SummedTyped
  <2> HIDE DEF p
  <2> QED BY <1>1, <2>1, <2>3, ParsesHolds
<1>9. ASSUME ReceiveData(ch) PROVE RInv'
  <2> DEFINE i == parser.bufferIndex
             j == i + 1
             to == IF i + 3 = parser.cmdSize THEN "checksum" ELSE "data"
             p == [parser EXCEPT !.buffer[i] = ch, !.bufferIndex = j, !.status = to,
                                 !.checkSum = Added(ch)]
  <2>1. i \in BufferIndices /\ Parses(p)
    BY <1>9, Zenon DEF ReceiveData
  <2>2. to \in Status
    BY <1>3
  <2>3. j \in 0..PROTOCAL_MAX_PACKAGE_LENGTH
    BY <2>1, ByteFacts
  <2> HIDE DEF to, i, j
  <2>4. p \in ParserType
    BY <1>2, <2>1, <2>2, <2>3, StoredTyped
  <2> HIDE DEF p
  <2> QED BY <1>1, <2>1, <2>4, ParsesHolds
<1>10. ASSUME NEW sum \in Byte
       PROVE  protocalReset(sum) \in ParserType
  BY <1>2, <1>10, ResetTyped DEF protocalReset
<1>11. ASSUME ReceiveBadCheckSum(ch) PROVE RInv'
  BY <1>1, <1>2, <1>10, <1>11, ByteFacts, CompletesHolds DEF ReceiveBadCheckSum, Outcome
<1>12. ASSUME NEW stat \in SUBSET WaitingBits, NEW b \in Byte
       PROVE  /\ [reply EXCEPT !.waitingStat = stat, !.replyErr = b] \in ReplyType
              /\ [reply EXCEPT !.waitingStat = stat, !.replyLen = b] \in ReplyType
  BY <1>2, <1>12 DEF ReplyType
<1>13. \A bit : reply.waitingStat \ {bit} \in SUBSET WaitingBits
  BY <1>2 DEF ReplyType
<1>14. ASSUME ReceiveAck(ch) PROVE RInv'
  <2> DEFINE r == [reply EXCEPT !.waitingStat = reply.waitingStat \ {"ack"},
                                !.replyErr = parser.buffer[0]]
  <2>1. reply' = r /\ parser' = protocalReset(ch) /\ outcome' = "acked" /\ UNCHANGED events
    BY <1>14, Zenon DEF ReceiveAck
  <2>2. r \in ReplyType
    BY <1>2, <1>12, <1>13
  <2> HIDE DEF r
  <2> QED BY <1>1, <1>10, <2>1, <2>2, CompletesHolds DEF Outcome
<1>15. ASSUME ReceiveAnswer(ch) PROVE RInv'
  <2> DEFINE r == [reply EXCEPT !.waitingStat = reply.waitingStat \ {"query"},
                                !.replyLen = parser.bufferIndex]
  <2>1. reply' = r /\ parser' = protocalReset(ch) /\ outcome' = "answered" /\ UNCHANGED events
    BY <1>15, ZenonT(60) DEF ReceiveAnswer
  <2>2. r \in ReplyType
    BY <1>2, <1>12, <1>13
  <2> HIDE DEF r
  <2> QED BY <1>1, <1>10, <2>1, <2>2, CompletesHolds DEF Outcome
<1>16. ASSUME ReceiveEvent(ch) PROVE RInv'
  <2>1. /\ Len(events) < EventNum /\ events' = Append(events, Received)
        /\ parser' = protocalReset(ch) /\ outcome' = "pushed" /\ UNCHANGED reply
    BY <1>16 DEF ReceiveEvent
  <2>2. Received \in Message /\ events \in Seq(Message)
    BY ReceivedIsMessage DEF RInv
  <2>3. events' \in Seq(Message) /\ Len(events') = Len(events) + 1
    BY <2>1, <2>2
  <2>4. Len(events') <= EventNum
    BY <2>1, <2>2, <2>3, EventNumAssumption
  <2> QED BY <1>1, <1>2, <1>10, <2>1, <2>3, <2>4
          DEF RInv, ReceiverTypeOK, ParserType, ReplyType, Outcome
<1>17. ASSUME ReceiveRefused(ch) PROVE RInv'
  <2>1. parser' \in ParserType
    BY <1>2, <1>3, <1>17 DEF ReceiveRefused, ParserType
  <2> QED BY <1>1, <1>2, <1>17, <2>1, CompletesHolds DEF ReceiveRefused, Outcome
<1>18. ASSUME ReceiveBeyond \/ ReceiveOverrun PROVE RInv'
  <2>1. [parser EXCEPT !.status = "overrun"] \in ParserType
    BY <1>2, <1>3 DEF ParserType
  <2>2. PICK p \in ParserType : Parses(p)
    BY <1>2, <1>18, <2>1, Zenon DEF ReceiveBeyond, ReceiveOverrun
  <2> QED BY <1>1, <2>2, ParsesHolds
<1> QED BY <1>4, <1>5, <1>6, <1>7, <1>8, <1>9, <1>11, <1>14, <1>15, <1>16, <1>17, <1>18
        DEF ReceiveChar, InFrame

-----------------------------------------------------------------------------
(* The line *)

LEMMA StartHolds == Init => IInv
<1> SUFFICES ASSUME Init PROVE IInv
  OBVIOUS
<1>1. ReceiverInit
  BY DEF Init
<1>2. <<0, 0, 0, 0>> \in [1..4 -> Byte] /\ [i \in BufferIndices |-> 0] \in [BufferIndices -> Byte]
  BY ByteFacts
<1>3. header \in [1..4 -> Byte] /\ parser \in ParserType /\ reply \in ReplyType
  BY <1>1, <1>2, ByteFacts DEF ReceiverInit, ParserType, ReplyType, Status
<1>4. events \in Seq(Message) /\ Len(events) <= EventNum /\ outcome \in Outcome
  BY <1>1, EventNumAssumption, Len(<< >>) = 0 DEF ReceiverInit, Outcome
<1>5. RInv
  BY <1>3, <1>4 DEF RInv, ReceiverTypeOK, ParserType, ReplyType
<1>6. LineInv
  BY Len(<< >>) = 0, LinkAssumption DEF Init, LineInv
<1> QED BY <1>5, <1>6 DEF IInv

(* A byte leaves the wire. *)
LEMMA WireShrinks ==
  ASSUME LineInv, wire # << >>
  PROVE  /\ Head(wire).byte \in Byte /\ Head(wire).frame \in DOMAIN sent
         /\ Tail(wire) \in Seq(WireByte(sent))
<1> DEFINE S == WireByte(sent)
<1>1. wire \in Seq(S)
  BY DEF LineInv
<1>2. Head(wire) \in S /\ Tail(wire) \in Seq(S)
  BY <1>1, HeadTailProperties, Zenon
<1> QED BY <1>2 DEF WireByte

(* What is sent goes to the end of the wire, byte by byte. *)
LEMMA SendHolds ==
  ASSUME IInv, NEW m \in Messages, Send(m)
  PROVE  IInv'
<1> DEFINE n == Len(sent) + 1
           pkg == Framed[m]
           new == [i \in DOMAIN pkg |-> [byte |-> pkg[i], frame |-> n, pos |-> i]]
<1>1. sent \in Seq(Messages) /\ wire \in Seq(WireByte(sent))
  BY DEF IInv, LineInv
<1>2. sent' \in Seq(Messages) /\ DOMAIN sent \subseteq DOMAIN sent' /\ n \in DOMAIN sent'
  BY <1>1 DEF Send
<1>3. pkg \in Seq(Byte)
  BY LinkAssumption, PackageBytes DEF Framed
<1>4. wire' = wire \o new
  BY DEF Send
<1> HIDE DEF n, pkg
<1>5. new \in Seq(WireByte(sent'))
  <2>1. DOMAIN pkg = 1..Len(pkg) /\ Len(pkg) \in Nat /\ \A i \in DOMAIN pkg : pkg[i] \in Byte
    BY <1>3
  <2>2. new \in [1..Len(pkg) -> WireByte(sent')]
    BY <1>2, <2>1 DEF WireByte
  <2> QED BY <2>1, <2>2, SeqDef
<1> HIDE DEF new
<1>6. wire \in Seq(WireByte(sent'))
  <2>1. WireByte(sent) \subseteq WireByte(sent')
    BY <1>2 DEF WireByte
  <2> QED BY <1>1, <2>1, SeqMonotonic, Zenon
<1>7. wire' \in Seq(WireByte(sent'))
  BY <1>4, <1>5, <1>6
<1>8. delivered \in Seq(DOMAIN sent')
  BY <1>2 DEF IInv, LineInv
<1>9. LineInv'
  BY <1>2, <1>7, <1>8 DEF Send, IInv, LineInv
<1>10. RInv'
  BY DEF Send, receiverVars, IInv, RInv, ReceiverTypeOK
<1> QED BY <1>9, <1>10 DEF IInv

LEMMA LoseHolds ==
  ASSUME IInv, Lose
  PROVE  IInv'
<1>1. LineInv'
  <2>1. faults' \in 0..MaxFaults
    BY LinkAssumption DEF Lose, IInv, LineInv
  <2> QED BY <2>1, WireShrinks DEF Lose, IInv, LineInv
<1>2. RInv'
  BY DEF Lose, receiverVars, IInv, RInv, ReceiverTypeOK
<1> QED BY <1>1, <1>2 DEF IInv

LEMMA ArriveHolds ==
  ASSUME IInv, NEW b \in Byte, Arrive(b),
         faults' \in 0..MaxFaults, damaged' \subseteq DOMAIN sent
  PROVE  IInv'
<1>1. RInv'
  BY ReceiveCharHolds DEF Arrive, IInv
<1>2. Received \in Message
  BY ReceivedIsMessage DEF IInv, RInv
<1> DEFINE f == Head(wire).frame
<1>3. f \in DOMAIN sent /\ Tail(wire) \in Seq(WireByte(sent))
  BY WireShrinks DEF Arrive, IInv
<1>4. /\ \/ delivered' = Append(delivered, f) /\ contents' = Append(contents, Received)
         \/ delivered' = delivered /\ contents' = contents
      /\ refused' = refused \cup {f} \/ refused' = refused
      /\ wire' = Tail(wire) /\ sent' = sent
  BY DEF Arrive
<1> HIDE DEF f
<1>5. /\ delivered \in Seq(DOMAIN sent) /\ contents \in Seq(Message)
      /\ Len(delivered) = Len(contents)
  BY DEF IInv, LineInv
<1>6. /\ delivered' \in Seq(DOMAIN sent) /\ contents' \in Seq(Message)
      /\ Len(delivered') = Len(contents')
  <2>1. ASSUME delivered' = Append(delivered, f), contents' = Append(contents, Received)
        PROVE  /\ delivered' \in Seq(DOMAIN sent) /\ contents' \in Seq(Message)
               /\ Len(delivered') = Len(delivered) + 1 /\ Len(contents') = Len(contents) + 1
    BY <1>2, <1>3, <1>5, <2>1, AppendProperties, Zenon
  <2> QED BY <1>4, <1>5, <2>1, Zenon
<1>7. LineInv'
  BY <1>3, <1>4, <1>6 DEF IInv, LineInv
<1> QED BY <1>1, <1>7 DEF IInv

LEMMA NextHolds ==
  ASSUME IInv, [Next]_vars
  PROVE  IInv'
<1>1. ASSUME NEW m \in Messages, Send(m) PROVE IInv'
  BY <1>1, SendHolds
<1>2. ASSUME Lose PROVE IInv'
  BY <1>2, LoseHolds
<1>3. ASSUME ArriveWhole PROVE IInv'
  <2>1. Head(wire).byte \in Byte
    BY <1>3, WireShrinks DEF ArriveWhole, IInv
  <2> QED BY <1>3, <2>1, ArriveHolds DEF ArriveWhole, IInv, LineInv
<1>4. ASSUME NEW b \in NoiseBytes, ArriveChanged(b) PROVE IInv'
  <2>1. b \in Byte
    BY LinkAssumption
  <2>2. faults' \in 0..MaxFaults
    BY <1>4, LinkAssumption DEF ArriveChanged, IInv, LineInv
  <2>3. damaged' \subseteq DOMAIN sent
    BY <1>4, WireShrinks DEF ArriveChanged, IInv, LineInv
  <2> QED BY <1>4, <2>1, <2>2, <2>3, ArriveHolds DEF ArriveChanged
<1>5. ASSUME Await PROVE IInv'
  <2>1. LineInv'
    BY <1>5 DEF Await, historyVars, IInv, LineInv
  <2>2. reply' \in ReplyType
    BY <1>5, ParserFields DEF Await, IInv, RInv, ReplyType
  <2> QED BY <1>5, <2>1, <2>2, ParserFields
          DEF Await, IInv, RInv, ReceiverTypeOK, ReplyType, ParserType, Outcome
<1>6. ASSUME Dispatch PROVE IInv'
  <2>1. LineInv'
    BY <1>6 DEF Dispatch, historyVars, IInv, LineInv
  <2>2. events \in Seq(Message) /\ events # << >> /\ events' = Tail(events)
    BY <1>6 DEF Dispatch, IInv, RInv
  <2>3. events' \in Seq(Message) /\ Len(events') = Len(events) - 1 /\ Len(events) \in Nat
    BY <2>2
  <2>4. Len(events') <= EventNum
    BY <2>3, EventNumAssumption DEF IInv, RInv, ReceiverTypeOK
  <2> QED BY <1>6, <2>1, <2>3, <2>4 DEF Dispatch, IInv, RInv, ReceiverTypeOK, Outcome
<1>7. ASSUME UNCHANGED vars PROVE IInv'
  BY <1>7 DEF vars, receiverVars, historyVars, IInv, RInv, ReceiverTypeOK, LineInv
<1> QED BY <1>1, <1>2, <1>3, <1>4, <1>5, <1>6, <1>7 DEF Next, Done

(* Whatever is sent, lost or changed, every field of the parser keeps to its
   C type until a byte is stored behind the buffer (from there on it is not
   followed), the pool is never overrun, and the history knows only frames that
   were sent. *)
THEOREM TypeCorrect == Spec => []TypeOK
<1>1. Init => IInv
  BY StartHolds
<1>2. IInv /\ [Next]_vars => IInv'
  BY NextHolds
<1>3. IInv => TypeOK
  BY DEF IInv, RInv, LineInv, TypeOK
<1> QED BY <1>1, <1>2, <1>3, PTL DEF Spec
-----------------------------------------------------------------------------
(* An intact frame is followed to its end *)

Size(f) == Len(sent[f].data) + 8
Intact(f) == f \notin damaged /\ sent[f] \notin Unframeable

(* Bytes are lost at the head of the wire only: what is left of a frame is its
   end, and the next frame is whole. *)
InPlace(w, i, f, p, m) ==
    LET n == Len(m.data) + 8
    IN  /\ p \in 1..n /\ w[i].byte = Package(m)[p]
        /\ p < n => i + 1 \in DOMAIN w /\ w[i + 1].frame = f /\ w[i + 1].pos = p + 1
        /\ p = n /\ i + 1 \in DOMAIN w => w[i + 1].pos = 1

Ordered(w, messages) ==
    \A i \in DOMAIN w : InPlace(w, i, w[i].frame, w[i].pos, messages[w[i].frame])

WireInOrder == Ordered(wire, sent)

(* The last characters are those of m before its byte p, *)
HeaderFollows(m, p) == \A j \in 1..4 : p + j > 5 => header[j] = Package(m)[p + j - 5]

(* and behind the header of m the parser is where m was left. *)
ParserFollows(m, p) ==
    /\ p = 5 => parser.status = "cmd_type"
    /\ p = 6 => parser.status = "length"
    /\ p = 7 => parser.status = "cmd"
    /\ p > 7 => /\ parser.status = IF p = Len(m.data) + 8 THEN "checksum" ELSE "data"
                /\ parser.cmd = m.cmd
    /\ p > 6 => parser.cmdSize = Len(m.data) + 2
    /\ p > 5 => parser.cmdType = m.type /\ parser.checkSum = PartialSum(m, p - 5)
    /\ p > 4 => parser.bufferIndex = IF p < 8 THEN 0 ELSE p - 8
    /\ \A i \in 1..(p - 8) : parser.buffer[i - 1] = m.data[i]

Follows(m, p) == HeaderFollows(m, p) /\ ParserFollows(m, p)

Tracks ==
    wire # << >> /\ Intact(Head(wire).frame)
        => Follows(sent[Head(wire).frame], Head(wire).pos)

Arrived == \A f \in DOMAIN sent : Intact(f) => OnWire(f) \/ f \in refused \/ Delivered(f)

Framing == WireInOrder /\ Tracks /\ Arrived

(* A message that the frame format can carry *)
Framable(m) ==
    m \in Message /\ Len(m.data) <= PROTOCAL_MAX_DATA_LENGTH /\ ~ HoldsHeader(m)

LEMMA MagicIsFour == headerMagic \in [1..4 -> Byte] /\ headerMagic \in Seq(Byte) /\ Len(headerMagic) = 4
  BY DEF headerMagic, Byte

LEMMA AppendedHeader ==
  ASSUME NEW h \in [1..4 -> Byte], NEW ch \in Byte, NEW t, t = Append(Tail(h), ch)
  PROVE  t[1] = h[2] /\ t[2] = h[3] /\ t[3] = h[4] /\ t[4] = ch
<1>1. h \in Seq(Byte)
  BY 4 \in Nat, SeqDef
<1>2. Len(h) = 4 /\ h # << >>
  BY <1>1, DOMAIN h = 1..4, Len(<< >>) = 0
<1> DEFINE u == Tail(h)
<1>3. u \in Seq(Byte) /\ Len(u) = Len(h) - 1 /\ \A i \in 1..Len(u) : u[i] = h[i + 1]
  BY <1>1, <1>2, HeadTailProperties, Zenon
<1>4. t = Append(u, ch)
  OBVIOUS
<1> HIDE DEF u
<1>5. (\A i \in 1..Len(u) : t[i] = u[i]) /\ t[Len(u) + 1] = ch
  BY <1>3, <1>4
<1>6. Len(u) = 3
  BY <1>2, <1>3
<1>7. u[1] = h[2] /\ u[2] = h[3] /\ u[3] = h[4]
  BY <1>3, <1>6
<1>8. t[1] = u[1] /\ t[2] = u[2] /\ t[3] = u[3] /\ t[4] = ch
  <2>1. (\A i \in 1..3 : t[i] = u[i]) /\ t[3 + 1] = ch
    BY <1>5, <1>6, Zenon
  <2>2. 1 \in 1..3 /\ 2 \in 1..3 /\ 3 \in 1..3 /\ 3 + 1 = 4
    OBVIOUS
  <2> QED BY <2>1, <2>2, Zenon
<1> QED BY <1>7, <1>8, Zenon

LEMMA HeaderShifts ==
  ASSUME NEW m, Framable(m), NEW p \in 1..(Len(m.data) + 8), header \in [1..4 -> Byte],
         HeaderFollows(m, p), NEW ch \in Byte, ch = Package(m)[p],
         header' = Shifted(ch)
  PROVE  HeaderFollows(m, p + 1)'
<1>1. header'[1] = header[2] /\ header'[2] = header[3] /\ header'[3] = header[4] /\ header'[4] = ch
  BY SMTT(30), AppendedHeader DEF Shifted
<1>2. Len(m.data) \in Nat
  BY DEF Framable, Message
<1>3. ASSUME NEW j \in 1..4, p + 1 + j > 5
      PROVE  header'[j] = Package(m)[p + 1 + j - 5]
  <2>1. CASE j = 4
    <3>1. p + 1 + j - 5 = p
      BY <1>2, <2>1
    <3> QED BY <1>1, <2>1, <3>1
  <2>2. CASE j # 4
    <3>1. j + 1 \in 1..4 /\ p + (j + 1) > 5 /\ p + (j + 1) - 5 = p + 1 + j - 5
      BY <1>2, <1>3, <2>2
    <3>2. header[j + 1] = Package(m)[p + (j + 1) - 5]
      BY <3>1 DEF HeaderFollows
    <3>3. header'[j] = header[j + 1]
      BY <1>1, <2>2
    <3> QED BY <3>1, <3>2, <3>3
  <2> QED BY <2>1, <2>2
<1> QED BY <1>3 DEF HeaderFollows

(* The header of an intact frame is found, and no other inside it. *)
LEMMA HeaderFound ==
  ASSUME NEW m, Framable(m), header' \in [1..4 -> Byte], HeaderFollows(m, 5)'
  PROVE  header' = headerMagic
<1>1. \A j \in 1..4 : header'[j] = Package(m)[j]
  BY DEF HeaderFollows
<1>2. \A j \in 1..4 : header'[j] = headerMagic[j]
  BY <1>1, PackageBytes DEF Framable
<1> QED BY <1>2, MagicIsFour

LEMMA NoOtherHeader ==
  ASSUME NEW m, Framable(m), NEW p \in 5..(Len(m.data) + 8), header' \in [1..4 -> Byte],
         HeaderFollows(m, p + 1)'
  PROVE  header' # headerMagic
<1> DEFINE b == Package(m)
           s == SubSeq(b, p - 3, p)
<1>1. b \in Seq(Byte) /\ Len(b) = Len(m.data) + 8 /\ Len(m.data) \in Nat
  BY PackageBytes, BodyBytes DEF Framable
<1>2. s # headerMagic
  <2>1. p - 3 \in 2..(Len(b) - 3) /\ (p - 3) + 3 = p
    BY <1>1
  <2> QED BY <2>1 DEF Framable, HoldsHeader
<1> HIDE DEF b
<1>3. s \in Seq(Byte) /\ Len(s) = 4 /\ \A j \in 1..4 : s[j] = b[(p - 3) + j - 1]
  <2>1. p - 3 \in 1..Len(b) /\ p \in 1..Len(b) /\ p - (p - 3) + 1 = 4
    BY <1>1
  <2>2. \A j \in 1..4 : (p - 3) - 1 + j = (p - 3) + j - 1
    OBVIOUS
  <2> DEFINE k == p - 3
  <2>3. k \in 1..Len(b) /\ p \in 1..Len(b) /\ p - k + 1 = 4 /\ k <= p + 1
    BY <2>1
  <2> HIDE DEF k
  <2>4. /\ SubSeq(b, k, p) \in Seq(Byte) /\ Len(SubSeq(b, k, p)) = 4
        /\ \A j \in 1..4 : SubSeq(b, k, p)[j] = b[k + j - 1]
    BY <1>1, <2>3
  <2> QED BY <2>4 DEF k
<1>4. \A j \in 1..4 : header'[j] = b[(p - 3) + j - 1]
  <2>1. \A j \in 1..4 : (p + 1) + j > 5 /\ (p + 1) + j - 5 = (p - 3) + j - 1
    BY <1>1
  <2> QED BY <2>1 DEF HeaderFollows, b
<1>5. header' = s
  <2> HIDE DEF s
  <2>1. s \in [1..4 -> Byte]
    BY <1>3, LenProperties
  <2> QED BY SMTT(30), <1>3, <1>4, <2>1
<1> QED BY <1>2, <1>5

(* What a character does to the parser, by its status *)
LEMMA StepOfStatus ==
  ASSUME NEW ch, InFrame(ch)
  PROVE  /\ parser.status = "cmd_type" => ReceiveCmdType(ch)
         /\ parser.status = "length" => ReceiveLength(ch)
         /\ parser.status = "cmd" => ReceiveCmd(ch)
         /\ parser.status = "data" /\ parser.bufferIndex \in BufferIndices => ReceiveData(ch)
         /\ parser.status # "overrun"
         /\ parser.status = "checksum" /\ ch = parser.checkSum =>
              ReceiveAck(ch) \/ ReceiveAnswer(ch) \/ ReceiveEvent(ch) \/ ReceiveRefused(ch)
  BY DEF InFrame, ReceiveNoise, ReceiveCmdType, ReceiveLength, ReceiveCmd, ReceiveData,
         ReceiveBeyond, ReceiveBadCheckSum, ReceiveAck, ReceiveAnswer, ReceiveEvent,
         ReceiveRefused, GoodCheckSum

LEMMA HeaderFields ==
  ASSUME parser \in ParserType, NEW ch, ReceiveHeader(ch)
  PROVE  parser'.status = "cmd_type" /\ parser'.bufferIndex = 0
  BY DEF ReceiveHeader, Parses, ParserType

LEMMA CmdTypeFields ==
  ASSUME parser \in ParserType, NEW ch, ReceiveCmdType(ch)
  PROVE  /\ parser'.status = "length" /\ parser'.cmdType = ch /\ parser'.checkSum = ch
         /\ parser'.bufferIndex = 0
  BY DEF ReceiveCmdType, Parses, ParserType

LEMMA LengthFields ==
  ASSUME parser \in ParserType, NEW ch, ReceiveLength(ch)
  PROVE  /\ parser'.status = "cmd" /\ parser'.cmdSize = ch
         /\ parser'.checkSum = (parser.checkSum + ch) % 256
         /\ parser'.bufferIndex = parser.bufferIndex /\ parser'.cmdType = parser.cmdType
  BY DEF ReceiveLength, Parses, ParserType, Added

LEMMA CmdFields ==
  ASSUME parser \in ParserType, NEW ch, ReceiveCmd(ch)
  PROVE  /\ parser'.status = IF parser.cmdSize = 2 THEN "checksum" ELSE "data"
         /\ parser'.cmd = ch /\ parser'.checkSum = (parser.checkSum + ch) % 256
         /\ parser'.bufferIndex = parser.bufferIndex /\ parser'.cmdType = parser.cmdType
         /\ parser'.cmdSize = parser.cmdSize
<1> DEFINE st == IF parser.cmdSize = 2 THEN "checksum" ELSE "data"
           sum == Added(ch)
<1>1. parser' = [parser EXCEPT !.status = st, !.cmd = ch, !.checkSum = sum]
  BY Zenon DEF ReceiveCmd, Parses
<1>2. sum = (parser.checkSum + ch) % 256
  BY DEF Added
<1> HIDE DEF st, sum
<1>3. /\ parser'.status = st /\ parser'.cmd = ch /\ parser'.checkSum = sum
      /\ parser'.bufferIndex = parser.bufferIndex /\ parser'.cmdType = parser.cmdType
      /\ parser'.cmdSize = parser.cmdSize
  BY <1>1 DEF ParserType
<1> QED BY <1>2, <1>3 DEF st

LEMMA DataFields ==
  ASSUME parser \in ParserType, NEW ch, ReceiveData(ch)
  PROVE  /\ parser'.status = IF parser.bufferIndex + 3 = parser.cmdSize THEN "checksum" ELSE "data"
         /\ parser'.cmd = parser.cmd /\ parser'.checkSum = (parser.checkSum + ch) % 256
         /\ parser'.bufferIndex = parser.bufferIndex + 1 /\ parser'.cmdType = parser.cmdType
         /\ parser'.cmdSize = parser.cmdSize
         /\ parser.bufferIndex \in BufferIndices
         /\ \A i \in BufferIndices :
              parser'.buffer[i] = IF i = parser.bufferIndex THEN ch ELSE parser.buffer[i]
<1> DEFINE st == IF parser.bufferIndex + 3 = parser.cmdSize THEN "checksum" ELSE "data"
           sum == Added(ch)
           n == parser.bufferIndex
           n1 == n + 1
<1>1. /\ parser' = [parser EXCEPT !.buffer[n] = ch, !.bufferIndex = n1, !.status = st,
                                  !.checkSum = sum]
      /\ n \in BufferIndices
  BY Zenon DEF ReceiveData, Parses
<1>2. sum = (parser.checkSum + ch) % 256
  BY DEF Added
<1> HIDE DEF st, sum, n1
<1>3. /\ parser'.status = st /\ parser'.cmd = parser.cmd /\ parser'.checkSum = sum
      /\ parser'.bufferIndex = n1 /\ parser'.cmdType = parser.cmdType
      /\ parser'.cmdSize = parser.cmdSize
  BY <1>1 DEF ParserType
<1>4. parser'.buffer = [parser.buffer EXCEPT ![n] = ch]
  BY <1>1 DEF ParserType
<1>5. parser.buffer \in [BufferIndices -> Byte]
  BY DEF ParserType
<1> QED BY <1>1, <1>2, <1>3, <1>4, <1>5 DEF st, n1

(* What is done to the parser once a byte was stored behind the buffer: it is
   left alone; and a byte is stored there in the data of a frame only. *)
LEMMA OverrunStays ==
  ASSUME parser.status = "overrun", NEW ch, ReceiveChar(ch)
  PROVE  parser' = parser
<1>1. ~ ReceiveHeader(ch)
  BY DEF ReceiveHeader
<1>2. ~ InFrame(ch)
  BY StepOfStatus
<1> QED BY <1>1, <1>2 DEF ReceiveChar, ReceiveOverrun, Parses

LEMMA OverrunBegins ==
  ASSUME parser \in ParserType, InBuffer, NEW ch, ReceiveChar(ch),
         parser'.status = "overrun"
  PROVE  ReceiveBeyond /\ Shifted(ch) # headerMagic
<1>1. ~ ReceiveHeader(ch)
  BY HeaderFields
<1>2. InFrame(ch) /\ Shifted(ch) # headerMagic
  BY <1>1 DEF ReceiveChar, ReceiveOverrun, InBuffer
<1>3. ~ ReceiveNoise(ch)
  BY DEF ReceiveNoise, Parses, ParserType
<1>4. ~ ReceiveCmdType(ch) /\ ~ ReceiveLength(ch)
  BY CmdTypeFields, LengthFields
<1>5. ~ ReceiveCmd(ch)
  BY CmdFields
<1>6. ~ ReceiveData(ch)
  BY DataFields
<1>7. \A sum : protocalReset(sum).status = "header"
  BY DEF protocalReset, ParserType
<1>8. ~ ReceiveBadCheckSum(ch) /\ ~ ReceiveAck(ch) /\ ~ ReceiveAnswer(ch) /\ ~ ReceiveEvent(ch)
  BY <1>7 DEF ReceiveBadCheckSum, ReceiveAck, ReceiveAnswer, ReceiveEvent
<1>9. ~ ReceiveRefused(ch)
  BY DEF ReceiveRefused, ParserType
<1> QED BY <1>2, <1>3, <1>4, <1>5, <1>6, <1>8, <1>9 DEF InFrame

LEMMA FramableBytes ==
  ASSUME NEW m, Framable(m), NEW n, n = Len(m.data)
  PROVE  /\ n \in Nat /\ n <= 24 /\ m \in Message
         /\ \A p \in 5..(n + 7) : Package(m)[p] = Body(m)[p - 4] /\ Package(m)[p] \in Byte
         /\ \A p \in 1..(n + 8) : Package(m)[p] \in Byte
         /\ Package(m)[5] = m.type /\ Package(m)[6] = n + 2 /\ Package(m)[7] = m.cmd
         /\ \A i \in 1..n : Package(m)[i + 7] = m.data[i]
         /\ Package(m)[n + 8] = PartialSum(m, n + 3)
         /\ PartialSum(m, 1) = m.type
<1>1. m \in Message /\ n <= PROTOCAL_MAX_DATA_LENGTH /\ PROTOCAL_MAX_DATA_LENGTH = 24
  BY DEF Framable, PROTOCAL_MAX_DATA_LENGTH, PROTOCAL_MAX_PACKAGE_LENGTH
<1>2. /\ n \in Nat /\ Body(m)[1] = m.type /\ Body(m)[2] = n + 2 /\ Body(m)[3] = m.cmd
      /\ \A i \in 1..n : Body(m)[i + 3] = m.data[i]
  BY <1>1, BodyBytes
<1>3. /\ Package(m) \in Seq(Byte) /\ Len(Package(m)) = n + 8
      /\ \A i \in 1..(n + 3) : Package(m)[i + 4] = Body(m)[i]
      /\ Package(m)[n + 8] = CheckSum(Body(m))
  BY <1>1, PackageBytes
<1>4. /\ PartialSum(m, 1) = m.type
      /\ \A i \in 1..(n + 2) : PartialSum(m, i + 1) = (PartialSum(m, i) + Body(m)[i + 1]) % 256
      /\ PartialSum(m, n + 3) = CheckSum(Body(m))
  BY <1>1, PartialSums
<1>5. \A p \in 1..(n + 8) : Package(m)[p] \in Byte
  BY <1>2, <1>3
<1>6. ASSUME NEW p \in 5..(n + 7) PROVE Package(m)[p] = Body(m)[p - 4]
  <2>1. p - 4 \in 1..(n + 3) /\ (p - 4) + 4 = p
    BY <1>2
  <2> QED BY <1>3, <2>1
<1>7. Package(m)[5] = m.type /\ Package(m)[6] = n + 2 /\ Package(m)[7] = m.cmd
  <2>1. 5 \in 5..(n + 7) /\ 6 \in 5..(n + 7) /\ 7 \in 5..(n + 7) /\ 5 - 4 = 1 /\ 6 - 4 = 2 /\ 7 - 4 = 3
    BY <1>2
  <2> QED BY <1>2, <1>6, <2>1
<1>8. ASSUME NEW i \in 1..n PROVE Package(m)[i + 7] = m.data[i]
  <2>1. i + 7 \in 5..(n + 7) /\ (i + 7) - 4 = i + 3
    BY <1>2
  <2>2. Package(m)[i + 7] = Body(m)[i + 3]
    BY <1>6, <2>1
  <2> QED BY <1>2, <2>2
<1>10. \A p \in 5..(n + 7) : Package(m)[p] \in Byte
  BY <1>2, <1>5
<1> QED BY <1>1, <1>2, <1>3, <1>4, <1>5, <1>6, <1>7, <1>8, <1>10

LEMMA FramableSums ==
  ASSUME NEW m, Framable(m), NEW p \in 6..(Len(m.data) + 7)
  PROVE  PartialSum(m, p - 4) = (PartialSum(m, p - 5) + Package(m)[p]) % 256
<1>1. /\ Package(m)[p] = Body(m)[p - 4] /\ Len(m.data) \in Nat
  <2>1. /\ Len(m.data) \in Nat
        /\ \A q \in 5..(Len(m.data) + 7) : Package(m)[q] = Body(m)[q - 4] /\ Package(m)[q] \in Byte
    BY FramableBytes
  <2>2. p \in 5..(Len(m.data) + 7)
    BY <2>1
  <2> QED BY <2>1, <2>2
<1>2. p - 5 \in 1..(Len(m.data) + 2) /\ (p - 5) + 1 = p - 4
  BY <1>1
<1>3. PartialSum(m, (p - 5) + 1) = (PartialSum(m, p - 5) + Body(m)[(p - 5) + 1]) % 256
  BY <1>2, PartialSums DEF Framable
<1> QED BY <1>1, <1>2, <1>3

(* An intact frame takes the parser along. *)
LEMMA ReceiveFollows ==
  ASSUME RInv, InBuffer, NEW m, Framable(m), NEW p \in 1..(Len(m.data) + 7),
         Follows(m, p), ReceiveChar(Package(m)[p])
  PROVE  Follows(m, p + 1)'
<1> DEFINE n == Len(m.data)
           ch == Package(m)[p]
<1>1. /\ n \in Nat /\ n <= 24 /\ m \in Message
      /\ \A i \in 1..(n + 8) : Package(m)[i] \in Byte
      /\ Package(m)[5] = m.type /\ Package(m)[6] = n + 2 /\ Package(m)[7] = m.cmd
      /\ \A i \in 1..n : Package(m)[i + 7] = m.data[i]
      /\ PartialSum(m, 1) = m.type
  BY ZenonT(60), FramableBytes
<1>2. parser \in ParserType /\ header \in [1..4 -> Byte] /\ p \in 1..(n + 8) /\ p \in 1..(n + 7)
  BY <1>1, ParserFields DEF RInv, ReceiverTypeOK
<1>3. ch \in Byte
  BY <1>1, <1>2
<1>4. header' = Shifted(ch) /\ header' \in [1..4 -> Byte]
  BY <1>2, <1>3, ShiftedIsHeader DEF ReceiveChar, Shifted
<1>5. HeaderFollows(m, p + 1)'
  BY <1>2, <1>3, <1>4, HeaderShifts DEF Follows
<1>6. p > 4 => InFrame(ch)
  <2> SUFFICES ASSUME p > 4 PROVE InFrame(ch)
    OBVIOUS
  <2>1. p \in 5..(n + 8)
    BY <1>1, <1>2
  <2>2. header' # headerMagic
    BY <1>4, <1>5, <2>1, NoOtherHeader
  <2> QED BY <1>4, <2>2 DEF ReceiveChar, ReceiveHeader, ReceiveOverrun, InBuffer
<1> HIDE DEF n, ch
<1>7. ASSUME p < 4 PROVE ParserFollows(m, p + 1)'
  <2>1. /\ ~ (p + 1 = 5) /\ ~ (p + 1 = 6) /\ ~ (p + 1 = 7) /\ ~ (p + 1 > 7) /\ ~ (p + 1 > 6)
        /\ ~ (p + 1 > 5) /\ ~ (p + 1 > 4) /\ 1..((p + 1) - 8) = {}
    BY <1>2, <1>7
  <2> QED BY <2>1 DEF ParserFollows
<1>8. ASSUME p = 4 PROVE ParserFollows(m, p + 1)'
  <2>1. header' = headerMagic
    BY <1>4, <1>5, <1>8, HeaderFound
  <2>2. ReceiveHeader(ch)
    BY <1>4, <2>1 DEF ReceiveChar, ReceiveOverrun, InBuffer, ch
  <2>3. parser'.status = "cmd_type" /\ parser'.bufferIndex = 0
    BY <1>2, <2>2, HeaderFields
  <2> QED BY <1>8, <2>3 DEF ParserFollows
<1>9. ASSUME p = 5 PROVE ParserFollows(m, p + 1)'
  <2>1. ReceiveCmdType(ch) /\ ch = m.type
    BY <1>1, <1>6, <1>9, StepOfStatus DEF Follows, ParserFollows, ch
  <2>2. /\ parser'.status = "length" /\ parser'.cmdType = ch /\ parser'.checkSum = ch
        /\ parser'.bufferIndex = 0
    BY <1>2, <2>1, CmdTypeFields
  <2>3. parser'.checkSum = PartialSum(m, 1)
    BY <1>1, <2>1, <2>2
  <2> QED BY <1>9, <2>1, <2>2, <2>3 DEF ParserFollows
<1>10. ASSUME p = 6 PROVE ParserFollows(m, p + 1)'
  <2>1. ReceiveLength(ch) /\ ch = n + 2
    BY <1>1, <1>6, <1>10, StepOfStatus DEF Follows, ParserFollows, ch
  <2>2. parser.bufferIndex = 0 /\ parser.cmdType = m.type /\ parser.checkSum = PartialSum(m, 1)
    BY <1>10 DEF Follows, ParserFollows
  <2>3. /\ parser'.status = "cmd" /\ parser'.cmdSize = ch
        /\ parser'.checkSum = (parser.checkSum + ch) % 256
        /\ parser'.bufferIndex = parser.bufferIndex /\ parser'.cmdType = parser.cmdType
    BY <1>2, <2>1, LengthFields
  <2>4. parser'.checkSum = PartialSum(m, 2)
    <3>1. 6 \in 6..(n + 7) /\ 6 - 4 = 2 /\ 6 - 5 = 1
      BY <1>1
    <3>2. PartialSum(m, 2) = (PartialSum(m, 1) + Package(m)[6]) % 256
      BY <3>1, FramableSums DEF n
    <3> QED BY <1>10, <2>2, <2>3, <3>2 DEF ch
  <2> QED BY <1>10, <2>1, <2>2, <2>3, <2>4 DEF ParserFollows, n
<1>11. ASSUME p = 7 PROVE ParserFollows(m, p + 1)'
  <2>1. ReceiveCmd(ch) /\ ch = m.cmd
    BY <1>1, <1>6, <1>11, StepOfStatus DEF Follows, ParserFollows, ch
  <2>2. /\ parser.bufferIndex = 0 /\ parser.cmdType = m.type /\ parser.cmdSize = n + 2
        /\ parser.checkSum = PartialSum(m, 2)
    BY <1>11 DEF Follows, ParserFollows, n
  <2>3. /\ parser'.status = IF parser.cmdSize = 2 THEN "checksum" ELSE "data"
        /\ parser'.cmd = ch /\ parser'.checkSum = (parser.checkSum + ch) % 256
        /\ parser'.bufferIndex = parser.bufferIndex /\ parser'.cmdType = parser.cmdType
        /\ parser'.cmdSize = parser.cmdSize
    BY <1>2, <2>1, CmdFields
  <2>4. parser'.checkSum = PartialSum(m, 3)
    <3>1. 7 \in 6..(n + 7) /\ 7 - 4 = 3 /\ 7 - 5 = 2
      BY <1>1
    <3>2. PartialSum(m, 3) = (PartialSum(m, 2) + Package(m)[7]) % 256
      BY <3>1, FramableSums DEF n
    <3> QED BY <1>11, <2>2, <2>3, <3>2 DEF ch
  <2>5. parser'.status = IF p + 1 = n + 8 THEN "checksum" ELSE "data"
    BY <1>1, <1>11, <2>2, <2>3
  <2> QED BY <1>11, <2>1, <2>2, <2>3, <2>4, <2>5 DEF ParserFollows, n
<1>12. ASSUME p > 7 PROVE ParserFollows(m, p + 1)'
  <2>0. p # n + 8 /\ p > 4 /\ p > 5 /\ p > 6 /\ p \in Nat /\ ~ (p < 8)
    BY <1>1, <1>2, <1>12
  <2>1. /\ parser.status = "data" /\ parser.cmd = m.cmd /\ parser.bufferIndex = p - 8
        /\ parser.cmdType = m.type /\ parser.cmdSize = n + 2
        /\ parser.checkSum = PartialSum(m, p - 5)
        /\ \A i \in 1..(p - 8) : parser.buffer[i - 1] = m.data[i]
    BY <1>12, <2>0 DEF Follows, ParserFollows, n
  <2>2. ReceiveData(ch) /\ ch = m.data[p - 7]
    <3>1. p - 7 \in 1..n /\ (p - 7) + 7 = p
      BY <1>1, <1>2, <1>12
    <3>2. Package(m)[p] = m.data[p - 7]
      BY <1>1, <3>1
    <3>3. p - 8 \in BufferIndices
      BY <1>1, <1>2, <1>12 DEF BufferIndices, PROTOCAL_MAX_PACKAGE_LENGTH
    <3>4. ReceiveData(ch)
      BY <1>6, <2>0, <2>1, <3>3, StepOfStatus
    <3> QED BY <3>2, <3>4 DEF ch
  <2>3. /\ parser'.status = IF parser.bufferIndex + 3 = parser.cmdSize THEN "checksum" ELSE "data"
        /\ parser'.cmd = parser.cmd /\ parser'.checkSum = (parser.checkSum + ch) % 256
        /\ parser'.bufferIndex = parser.bufferIndex + 1 /\ parser'.cmdType = parser.cmdType
        /\ parser'.cmdSize = parser.cmdSize
        /\ parser.bufferIndex \in BufferIndices
        /\ \A i \in BufferIndices :
             parser'.buffer[i] = IF i = parser.bufferIndex THEN ch ELSE parser.buffer[i]
    BY <1>2, <2>2, DataFields
  <2>4. parser'.checkSum = PartialSum(m, (p + 1) - 5)
    <3>1. p \in 6..(n + 7) /\ (p + 1) - 5 = p - 4
      BY <1>1, <1>2, <1>12
    <3>2. PartialSum(m, p - 4) = (PartialSum(m, p - 5) + Package(m)[p]) % 256
      BY <3>1, FramableSums DEF n
    <3> QED BY <2>1, <2>3, <3>1, <3>2 DEF ch
  <2>5. parser'.status = IF p + 1 = n + 8 THEN "checksum" ELSE "data"
    <3>1. (p - 8) + 3 = n + 2 <=> p + 1 = n + 8
      BY <1>1, <2>0
    <3> QED BY <2>1, <2>3, <3>1
  <2>6. ASSUME NEW i \in 1..((p + 1) - 8) PROVE parser'.buffer[i - 1] = m.data[i]
    <3>1. i - 1 \in BufferIndices /\ i \in 1..(p - 7)
      BY <1>1, <1>2, <2>0 DEF BufferIndices, PROTOCAL_MAX_PACKAGE_LENGTH
    <3>2. parser'.buffer[i - 1] = IF i - 1 = p - 8 THEN ch ELSE parser.buffer[i - 1]
      BY <2>1, <2>3, <3>1
    <3>3. CASE i = p - 7
      <4>1. i - 1 = p - 8
        BY <2>0, <3>3
      <4> QED BY <2>2, <3>2, <3>3, <4>1
    <3>4. CASE i # p - 7
      <4>1. i - 1 # p - 8 /\ i \in 1..(p - 8)
        BY <2>0, <3>1, <3>4
      <4> QED BY <2>1, <3>2, <4>1
    <3> QED BY <3>3, <3>4
  <2>7. parser'.bufferIndex = (p + 1) - 8
    BY <2>0, <2>1, <2>3
  <2>8. /\ p + 1 # 5 /\ p + 1 # 6 /\ p + 1 # 7 /\ ~ (p + 1 < 8)
    BY <2>0, <1>12
  <2> QED BY <2>1, <2>3, <2>4, <2>5, <2>6, <2>7, <2>8 DEF ParserFollows, n
<1>13. ParserFollows(m, p + 1)'
  <2>1. p < 4 \/ p = 4 \/ p = 5 \/ p = 6 \/ p = 7 \/ p > 7
    BY <1>2, <1>1
  <2> QED BY <2>1, <1>7, <1>8, <1>9, <1>10, <1>11, <1>12
<1> QED BY <1>5, <1>13 DEF Follows

(* The last byte of an intact frame: the receiver holds the message. *)
LEMMA ReceiveCompletes ==
  ASSUME RInv, InBuffer, NEW m, Framable(m), NEW p, p = Len(m.data) + 8,
         Follows(m, p), ReceiveChar(Package(m)[p])
  PROVE  \/ outcome' = "no_resource"
         \/ outcome' \in {"pushed", "acked", "answered"} /\ Received = m
<1> DEFINE n == Len(m.data)
           ch == Package(m)[p]
<1>1. /\ n \in Nat /\ n <= 24 /\ m \in Message
      /\ \A i \in 1..(n + 8) : Package(m)[i] \in Byte
      /\ Package(m)[n + 8] = PartialSum(m, n + 3)
  BY FramableBytes
<1>2. parser \in ParserType /\ header \in [1..4 -> Byte] /\ p \in 1..(n + 8) /\ p \in 5..(n + 8)
  BY <1>1, ParserFields DEF RInv, ReceiverTypeOK
<1>3. ch \in Byte
  BY <1>1, <1>2
<1>4. header' = Shifted(ch) /\ header' \in [1..4 -> Byte]
  BY <1>2, <1>3, ShiftedIsHeader DEF ReceiveChar, Shifted
<1>5. HeaderFollows(m, p + 1)'
  BY <1>2, <1>3, <1>4, HeaderShifts DEF Follows
<1>6. InFrame(ch)
  <2>1. header' # headerMagic
    BY <1>2, <1>4, <1>5, NoOtherHeader
  <2> QED BY <1>4, <2>1 DEF ReceiveChar, ReceiveHeader, ReceiveOverrun, InBuffer
<1> HIDE DEF n, ch
<1>7. p = n + 8 /\ p > 7 /\ p > 6 /\ p > 5 /\ p > 4 /\ ~ (p < 8) /\ p - 8 = n /\ p - 5 = n + 3
  BY <1>1 DEF n
<1>8. /\ parser.status = "checksum" /\ parser.cmd = m.cmd /\ parser.bufferIndex = n
      /\ parser.cmdType = m.type /\ parser.checkSum = PartialSum(m, n + 3)
      /\ \A i \in 1..n : parser.buffer[i - 1] = m.data[i]
  BY <1>7 DEF Follows, ParserFollows, n
<1>9. ch = parser.checkSum
  BY <1>1, <1>7, <1>8 DEF ch
<1>10. ReceiveAck(ch) \/ ReceiveAnswer(ch) \/ ReceiveEvent(ch) \/ ReceiveRefused(ch)
  BY <1>6, <1>8, <1>9, StepOfStatus
<1>11. Received = m
  <2>1. Least(parser.bufferIndex, PROTOCAL_MAX_DATA_LENGTH) = n
    BY <1>1, <1>8 DEF Least, PROTOCAL_MAX_DATA_LENGTH, PROTOCAL_MAX_PACKAGE_LENGTH
  <2>2. Copied(n) = m.data
    <3>1. m.data \in [1..n -> Byte]
      BY <1>1, LenProperties DEF Message, n
    <3>2. Copied(n) = [i \in 1..n |-> m.data[i]]
      BY <1>8 DEF Copied
    <3> QED BY <3>1, <3>2
  <2>3. Received = [type |-> m.type, cmd |-> m.cmd, data |-> m.data]
    BY <1>8, <2>1, <2>2 DEF Received
  <2> QED BY <1>1, <2>3 DEF Message
<1> QED BY <1>10, <1>11 DEF ReceiveAck, ReceiveAnswer, ReceiveEvent, ReceiveRefused
-----------------------------------------------------------------------------
(* The wire *)

(* What is behind the first byte *)
(* The first byte is the place p of the frame f, of n bytes, and behind it the
   bytes are in order. *)
HeadInPlace(w, messages, f, p, n) ==
    /\ Ordered(Tail(w), messages)
    /\ p \in 1..n /\ Head(w).byte = Package(messages[f])[p]
    /\ p < n => /\ Tail(w) # << >>
                /\ Head(Tail(w)).frame = f /\ Head(Tail(w)).pos = p + 1
    /\ p = n /\ Tail(w) # << >> => Head(Tail(w)).pos = 1

LEMMA OrderedTail ==
  ASSUME NEW messages, NEW w \in Seq(WireByte(messages)), w # << >>, Ordered(w, messages),
         NEW f, f = Head(w).frame, NEW p, p = Head(w).pos,
         NEW n, n = Len(messages[f].data) + 8
  PROVE  HeadInPlace(w, messages, f, p, n)
<1> DEFINE t == Tail(w)
<1>1. t \in Seq(WireByte(messages)) /\ Len(t) = Len(w) - 1 /\ \A i \in 1..Len(t) : t[i] = w[i + 1]
  BY HeadTailProperties, Zenon
<1>2. Len(w) \in Nat \ {0} /\ Len(t) \in Nat /\ Head(w) = w[1] /\ DOMAIN w = 1..Len(w)
      /\ DOMAIN t = 1..Len(t)
  BY <1>1
<1>3. t # << >> => Head(t) = t[1] /\ t[1] = w[2] /\ 2 \in DOMAIN w
  BY <1>1, <1>2
<1>4. 2 \in DOMAIN w => t # << >>
  <2>1. 2 \in DOMAIN w => Len(t) # 0
    BY <1>1, <1>2
  <2> QED BY <2>1, Len(<< >>) = 0
<1> HIDE DEF t
<1>5. /\ p \in 1..n /\ w[1].byte = Package(messages[f])[p]
      /\ p < n => 2 \in DOMAIN w /\ w[2].frame = f /\ w[2].pos = p + 1
      /\ p = n /\ 2 \in DOMAIN w => w[2].pos = 1
  <2>1. 1 \in DOMAIN w /\ 1 + 1 = 2
    BY <1>2
  <2>2. InPlace(w, 1, f, p, messages[f])
    BY <1>2, <2>1 DEF Ordered
  <2> QED BY <2>1, <2>2 DEF InPlace
<1>6. Ordered(t, messages)
  <2> SUFFICES ASSUME NEW i \in DOMAIN t
               PROVE  InPlace(t, i, t[i].frame, t[i].pos, messages[t[i].frame])
    BY DEF Ordered
  <2>1. i + 1 \in DOMAIN w /\ t[i] = w[i + 1]
    BY <1>1, <1>2
  <2>2. (i + 1) + 1 \in DOMAIN w => i + 1 \in DOMAIN t /\ t[i + 1] = w[(i + 1) + 1]
    BY <1>1, <1>2
  <2>3. i + 1 \in DOMAIN t => (i + 1) + 1 \in DOMAIN w
    BY <1>1, <1>2
  <2>4. InPlace(w, i + 1, t[i].frame, t[i].pos, messages[t[i].frame])
    BY <2>1 DEF Ordered
  <2> QED BY <2>1, <2>2, <2>3, <2>4 DEF InPlace
<1> QED BY <1>2, <1>3, <1>4, <1>5, <1>6 DEF t, HeadInPlace

(* A whole frame behind what was on the wire *)
LEMMA OrderedConcat ==
  ASSUME NEW messages, NEW m \in Message, Len(m.data) <= PROTOCAL_MAX_DATA_LENGTH,
         NEW w \in Seq(WireByte(messages)), Ordered(w, messages),
         NEW new, new = [i \in DOMAIN Package(m) |->
                           [byte |-> Package(m)[i], frame |-> Len(messages) + 1, pos |-> i]],
         NEW more, more = Append(messages, m), messages \in Seq(Message)
  PROVE  Ordered(w \o new, more)
<1> DEFINE n == Len(messages) + 1
           k == Len(m.data) + 8
           v == w \o new
           L == Len(w)
<1>1. /\ more[n] = m /\ n \in DOMAIN more
      /\ \A i \in DOMAIN messages : i \in DOMAIN more /\ more[i] = messages[i]
  BY AppendProperties
<1>2. /\ Package(m) \in Seq(Byte) /\ DOMAIN Package(m) = 1..k /\ k \in Nat \ {0}
      /\ \A i \in 1..k : Package(m)[i] \in Byte
  BY SMTT(30), PackageBytes, BodyBytes
<1> HIDE DEF k, n
<1>3. /\ new \in [1..k -> WireByte(more)]
      /\ \A i \in 1..k : new[i] = [byte |-> Package(m)[i], frame |-> n, pos |-> i]
  BY <1>1, <1>2 DEF WireByte, n
<1>4. new \in Seq(WireByte(more)) /\ Len(new) = k
  <2>1. new \in Seq(WireByte(more))
    BY <1>2, <1>3, SeqDef
  <2>2. DOMAIN new = 1..k
    BY <1>3
  <2> HIDE <1>3
  <2> QED BY <1>2, <2>1, <2>2
<1>5. w \in Seq(WireByte(more)) /\ L \in Nat /\ DOMAIN w = 1..L
  <2>1. WireByte(messages) \subseteq WireByte(more)
    BY <1>1 DEF WireByte
  <2> QED BY <2>1, SeqMonotonic, LenProperties, Zenon
<1> HIDE DEF L
<1>6. /\ v \in Seq(WireByte(more)) /\ DOMAIN v = 1..(L + k)
      /\ \A i \in 1..(L + k) : v[i] = IF i <= L THEN w[i] ELSE new[i - L]
  <2>1. /\ v \in Seq(WireByte(more)) /\ Len(v) = L + Len(new)
        /\ \A i \in 1..(L + Len(new)) : v[i] = IF i <= L THEN w[i] ELSE new[i - L]
    BY <1>4, <1>5, ConcatProperties, ZenonT(60) DEF L
  <2> HIDE DEF v
  <2> QED BY <1>4, <2>1
<1> HIDE DEF v
<1>7. \A i \in 1..k : new[i].byte = Package(m)[i] /\ new[i].frame = n /\ new[i].pos = i
  BY <1>3
<1>8. k \in Nat \ {0} /\ L \in Nat /\ DOMAIN w = 1..L /\ DOMAIN v = 1..(L + k)
  BY <1>2, <1>5, <1>6
<1>9. Ordered(v, more)
  <2> SUFFICES ASSUME NEW i \in 1..(L + k)
               PROVE  InPlace(v, i, v[i].frame, v[i].pos, more[v[i].frame])
    BY <1>8 DEF Ordered
  <2>1. CASE i <= L
    <3> DEFINE g == w[i].frame
               q == w[i].pos
    <3>1. i \in DOMAIN w /\ v[i] = w[i]
      BY <1>6, <1>8, <2>1
    <3>2. w[i] \in WireByte(messages)
      BY <3>1
    <3>3. g \in DOMAIN messages /\ more[g] = messages[g]
      BY <1>1, <3>1, <3>2 DEF WireByte
    <3>4. InPlace(w, i, g, q, more[g])
      BY <3>1, <3>3 DEF Ordered
    <3>5. i + 1 \in DOMAIN w => i + 1 \in DOMAIN v /\ v[i + 1] = w[i + 1]
      BY <1>6, <1>8
    <3>6. i + 1 \in DOMAIN v /\ i + 1 \notin DOMAIN w => v[i + 1].pos = 1
      <4> SUFFICES ASSUME i + 1 \in DOMAIN v, i + 1 \notin DOMAIN w PROVE v[i + 1].pos = 1
        OBVIOUS
      <4>1. i + 1 = L + 1 /\ (i + 1) - L = 1 /\ 1 \in 1..k /\ ~ (i + 1 <= L) /\ i + 1 \in 1..(L + k)
        BY <1>8, <2>1
      <4>2. v[i + 1] = new[(i + 1) - L]
        BY <1>6, <4>1
      <4> QED BY <1>7, <4>1, <4>2
    <3> HIDE DEF g, q
    <3>7. InPlace(v, i, g, q, more[g])
      BY <3>1, <3>4, <3>5, <3>6 DEF InPlace
    <3> QED BY <3>1, <3>7 DEF g, q
  <2>2. CASE ~ (i <= L)
    <3> DEFINE q == i - L
    <3>1. q \in 1..k
      BY <1>8, <2>2
    <3>2. v[i] = new[q]
      BY <1>6, <2>2
    <3>3. q < k => (i + 1) - L = q + 1 /\ q + 1 \in 1..k /\ i + 1 \in 1..(L + k) /\ ~ (i + 1 <= L)
      BY <1>8, <2>2
    <3>4. q = k => i + 1 \notin 1..(L + k)
      BY <1>8
    <3> HIDE DEF q
    <3>5. v[i].frame = n /\ v[i].pos = q /\ v[i].byte = Package(m)[q]
      BY ZenonT(60), <1>7, <3>1, <3>2
    <3>6. q < k => i + 1 \in DOMAIN v /\ v[i + 1] = new[q + 1]
      <4>1. q < k => v[i + 1] = new[(i + 1) - L]
        BY <1>6, <3>3
      <4> QED BY <1>8, <3>3, <4>1
    <3>7. q < k => v[i + 1].frame = n /\ v[i + 1].pos = q + 1
      BY ZenonT(60), <1>7, <3>3, <3>6
    <3>8. InPlace(v, i, n, q, m)
      BY <1>8, <3>1, <3>4, <3>5, <3>6, <3>7 DEF InPlace, k
    <3> QED BY <1>1, <3>5, <3>8
  <2> QED BY <2>1, <2>2
<1> QED BY <1>9 DEF v

(* A byte that leaves takes only its own frame from the wire. *)
LEMMA StaysOnWire ==
  ASSUME NEW w \in Seq(WireByte(sent)), w # << >>, w = wire, wire' = Tail(wire), NEW g,
         OnWire(g), g # Head(wire).frame
  PROVE  OnWire(g)'
<1>1. PICK i \in DOMAIN w : w[i].frame = g
  BY DEF OnWire
<1> DEFINE t == Tail(w)
<1>2. t \in Seq(WireByte(sent)) /\ Len(t) = Len(w) - 1 /\ \A j \in 1..Len(t) : t[j] = w[j + 1]
  BY HeadTailProperties, Zenon
<1>3. Head(w) = w[1] /\ i # 1
  BY <1>1
<1>4. i - 1 \in 1..Len(t) /\ (i - 1) + 1 = i
  BY <1>2, <1>3
<1>5. i - 1 \in DOMAIN t /\ t[i - 1] = w[i]
  BY <1>2, <1>4
<1> QED BY <1>1, <1>5 DEF OnWire
-----------------------------------------------------------------------------
(* Every step keeps an intact frame followed. *)

(* Nothing is asked of the parser before the first byte of a frame. *)
LEMMA TracksStart ==
  ASSUME wire' # << >> => Head(wire').pos = 1
  PROVE  Tracks'
<1>1. \A m : \A j \in 1..4 : ~ (1 + j > 5)
  OBVIOUS
<1> QED BY <1>1 DEF Tracks, Follows, HeaderFollows, ParserFollows

LEMMA TracksFollows ==
  ASSUME NEW m, NEW p, sent'[Head(wire').frame] = m, Head(wire').pos = p, Follows(m, p)'
  PROVE  Tracks'
  BY DEF Tracks, Follows, HeaderFollows, ParserFollows

LEMMA IntactIsFramable ==
  ASSUME LineInv, NEW f \in DOMAIN sent, Intact(f)
  PROVE  Framable(sent[f])
  BY LinkAssumption DEF LineInv, Intact, Unframeable, Framable

(* What is known of the first byte of the wire *)
LEMMA FirstByte ==
  ASSUME LineInv, WireInOrder, wire # << >>, NEW f, f = Head(wire).frame,
         NEW p, p = Head(wire).pos
  PROVE  /\ f \in DOMAIN sent /\ p \in 1..Size(f) /\ Size(f) \in Nat
         /\ Head(wire).byte = Package(sent[f])[p]
         /\ Ordered(Tail(wire), sent)
         /\ p < Size(f) => /\ Tail(wire) # << >>
                           /\ Head(Tail(wire)).frame = f /\ Head(Tail(wire)).pos = p + 1
         /\ p = Size(f) /\ Tail(wire) # << >> => Head(Tail(wire)).pos = 1
<1>1. wire \in Seq(WireByte(sent)) /\ sent \in Seq(Messages)
  BY DEF LineInv
<1>2. f \in DOMAIN sent
  BY WireShrinks
<1>3. Len(sent[f].data) \in Nat
  BY <1>1, <1>2, LinkAssumption DEF Message
<1>4. Size(f) \in Nat /\ Size(f) = Len(sent[f].data) + 8
  BY <1>3 DEF Size
<1>5. Ordered(wire, sent)
  BY DEF WireInOrder
<1>6. HeadInPlace(wire, sent, f, p, Size(f))
  BY <1>1, <1>4, <1>5, OrderedTail, Zenon
<1> QED BY <1>2, <1>4, <1>6 DEF HeadInPlace

(* The other frames, when a byte of a damaged frame leaves the wire *)
LEMMA DamagedLeaves ==
  ASSUME IInv, Framing, wire # << >>, wire' = Tail(wire), sent' = sent,
         damaged' = damaged \cup {Head(wire).frame}, refused \subseteq refused',
         \A g \in DOMAIN sent : Delivered(g) => Delivered(g)'
  PROVE  Framing'
<1> DEFINE f == Head(wire).frame
           p == Head(wire).pos
<1>1. /\ f \in DOMAIN sent /\ p \in 1..Size(f) /\ Size(f) \in Nat
      /\ Ordered(Tail(wire), sent)
      /\ p < Size(f) => /\ Tail(wire) # << >>
                        /\ Head(Tail(wire)).frame = f /\ Head(Tail(wire)).pos = p + 1
      /\ p = Size(f) /\ Tail(wire) # << >> => Head(Tail(wire)).pos = 1
  BY FirstByte DEF IInv, Framing
<1>2. WireInOrder'
  BY <1>1 DEF WireInOrder
<1>3. Tracks'
  <2>1. CASE wire' = << >> \/ p = Size(f)
    <3>1. wire' # << >> => Head(wire').pos = 1
      BY <1>1, <2>1
    <3> QED BY <3>1, TracksStart
  <2>2. CASE wire' # << >> /\ p # Size(f)
    <3>1. Head(wire').frame = f
      BY <1>1, <2>2
    <3>2. ~ Intact(Head(wire).frame)'
      BY <3>1 DEF Intact
    <3> QED BY <3>2 DEF Tracks
  <2> QED BY <2>1, <2>2
<1>4. Arrived'
  <2> SUFFICES ASSUME NEW g \in DOMAIN sent, Intact(g)'
               PROVE  OnWire(g)' \/ g \in refused' \/ Delivered(g)'
    BY DEF Arrived
  <2>1. g # f /\ Intact(g)
    BY DEF Intact
  <2>2. OnWire(g) \/ g \in refused \/ Delivered(g)
    BY <2>1 DEF Framing, Arrived
  <2>3. ASSUME OnWire(g) PROVE OnWire(g)'
    <3>1. wire \in Seq(WireByte(sent))
      BY DEF IInv, LineInv
    <3> QED BY <2>1, <2>3, <3>1, StaysOnWire
  <2> QED BY <2>2, <2>3
<1> QED BY <1>2, <1>3, <1>4 DEF Framing

(* Nothing that was delivered is forgotten. *)
LEMMA StaysDelivered ==
  ASSUME IInv, NEW b, Arrive(b), NEW g \in DOMAIN sent, Delivered(g)
  PROVE  Delivered(g)'
<1>1. PICK i \in DOMAIN delivered : delivered[i] = g /\ contents[i] = sent[g]
  BY DEF Delivered
<1>2. /\ delivered \in Seq(DOMAIN sent) /\ contents \in Seq(Message)
      /\ Len(delivered) = Len(contents)
  BY DEF IInv, LineInv
<1>3. i \in 1..Len(delivered) /\ i \in 1..Len(contents)
  BY <1>2
<1> DEFINE f == Head(wire).frame
<1>4. \/ delivered' = Append(delivered, f) /\ contents' = Append(contents, Received)
      \/ delivered' = delivered /\ contents' = contents
  BY DEF Arrive
<1>5. f \in DOMAIN sent /\ Received \in Message
  BY WireShrinks, ReceivedIsMessage DEF Arrive, IInv, RInv
<1> HIDE DEF f
<1>6. i \in DOMAIN delivered' /\ delivered'[i] = delivered[i] /\ contents'[i] = contents[i]
  <2>1. ASSUME delivered' = Append(delivered, f), contents' = Append(contents, Received)
        PROVE  i \in DOMAIN delivered' /\ delivered'[i] = delivered[i] /\ contents'[i] = contents[i]
    BY <1>2, <1>3, <1>5, <2>1, AppendProperties
  <2> QED BY <1>1, <1>4, <2>1
<1> QED BY <1>1, <1>6 DEF Arrive, Delivered

(* A byte arrives as it was sent. *)
LEMMA WholeHolds ==
  ASSUME IInv, InBuffer, Framing, ArriveWhole
  PROVE  Framing'
<1> SUFFICES ASSUME NEW f, f = Head(wire).frame, NEW p, p = Head(wire).pos,
                    NEW m, m = sent[f]
             PROVE  Framing'
  OBVIOUS
<1>1. /\ f \in DOMAIN sent /\ p \in 1..Size(f) /\ Size(f) \in Nat
      /\ Head(wire).byte = Package(m)[p]
      /\ Ordered(Tail(wire), sent)
      /\ p < Size(f) => /\ Tail(wire) # << >>
                        /\ Head(Tail(wire)).frame = f /\ Head(Tail(wire)).pos = p + 1
      /\ p = Size(f) /\ Tail(wire) # << >> => Head(Tail(wire)).pos = 1
  BY FirstByte DEF IInv, Framing, ArriveWhole
<1>2. /\ wire # << >> /\ wire' = Tail(wire) /\ sent' = sent /\ damaged' = damaged
      /\ ReceiveChar(Package(m)[p]) /\ Arrive(Head(wire).byte)
  BY <1>1 DEF ArriveWhole, Arrive
<1>3. WireInOrder'
  BY <1>1, <1>2 DEF WireInOrder
<1>4. Intact(f) => Follows(m, p) /\ Framable(m)
  BY <1>1, <1>2, IntactIsFramable DEF Framing, Tracks, IInv
<1>5. \A g : Intact(g)' <=> Intact(g)
  BY <1>2 DEF Intact
<1>6. Tracks'
  <2>1. CASE p < Size(f)
    <3>1. wire' # << >> /\ Head(wire').frame = f /\ Head(wire').pos = p + 1
      BY <1>1, <1>2, <2>1
    <3>2. ASSUME ~ Intact(f) PROVE Tracks'
      <4>1. ~ Intact(Head(wire).frame)'
        BY <1>2, <3>1, <3>2 DEF Intact
      <4> QED BY <4>1 DEF Tracks
    <3>3. ASSUME Intact(f) PROVE Tracks'
      <4>1. p \in 1..(Len(m.data) + 7)
        <5>1. Len(m.data) + 8 = Size(f) /\ Len(m.data) \in Nat
          BY <1>4, <3>3 DEF Size, Framable, Message
        <5> QED BY SMTT(30), <1>1, <2>1, <5>1
      <4>2. Follows(m, p + 1)'
        BY <1>2, <1>4, <3>3, <4>1, ReceiveFollows DEF IInv
      <4>3. sent'[Head(wire').frame] = m
        BY <1>2, <3>1
      <4> QED BY <3>1, <4>2, <4>3, TracksFollows
    <3> QED BY <3>2, <3>3
  <2>2. CASE ~ (p < Size(f))
    <3>1. p = Size(f)
      BY <1>1, <2>2
    <3>2. wire' # << >> => Head(wire').pos = 1
      BY <1>1, <1>2, <3>1
    <3> QED BY <3>2, TracksStart
  <2> QED BY <2>1, <2>2
<1>7. Arrived'
  <2> SUFFICES ASSUME NEW g \in DOMAIN sent, Intact(g)
               PROVE  OnWire(g)' \/ g \in refused' \/ Delivered(g)'
    BY <1>2, <1>5 DEF Arrived
  <2>1. CASE g # f
    <3>1. OnWire(g) \/ g \in refused \/ Delivered(g)
      BY DEF Framing, Arrived
    <3>2. ASSUME OnWire(g) PROVE OnWire(g)'
      <4>1. wire \in Seq(WireByte(sent))
        BY DEF IInv, LineInv
      <4> QED BY <1>2, <2>1, <3>2, <4>1, StaysOnWire
    <3>3. refused \subseteq refused'
      BY DEF ArriveWhole, Arrive
    <3>4. Delivered(g) => Delivered(g)'
      BY <1>2, StaysDelivered
    <3> QED BY <3>1, <3>2, <3>3, <3>4
  <2>2. CASE g = f /\ p < Size(f)
    <3>1. wire' # << >> /\ Head(wire').frame = f
      BY <1>1, <1>2, <2>2
    <3>2. wire' \in Seq(WireByte(sent))
      BY <1>2, WireShrinks DEF IInv
    <3>3. 1 \in DOMAIN wire' /\ wire'[1] = Head(wire')
      BY <3>1, <3>2
    <3> QED BY <2>2, <3>1, <3>3 DEF OnWire
  <2>3. CASE g = f /\ ~ (p < Size(f))
    <3>1. p = Len(m.data) + 8
      BY <1>1, <2>3 DEF Size
    <3>2. \/ outcome' = "no_resource"
          \/ outcome' \in {"pushed", "acked", "answered"} /\ Received = m
      BY <1>2, <1>4, <2>3, <3>1, ReceiveCompletes DEF IInv
    <3>3. ASSUME outcome' = "no_resource" PROVE g \in refused'
      BY <2>3, <3>3 DEF ArriveWhole, Arrive
    <3>4. ASSUME outcome' \in {"pushed", "acked", "answered"}, Received = m PROVE Delivered(g)'
      <4>1. delivered' = Append(delivered, f) /\ contents' = Append(contents, m)
        BY <1>2, <3>4 DEF Arrive
      <4>2. /\ delivered \in Seq(DOMAIN sent) /\ contents \in Seq(Message)
            /\ Len(delivered) = Len(contents) /\ m \in Message /\ f \in DOMAIN sent
        BY <1>1, <1>4, <2>3 DEF IInv, LineInv, Framable
      <4> DEFINE k == Len(delivered) + 1
      <4>3. k \in DOMAIN delivered' /\ delivered'[k] = f /\ contents'[k] = m
        BY <4>1, <4>2, AppendProperties
      <4> QED BY <1>2, <2>3, <4>3 DEF Delivered
    <3> QED BY <3>2, <3>3, <3>4
  <2> QED BY <2>1, <2>2, <2>3
<1> QED BY <1>3, <1>6, <1>7 DEF Framing

(* What is sent, as frame n, goes behind the k bytes that were on the wire. *)
AppendsFrame(n, k) ==
    /\ k \in Nat /\ n \in Nat /\ DOMAIN wire = 1..k /\ DOMAIN sent = 1..(n - 1)
    /\ DOMAIN sent' = DOMAIN sent \cup {n}
    /\ \A g \in DOMAIN sent : sent'[g] = sent[g]
    /\ wire \in Seq(WireByte(sent)) /\ wire' \in Seq(WireByte(sent'))
    /\ \A i \in 1..k : i \in DOMAIN wire' /\ wire'[i] = wire[i]
    /\ k + 1 \in DOMAIN wire'
    /\ \A i \in DOMAIN wire' :
         i \in 1..k \/ (i > k /\ wire'[i].frame = n /\ wire'[i].pos = i - k)

LEMMA SendAppends ==
  ASSUME IInv, NEW m \in Messages, Send(m), NEW n, n = Len(sent) + 1, NEW k, k = Len(wire)
  PROVE  AppendsFrame(n, k)
<1> DEFINE new == [i \in DOMAIN Package(m) |->
                     [byte |-> Package(m)[i], frame |-> n, pos |-> i]]
<1>1. sent \in Seq(Messages) /\ wire \in Seq(WireByte(sent))
  BY DEF IInv, LineInv
<1>2. m \in Message /\ Len(m.data) <= PROTOCAL_MAX_DATA_LENGTH
  BY LinkAssumption
<1>3. sent' = Append(sent, m) /\ wire' = wire \o new
  BY DEF Send, Framed
<1>4. /\ DOMAIN sent' = DOMAIN sent \cup {n} /\ sent'[n] = m
      /\ \A g \in DOMAIN sent : sent'[g] = sent[g]
      /\ n \in Nat /\ DOMAIN sent = 1..(n - 1)
  BY <1>1, <1>3
<1>5. /\ new \in Seq(WireByte(sent')) /\ Len(new) \in Nat \ {0}
      /\ \A i \in 1..Len(new) : new[i].frame = n /\ new[i].pos = i
  <2>1. Package(m) \in Seq(Byte) /\ Len(Package(m)) \in Nat \ {0}
    BY <1>2, PackageBytes, BodyBytes
  <2>2. DOMAIN Package(m) = 1..Len(Package(m))
        /\ \A i \in DOMAIN Package(m) : Package(m)[i] \in Byte
    BY <2>1
  <2>3. new \in [1..Len(Package(m)) -> WireByte(sent')]
    BY <1>4, <2>2 DEF WireByte
  <2>4. new \in Seq(WireByte(sent'))
    BY <2>1, <2>3, SeqDef
  <2>5. DOMAIN new = 1..Len(Package(m)) /\ \A i \in DOMAIN new : new[i].frame = n /\ new[i].pos = i
    BY <2>2
  <2> HIDE DEF new
  <2>6. Len(new) = Len(Package(m))
    BY <2>1, <2>4, <2>5
  <2> QED BY <2>1, <2>4, <2>5, <2>6
<1>6. wire \in Seq(WireByte(sent'))
  <2>1. WireByte(sent) \subseteq WireByte(sent')
    BY <1>4 DEF WireByte
  <2> QED BY <1>1, <2>1, SeqMonotonic, Zenon
<1> HIDE DEF new
<1> DEFINE v == wire \o new
<1>7. /\ v \in Seq(WireByte(sent')) /\ Len(v) = k + Len(new)
      /\ \A i \in 1..(k + Len(new)) : v[i] = IF i <= k THEN wire[i] ELSE new[i - k]
  BY <1>5, <1>6, ConcatProperties, ZenonT(60)
<1> HIDE DEF v
<1>8. k \in Nat /\ DOMAIN wire = 1..k /\ DOMAIN v = 1..(k + Len(new))
  BY <1>1, <1>5, <1>7
<1>9. \A i \in 1..k : i \in DOMAIN v /\ v[i] = wire[i]
  BY <1>5, <1>7, <1>8
<1>10. ASSUME NEW i \in DOMAIN v, i \notin 1..k
       PROVE  i > k /\ v[i].frame = n /\ v[i].pos = i - k
  <2>1. i \in 1..(k + Len(new)) /\ i > k /\ ~ (i <= k) /\ i - k \in 1..Len(new)
    BY <1>5, <1>8, <1>10
  <2>2. v[i] = new[i - k]
    BY <1>7, <2>1
  <2> QED BY <1>5, <2>1, <2>2
<1>11. k + 1 \in DOMAIN v
  BY <1>5, <1>8
<1>12. wire' = v
  BY <1>3 DEF v
<1> QED BY <1>1, <1>4, <1>7, <1>8, <1>9, <1>10, <1>11, <1>12 DEF AppendsFrame

(* The head of the wire after a frame was sent *)
LEMMA SendKeepsHead ==
  ASSUME IInv, NEW m \in Messages, Send(m)
  PROVE  /\ wire' # << >>
         /\ wire = << >> => Head(wire').pos = 1 /\ Head(wire').frame \notin DOMAIN sent
         /\ wire # << >> => Head(wire') = Head(wire) /\ Head(wire).frame \in DOMAIN sent
<1> SUFFICES ASSUME NEW n, n = Len(sent) + 1, NEW k, k = Len(wire)
             PROVE  /\ wire' # << >>
                    /\ wire = << >> => Head(wire').pos = 1 /\ Head(wire').frame \notin DOMAIN sent
                    /\ wire # << >> => Head(wire') = Head(wire) /\ Head(wire).frame \in DOMAIN sent
  OBVIOUS
<1>1. /\ k \in Nat /\ n \in Nat /\ DOMAIN wire = 1..k /\ DOMAIN sent = 1..(n - 1)
      /\ wire \in Seq(WireByte(sent)) /\ wire' \in Seq(WireByte(sent'))
      /\ \A i \in 1..k : i \in DOMAIN wire' /\ wire'[i] = wire[i]
      /\ k + 1 \in DOMAIN wire'
      /\ \A i \in DOMAIN wire' :
           i \in 1..k \/ (i > k /\ wire'[i].frame = n /\ wire'[i].pos = i - k)
  BY SendAppends DEF AppendsFrame
<1>2. wire' # << >> /\ Head(wire') = wire'[1]
  BY <1>1
<1>3. ASSUME wire = << >>
      PROVE  Head(wire').pos = 1 /\ Head(wire').frame \notin DOMAIN sent
  <2>1. k = 0 /\ 1 \in DOMAIN wire' /\ 1 \notin 1..k
    BY <1>1, <1>3, Len(<< >>) = 0
  <2>2. wire'[1].frame = n /\ wire'[1].pos = 1
    BY <1>1, <2>1
  <2> QED BY <1>1, <1>2, <2>2
<1>4. ASSUME wire # << >>
      PROVE  Head(wire') = Head(wire) /\ Head(wire).frame \in DOMAIN sent
  <2>1. 1 \in 1..k /\ Head(wire) = wire[1]
    BY <1>1, <1>4
  <2> QED BY <1>1, <1>2, <1>4, <2>1, WireShrinks DEF IInv
<1> QED BY <1>2, <1>3, <1>4

(* A frame is sent. *)
LEMMA SendKeepsFraming ==
  ASSUME IInv, Framing, NEW m \in Messages, Send(m)
  PROVE  Framing'
<1> SUFFICES ASSUME NEW n, n = Len(sent) + 1, NEW k, k = Len(wire)
             PROVE  Framing'
  OBVIOUS
<1> DEFINE new == [i \in DOMAIN Package(m) |->
                     [byte |-> Package(m)[i], frame |-> n, pos |-> i]]
<1>1. sent \in Seq(Messages) /\ wire \in Seq(WireByte(sent)) /\ damaged \subseteq DOMAIN sent
  BY DEF IInv, LineInv
<1>2. m \in Message /\ Len(m.data) <= PROTOCAL_MAX_DATA_LENGTH /\ Messages \subseteq Message
  BY LinkAssumption
<1>3. /\ sent' = Append(sent, m) /\ wire' = wire \o new
      /\ UNCHANGED <<receiverVars, damaged, refused, delivered, contents>>
  BY DEF Send, Framed
<1>4. WireInOrder'
  <2>1. sent \in Seq(Message)
    BY <1>1, <1>2, SeqMonotonic, Zenon
  <2> QED BY <1>1, <1>2, <1>3, <2>1, OrderedConcat DEF Framing, WireInOrder
<1> HIDE DEF new
<1>5. /\ DOMAIN wire = 1..k /\ DOMAIN sent' = DOMAIN sent \cup {n}
      /\ \A g \in DOMAIN sent : sent'[g] = sent[g]
      /\ \A i \in 1..k : i \in DOMAIN wire' /\ wire'[i] = wire[i]
      /\ k + 1 \in DOMAIN wire' /\ k + 1 \notin 1..k
      /\ \A i \in DOMAIN wire' :
           i \in 1..k \/ (i > k /\ wire'[i].frame = n /\ wire'[i].pos = i - k)
  <2>1. /\ k \in Nat /\ DOMAIN wire = 1..k /\ DOMAIN sent' = DOMAIN sent \cup {n}
        /\ \A g \in DOMAIN sent : sent'[g] = sent[g]
        /\ \A i \in 1..k : i \in DOMAIN wire' /\ wire'[i] = wire[i]
        /\ k + 1 \in DOMAIN wire'
        /\ \A i \in DOMAIN wire' :
             i \in 1..k \/ (i > k /\ wire'[i].frame = n /\ wire'[i].pos = i - k)
    BY SendAppends DEF AppendsFrame
  <2> QED BY <2>1
<1>6. \A g \in DOMAIN sent : Intact(g)' => Intact(g)
  BY <1>3, <1>5 DEF Intact
<1>7. Tracks'
  <2>1. CASE wire = << >>
    BY <2>1, SendKeepsHead, TracksStart
  <2>2. CASE wire # << >>
    <3> SUFFICES ASSUME NEW f, f = Head(wire).frame, NEW p, p = Head(wire).pos,
                        NEW x, x = sent[f]
                 PROVE  Tracks'
      OBVIOUS
    <3>1. Head(wire') = Head(wire) /\ f \in DOMAIN sent
      BY <2>2, SendKeepsHead
    <3>2. sent'[f] = x /\ (Intact(f)' => Intact(f))
      BY <1>5, <1>6, <3>1
    <3>3. ASSUME ~ Intact(f)' PROVE Tracks'
      BY <3>1, <3>3 DEF Tracks, Intact
    <3>4. ASSUME Intact(f) PROVE Tracks'
      <4>1. Follows(x, p)
        BY <2>2, <3>4 DEF Framing, Tracks
      <4>2. header' = header /\ parser' = parser
        BY <1>3 DEF receiverVars
      <4>3. Follows(x, p)'
        BY <4>1, <4>2 DEF Follows, HeaderFollows, ParserFollows
      <4> QED BY <3>1, <3>2, <4>3, TracksFollows
    <3> QED BY <3>2, <3>3, <3>4
  <2> QED BY <2>1, <2>2
<1>8. Arrived'
  <2> SUFFICES ASSUME NEW g \in DOMAIN sent', Intact(g)'
               PROVE  OnWire(g)' \/ g \in refused' \/ Delivered(g)'
    BY DEF Arrived
  <2>1. CASE g = n
    BY <1>5, <2>1 DEF OnWire
  <2>2. CASE g \in DOMAIN sent
    <3>1. OnWire(g) \/ g \in refused \/ Delivered(g)
      BY <1>6, <2>2 DEF Framing, Arrived
    <3>2. OnWire(g) => OnWire(g)'
      BY <1>5 DEF OnWire
    <3>3. Delivered(g) => Delivered(g)'
      BY <1>3, <1>5, <2>2 DEF Delivered
    <3> QED BY <1>3, <3>1, <3>2, <3>3
  <2> QED BY <1>5, <2>1, <2>2
<1> QED BY <1>4, <1>7, <1>8 DEF Framing

LEMMA NextKeepsFraming ==
  ASSUME IInv, InBuffer, Framing, [Next]_vars
  PROVE  Framing'
<1>1. ASSUME NEW m \in Messages, Send(m) PROVE Framing'
  BY <1>1, SendKeepsFraming
<1>2. ASSUME Lose PROVE Framing'
  <2>1. \A g \in DOMAIN sent : Delivered(g) => Delivered(g)'
    BY <1>2 DEF Lose, Delivered
  <2> QED BY <1>2, <2>1, DamagedLeaves DEF Lose
<1>3. ASSUME ArriveWhole PROVE Framing'
  BY <1>3, WholeHolds
<1>4. ASSUME NEW b \in NoiseBytes, ArriveChanged(b) PROVE Framing'
  <2>1. \A g \in DOMAIN sent : Delivered(g) => Delivered(g)'
    BY <1>4, StaysDelivered DEF ArriveChanged
  <2> QED BY <1>4, <2>1, DamagedLeaves DEF ArriveChanged, Arrive
<1>5. ASSUME UNCHANGED <<header, parser, wire, historyVars>> PROVE Framing'
  <2>1. /\ header' = header /\ parser' = parser /\ wire' = wire /\ sent' = sent
        /\ damaged' = damaged /\ refused' = refused /\ delivered' = delivered
        /\ contents' = contents
    BY <1>5 DEF historyVars
  <2>2. WireInOrder'
    BY <2>1 DEF Framing, WireInOrder
  <2>3. Tracks'
    BY <2>1 DEF Framing, Tracks, Intact, Follows, HeaderFollows, ParserFollows
  <2>4. Arrived'
    BY <2>1 DEF Framing, Arrived, Intact, OnWire, Delivered
  <2> QED BY <2>2, <2>3, <2>4 DEF Framing
<1>6. ASSUME Await \/ Dispatch \/ Done \/ UNCHANGED vars PROVE Framing'
  BY <1>5, <1>6 DEF Await, Dispatch, Done, vars, receiverVars
<1> QED BY <1>1, <1>2, <1>3, <1>4, <1>6 DEF Next

LEMMA StartsFramed == Init => Framing
  BY DEF Init, Framing, WireInOrder, Ordered, Tracks, Arrived

LEMMA NextKeepsOverrun ==
  ASSUME IInv, [Next]_vars, ~ InBuffer
  PROVE  ~ InBuffer'
<1>1. ASSUME NEW b, Arrive(b) PROVE parser' = parser
  BY <1>1, OverrunStays DEF Arrive, InBuffer
<1>2. ArriveWhole \/ (\E b \in NoiseBytes : ArriveChanged(b)) => parser' = parser
  BY <1>1 DEF ArriveWhole, ArriveChanged
<1>3. parser' = parser
  BY <1>2 DEF Next, Send, Lose, Await, Dispatch, Done, vars, receiverVars
<1> QED BY <1>3 DEF InBuffer

(* Whatever the peer sends, and however many bytes of other frames are lost or
   changed into whatever: for as long as no byte is stored behind the buffer, a
   frame of which no byte was, and which does not hold the header pattern a
   second time, is pushed or taken as an answer with the message its sender
   sent, or refused because no event is free. *)
THEOREM EveryIntactFrameArrives == Spec => []IntactFramesArriveUntilOverrun
<1>1. Init => IInv /\ (InBuffer => Framing)
  BY StartHolds, StartsFramed
<1>2. IInv /\ (InBuffer => Framing) /\ [Next]_vars => (IInv /\ (InBuffer => Framing))'
  BY NextHolds, NextKeepsFraming, NextKeepsOverrun
<1>3. IInv /\ (InBuffer => Framing) => IntactFramesArriveUntilOverrun
  BY DEF Framing, Arrived, Intact, IntactFramesArrive, IntactFramesArriveUntilOverrun
<1> QED BY <1>1, <1>2, <1>3, PTL DEF Spec
-----------------------------------------------------------------------------
(* The buffer *)

(* A frame of which the first byte is on the wire lies behind all others and
   is not damaged. *)
Apart ==
    /\ \A i, j \in DOMAIN wire : i < j /\ wire[j].pos = 1 => wire[i].frame < wire[j].frame
    /\ \A i \in DOMAIN wire : wire[i].pos = 1 => wire[i].frame \notin damaged

(* The characters the parser took since it was told that a type comes *)
Taken == CASE parser.status = "length" -> 1
           [] parser.status = "cmd" -> 2
           [] parser.status = "data" -> parser.bufferIndex + 3
           [] OTHER -> 0

(* The characters it may take before an intact header is complete *)
Rest ==
    IF wire = << >> THEN 3
    ELSE LET f == Head(wire).frame
             p == Head(wire).pos
         IN  IF p < 5 /\ f \notin damaged THEN 4 - p ELSE Size(f) - p + 4

(* Without a fault the parser is between two frames at the header of one.  It
   reads the header as type, length and command if the frame before was
   refused. *)
Between ==
    LET p == IF wire = << >> THEN 1 ELSE Head(wire).pos
    IN  faults = 0 /\ p < 5 =>
            \/ parser.status = "header"
            \/ p = 1 /\ parser.status = "cmd_type"
            \/ p = 2 /\ parser.status = "length"
            \/ p = 3 /\ parser.status = "cmd" /\ parser.cmdSize = 102
            \/ p = 4 /\ parser.status = "data" /\ parser.bufferIndex = 0

ZeroIndex == parser.status \in {"length", "cmd"} => parser.bufferIndex = 0

Budget ==
    /\ Apart
    /\ faults = 0 => damaged = {}
    /\ ZeroIndex
    /\ Between
    /\ Taken + Rest <= PROTOCAL_MAX_PACKAGE_LENGTH + 3
(* The sizes that can be on the wire, and how Rest changes with them *)
LEMMA SizeBound ==
  ASSUME LineInv, NEW f \in DOMAIN sent
  PROVE  Size(f) \in 8..PROTOCAL_MAX_PACKAGE_LENGTH
<1>1. sent[f] \in Messages
  BY DEF LineInv
<1>2. Len(sent[f].data) \in Nat /\ Len(sent[f].data) <= PROTOCAL_MAX_DATA_LENGTH
  BY <1>1, LinkAssumption DEF Message
<1> DEFINE n == Len(sent[f].data)
<1>3. n \in Nat /\ n <= 24
  BY <1>2 DEF PROTOCAL_MAX_DATA_LENGTH, PROTOCAL_MAX_PACKAGE_LENGTH
<1>4. Size(f) = n + 8 /\ PROTOCAL_MAX_PACKAGE_LENGTH = 32
  BY DEF Size, PROTOCAL_MAX_PACKAGE_LENGTH
<1> HIDE DEF n
<1> QED BY <1>3, <1>4

LEMMA ApartTail ==
  ASSUME IInv, Apart, wire # << >>, wire' = Tail(wire),
         damaged' = damaged \/ damaged' = damaged \cup {Head(wire).frame}
  PROVE  Apart'
<1> SUFFICES ASSUME NEW w, w = wire, NEW t, t = Tail(wire), NEW f, f = Head(wire).frame
             PROVE  Apart'
  OBVIOUS
<1>1. w \in Seq(WireByte(sent)) /\ w # << >>
  BY DEF IInv, LineInv
<1>2. t \in Seq(WireByte(sent)) /\ Len(t) = Len(w) - 1 /\ \A i \in 1..Len(t) : t[i] = w[i + 1]
  BY <1>1, HeadTailProperties, Zenon
<1>3. \A i \in DOMAIN t : i \in Nat /\ i + 1 \in DOMAIN w /\ t[i] = w[i + 1] /\ 1 < i + 1
  BY <1>1, <1>2
<1>4. 1 \in DOMAIN w /\ f = w[1].frame
  BY <1>1
<1>5. /\ \A i, j \in DOMAIN w : i < j /\ w[j].pos = 1 => w[i].frame < w[j].frame
      /\ \A i \in DOMAIN w : w[i].pos = 1 => w[i].frame \notin damaged
  BY DEF Apart
<1>6. ASSUME NEW i \in DOMAIN t, t[i].pos = 1 PROVE t[i].frame \notin damaged'
  <2>1. i + 1 \in DOMAIN w /\ t[i] = w[i + 1] /\ 1 < i + 1
    BY <1>3
  <2>2. f < t[i].frame /\ t[i].frame \notin damaged
    BY <1>4, <1>5, <1>6, <2>1
  <2>3. f \in Nat
    BY <1>1, WireShrinks DEF IInv, LineInv
  <2>4. f # t[i].frame
    BY <2>2, <2>3
  <2> QED BY <2>2, <2>4
<1>7. ASSUME NEW i \in DOMAIN t, NEW j \in DOMAIN t, i < j, t[j].pos = 1
      PROVE  t[i].frame < t[j].frame
  <2>1. i + 1 \in DOMAIN w /\ j + 1 \in DOMAIN w /\ t[i] = w[i + 1] /\ t[j] = w[j + 1] /\ i + 1 < j + 1
    BY <1>3, <1>7
  <2> QED BY <1>5, <1>7, <2>1
<1>8. wire' = t
  OBVIOUS
<1> QED BY <1>6, <1>7, <1>8 DEF Apart

LEMMA ApartSend ==
  ASSUME IInv, Apart, NEW m \in Messages, Send(m)
  PROVE  Apart'
<1> SUFFICES ASSUME NEW n, n = Len(sent) + 1, NEW k, k = Len(wire)
             PROVE  Apart'
  OBVIOUS
<1>1. /\ k \in Nat /\ n \in Nat /\ DOMAIN wire = 1..k /\ DOMAIN sent = 1..(n - 1)
      /\ wire \in Seq(WireByte(sent)) /\ wire' \in Seq(WireByte(sent'))
      /\ \A i \in 1..k : i \in DOMAIN wire' /\ wire'[i] = wire[i]
      /\ \A i \in DOMAIN wire' :
           i \in 1..k \/ (i > k /\ wire'[i].frame = n /\ wire'[i].pos = i - k)
  BY SendAppends DEF AppendsFrame
<1>2. \A i \in DOMAIN wire' : i \in Nat
  BY <1>1
<1>3. ASSUME NEW i \in 1..k PROVE wire[i].frame \in 1..(n - 1)
  <2>1. wire[i] \in WireByte(sent)
    BY <1>1
  <2>2. wire[i].frame \in DOMAIN sent
    BY <2>1 DEF WireByte
  <2> QED BY <1>1, <2>2
<1>4. damaged' = damaged /\ n \notin damaged
  BY <1>1 DEF Send, IInv, LineInv
<1>5. ASSUME NEW i \in DOMAIN wire', wire'[i].pos = 1 PROVE wire'[i].frame \notin damaged'
  BY <1>1, <1>4, <1>5 DEF Apart
<1>6. ASSUME NEW i \in DOMAIN wire', NEW j \in DOMAIN wire', i < j, wire'[j].pos = 1
      PROVE  wire'[i].frame < wire'[j].frame
  <2>1. CASE j \in 1..k
    <3>1. i \in 1..k
      BY <1>1, <1>2, <1>6, <2>1
    <3> QED BY <1>1, <1>6, <2>1, <3>1 DEF Apart
  <2>2. CASE j \notin 1..k
    <3>0. j > k /\ wire'[j].frame = n /\ wire'[j].pos = j - k /\ j \in Nat /\ k \in Nat
      BY <1>1, <1>2, <2>2
    <3>1. j = k + 1 /\ wire'[j].frame = n
      BY <1>6, <3>0
    <3>2. i \in 1..k
      BY <1>1, <1>2, <1>6, <3>1
    <3>3. wire'[i].frame \in 1..(n - 1)
      BY <1>1, <1>3, <3>2
    <3> QED BY <1>1, <3>1, <3>3
  <2> QED BY <2>1, <2>2
<1> QED BY <1>5, <1>6 DEF Apart

(* A byte leaves the wire: the rest to the next header gets smaller by one,
   unless the header of a whole frame is completed or damaged. *)
LEMMA RestFalls ==
  ASSUME IInv, Framing, Apart, wire # << >>, wire' = Tail(wire), sent' = sent,
         NEW f, f = Head(wire).frame, NEW p, p = Head(wire).pos,
         damaged' = damaged \/ damaged' = damaged \cup {f}
  PROVE  /\ Rest \in Nat /\ Rest' \in Nat /\ p \in 1..Size(f) /\ Size(f) \in 8..PROTOCAL_MAX_PACKAGE_LENGTH
         /\ p > 4 \/ f \in damaged => Rest > 3 /\ Rest' = Rest - 1
         /\ p < 5 /\ f \notin damaged => Rest = 4 - p
         /\ p < 4 /\ f \notin damaged' => Rest' = 4 - (p + 1)
         /\ p = 4 /\ f \notin damaged' => Rest' = Size(f) - 1
         /\ f \in damaged' => Rest' = Size(f) - p + 3
<1>1. /\ f \in DOMAIN sent /\ p \in 1..Size(f)
      /\ p < Size(f) => /\ Tail(wire) # << >>
                        /\ Head(Tail(wire)).frame = f /\ Head(Tail(wire)).pos = p + 1
      /\ p = Size(f) /\ Tail(wire) # << >> => Head(Tail(wire)).pos = 1
  BY FirstByte DEF IInv, Framing
<1>2. Size(f) \in 8..32 /\ PROTOCAL_MAX_PACKAGE_LENGTH = 32 /\ Size(f)' = Size(f)
  BY <1>1, SizeBound DEF IInv, PROTOCAL_MAX_PACKAGE_LENGTH, Size
<1>3. Rest = IF p < 5 /\ f \notin damaged THEN 4 - p ELSE Size(f) - p + 4
  BY DEF Rest
<1>4. p < Size(f) => Rest' = IF p + 1 < 5 /\ f \notin damaged' THEN 4 - (p + 1) ELSE Size(f) - (p + 1) + 4
  BY <1>1, <1>2 DEF Rest, Size
<1>5. p = Size(f) => Rest' = 3
  <2> SUFFICES ASSUME p = Size(f) PROVE Rest' = 3
    OBVIOUS
  <2>1. CASE wire' = << >>
    BY <2>1 DEF Rest
  <2>2. CASE wire' # << >>
    <3>1. Head(wire').pos = 1
      BY <1>1, <2>2
    <3>2. wire' \in Seq(WireByte(sent))
      BY WireShrinks DEF IInv
    <3>3. 1 \in DOMAIN wire' /\ Head(wire') = wire'[1]
      BY <2>2, <3>2
    <3>4. Apart'
      BY ApartTail
    <3>5. Head(wire').frame \notin damaged'
      BY <3>1, <3>3, <3>4 DEF Apart
    <3> QED BY <2>2, <3>1, <3>5 DEF Rest
  <2> QED BY <2>1, <2>2
<1>6. p \in 1..Size(f) /\ Size(f) \in 8..32 /\ (f \in damaged => f \in damaged')
  BY <1>1, <1>2
<1> DEFINE n == Size(f)
           r == Rest
           r1 == Rest'
<1>7. /\ r \in Nat /\ r1 \in Nat
      /\ p > 4 \/ f \in damaged => r > 3 /\ r1 = r - 1
      /\ p < 5 /\ f \notin damaged => r = 4 - p
      /\ p < 4 /\ f \notin damaged' => r1 = 4 - (p + 1)
      /\ p = 4 /\ f \notin damaged' => r1 = n - 1
      /\ f \in damaged' => r1 = n - p + 3
  <2>1. /\ r = IF p < 5 /\ f \notin damaged THEN 4 - p ELSE n - p + 4
        /\ p < n => r1 = IF p + 1 < 5 /\ f \notin damaged' THEN 4 - (p + 1) ELSE n - (p + 1) + 4
        /\ p = n => r1 = 3
        /\ p \in 1..n /\ n \in 8..32 /\ (f \in damaged => f \in damaged')
    BY <1>3, <1>4, <1>5, <1>6
  <2> HIDE DEF n, r, r1
  <2>2. p \in Nat /\ n \in Nat /\ (p < n \/ p = n)
    BY <2>1
  <2>3. r \in Nat /\ r1 \in Nat
    <3>1. n - p + 4 \in Nat /\ (p < 5 => 4 - p \in Nat)
      BY SMTT(30), <2>1, <2>2
    <3>2. (p + 1 < 5 => 4 - (p + 1) \in Nat) /\ (p < n => n - (p + 1) + 4 \in Nat)
      BY SMTT(30), <2>1, <2>2
    <3>3. r \in Nat
      BY <2>1, <3>1
    <3>4. CASE p < n
      BY <2>1, <3>2, <3>3, <3>4
    <3>5. CASE p = n
      BY SMTT(30), <2>1, <3>3, <3>5
    <3> QED BY <2>2, <3>4, <3>5
  <2>4. ASSUME p > 4 \/ f \in damaged PROVE r > 3 /\ r1 = r - 1
    <3>1. r = n - p + 4 /\ ~ (p + 1 < 5 /\ f \notin damaged')
      BY SMTT(30), <2>1, <2>2, <2>4
    <3>2. p < n => r1 = n - (p + 1) + 4
      BY <2>1, <3>1
    <3>3. r > 3 /\ (p < n => n - (p + 1) + 4 = r - 1) /\ (p = n => r = 4)
      BY SMTT(30), <2>2, <2>1, <3>1
    <3>4. p = n => r1 = 3
      BY <2>1
    <3> QED BY <2>2, <3>2, <3>3, <3>4
  <2>5. p < 5 /\ f \notin damaged => r = 4 - p
    BY <2>1
  <2>6. p < 4 /\ f \notin damaged' => r1 = 4 - (p + 1)
    BY SMTT(30), <2>1
  <2>7. p = 4 /\ f \notin damaged' => r1 = n - 1
    BY <2>1
  <2>8. f \in damaged' => r1 = n - p + 3
    BY SMTT(30), <2>1, <2>2
  <2> QED BY <2>3, <2>4, <2>5, <2>6, <2>7, <2>8
<1> QED BY <1>2, <1>6, <1>7

LEMMA TakenIsNat ==
  ASSUME RInv
  PROVE  Taken \in Nat
<1>1. parser.bufferIndex \in 0..PROTOCAL_MAX_PACKAGE_LENGTH
  BY ParserFields DEF RInv
<1>2. parser.bufferIndex + 3 \in Nat
  BY <1>1 DEF PROTOCAL_MAX_PACKAGE_LENGTH
<1> QED BY <1>2 DEF Taken

(* A character makes one more, or none. *)
LEMMA TakenGrows ==
  ASSUME RInv, ZeroIndex, NEW ch \in Byte, ReceiveChar(ch)
  PROVE  /\ Taken \in Nat /\ Taken' \in Nat /\ Taken' <= Taken + 1 /\ ZeroIndex'
         /\ Shifted(ch) = headerMagic => Taken' = 0
<1>1. parser \in ParserType /\ parser.status \in Status /\ parser.bufferIndex \in Nat
  <2>1. /\ parser \in ParserType /\ parser.status \in Status
        /\ parser.bufferIndex \in 0..PROTOCAL_MAX_PACKAGE_LENGTH
    BY ParserFields DEF RInv
  <2> QED BY <2>1 DEF PROTOCAL_MAX_PACKAGE_LENGTH
<1>2. Taken \in Nat
  BY TakenIsNat
<1>3. ASSUME parser'.status \in {"header", "cmd_type", "checksum"}
      PROVE  Taken' = 0 /\ ZeroIndex'
  BY <1>3 DEF Taken, ZeroIndex
<1>4. ASSUME ReceiveHeader(ch) PROVE Taken' = 0 /\ ZeroIndex'
  BY <1>1, <1>3, <1>4, HeaderFields
<1>5. ASSUME ReceiveNoise(ch) PROVE Taken' = 0 /\ ZeroIndex'
  <2>1. parser'.status = "header"
    BY <1>1, <1>5 DEF ReceiveNoise, Parses, ParserType
  <2> QED BY <1>3, <2>1
<1>6. ASSUME ReceiveCmdType(ch) PROVE Taken' = 1 /\ Taken = 0 /\ ZeroIndex'
  <2>1. parser'.status = "length" /\ parser'.bufferIndex = 0 /\ parser.status = "cmd_type"
    BY <1>1, <1>6, CmdTypeFields DEF ReceiveCmdType
  <2> QED BY <2>1 DEF Taken, ZeroIndex
<1>7. ASSUME ReceiveLength(ch) PROVE Taken' = 2 /\ Taken = 1 /\ ZeroIndex'
  <2>1. parser'.status = "cmd" /\ parser'.bufferIndex = parser.bufferIndex /\ parser.status = "length"
    BY <1>1, <1>7, LengthFields DEF ReceiveLength
  <2> QED BY <2>1 DEF Taken, ZeroIndex
<1>8. ASSUME ReceiveCmd(ch) PROVE Taken' \in {0, 3} /\ Taken = 2 /\ ZeroIndex'
  <2>1. /\ parser'.status = IF parser.cmdSize = 2 THEN "checksum" ELSE "data"
        /\ parser'.bufferIndex = parser.bufferIndex /\ parser.status = "cmd"
    BY ZenonT(60), <1>1, <1>8, CmdFields DEF ReceiveCmd
  <2> QED BY <2>1 DEF Taken, ZeroIndex
<1>9. ASSUME ReceiveData(ch) PROVE Taken' \in {0, Taken + 1} /\ ZeroIndex'
  <2>1. /\ parser'.status = IF parser.bufferIndex + 3 = parser.cmdSize THEN "checksum" ELSE "data"
        /\ parser'.bufferIndex = parser.bufferIndex + 1 /\ parser.status = "data"
    BY <1>1, <1>9, DataFields DEF ReceiveData
  <2>2. Taken = parser.bufferIndex + 3
    BY <2>1 DEF Taken
  <2>3. Taken' = IF parser'.status = "checksum" THEN 0 ELSE parser'.bufferIndex + 3
    BY <2>1 DEF Taken
  <2>4. Taken' \in {0, Taken + 1}
    BY <1>1, <2>1, <2>2, <2>3
  <2> QED BY <2>1, <2>4 DEF ZeroIndex
<1>10. ASSUME ReceiveBadCheckSum(ch) \/ ReceiveAck(ch) \/ ReceiveAnswer(ch) \/ ReceiveEvent(ch)
       PROVE  Taken' = 0 /\ ZeroIndex'
  <2>1. \A sum : protocalReset(sum).status = "header"
    BY <1>1 DEF protocalReset, ParserType
  <2>2. parser'.status = "header"
    BY <1>10, <2>1 DEF ReceiveBadCheckSum, ReceiveAck, ReceiveAnswer, ReceiveEvent
  <2> QED BY <1>3, <2>2
<1>11. ASSUME ReceiveRefused(ch) PROVE Taken' = 0 /\ ZeroIndex'
  <2>1. parser'.status = "cmd_type"
    BY <1>1, <1>11 DEF ReceiveRefused, ParserType
  <2> QED BY <1>3, <2>1
<1>12. ASSUME ReceiveBeyond \/ ReceiveOverrun PROVE Taken' = 0 /\ ZeroIndex'
  <2>1. parser'.status = "overrun"
    BY <1>1, <1>12 DEF ReceiveBeyond, ReceiveOverrun, Parses, ParserType
  <2> QED BY <2>1 DEF Taken, ZeroIndex
<1>13. InFrame(ch) => Taken' \in Nat /\ Taken' <= Taken + 1 /\ ZeroIndex'
  BY <1>2, <1>5, <1>6, <1>7, <1>8, <1>9, <1>10, <1>11, <1>12 DEF InFrame
<1>14. Shifted(ch) = headerMagic => ReceiveHeader(ch) \/ ReceiveOverrun
  BY DEF ReceiveChar
<1>15. Shifted(ch) # headerMagic => InFrame(ch) \/ ReceiveOverrun
  BY DEF ReceiveChar, ReceiveHeader
<1> QED BY <1>2, <1>4, <1>12, <1>13, <1>14, <1>15
(* The last byte of an intact header completes it. *)
LEMMA WholeHeaderArrives ==
  ASSUME IInv, Framing, wire # << >>, Unframeable = {},
         Head(wire).pos = 4, Head(wire).frame \notin damaged
  PROVE  Shifted(Head(wire).byte) = headerMagic
<1> SUFFICES ASSUME NEW f, f = Head(wire).frame, NEW m, m = sent[f],
                    NEW ch, ch = Head(wire).byte,
                    NEW h, h = Shifted(ch)
             PROVE  h = headerMagic
  OBVIOUS
<1>1. f \in DOMAIN sent /\ ch = Package(m)[4]
  BY FirstByte DEF IInv, Framing
<1>2. Intact(f) /\ Framable(m) /\ HeaderFollows(m, 4)
  <2>1. Intact(f)
    BY DEF Intact
  <2> QED BY <1>1, <2>1, IntactIsFramable DEF IInv, Framing, Tracks, Follows
<1>3. header \in [1..4 -> Byte] /\ ch \in Byte
  BY WireShrinks DEF IInv, RInv, ReceiverTypeOK
<1>4. h \in [1..4 -> Byte] /\ h[1] = header[2] /\ h[2] = header[3] /\ h[3] = header[4] /\ h[4] = ch
  BY SMTT(30), <1>3, ShiftedIsHeader, AppendedHeader DEF Shifted
<1>5. header[2] = Package(m)[1] /\ header[3] = Package(m)[2] /\ header[4] = Package(m)[3]
  BY <1>2 DEF HeaderFollows
<1>6. \A i \in 1..4 : Package(m)[i] = headerMagic[i]
  BY <1>2, PackageBytes DEF Framable
<1>7. \A i \in 1..4 : h[i] = headerMagic[i]
  BY <1>1, <1>4, <1>5, <1>6
<1> QED BY <1>4, <1>7, MagicIsFour

(* The sums of the budget *)
LEMMA BudgetSums ==
  /\ \A t, t1, r, r1 \in Nat : t + r <= 35 /\ t1 <= t + 1 /\ r = r1 + 1 => t1 + r1 <= 35
  /\ \A t, t1, r1, p \in Nat, n \in 8..32 :
       t < p /\ t1 <= t + 1 /\ r1 = n - p + 3 => t1 + r1 <= 35
  /\ \A n \in 8..32, r1 \in Nat : r1 = n - 1 => 0 + r1 <= 35
  /\ \A i, r \in Nat : i + 3 + r <= 35 /\ r > 0 => i \in 0..31
  /\ \A r, r1 \in Nat : r > 3 /\ r1 = r - 1 => r = r1 + 1
  /\ 0..(PROTOCAL_MAX_PACKAGE_LENGTH - 1) = 0..31 /\ 0..PROTOCAL_MAX_PACKAGE_LENGTH \subseteq Nat
  /\ \A p, r, r1 \in Nat : p < 4 /\ r = 4 - p /\ r1 = 4 - (p + 1) => r = r1 + 1
<1>1. \A t, t1, r, r1 \in Nat : t + r <= 35 /\ t1 <= t + 1 /\ r = r1 + 1 => t1 + r1 <= 35
  OBVIOUS
<1>2. \A t, t1, r1, p \in Nat, n \in 8..32 :
        t < p /\ t1 <= t + 1 /\ r1 = n - p + 3 => t1 + r1 <= 35
  OBVIOUS
<1>3. \A n \in 8..32, r1 \in Nat : r1 = n - 1 => 0 + r1 <= 35
  OBVIOUS
<1>4. \A i, r \in Nat : i + 3 + r <= 35 /\ r > 0 => i \in 0..31
  OBVIOUS
<1>5. \A r, r1 \in Nat : r > 3 /\ r1 = r - 1 => r = r1 + 1
  OBVIOUS
<1>6. \A p, r, r1 \in Nat : p < 4 /\ r = 4 - p /\ r1 = 4 - (p + 1) => r = r1 + 1
  OBVIOUS
<1>7. 0..(PROTOCAL_MAX_PACKAGE_LENGTH - 1) = 0..31 /\ 0..PROTOCAL_MAX_PACKAGE_LENGTH \subseteq Nat
  BY DEF PROTOCAL_MAX_PACKAGE_LENGTH
<1> QED BY <1>1, <1>2, <1>3, <1>4, <1>5, <1>6, <1>7

(* What one fault leaves of the buffer *)
LEMMA FaultLeavesRoom ==
  ASSUME IInv, Framing, Budget, wire # << >>, wire' = Tail(wire), sent' = sent,
         faults = 0, faults' = 1, damaged' = damaged \cup {Head(wire).frame},
         Taken' \in Nat, Taken' <= Taken + 1, ZeroIndex'
  PROVE  Budget'
<1> SUFFICES ASSUME NEW f, f = Head(wire).frame, NEW p, p = Head(wire).pos,
                    NEW n, n = Size(f), NEW t, t = Taken, NEW t1, t1 = Taken',
                    NEW r, r = Rest, NEW r1, r1 = Rest'
             PROVE  Budget'
  OBVIOUS
<1>1. damaged = {} /\ Apart /\ Between /\ t + r <= 35
  BY DEF Budget, PROTOCAL_MAX_PACKAGE_LENGTH
<1>2. /\ r \in Nat /\ r1 \in Nat /\ p \in 1..n /\ n \in 8..32
      /\ p > 4 => r1 = r - 1
      /\ r1 = n - p + 3
  BY <1>1, RestFalls DEF PROTOCAL_MAX_PACKAGE_LENGTH
<1>3. t \in Nat /\ t1 \in Nat /\ t1 <= t + 1
  BY TakenIsNat DEF IInv
<1>4. p < 5 => t < p
  BY SMTT(30), <1>2 DEF Budget, Between, Taken
<1>5. t1 + r1 <= 35
  <2>1. CASE p > 4
    <3>1. r = r1 + 1
      BY <1>2, <2>1
    <3> QED BY <1>1, <1>2, <1>3, <3>1, BudgetSums
  <2>2. CASE p < 5
    <3>1. p \in Nat
      BY <1>2
    <3> QED BY <1>2, <1>3, <1>4, <2>2, <3>1, BudgetSums
  <2> QED BY <1>2, <2>1, <2>2
<1>6. Apart'
  BY <1>1, ApartTail
<1>7. Between' /\ (faults = 0 => damaged = {})'
  BY DEF Between
<1> QED BY <1>5, <1>6, <1>7 DEF Budget, PROTOCAL_MAX_PACKAGE_LENGTH

(* A whole byte keeps the parser between the frames, or moves it into one. *)
LEMMA WholeKeepsBetween ==
  ASSUME IInv, InBuffer, Framing, Budget, Unframeable = {}, ArriveWhole
  PROVE  Between'
<1> SUFFICES ASSUME faults = 0, NEW f, f = Head(wire).frame, NEW p, p = Head(wire).pos,
                    NEW m, m = sent[f], NEW ch, ch = Head(wire).byte
             PROVE  Between'
  BY DEF Between, ArriveWhole
<1>1. /\ f \in DOMAIN sent /\ p \in 1..Size(f) /\ Size(f) \in Nat /\ ch = Package(m)[p]
      /\ p < Size(f) => /\ Tail(wire) # << >>
                        /\ Head(Tail(wire)).frame = f /\ Head(Tail(wire)).pos = p + 1
      /\ p = Size(f) /\ Tail(wire) # << >> => Head(Tail(wire)).pos = 1
  BY FirstByte DEF IInv, Framing, ArriveWhole
<1>2. wire # << >> /\ wire' = Tail(wire) /\ ReceiveChar(ch)
  BY DEF ArriveWhole, Arrive
<1>3. Intact(f) /\ Framable(m) /\ Follows(m, p)
  <2>1. Intact(f)
    BY <1>1 DEF Budget, Intact
  <2> QED BY <1>1, <1>2, <2>1, IntactIsFramable DEF IInv, Framing, Tracks
<1>4. Size(f) \in 8..32 /\ Size(f) = Len(m.data) + 8
  BY <1>1, SizeBound DEF IInv, Size, PROTOCAL_MAX_PACKAGE_LENGTH
<1>5. parser \in ParserType /\ header \in [1..4 -> Byte] /\ ch \in Byte
  BY <1>2, ParserFields, WireShrinks DEF IInv, RInv, ReceiverTypeOK
<1>6. CASE p = Size(f)
  <2>1. \/ outcome' = "no_resource"
        \/ outcome' \in {"pushed", "acked", "answered"}
    BY <1>1, <1>2, <1>3, <1>4, <1>6, ReceiveCompletes DEF IInv
  <2>2. ReceiveAck(ch) \/ ReceiveAnswer(ch) \/ ReceiveEvent(ch) \/ ReceiveRefused(ch)
    BY <1>2, <2>1 DEF ReceiveChar, ReceiveHeader, InFrame, ReceiveNoise, ReceiveCmdType,
       ReceiveLength, ReceiveCmd, ReceiveData, ReceiveBeyond, ReceiveOverrun,
       ReceiveBadCheckSum, Parses
  <2>3. \A sum : protocalReset(sum).status = "header"
    BY <1>5 DEF protocalReset, ParserType
  <2>4. parser'.status \in {"header", "cmd_type"}
    <3>1. ReceiveRefused(ch) => parser'.status = "cmd_type"
      BY <1>5 DEF ReceiveRefused, ParserType
    <3> QED BY <2>2, <2>3, <3>1 DEF ReceiveAck, ReceiveAnswer, ReceiveEvent
  <2>5. wire' # << >> => Head(wire').pos = 1
    BY <1>1, <1>2, <1>6
  <2> QED BY <2>4, <2>5 DEF Between
<1>7. CASE p # Size(f) /\ p > 3
  <2>1. wire' # << >> /\ Head(wire').pos = p + 1
    BY <1>1, <1>2, <1>7
  <2>2. ~ (p + 1 < 5)
    BY <1>1, <1>7
  <2> QED BY <2>1, <2>2 DEF Between
<1>8. CASE p < 4
  <2>1. wire' # << >> /\ Head(wire').pos = p + 1
    BY SMTT(30), <1>1, <1>2, <1>4, <1>8
  <2>2. ch = headerMagic[p]
    <3>1. p \in 1..4
      BY SMTT(30), <1>1, <1>8
    <3> QED BY <1>1, <1>3, <3>1, PackageBytes DEF Framable
  <2>3. ch # 114 /\ (p = 2 => ch = 102)
    <3>1. p = 1 \/ p = 2 \/ p = 3
      BY SMTT(30), <1>1, <1>4, <1>8
    <3> QED BY <2>2, <3>1 DEF headerMagic
  <2>4. InFrame(ch)
    <3>1. Shifted(ch)[4] = ch
      BY <1>5, AppendedHeader DEF Shifted
    <3>2. headerMagic[4] = 114
      BY DEF headerMagic
    <3>3. Shifted(ch) # headerMagic
      BY <2>3, <3>1, <3>2
    <3> QED BY <1>2, <3>3 DEF ReceiveChar, ReceiveHeader, ReceiveOverrun, InBuffer
  <2>5. \/ parser.status = "header"
        \/ p = 1 /\ parser.status = "cmd_type"
        \/ p = 2 /\ parser.status = "length"
        \/ p = 3 /\ parser.status = "cmd" /\ parser.cmdSize = 102
    BY <1>1, <1>2, <1>8 DEF Budget, Between
  <2>6. CASE parser.status = "header"
    <3>1. ReceiveNoise(ch)
      BY <2>4, <2>6 DEF InFrame, ReceiveNoise, ReceiveCmdType, ReceiveLength, ReceiveCmd,
         ReceiveData, ReceiveBeyond, ReceiveBadCheckSum, ReceiveAck, ReceiveAnswer,
         ReceiveEvent, ReceiveRefused, GoodCheckSum
    <3>2. parser'.status = "header"
      BY <1>5, <2>6, <3>1 DEF ReceiveNoise, Parses, ParserType
    <3> QED BY <3>2 DEF Between
  <2>7. CASE p = 1 /\ parser.status = "cmd_type"
    <3>1. parser'.status = "length"
      BY <1>5, <2>4, <2>7, StepOfStatus, CmdTypeFields
    <3> QED BY <2>1, <2>7, <3>1 DEF Between
  <2>8. CASE p = 2 /\ parser.status = "length"
    <3>1. parser'.status = "cmd" /\ parser'.cmdSize = 102
      BY <1>5, <2>3, <2>4, <2>8, StepOfStatus, LengthFields
    <3> QED BY <2>1, <2>8, <3>1 DEF Between
  <2>9. CASE p = 3 /\ parser.status = "cmd" /\ parser.cmdSize = 102
    <3>1. parser.bufferIndex = 0
      BY <2>9 DEF Budget, ZeroIndex
    <3>2. parser'.status = "data" /\ parser'.bufferIndex = 0
      BY <1>5, <2>4, <2>9, <3>1, StepOfStatus, CmdFields
    <3> QED BY <2>1, <2>9, <3>2 DEF Between
  <2> QED BY <2>5, <2>6, <2>7, <2>8, <2>9
<1>9. p = Size(f) \/ p < 4 \/ (p # Size(f) /\ p > 3)
  BY <1>1, <1>4
<1> QED BY <1>6, <1>7, <1>8, <1>9

LEMMA WholeKeepsBudget ==
  ASSUME IInv, InBuffer, Framing, Budget, Unframeable = {}, ArriveWhole
  PROVE  Budget'
<1> SUFFICES ASSUME NEW f, f = Head(wire).frame, NEW p, p = Head(wire).pos,
                    NEW n, n = Size(f), NEW t, t = Taken, NEW t1, t1 = Taken',
                    NEW r, r = Rest, NEW r1, r1 = Rest', NEW ch, ch = Head(wire).byte
             PROVE  Budget'
  OBVIOUS
<1>1. /\ wire # << >> /\ wire' = Tail(wire) /\ sent' = sent /\ damaged' = damaged
      /\ faults' = faults /\ ReceiveChar(ch)
  BY DEF ArriveWhole, Arrive
<1>2. Apart /\ t + r <= 35 /\ ZeroIndex /\ ch \in Byte
  BY <1>1, WireShrinks DEF Budget, PROTOCAL_MAX_PACKAGE_LENGTH, IInv
<1>3. /\ r \in Nat /\ r1 \in Nat /\ p \in 1..n /\ n \in 8..32
      /\ p > 4 \/ f \in damaged => r > 3 /\ r1 = r - 1
      /\ p < 5 /\ f \notin damaged => r = 4 - p
      /\ p < 4 /\ f \notin damaged => r1 = 4 - (p + 1)
      /\ p = 4 /\ f \notin damaged => r1 = n - 1
  <2>1. /\ Rest \in Nat /\ Rest' \in Nat /\ p \in 1..Size(f)
        /\ Size(f) \in 8..PROTOCAL_MAX_PACKAGE_LENGTH
        /\ p > 4 \/ f \in damaged => Rest > 3 /\ Rest' = Rest - 1
        /\ p < 5 /\ f \notin damaged => Rest = 4 - p
        /\ p < 4 /\ f \notin damaged' => Rest' = 4 - (p + 1)
        /\ p = 4 /\ f \notin damaged' => Rest' = Size(f) - 1
    BY <1>1, <1>2, RestFalls
  <2> QED BY <1>1, <2>1 DEF PROTOCAL_MAX_PACKAGE_LENGTH
<1>4. /\ t \in Nat /\ t1 \in Nat /\ t1 <= t + 1 /\ ZeroIndex'
      /\ Shifted(ch) = headerMagic => t1 = 0
  BY <1>1, <1>2, TakenGrows DEF IInv
<1>5. t1 + r1 <= 35
  <2>1. CASE p > 4 \/ f \in damaged
    <3>1. r = r1 + 1
      BY <1>3, <2>1, BudgetSums
    <3> QED BY <1>2, <1>3, <1>4, <3>1, BudgetSums
  <2>2. CASE p < 4 /\ f \notin damaged
    <3>0. p \in Nat /\ p < 4 /\ p < 5
      BY <1>3, <2>2
    <3>1. r = r1 + 1
      BY ZenonT(60), <1>3, <2>2, <3>0, BudgetSums
    <3> QED BY <1>2, <1>3, <1>4, <3>1, BudgetSums
  <2>3. CASE p = 4 /\ f \notin damaged
    <3>1. Shifted(ch) = headerMagic
      BY <1>1, <2>3, WholeHeaderArrives
    <3>2. r1 = n - 1 /\ t1 = 0
      BY <1>3, <1>4, <2>3, <3>1
    <3> QED BY <1>3, <3>2, BudgetSums
  <2> QED BY <1>3, <2>1, <2>2, <2>3
<1>6. Apart'
  BY <1>1, <1>2, ApartTail
<1>7. Between'
  BY WholeKeepsBetween
<1>8. (faults = 0 => damaged = {})'
  BY <1>1 DEF Budget
<1> QED BY <1>4, <1>5, <1>6, <1>7, <1>8 DEF Budget, PROTOCAL_MAX_PACKAGE_LENGTH

LEMMA SendKeepsBudget ==
  ASSUME IInv, Framing, Budget, NEW m \in Messages, Send(m)
  PROVE  Budget'
<1>1. UNCHANGED <<parser, faults, damaged>>
  BY DEF Send, receiverVars
<1>2. /\ wire' # << >>
      /\ wire = << >> => Head(wire').pos = 1 /\ Head(wire').frame \notin DOMAIN sent
      /\ wire # << >> => Head(wire') = Head(wire) /\ Head(wire).frame \in DOMAIN sent
  BY SendKeepsHead
<1>3. damaged \subseteq DOMAIN sent
  BY DEF IInv, LineInv
<1>4. Rest' = Rest
  <2>1. CASE wire = << >>
    BY <1>1, <1>2, <1>3, <2>1 DEF Rest
  <2>2. CASE wire # << >>
    <3>1. sent'[Head(wire).frame] = sent[Head(wire).frame]
      BY <1>2, <2>2 DEF Send, IInv, LineInv
    <3> QED BY <1>1, <1>2, <2>2, <3>1 DEF Rest, Size
  <2> QED BY <2>1, <2>2
<1>5. Taken' = Taken /\ (ZeroIndex' <=> ZeroIndex)
  BY <1>1 DEF Taken, ZeroIndex
<1>6. Between'
  BY <1>1, <1>2 DEF Budget, Between
<1>7. Apart'
  BY ApartSend DEF Budget
<1> QED BY <1>1, <1>4, <1>5, <1>6, <1>7 DEF Budget

LEMMA NextKeepsBudget ==
  ASSUME IInv, InBuffer, Framing, Budget, [Next]_vars,
         Unframeable = {}, MaxFaults <= 1
  PROVE  Budget'
<1>1. ASSUME NEW m \in Messages, Send(m) PROVE Budget'
  BY <1>1, SendKeepsBudget
<1>2. faults \in Nat /\ MaxFaults \in Nat /\ RInv /\ ZeroIndex
  BY LinkAssumption DEF IInv, LineInv, Budget
<1>3. ASSUME Lose PROVE Budget'
  <2>1. /\ wire # << >> /\ wire' = Tail(wire) /\ sent' = sent /\ faults = 0 /\ faults' = 1
        /\ damaged' = damaged \cup {Head(wire).frame} /\ parser' = parser
    BY <1>2, <1>3 DEF Lose, receiverVars
  <2>2. Taken' = Taken /\ ZeroIndex' /\ Taken \in Nat
    <3>1. Taken' = Taken
      BY <2>1 DEF Taken
    <3> QED BY <1>2, <2>1, <3>1, TakenIsNat DEF ZeroIndex
  <2>3. Taken' \in Nat /\ Taken' <= Taken + 1
    BY <2>2
  <2> QED BY <2>1, <2>2, <2>3, FaultLeavesRoom
<1>4. ASSUME ArriveWhole PROVE Budget'
  BY <1>4, WholeKeepsBudget
<1>5. ASSUME NEW b \in NoiseBytes, ArriveChanged(b) PROVE Budget'
  <2>1. /\ wire # << >> /\ wire' = Tail(wire) /\ sent' = sent /\ faults = 0 /\ faults' = 1
        /\ damaged' = damaged \cup {Head(wire).frame} /\ ReceiveChar(b) /\ b \in Byte
    BY <1>2, <1>5, LinkAssumption DEF ArriveChanged, Arrive
  <2>2. Taken' \in Nat /\ Taken' <= Taken + 1 /\ ZeroIndex'
    BY <1>2, <2>1, TakenGrows
  <2> QED BY <2>1, <2>2, FaultLeavesRoom
<1>6. ASSUME UNCHANGED <<header, parser, wire, historyVars>> PROVE Budget'
  <2>1. UNCHANGED <<parser, wire, sent, faults, damaged>>
    BY <1>6 DEF historyVars
  <2>2. Apart' /\ ZeroIndex' /\ Between'
    BY <2>1 DEF Budget, Apart, ZeroIndex, Between
  <2>3. Taken' = Taken /\ Rest' = Rest
    BY <2>1 DEF Taken, Rest, Size
  <2> QED BY <2>1, <2>2, <2>3 DEF Budget
<1>7. ASSUME Await \/ Dispatch \/ Done \/ UNCHANGED vars PROVE Budget'
  BY <1>6, <1>7 DEF Await, Dispatch, Done, vars, receiverVars
<1> QED BY <1>1, <1>3, <1>4, <1>5, <1>7 DEF Next

LEMMA StartsInBudget == Init => Budget
<1> SUFFICES ASSUME Init PROVE Budget
  OBVIOUS
<1>1. /\ wire = << >> /\ DOMAIN wire = {} /\ damaged = {} /\ parser.status = "header"
  BY DEF Init, ReceiverInit
<1>2. Taken = 0 /\ Rest = 3
  BY <1>1 DEF Taken, Rest
<1> QED BY <1>1, <1>2 DEF Budget, Apart, ZeroIndex, Between, PROTOCAL_MAX_PACKAGE_LENGTH

(* There is room for every byte that can come: the one that was sent or,
   without a fault so far, another. *)
LEMMA RoomForNext ==
  ASSUME IInv, Framing, Budget, Unframeable = {}, parser.status = "data", wire # << >>,
         NEW b, b = Head(wire).byte \/ faults = 0, Shifted(b) # headerMagic
  PROVE  parser.bufferIndex \in BufferIndices
<1> SUFFICES ASSUME NEW f, f = Head(wire).frame, NEW p, p = Head(wire).pos,
                    NEW r, r = Rest, NEW i, i = parser.bufferIndex
             PROVE  i \in BufferIndices
  OBVIOUS
<1>1. i + 3 + r <= 35 /\ i \in Nat /\ BufferIndices = 0..31
  <2>1. i \in 0..PROTOCAL_MAX_PACKAGE_LENGTH
    BY ParserFields DEF IInv, RInv
  <2>2. i \in Nat /\ BufferIndices = 0..31
    BY <2>1, BudgetSums, Zenon DEF BufferIndices
  <2>3. Taken = i + 3
    BY DEF Taken
  <2>4. Taken + r <= 35
    BY DEF Budget, PROTOCAL_MAX_PACKAGE_LENGTH
  <2> QED BY <2>2, <2>3, <2>4
<1>2. /\ p \in 1..Size(f) /\ Size(f) \in 8..32
      /\ r = IF p < 5 /\ f \notin damaged THEN 4 - p ELSE Size(f) - p + 4
  <2>1. f \in DOMAIN sent /\ p \in 1..Size(f)
    BY FirstByte DEF IInv, Framing
  <2>2. Size(f) \in 8..32
    BY <2>1, SizeBound DEF IInv, PROTOCAL_MAX_PACKAGE_LENGTH
  <2> QED BY <2>1, <2>2 DEF Rest
<1>3. CASE p > 4 \/ f \in damaged
  <2> DEFINE n == Size(f)
  <2>1. r = n - p + 4 /\ p \in 1..n /\ n \in 8..32
    BY <1>2, <1>3
  <2> HIDE DEF n
  <2>2. r \in Nat /\ r > 0
    BY <2>1
  <2> QED BY <1>1, <2>2, BudgetSums
<1>4. CASE p < 4 /\ f \notin damaged
  <2>1. r = 4 - p /\ p \in 1..3
    BY <1>2, <1>4
  <2>2. r \in Nat /\ r > 0
    BY <2>1
  <2> QED BY <1>1, <2>2, BudgetSums
<1>5. CASE p = 4 /\ f \notin damaged
  <2>1. Shifted(Head(wire).byte) = headerMagic
    BY <1>5, WholeHeaderArrives
  <2>2. faults = 0
    BY <2>1
  <2>3. i = 0
    BY <1>5, <2>2 DEF Budget, Between
  <2> QED BY <1>1, <2>3
<1> QED BY <1>2, <1>3, <1>4, <1>5

LEMMA NextKeepsRoom ==
  ASSUME IInv, InBuffer, Framing, Budget, [Next]_vars,
         Unframeable = {}, MaxFaults <= 1
  PROVE  InBuffer'
<1>1. ASSUME NEW b, Arrive(b), b = Head(wire).byte \/ faults = 0
      PROVE  InBuffer'
  <2> SUFFICES ASSUME parser'.status = "overrun" PROVE FALSE
    BY DEF InBuffer
  <2>1. ReceiveChar(b) /\ wire # << >>
    BY <1>1 DEF Arrive
  <2>2. parser \in ParserType
    BY ParserFields DEF IInv, RInv
  <2>3. ReceiveBeyond /\ Shifted(b) # headerMagic
    BY <2>1, <2>2, OverrunBegins
  <2> QED BY <1>1, <2>1, <2>3, RoomForNext DEF ReceiveBeyond
<1>2. ASSUME ArriveWhole PROVE InBuffer'
  BY <1>1, <1>2 DEF ArriveWhole
<1>3. ASSUME NEW b \in NoiseBytes, ArriveChanged(b) PROVE InBuffer'
  <2>1. faults = 0
    BY <1>3, LinkAssumption DEF ArriveChanged, IInv, LineInv
  <2> QED BY <1>1, <1>3, <2>1 DEF ArriveChanged
<1>4. ASSUME parser' = parser PROVE InBuffer'
  BY <1>4 DEF InBuffer
<1> QED BY <1>2, <1>3, <1>4
        DEF Next, Send, Lose, Await, Dispatch, Done, vars, receiverVars

RoomInv == IInv /\ InBuffer /\ Framing /\ Budget

LEMMA StartsWithRoom == Init => RoomInv
<1>1. Init => InBuffer
  BY DEF Init, ReceiverInit, InBuffer
<1> QED BY <1>1, StartHolds, StartsFramed, StartsInBudget DEF RoomInv

LEMMA NextKeepsRoomInv ==
  ASSUME Unframeable = {}, MaxFaults <= 1, RoomInv, [Next]_vars
  PROVE  RoomInv'
  BY NextHolds, NextKeepsFraming, NextKeepsBudget, NextKeepsRoom DEF RoomInv

(* A byte that is lost or changed makes the code read the next frame as data,
   but the header of that one, or of the one behind it, ends this before the
   32 bytes of the buffer are full: with at most one such byte, and no message
   that holds the header pattern, whatever the messages are and however many,
   the unchecked store in protocalUartReceiveChar stays within the buffer. *)
THEOREM OneFaultNeverOverruns ==
  ASSUME Unframeable = {}, MaxFaults <= 1
  PROVE  Spec => []NeverOverruns
<1>1. Init => RoomInv
  BY StartsWithRoom
<1>2. RoomInv /\ [Next]_vars => RoomInv'
  BY NextKeepsRoomInv
<1>3. RoomInv => NeverOverruns
  BY DEF RoomInv, NeverOverruns
<1> QED BY <1>1, <1>2, <1>3, PTL DEF Spec

(* So with one byte lost or changed into any other every frame that arrives
   whole is taken with its own contents, or refused by a full pool. *)
THEOREM OneFaultIntactFramesArrive ==
  ASSUME Unframeable = {}, MaxFaults <= 1
  PROVE  Spec => []IntactFramesArrive
<1>1. Init => RoomInv
  BY StartsWithRoom
<1>2. RoomInv /\ [Next]_vars => RoomInv'
  BY NextKeepsRoomInv
<1>3. RoomInv => IntactFramesArrive
  BY DEF RoomInv, Framing, Arrived, Intact, IntactFramesArrive
<1> QED BY <1>1, <1>2, <1>3, PTL DEF Spec
=============================================================================
