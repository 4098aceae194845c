---------------------------- MODULE FrameReceiver ----------------------------
(***************************************************************************)
(* protocalUartReceiveChar of protocal/protocal.c: the state machine that  *)
(* turns the characters of the UART into events, acknowledgements and      *)
(* answers.  ReceiveChar(ch) is one call; each of its cases is an action.  *)
(* The pool and the list behind protocalPushEvent are a bounded queue      *)
(* here, which is what EventPipeline shows them to be.                     *)
(***************************************************************************)
EXTENDS Frames

CONSTANTS
    EventNum        \* PROTOCAL_MAX_EVENT_NUM

ASSUME EventNumAssumption == EventNum \in Nat \ {0}

VARIABLES
    header,     \* the last four characters, oldest first
    parser,     \* protocalStatus, cmdType, cmdSize, cmd, checkSum, buffer, bufferIndex
    reply,      \* waitingStat, the set of its bits that are set; replyErr, replyLen
    events,     \* what is pushed and not dispatched, oldest first
    outcome     \* what the last character completed

receiverVars == <<header, parser, reply, events, outcome>>

(* protocalStatus, and "overrun" once a byte was stored behind buffer *)
Status == {"header", "cmd_type", "length", "cmd", "data", "checksum", "overrun"}
WaitingBits == {"ack", "query"}
Outcome == {"none", "bad_checksum", "acked", "answered", "pushed", "no_resource"}

(* buffer[i] of C is buffer[i] here, i from 0. *)
BufferIndices == 0..(PROTOCAL_MAX_PACKAGE_LENGTH - 1)

(* protocalInit; cmd is CMD_ID_INVALID, everything else is zero. *)
ReceiverInit ==
    /\ header = <<0, 0, 0, 0>>
    /\ parser = [status |-> "header", cmdType |-> 0, cmdSize |-> 0, cmd |-> CMD_ID_INVALID,
                 checkSum |-> 0, buffer |-> [i \in BufferIndices |-> 0], bufferIndex |-> 0]
    /\ reply = [waitingStat |-> {}, replyErr |-> 0, replyLen |-> 0]
    /\ events = << >>
    /\ outcome = "none"

-----------------------------------------------------------------------------
(* A character that completes nothing changes the parser only. *)
Parses(parser1) ==
    /\ parser' = parser1
    /\ outcome' = "none"
    /\ UNCHANGED <<reply, events>>

(* protocalReset, before the sum gets the value it has after the call *)
protocalReset(sum) == [parser EXCEPT !.status = "header", !.bufferIndex = 0,
                                     !.cmd = CMD_ID_INVALID, !.checkSum = sum]

(* protocalCheckHeader shifts every character in, whatever the status. *)
Shifted(ch) == Append(Tail(header), ch)

ReceiveHeader(ch) ==
    /\ parser.status # "overrun"
    /\ Shifted(ch) = headerMagic
    /\ Parses([parser EXCEPT !.status = "cmd_type", !.bufferIndex = 0, !.checkSum = 0,
                             !.cmd = CMD_ID_INVALID])

(* Mutant: the sum is kept in a type wider than the byte it is compared with. *)
AddWide(ch) == parser.checkSum + ch

(* The sum covers every character that does not leave the function early. *)
Added(ch) == (parser.checkSum + ch) % 256

ReceiveNoise(ch) ==
    /\ parser.status = "header"
    /\ Parses([parser EXCEPT !.checkSum = Added(ch)])

ReceiveCmdType(ch) ==
    /\ parser.status = "cmd_type"
    /\ Parses([parser EXCEPT !.status = "length", !.cmdType = ch, !.checkSum = ch,
                             !.bufferIndex = 0, !.cmd = CMD_ID_INVALID])

ReceiveLength(ch) ==
    /\ parser.status = "length"
    /\ Parses([parser EXCEPT !.status = "cmd", !.cmdSize = ch, !.checkSum = Added(ch)])

ReceiveCmd(ch) ==
    /\ parser.status = "cmd"
    /\ Parses([parser EXCEPT !.status = IF parser.cmdSize = 2 THEN "checksum" ELSE "data",
                             !.cmd = ch, !.checkSum = Added(ch)])

ReceiveData(ch) ==
    /\ parser.status = "data"
    /\ parser.bufferIndex \in BufferIndices
    /\ Parses([parser EXCEPT !.buffer[parser.bufferIndex] = ch,
                             !.bufferIndex = parser.bufferIndex + 1,
                             !.status = IF parser.bufferIndex + 3 = parser.cmdSize
                                        THEN "checksum" ELSE "data",
                             !.checkSum = Added(ch)])

(* Nothing compares bufferIndex with the size of buffer: the byte goes over
   cmdSize, the next ones over bufferIndex, package, packageSize, header and
   eventPool.  What the receiver makes of that is not followed. *)
ReceiveBeyond ==
    /\ parser.status = "data"
    /\ parser.bufferIndex \notin BufferIndices
    /\ Parses([parser EXCEPT !.status = "overrun"])

ReceiveOverrun == parser.status = "overrun" /\ Parses(parser)

-----------------------------------------------------------------------------
(* PROTOCAL_STATUS_CHECKSUM.  protocalAck is called with ret = 0 there and
   returns at once, so nothing is sent. *)

ReceiveBadCheckSum(ch) ==
    /\ parser.status = "checksum"
    /\ ch # parser.checkSum
    /\ parser' = protocalReset(0)
    /\ outcome' = "bad_checksum"
    /\ UNCHANGED <<reply, events>>

(* Mutant: the checksum is read and not compared. *)
AnyCheckSum(ch) == parser.status = "checksum"

GoodCheckSum(ch) == parser.status = "checksum" /\ ch = parser.checkSum

TakesAck == "ack" \in reply.waitingStat /\ parser.cmdType = CMD_TYPE_ACK
TakesAnswer == ~ TakesAck /\ "query" \in reply.waitingStat /\ parser.cmdType = CMD_TYPE_SET

ReceiveAck(ch) ==
    /\ GoodCheckSum(ch)
    /\ TakesAck
    /\ reply' = [reply EXCEPT !.waitingStat = @ \ {"ack"}, !.replyErr = parser.buffer[0]]
    /\ parser' = protocalReset(ch)
    /\ outcome' = "acked"
    /\ UNCHANGED events

ReceiveAnswer(ch) ==
    /\ GoodCheckSum(ch)
    /\ TakesAnswer
    /\ reply' = [reply EXCEPT !.waitingStat = @ \ {"query"}, !.replyLen = parser.bufferIndex]
    /\ parser' = protocalReset(ch)
    /\ outcome' = "answered"
    /\ UNCHANGED events

Copied(len) == [i \in 1..len |-> parser.buffer[i - 1]]
Least(a, b) == IF a < b THEN a ELSE b

(* Mutant: as many bytes are copied as the length field counts. *)
ReceivedBySize == [type |-> parser.cmdType, cmd |-> parser.cmd,
                   data |-> Copied(Least(parser.cmdSize, PROTOCAL_MAX_DATA_LENGTH))]

(* What protocalPushEvent copies out of the shared buffer. *)
Received == [type |-> parser.cmdType, cmd |-> parser.cmd,
             data |-> Copied(Least(parser.bufferIndex, PROTOCAL_MAX_DATA_LENGTH))]

ReceiveEvent(ch) ==
    /\ GoodCheckSum(ch)
    /\ ~ TakesAck /\ ~ TakesAnswer
    /\ Len(events) < EventNum
    /\ events' = Append(events, Received)
    /\ parser' = protocalReset(ch)
    /\ outcome' = "pushed"
    /\ UNCHANGED reply

(* Without a free event the function returns before protocalReset, with the
   status already set for the type of another frame. *)
ReceiveRefused(ch) ==
    /\ GoodCheckSum(ch)
    /\ ~ TakesAck /\ ~ TakesAnswer
    /\ Len(events) = EventNum
    /\ parser' = [parser EXCEPT !.status = "cmd_type"]
    /\ outcome' = "no_resource"
    /\ UNCHANGED <<reply, events>>

InFrame(ch) ==
    \/ ReceiveNoise(ch) \/ ReceiveCmdType(ch) \/ ReceiveLength(ch) \/ ReceiveCmd(ch)
    \/ ReceiveData(ch) \/ ReceiveBeyond \/ ReceiveBadCheckSum(ch) \/ ReceiveAck(ch) \/ ReceiveAnswer(ch)
    \/ ReceiveEvent(ch) \/ ReceiveRefused(ch)

(* Mutant: the header is not looked for inside the data of a frame. *)
ReceiveCharTrustsLength(ch) ==
    /\ header' = Shifted(ch)
    /\ \/ parser.status # "data" /\ ReceiveHeader(ch)
       \/ parser.status = "data" /\ InFrame(ch)
       \/ parser.status # "data" /\ Shifted(ch) # headerMagic /\ InFrame(ch)
       \/ ReceiveOverrun

(* Mutant: it is looked for between frames only; a refused frame leaves the
   status inside one. *)
ReceiveCharBetweenFrames(ch) ==
    /\ header' = Shifted(ch)
    /\ \/ parser.status = "header" /\ ReceiveHeader(ch)
       \/ parser.status # "header" /\ InFrame(ch)
       \/ Shifted(ch) # headerMagic /\ InFrame(ch)
       \/ ReceiveOverrun

ReceiveChar(ch) ==
    /\ header' = Shifted(ch)
    /\ \/ ReceiveHeader(ch)
       \/ Shifted(ch) # headerMagic /\ InFrame(ch)
       \/ ReceiveOverrun

-----------------------------------------------------------------------------

(* Every field keeps to its C type, the index to buffer or one beyond. *)
ReceiverTypeOK ==
    /\ header \in [1..4 -> Byte]
    /\ parser \in [status : Status, cmdType : Byte, cmdSize : Byte, cmd : Byte,
                   checkSum : Byte, buffer : [BufferIndices -> Byte],
                   bufferIndex : 0..PROTOCAL_MAX_PACKAGE_LENGTH]
    /\ reply \in [waitingStat : SUBSET WaitingBits, replyErr : Byte, replyLen : Byte]
    /\ Len(events) <= EventNum
    /\ outcome \in Outcome
=============================================================================
