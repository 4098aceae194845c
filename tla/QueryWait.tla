----------------------------- MODULE QueryWait -----------------------------
(***************************************************************************)
(* protocalApiQueryWait of the shell thread, with protocalSendCmdWait in   *)
(* it, against the uart thread that receives the acknowledgement and the   *)
(* answer.  The two threads share waitingStat, replyErr, replyLen, buffer  *)
(* and the state of the parser without a lock, and RTX switches between    *)
(* them anywhere: a read and the write that depends on it are two steps.   *)
(*                                                                         *)
(* A frame arrives in three parts, because protocalReset of the shell can  *)
(* come between them: the header, what follows it, and the checksum.       *)
(* FrameReceiver models the characters, and damage.  The peer sends what   *)
(* it likes: acknowledgements and settings nobody asked for are legal.     *)
(* waitingCmd is left out: it is written and never read.                   *)
(***************************************************************************)
EXTENDS Naturals, Sequences

CONSTANTS
    PeerFrames,     \* records [type, cmd, data] the peer may send
    ReplySize,      \* len: the room the caller gives for the reply
    WaitTimes,      \* PROTOCAL_WAIT_TIMES
    BufferSize,     \* bound: bytes of data in a frame
    MaxFrames       \* bound: frames that arrive

ASSUME QueryAssumption ==
    /\ {ReplySize, WaitTimes, BufferSize, MaxFrames} \subseteq Nat
    /\ BufferSize >= 1
    /\ \A f \in PeerFrames :
        f.cmd \in 0..255 /\ f.data \in Seq(0..255) /\ Len(f.data) <= BufferSize

CMD_ID_INVALID == 255
WaitingBits == {"ack", "query"}

VARIABLES
    reply,      \* waitingStat, replyErr, replyLen
    parser,     \* status, cmd, buffer, bufferIndex
    uart,       \* uart thread: where it is, the frame, the waitingStat it loaded
    shell,      \* shell thread: where it is, count, waitingStat, copyLen
    result,     \* what the last call returned, and pData
    owed,       \* the shell sleeps until the uart thread has done its work
    fresh,      \* history: this call began free of an earlier one (see ClearsBit)
    arrived,    \* history: how many frames arrived
    answer,     \* history: the setting taken since the query, and when it arrived
    pushed      \* history: the message given to protocalPushEvent last

history == <<arrived, answer, pushed>>
vars == <<reply, parser, uart, shell, result, owed, fresh, history>>

NoFrame == [type |-> "none", cmd |-> CMD_ID_INVALID, data |-> << >>]
NoAnswer == [frame |-> NoFrame, at |-> 0]

Init ==
    /\ reply = [waitingStat |-> {}, replyErr |-> 0, replyLen |-> 0]
    /\ parser = [status |-> "header", cmd |-> CMD_ID_INVALID,
                 buffer |-> [i \in 1..BufferSize |-> 0], bufferIndex |-> 0]
    /\ uart = [at |-> "ready", frame |-> NoFrame, stat |-> {}]
    /\ shell = [at |-> "idle", tries |-> 0, stat |-> {}, len |-> 0]
    /\ result = [ret |-> "success", data |-> << >>]
    /\ owed = FALSE
    /\ fresh = TRUE
    /\ arrived = 0 /\ answer = NoAnswer /\ pushed = NoFrame

protocalReset ==
    parser' = [parser EXCEPT !.status = "header", !.bufferIndex = 0, !.cmd = CMD_ID_INVALID]

-----------------------------------------------------------------------------
(* The uart thread: protocalUartReceiveChar *)

AwaitsChar(at) == at \in {"ready", "body", "checksum"}

(* Between the test of a bit and the store that clears it.  A call is fresh if
   the uart thread is elsewhere at some time between its beginning and the store
   of its QUERY: what that thread clears then is not an earlier call's bit. *)
ClearsBit(at) == at \in {"ack_load", "ack_store", "answer_load", "answer_store"}
BeforeQuery(at) == at \in {"busy_test", "busy_wait", "query_load", "query_store"}

UartDoes(from, uart1) ==
    /\ uart.at = from
    /\ uart' = uart1
    /\ owed' = (owed /\ uart1.at # "ready")
    /\ fresh' = (fresh \/ (BeforeQuery(shell.at) /\ ~ ClearsBit(uart1.at)))
    /\ UNCHANGED <<shell, result>>

UartGoes(from, to) == UartDoes(from, [uart EXCEPT !.at = to])

ReceiveHeader(f) ==
    /\ arrived < MaxFrames
    /\ UartDoes("ready", [uart EXCEPT !.at = "body", !.frame = f])
    /\ arrived' = arrived + 1
    /\ parser' = [parser EXCEPT !.status = "cmd_type", !.bufferIndex = 0,
                                !.cmd = CMD_ID_INVALID]
    /\ UNCHANGED <<reply, answer, pushed>>

Filled(data) == [i \in 1..BufferSize |->
                    IF i <= Len(data) THEN data[i] ELSE parser.buffer[i]]

(* Type, length, command and data, unless the header was forgotten. *)
ReceiveBody ==
    /\ UartGoes("body", "checksum")
    /\ parser' = IF parser.status = "header" THEN parser
                 ELSE [status |-> "checksum", cmd |-> uart.frame.cmd,
                       buffer |-> Filled(uart.frame.data),
                       bufferIndex |-> Len(uart.frame.data)]
    /\ UNCHANGED <<reply, history>>

(* waitingStat is read here and written after a Trace. *)
TakesAck == uart.frame.type = "ack" /\ "ack" \in reply.waitingStat
TakesAnswer == uart.frame.type = "set" /\ "query" \in reply.waitingStat

ReceiveCheckSum ==
    /\ parser.status = "checksum"
    /\ UartGoes("checksum", IF TakesAck THEN "ack_load"
                            ELSE IF TakesAnswer THEN "answer_load" ELSE "push")
    /\ parser' = [parser EXCEPT !.status = "cmd_type"]
    /\ UNCHANGED <<reply, history>>

ReceiveNoise ==
    /\ parser.status = "header"
    /\ UartGoes("checksum", "ready")
    /\ UNCHANGED <<reply, parser, history>>

(* Mutant: the acknowledgement ends the wait for the answer, too. *)
AckLoadNone ==
    /\ UartDoes("ack_load", [uart EXCEPT !.at = "ack_store", !.stat = {}])
    /\ UNCHANGED <<reply, parser, history>>

AckLoad ==
    /\ UartDoes("ack_load", [uart EXCEPT !.at = "ack_store",
                                         !.stat = reply.waitingStat \ {"ack"}])
    /\ UNCHANGED <<reply, parser, history>>

AckStore ==
    /\ UartGoes("ack_store", "ack_err")
    /\ reply' = [reply EXCEPT !.waitingStat = uart.stat]
    /\ UNCHANGED <<parser, history>>

AckErr ==
    /\ UartGoes("ack_err", "reset")
    /\ reply' = [reply EXCEPT !.replyErr = parser.buffer[1]]
    /\ UNCHANGED <<parser, history>>

AnswerLoad ==
    /\ UartDoes("answer_load", [uart EXCEPT !.at = "answer_store",
                                            !.stat = reply.waitingStat \ {"query"}])
    /\ UNCHANGED <<reply, parser, history>>

AnswerStore ==
    /\ UartGoes("answer_store", "answer_len")
    /\ reply' = [reply EXCEPT !.waitingStat = uart.stat]
    /\ answer' = [frame |-> uart.frame, at |-> arrived]
    /\ UNCHANGED <<parser, arrived, pushed>>

(* Mutant: the parser is reset before its length is read. *)
AnswerLenAfterReset ==
    /\ UartGoes("answer_len", "reset")
    /\ reply' = [reply EXCEPT !.replyLen = 0]
    /\ UNCHANGED <<parser, history>>

AnswerLen ==
    /\ UartGoes("answer_len", "reset")
    /\ reply' = [reply EXCEPT !.replyLen = parser.bufferIndex]
    /\ UNCHANGED <<parser, history>>

(* The event takes the type that was kept aside, and the command and the
   data as they are now. *)
Push ==
    /\ UartGoes("push", "reset")
    /\ pushed' = [type |-> uart.frame.type, cmd |-> parser.cmd,
                  data |-> SubSeq(parser.buffer, 1, parser.bufferIndex)]
    /\ UNCHANGED <<reply, parser, arrived, answer>>

UartReset ==
    /\ UartDoes("reset", [at |-> "ready", frame |-> NoFrame, stat |-> {}])
    /\ protocalReset
    /\ UNCHANGED <<reply, history>>

Receive ==
    \/ \E f \in PeerFrames : ReceiveHeader(f)
    \/ ReceiveBody \/ ReceiveCheckSum \/ ReceiveNoise

(* What the uart thread does without waiting for a character. *)
Work ==
    \/ AckLoad \/ AckStore \/ AckErr
    \/ AnswerLoad \/ AnswerStore \/ AnswerLen
    \/ Push \/ UartReset

-----------------------------------------------------------------------------
(* The shell thread: protocalApiQueryWait *)

(* pfnWait takes 10 ms, the time slice is 5 ms: a uart thread that works on a
   frame when the shell begins to wait is back at its queue before the wait is
   over.  Nothing holds the shell back between two calls: the next line may have
   been typed ahead (shell.cpp:273). *)
Sleeping(at) == at \in {"busy_wait", "ack_wait", "query_wait"}

ShellDoes(from, shell1) ==
    /\ shell.at = from
    /\ ~ owed
    /\ shell' = shell1
    /\ owed' = (Sleeping(shell1.at) /\ ~ AwaitsChar(uart.at))
    /\ fresh' = IF from = "idle" THEN ~ ClearsBit(uart.at) ELSE fresh
    /\ UNCHANGED <<uart, arrived, pushed>>

ShellGoes(from, to) == ShellDoes(from, [shell EXCEPT !.at = to])

Call ==
    /\ ShellDoes("idle", [shell EXCEPT !.at = "busy_test", !.tries = 0])
    /\ UNCHANGED <<reply, parser, result, answer>>

(* The three loops: test, wait 10 ms, and give up after so many times.  The
   wait is over before the count is looked at, whatever came meanwhile. *)
Test(test, holds, wait, done) ==
    /\ ShellDoes(test, [shell EXCEPT !.at = IF holds THEN wait ELSE done,
                                     !.tries = IF holds THEN @ ELSE 0])
    /\ UNCHANGED <<reply, parser, result, answer>>

(* Mutants: the loop does not count, or does not look at its count. *)
WaitUncounted(wait, test) ==
    /\ shell.tries <= WaitTimes
    /\ ShellGoes(wait, test)
    /\ UNCHANGED <<reply, parser, result, answer>>

WaitForEver(wait, test) ==
    /\ ShellDoes(wait, [shell EXCEPT !.at = test, !.tries = @ + 1])
    /\ UNCHANGED <<reply, parser, result, answer>>

WaitAgain(wait, test) ==
    /\ shell.tries <= WaitTimes
    /\ ShellDoes(wait, [shell EXCEPT !.at = test, !.tries = @ + 1])
    /\ UNCHANGED <<reply, parser, result, answer>>

GiveUp(wait) ==
    /\ shell.tries > WaitTimes
    /\ ShellGoes(wait, "timeout")
    /\ UNCHANGED <<reply, parser, result, answer>>

WaitUntilFree ==
    \/ Test("busy_test", reply.waitingStat # {}, "busy_wait", "query_load")
    \/ WaitAgain("busy_wait", "busy_test")
    \/ GiveUp("busy_wait")

(* waitingStat |= bit, and waitingStat &= ~bit: a load and a store *)
Load(from, to, stat) ==
    /\ ShellDoes(from, [shell EXCEPT !.at = to, !.stat = stat])
    /\ UNCHANGED <<reply, parser, result, answer>>

Store(from, to) ==
    /\ ShellGoes(from, to)
    /\ reply' = [reply EXCEPT !.waitingStat = shell.stat]
    /\ UNCHANGED <<parser, result>>

SetQuery ==
    \/ Load("query_load", "query_store", reply.waitingStat \cup {"query"})
    \/ Store("query_store", "ack_load") /\ answer' = NoAnswer

(* The package is sent next; the peer may have sent replies before that. *)
SetAck ==
    \/ Load("ack_load", "ack_store", reply.waitingStat \cup {"ack"})
    \/ Store("ack_store", "ack_test") /\ UNCHANGED answer

WaitForAck ==
    \/ Test("ack_test", "ack" \in reply.waitingStat, "ack_wait", "err")
    \/ WaitAgain("ack_wait", "ack_test")

(* Mutant: without an acknowledgement the call goes on to wait for the answer. *)
GiveUpAckGoesOn ==
    /\ shell.tries > WaitTimes
    /\ ShellDoes("ack_wait", [shell EXCEPT !.at = "err", !.tries = 0])
    /\ UNCHANGED <<reply, parser, result, answer>>

(* Only this loop takes back the bit it waits for. *)
GiveUpAck ==
    \/ shell.tries > WaitTimes /\ Load("ack_wait", "ack_clear", reply.waitingStat \ {"ack"})
    \/ Store("ack_clear", "timeout") /\ UNCHANGED answer

ReadErr ==
    /\ ShellGoes("err", IF reply.replyErr = 0 THEN "query_test" ELSE "idle")
    /\ result' = IF reply.replyErr = 0 THEN result ELSE [result EXCEPT !.ret = "error"]
    /\ UNCHANGED <<reply, parser, answer>>

WaitForAnswer ==
    \/ Test("query_test", "query" \in reply.waitingStat, "query_wait", "len")
    \/ WaitAgain("query_wait", "query_test")
    \/ GiveUp("query_wait")

TimeOut ==
    /\ ShellGoes("timeout", "idle")
    /\ protocalReset
    /\ result' = [result EXCEPT !.ret = "timeout"]
    /\ UNCHANGED <<reply, answer>>

Least(a, b) == IF a < b THEN a ELSE b

ReadLen ==
    /\ ShellDoes("len", [shell EXCEPT !.at = "copy", !.len = Least(ReplySize, reply.replyLen)])
    /\ UNCHANGED <<reply, parser, result, answer>>

CopyReply ==
    /\ ShellGoes("copy", "idle")
    /\ result' = [ret |-> "success", data |-> SubSeq(parser.buffer, 1, shell.len)]
    /\ UNCHANGED <<reply, parser, answer>>

(* What the shell does inside a call. *)
Shell ==
    \/ WaitUntilFree \/ SetQuery \/ SetAck \/ WaitForAck \/ GiveUpAck \/ ReadErr
    \/ WaitForAnswer \/ ReadLen \/ CopyReply \/ TimeOut

Next == Receive \/ Work \/ Call \/ Shell

Spec == Init /\ [][Next]_vars

(* Both threads get their turns; the peer and the user need not act. *)
FairSpec == Spec /\ WF_vars(Shell) /\ WF_vars(Work)

-----------------------------------------------------------------------------
(* Properties *)

UartPoints == {"ready", "body", "checksum", "ack_load", "ack_store", "ack_err",
               "answer_load", "answer_store", "answer_len", "push", "reset"}
ShellPoints == {"idle", "busy_test", "busy_wait", "query_load", "query_store", "ack_load",
                "ack_store", "ack_test", "ack_wait", "ack_clear", "err", "query_test",
                "query_wait", "timeout", "len", "copy"}

(* The fields keep to their types, no loop runs past its bound, and what is
   copied fits in the buffer and in the caller's variable. *)
TypeOK ==
    /\ reply \in [waitingStat : SUBSET WaitingBits, replyErr : 0..255,
                  replyLen : 0..BufferSize]
    /\ parser \in [status : {"header", "cmd_type", "checksum"}, cmd : 0..255,
                   buffer : [1..BufferSize -> 0..255], bufferIndex : 0..BufferSize]
    /\ uart \in [at : UartPoints, frame : PeerFrames \cup {NoFrame},
                 stat : SUBSET WaitingBits]
    /\ shell \in [at : ShellPoints, tries : 0..(WaitTimes + 1),
                  stat : SUBSET WaitingBits, len : 0..Least(ReplySize, BufferSize)]
    /\ result \in [ret : {"success", "error", "timeout"}, data : Seq(0..255)]
    /\ owed \in BOOLEAN
    /\ fresh \in BOOLEAN
    /\ arrived \in 0..MaxFrames

(* protocalApiQueryWait returns, whatever the peer does and whatever an
   earlier call left behind in waitingStat. *)
QueryReturns == shell.at # "idle" ~> shell.at = "idle"

(* A fresh call returns success only after a setting was taken since it set its
   QUERY bit: none that was received for an earlier call counts.  A call that
   is not fresh began while the uart thread was clearing a bit for the one
   before; the word it then stores may wipe the new bits, and that call
   succeeds without an answer. *)
SuccessNeedsAnswer == [][CopyReply /\ fresh => answer # NoAnswer]_vars

(* A call that succeeded leaves nothing behind: the next call, and
   protocalSendCmd, find waitingStat empty. *)
SuccessLeavesNoWait == [][CopyReply => reply.waitingStat = {}]_vars

(* The length and the data that a fresh call copies are those of the setting it
   took for the answer, and not of a frame before it: the length, unless the
   uart thread has cleared QUERY and not yet stored replyLen, and the data, until
   the header of another frame has arrived. *)
AnswerLength == Least(ReplySize, Len(answer.frame.data))

ReplyIsTheAnswers ==
    [][/\ ReadLen /\ fresh /\ uart.at # "answer_len" => shell'.len = AnswerLength
       /\ CopyReply /\ fresh /\ arrived = answer.at =>
            \A i \in 1..Least(shell.len, AnswerLength) :
                result'.data[i] = answer.frame.data[i]]_vars

(* Every frame that arrives is taken or pushed, and pushed as it was sent.
   protocal.c:276: "whatever the process doing, the receiving part will never
   be impacted" *)
EveryFrameIsReceived == [][~ ReceiveNoise /\ (Push => pushed' = uart.frame)]_vars
=============================================================================
