------------------------------ MODULE Devices ------------------------------
(***************************************************************************)
(* Two devices that run this code, and the two directions of the line      *)
(* between them.  A step is one whole call: a frame that                   *)
(* protocalUartReceiveChar completes, an event that protocalDispatchEvents *)
(* handles.  What two threads do to waitingStat is several steps, a load   *)
(* and a store for each bit that is set or cleared.  EventPipeline,        *)
(* FrameLink, SendPath and QueryWait look into the rest of these calls.    *)
(*                                                                         *)
(* A device that acknowledges (a phone) does what the callers of           *)
(* protocalSendCmdWait expect of their peer.  This code never does it.     *)
(***************************************************************************)
EXTENDS Naturals, Sequences

CONSTANTS
    Devices,
    Acknowledges,   \* the devices that acknowledge queries
    UserSettings,   \* the commands users set
    UserQueries,    \* the commands users query
    EventNum,       \* PROTOCOL_MAX_EVENT_NUM
    MaxCommands,    \* bound: commands of the users
    MaxLost         \* bound: frames lost on the line

ASSUME DevicesAssumption ==
    /\ \E d, e \in Devices : d # e /\ Devices = {d, e}
    /\ Acknowledges \subseteq Devices
    /\ UserSettings \cup UserQueries \subseteq 0..255
    /\ {EventNum, MaxCommands, MaxLost} \subseteq Nat

CMD_ID_INTERNAL_START == 100
CMD_ID_RESET_TARGET == 100
CMD_ID_DEVICE_CONNECTION == 101

(* What onQuery of protocalInternal.c and onCmdQuery of electronicVehicle.c
   answer.  The ranges of the last one are the commands without a case. *)
InternalQueries == CMD_ID_DEVICE_CONNECTION..104
VehicleQueries == 0..18 \ (8..10 \cup 13..16)

VARIABLES
    waitingStat, connectionStatus, replyErr,
    events,     \* the messages protocalPushEvent stored and nobody handled yet
    line,       \* the frames on their way to a device
    call,       \* where the shell is in protocalApiQueryWait
    loaded,     \* waitingStat as the shell has loaded it
    uart,       \* uart thread: where it is, what it loaded, and the error it took
    ret,        \* what the shell's last call returned
    commands, lost

protocolVars == <<waitingStat, connectionStatus, replyErr, events>>
shellVars == <<call, loaded, ret, commands>>
vars == <<protocolVars, line, shellVars, uart, lost>>

Peer(d) == CHOOSE e \in Devices : e # d

UartReady == [at |-> "ready", stat |-> {}, err |-> 0]

Init ==
    /\ waitingStat = [d \in Devices |-> {}]
    /\ connectionStatus = [d \in Devices |-> 1]
    /\ replyErr = [d \in Devices |-> 0]
    /\ events = [d \in Devices |-> << >>]
    /\ line = [d \in Devices |-> << >>]
    /\ call = [d \in Devices |-> "idle"]
    /\ loaded = [d \in Devices |-> {}]
    /\ uart = [d \in Devices |-> UartReady]
    /\ ret = [d \in Devices |-> "none"]
    /\ commands = 0 /\ lost = 0

Frame(type, cmd, data) == [type |-> type, cmd |-> cmd, data |-> data]

(* The line after protocalSendCmd: it refuses while a call waits, and those
   who call it do not look at what it returns. *)
SendCmd(d, m) ==
    IF waitingStat[d] # {} THEN line
    ELSE [line EXCEPT ![Peer(d)] = Append(@, m)]

(* protocalReset forgets the frame of which a part has arrived, if any. *)
protocalReset(d) ==
    \/ line' = line
    \/ uart[d].at = "ready" /\ line[d] # << >> /\ line' = [line EXCEPT ![d] = Tail(@)]

-----------------------------------------------------------------------------
(* The shell thread *)

Command(d) ==
    /\ call[d] = "idle"
    /\ commands < MaxCommands
    /\ commands' = commands + 1

(* cmdSetMile, cmdSetSpeed, cmdSetBatteryVoltage *)
Set(d, m) ==
    /\ Command(d)
    /\ line' = SendCmd(d, m)
    /\ UNCHANGED <<protocolVars, call, loaded, ret, uart, lost>>

(* cmdGetMile *)
Query(d) ==
    /\ Command(d)
    /\ call' = [call EXCEPT ![d] = "busy"]
    /\ UNCHANGED <<protocolVars, line, loaded, ret, uart, lost>>

CallGoes(d, from, to) == call[d] = from /\ call' = [call EXCEPT ![d] = to]

NobodyWaits(d) ==
    /\ CallGoes(d, "busy", "query_load")
    /\ waitingStat[d] = {}
    /\ UNCHANGED <<protocolVars, line, loaded, ret>>

(* waitingStat |= bit and waitingStat &= ~bit *)
Load(d, from, to, stat) ==
    /\ CallGoes(d, from, to)
    /\ loaded' = [loaded EXCEPT ![d] = stat]
    /\ UNCHANGED <<protocolVars, line, ret>>
Store(d, from, to) ==
    /\ CallGoes(d, from, to)
    /\ waitingStat' = [waitingStat EXCEPT ![d] = loaded[d]]
    /\ loaded' = [loaded EXCEPT ![d] = {}]
    /\ UNCHANGED <<connectionStatus, replyErr, events>>

SetQuery(d) ==
    \/ Load(d, "query_load", "query_store", waitingStat[d] \cup {"query"})
    \/ Store(d, "query_store", "ack_load") /\ UNCHANGED <<line, ret>>
SetAck(d) ==
    \/ Load(d, "ack_load", "ack_store", waitingStat[d] \cup {"ack"})
    \/ Store(d, "ack_store", "send") /\ UNCHANGED <<line, ret>>

(* protocalSendCmdWait does not ask whether anybody waits. *)
SendQuery(d) ==
    /\ CallGoes(d, "send", "ack")
    /\ \E cmd \in UserQueries :
        line' = [line EXCEPT ![Peer(d)] = Append(@, Frame("query", cmd, 0))]
    /\ UNCHANGED <<protocolVars, loaded, ret>>

Acknowledged(d) ==
    /\ "ack" \notin waitingStat[d]
    /\ CallGoes(d, "ack", IF replyErr[d] = 0 THEN "answer" ELSE "idle")
    /\ ret' = IF replyErr[d] = 0 THEN ret ELSE [ret EXCEPT ![d] = "error"]
    /\ UNCHANGED <<protocolVars, line, loaded>>

Answered(d) ==
    /\ "query" \notin waitingStat[d]
    /\ CallGoes(d, "answer", "idle")
    /\ ret' = [ret EXCEPT ![d] = "success"]
    /\ UNCHANGED <<protocolVars, line, loaded>>

TimesOut(d) ==
    /\ protocalReset(d)
    /\ ret' = [ret EXCEPT ![d] = "timeout"]

(* The first and the third loop give up. *)
GiveUp(d) ==
    /\ \/ waitingStat[d] # {} /\ CallGoes(d, "busy", "idle")
       \/ "query" \in waitingStat[d] /\ CallGoes(d, "answer", "idle")
    /\ TimesOut(d)
    /\ UNCHANGED <<protocolVars, loaded>>

(* Mutant: without an acknowledgement the call goes on to wait for the answer. *)
GiveUpAckGoesOn(d) ==
    /\ "ack" \in waitingStat[d]
    /\ CallGoes(d, "ack", "answer")
    /\ UNCHANGED <<protocolVars, line, loaded, ret>>

(* Only the second takes back its bit. *)
GiveUpAck(d) ==
    \/ /\ "ack" \in waitingStat[d]
       /\ Load(d, "ack", "ack_clear", waitingStat[d] \ {"ack"})
    \/ Store(d, "ack_clear", "idle") /\ TimesOut(d)

Shell(d) ==
    /\ \/ NobodyWaits(d) \/ SetQuery(d) \/ SetAck(d) \/ SendQuery(d)
       \/ Acknowledged(d) \/ Answered(d) \/ GiveUp(d) \/ GiveUpAck(d)
    /\ UNCHANGED <<uart, commands, lost>>

-----------------------------------------------------------------------------
(* The uart thread: the last character of a frame arrives *)

TakesAck(d, m) == m.type = "ack" /\ "ack" \in waitingStat[d]
TakesAnswer(d, m) == m.type = "set" /\ "query" \in waitingStat[d]

Arrived(d) == [line EXCEPT ![d] = Tail(@)]

ReceiveReply(d, m) ==
    /\ \/ /\ TakesAck(d, m)
          /\ uart' = [uart EXCEPT ![d].at = "ack_load", ![d].err = m.data]
       \/ TakesAnswer(d, m) /\ uart' = [uart EXCEPT ![d].at = "answer_load"]
    /\ line' = Arrived(d)
    /\ UNCHANGED protocolVars

(* Mutant: the pool of events is never full. *)
PushAlways(d, m) == [events EXCEPT ![d] = Append(@, m)]

(* Without a free event the frame is dropped. *)
Push(d, m) ==
    IF Len(events[d]) < EventNum THEN [events EXCEPT ![d] = Append(@, m)] ELSE events

(* What a phone answers at once, whatever becomes of the query. *)
Acknowledgements(d, m) ==
    IF d \in Acknowledges /\ m.type = "query"
    THEN {Frame("ack", m.cmd, err) : err \in 0..1} ELSE {}

ReceiveEvent(d, m) ==
    /\ ~ TakesAck(d, m) /\ ~ TakesAnswer(d, m)
    /\ events' = Push(d, m)
    /\ \/ Acknowledgements(d, m) = {} /\ line' = Arrived(d)
       \/ \E a \in Acknowledgements(d, m) :
            line' = [Arrived(d) EXCEPT ![Peer(d)] = Append(@, a)]
    /\ UNCHANGED <<waitingStat, connectionStatus, replyErr, uart>>

Receive(d) ==
    /\ uart[d].at = "ready" /\ line[d] # << >>
    /\ LET m == Head(line[d]) IN ReceiveReply(d, m) \/ ReceiveEvent(d, m)
    /\ UNCHANGED <<shellVars, lost>>

(* The reply's bit is cleared, and the error of an acknowledgement stored. *)
UartLoad(d, from, to, bit) ==
    /\ uart[d].at = from
    /\ uart' = [uart EXCEPT ![d].at = to, ![d].stat = waitingStat[d] \ {bit}]
    /\ UNCHANGED protocolVars
UartStore(d, from, uart1) ==
    /\ uart[d].at = from
    /\ uart' = [uart EXCEPT ![d] = uart1]
    /\ waitingStat' = [waitingStat EXCEPT ![d] = uart[d].stat]
    /\ UNCHANGED <<connectionStatus, replyErr, events>>

TakeAck(d) ==
    \/ UartLoad(d, "ack_load", "ack_store", "ack")
    \/ UartStore(d, "ack_store", [UartReady EXCEPT !.at = "ack_err", !.err = uart[d].err])
    \/ /\ uart[d].at = "ack_err"
       /\ replyErr' = [replyErr EXCEPT ![d] = uart[d].err]
       /\ uart' = [uart EXCEPT ![d] = UartReady]
       /\ UNCHANGED <<waitingStat, connectionStatus, events>>
TakeAnswer(d) ==
    \/ UartLoad(d, "answer_load", "answer_store", "query")
    \/ UartStore(d, "answer_store", UartReady)

TakeReply(d) ==
    /\ TakeAck(d) \/ TakeAnswer(d)
    /\ UNCHANGED <<line, shellVars, lost>>

Lose(d) ==
    /\ line[d] # << >>
    /\ lost < MaxLost
    /\ lost' = lost + 1
    /\ line' = Arrived(d)
    /\ UNCHANGED <<protocolVars, shellVars, uart>>

-----------------------------------------------------------------------------
(* The timer thread: protocalDispatchEvents *)

Internal(m) == m.cmd >= CMD_ID_INTERNAL_START

(* protocalPreprocessCmd *)
Preprocess(d, m) ==
    \/ /\ m.type = "set" /\ m.cmd = CMD_ID_RESET_TARGET
       /\ protocalReset(d)
       /\ UNCHANGED connectionStatus
    \/ /\ m.type = "set" /\ m.cmd = CMD_ID_DEVICE_CONNECTION
       /\ connectionStatus' = [connectionStatus EXCEPT ![d] = m.data]
       /\ UNCHANGED line
    \/ /\ m.type = "query" /\ m.cmd \in InternalQueries
       /\ line' = SendCmd(d, Frame("set", m.cmd,
                    IF m.cmd = CMD_ID_DEVICE_CONNECTION THEN connectionStatus[d] ELSE 0))
       /\ UNCHANGED connectionStatus
    \/ /\ m.type = "ack" \/ (m.type = "query" /\ m.cmd \notin InternalQueries)
            \/ (m.type = "set" /\ m.cmd > CMD_ID_DEVICE_CONNECTION)
       /\ UNCHANGED <<line, connectionStatus>>

(* Mutant: a setting is answered with a setting. *)
AnswersAll(d, m) ==
    /\ connectionStatus[d] # 0
    /\ m.type \in {"query", "set"} /\ m.cmd \in VehicleQueries

(* electronicVehicleOnCmd answers a query with the value, as a setting.  What
   onCmdSet does to the mileage is left out; there is no handler of acks. *)
AnswersQuery(d, m) ==
    /\ connectionStatus[d] # 0
    /\ m.type = "query" /\ m.cmd \in VehicleQueries

OnCmd(d, m) ==
    /\ line' = IF AnswersQuery(d, m) THEN SendCmd(d, Frame("set", m.cmd, 0)) ELSE line
    /\ UNCHANGED connectionStatus

Dispatch(d) ==
    /\ events[d] # << >>
    /\ events' = [events EXCEPT ![d] = Tail(@)]
    /\ LET m == Head(events[d]) IN
        \/ Internal(m) /\ Preprocess(d, m)
        \/ ~ Internal(m) /\ OnCmd(d, m)
    /\ UNCHANGED <<waitingStat, replyErr, shellVars, uart, lost>>

-----------------------------------------------------------------------------
(* What protocalApiSetU8 and its like hand over: a setting, and no more. *)
UserFrames == {Frame("set", cmd, data) : cmd \in UserSettings, data \in 0..1}

Quiet(d) ==
    line[d] = << >> /\ events[d] = << >> /\ call[d] = "idle" /\ uart[d].at = "ready"

Done ==
    /\ commands = MaxCommands
    /\ \A d \in Devices : Quiet(d)
    /\ UNCHANGED vars

Next ==
    \/ \E d \in Devices :
        \/ \E m \in UserFrames : Set(d, m)
        \/ Query(d) \/ Shell(d) \/ Receive(d) \/ TakeReply(d) \/ Lose(d) \/ Dispatch(d)
    \/ Done

Spec == Init /\ [][Next]_vars

(* The threads run, the line delivers or loses; users need not do anything. *)
FairSpec ==
    /\ Spec
    /\ \A d \in Devices :
        /\ WF_vars(Shell(d)) /\ WF_vars(Dispatch(d))
        /\ WF_vars(Receive(d)) /\ WF_vars(TakeReply(d))

-----------------------------------------------------------------------------
(* Properties *)

Frames == [type : {"query", "set", "ack"}, cmd : 0..255, data : 0..1]

Bits == {"ack", "query"}
CallPoints == {"idle", "busy", "query_load", "query_store", "ack_load", "ack_store", "send",
               "ack", "ack_clear", "answer"}
UartPoints == {"ready", "ack_load", "ack_store", "ack_err", "answer_load", "answer_store"}

TypeOK ==
    \A d \in Devices :
        /\ waitingStat[d] \subseteq Bits /\ loaded[d] \subseteq Bits
        /\ connectionStatus[d] \in 0..1 /\ replyErr[d] \in 0..1
        /\ Len(events[d]) <= EventNum
        /\ \A i \in DOMAIN line[d] : line[d][i] \in Frames
        /\ call[d] \in CallPoints
        /\ uart[d] \in [at : UartPoints, stat : SUBSET Bits, err : 0..1]
        /\ ret[d] \in {"none", "success", "error", "timeout"}

(* When the users stop, the devices come to rest: every frame is handled or
   lost, every call returns, and no answer calls for another answer. *)
ComesToRest == <>[](\A d \in Devices : Quiet(d))

(* Outside a call protocalSendCmd refuses to send only if the last call failed:
   neither a bit the call could not take back nor one that a store of the uart
   thread brings back is left behind by a call that succeeded. *)
RefusesOnlyAfterFailure ==
    \A d \in Devices :
        call[d] = "idle" /\ waitingStat[d] # {} => ret[d] \in {"error", "timeout"}
=============================================================================
