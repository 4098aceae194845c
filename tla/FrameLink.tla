------------------------------ MODULE FrameLink ------------------------------
(***************************************************************************)
(* One direction of the Bluetooth line: a peer that sends whole frames with*)
(* protocalSendCmd, a wire that may lose or change a byte (Queue.put in the*)
(* receive interrupt drops a byte without a word when the queue is full,   *)
(* the radio may change one), the receiver of FrameReceiver, a customer    *)
(* that starts to wait for an answer, and the dispatcher.                  *)
(***************************************************************************)
EXTENDS FrameReceiver, FiniteSets

CONSTANTS
    Streams,        \* bound: what the peer may send, sequences of messages
    MaxFaults,      \* bound: bytes lost or changed on the wire
    NoiseBytes      \* the values a changed byte may take

Messages == UNION {ToSet(s) : s \in Streams}

(* Fields and data are uint8_t, and the data fits into an event. *)
ASSUME LinkAssumption ==
    /\ MaxFaults \in Nat
    /\ NoiseBytes \subseteq Byte
    /\ \A m \in Messages : m \in Message /\ Len(m.data) <= PROTOCAL_MAX_DATA_LENGTH

VARIABLES
    wire,       \* the bytes on their way, each with its frame and its place there
    sent,       \* history: the messages that were sent
    faults,     \* the number of bytes lost or changed
    damaged,    \* history: the frames that lost a byte or had one changed
    refused,    \* history: the frames that found no free event
    delivered,  \* history: the frames that were pushed or taken as an answer
    contents    \* history: what the receiver held when it took them

historyVars == <<sent, faults, damaged, refused, delivered, contents>>
vars == <<receiverVars, wire, historyVars>>

Init ==
    /\ ReceiverInit
    /\ wire = << >>
    /\ sent = << >>
    /\ faults = 0
    /\ damaged = {}
    /\ refused = {}
    /\ delivered = << >>
    /\ contents = << >>

Framed == [m \in Messages |-> Package(m)]
Unframeable == {m \in Messages : HoldsHeader(m)}

(* protocalSendCmd with no answer awaited: make the package and send it. *)
Send(m) ==
    /\ sent' = Append(sent, m)
    /\ \E s \in Streams : IsPrefix(sent', s)
    /\ wire' = wire \o [i \in DOMAIN Framed[m] |->
                          [byte |-> Framed[m][i], frame |-> Len(sent) + 1, pos |-> i]]
    /\ UNCHANGED <<receiverVars, faults, damaged, refused, delivered, contents>>

Lose ==
    /\ wire # << >>
    /\ faults < MaxFaults
    /\ faults' = faults + 1
    /\ damaged' = damaged \cup {Head(wire).frame}
    /\ wire' = Tail(wire)
    /\ UNCHANGED <<receiverVars, sent, refused, delivered, contents>>

(* A byte arrives, as it was sent or changed.  A frame is known by the byte
   that completes it. *)
Arrive(b) ==
    /\ wire # << >>
    /\ ReceiveChar(b)
    /\ wire' = Tail(wire)
    /\ delivered' = IF outcome' \in {"pushed", "acked", "answered"}
                    THEN Append(delivered, Head(wire).frame) ELSE delivered
    /\ contents' = IF outcome' \in {"pushed", "acked", "answered"}
                   THEN Append(contents, Received) ELSE contents
    /\ refused' = IF outcome' = "no_resource"
                  THEN refused \cup {Head(wire).frame} ELSE refused
    /\ UNCHANGED sent

ArriveWhole ==
    /\ wire # << >>
    /\ Arrive(Head(wire).byte)
    /\ UNCHANGED <<faults, damaged>>

ArriveChanged(b) ==
    /\ wire # << >>
    /\ faults < MaxFaults
    /\ Head(wire).byte # b
    /\ Arrive(b)
    /\ faults' = faults + 1
    /\ damaged' = damaged \cup {Head(wire).frame}

(* protocalApiQueryWait starts to wait for an acknowledgement and an answer. *)
Await ==
    /\ reply.waitingStat = {}
    /\ reply' = [reply EXCEPT !.waitingStat = WaitingBits]
    /\ outcome' = "none"
    /\ UNCHANGED <<header, parser, events, wire, historyVars>>

(* protocalDispatchEvents takes the oldest event. *)
Dispatch ==
    /\ events # << >>
    /\ events' = Tail(events)
    /\ outcome' = "none"
    /\ UNCHANGED <<header, parser, reply, wire, historyVars>>

(* Everything was sent, received and dispatched. *)
Done ==
    /\ sent \in Streams
    /\ wire = << >>
    /\ events = << >>
    /\ UNCHANGED vars

Next ==
    \/ \E m \in Messages : Send(m)
    \/ Lose
    \/ ArriveWhole
    \/ \E b \in NoiseBytes : ArriveChanged(b)
    \/ Await
    \/ Dispatch
    \/ Done

Spec == Init /\ [][Next]_vars

-----------------------------------------------------------------------------
(* Properties *)

TypeOK ==
    /\ ReceiverTypeOK
    /\ faults \in 0..MaxFaults
    /\ damaged \cup refused \subseteq DOMAIN sent
    /\ Len(delivered) = Len(contents)

(* No byte has been stored behind buffer[PROTOCAL_MAX_PACKAGE_LENGTH]. *)
InBuffer == parser.status # "overrun"

(* None ever is, while the messages do not repeat the frame header: a lost or
   changed byte may make the code read the next frame as data, but an intact
   header ends that at the latest when the buffer is full. *)
NeverOverruns == (\A f \in DOMAIN sent : sent[f] \notin Unframeable) => InBuffer

(* A frame is on the wire while one of its bytes is. *)
OnWire(f) == \E i \in DOMAIN wire : wire[i].frame = f

Delivered(f) == \E i \in DOMAIN delivered : delivered[i] = f /\ contents[i] = sent[f]

(* Whatever was lost or changed before it, a frame that arrives whole is
   pushed or taken as an answer, with its own contents, or refused because the
   pool is full: the receiver is never out of step for longer than the damaged
   frame. *)
IntactFramesArrive ==
    \A f \in DOMAIN sent :
        ~ OnWire(f) /\ f \notin damaged /\ sent[f] \notin Unframeable
            => f \in refused \/ Delivered(f)

(* The code does nothing to keep a byte from being stored behind the buffer; up
   to there, it holds with any number of bytes lost or changed. *)
IntactFramesArriveUntilOverrun == InBuffer => IntactFramesArrive

(* What is taken for a frame is the message its sender sent: nothing of the
   buffer is left over from an earlier, aborted frame. *)
ContentsAreGenuine ==
    \A i \in DOMAIN delivered :
        delivered[i] \notin damaged => contents[i] = sent[delivered[i]]

(* The line keeps the order and duplicates nothing (see LossyLink). *)
Garbled == {f \in DOMAIN sent : sent[f] \in Unframeable}
Link == INSTANCE LossyLink WITH damaged <- damaged \cup Garbled
ImplementsLossyLink == Link!Spec
=============================================================================
