------------------------------- MODULE Mailbox -------------------------------
(***************************************************************************)
(* The Queue of rtos/Queue.h between a receive interrupt and the one       *)
(* thread that reads it, as RTX implements it: a ring buffer, the request  *)
(* the interrupt leaves for the kernel, and the thread that waits.         *)
(*                                                                         *)
(* The kernel works off the request as soon as the interrupt is over and   *)
(* before any thread runs.  A character takes 87 us on the line and its    *)
(* request a few, so no second one comes before that.                      *)
(***************************************************************************)
EXTENDS Naturals, Sequences

CONSTANTS
    Chars,
    Size        \* 20 in shell.h and electronicVehicleThread.h

ASSUME MailboxAssumption == Chars # {} /\ Size \in Nat \ {0}

VARIABLES
    mbx,        \* OS_MCB: msg, first, last, count
    psq,        \* os_psq: the request of the interrupt, if there is one
    task,       \* the thread: running, waiting in Queue.get, or back from it
    taken,      \* history: what Queue.get returned
    lost        \* history: how many characters the interrupt could not put

mailboxVars == <<mbx, psq, task, taken, lost>>

Slots == 0..(Size - 1)
Wrap(i) == IF i < Size THEN i ELSE i - Size

(* msg is zeroed; which character stands for the zeros does not matter. *)
MailboxInit ==
    /\ mbx = [msg |-> [i \in Slots |-> CHOOSE ch \in Chars : TRUE],
              first |-> 0, last |-> 0, count |-> 0]
    /\ psq = << >>
    /\ task = "running"
    /\ taken = << >>
    /\ lost = 0

(* isrMessagePut: rt_mbx_check counts what is stored and not what is left
   for the kernel. *)
IsrPut(ch) ==
    /\ psq = << >>
    /\ IF mbx.count < Size
       THEN psq' = Append(psq, ch) /\ UNCHANGED lost
       ELSE lost' = lost + 1 /\ UNCHANGED psq
    /\ UNCHANGED <<mbx, task, taken>>

(* The ring with one message more, and with the oldest taken *)
Stored(m, ch) == [msg |-> [m.msg EXCEPT ![m.first] = ch], first |-> Wrap(m.first + 1),
                  last |-> m.last, count |-> m.count + 1]
Removed(m) == [msg |-> m.msg, first |-> m.first, last |-> Wrap(m.last + 1),
               count |-> m.count - 1]

Returns(ch) == task' = "received" /\ taken' = Append(taken, ch)

(* Mutant: the message is stored although the thread waits for it. *)
PopReqStores ==
    /\ psq # << >>
    /\ psq' = Tail(psq)
    /\ mbx.count < Size
    /\ mbx' = Stored(mbx, Head(psq))
    /\ UNCHANGED <<task, taken, lost>>

(* rt_pop_req and rt_mbx_psh.  A full mailbox is os_error, which stops the
   firmware: there is no such step, and the thread never runs again. *)
PopReq ==
    /\ psq # << >>
    /\ psq' = Tail(psq)
    /\ \/ task = "waiting" /\ Returns(Head(psq)) /\ UNCHANGED mbx
       \/ /\ task # "waiting" /\ mbx.count < Size
          /\ mbx' = Stored(mbx, Head(psq))
          /\ UNCHANGED <<task, taken>>
    /\ UNCHANGED lost

(* Mutant: the ring is read at the wrong end. *)
GetLatest ==
    /\ psq = << >> /\ task = "running"
    /\ \/ /\ mbx.count > 0
          /\ Returns(mbx.msg[IF mbx.first = 0 THEN Size - 1 ELSE mbx.first - 1])
          /\ mbx' = Removed(mbx)
       \/ mbx.count = 0 /\ task' = "waiting" /\ UNCHANGED <<mbx, taken>>
    /\ UNCHANGED <<psq, lost>>

(* Queue.get with osWaitForever: svcMessageGet and rt_mbx_wait *)
Get ==
    /\ psq = << >> /\ task = "running"
    /\ \/ /\ mbx.count > 0
          /\ Returns(mbx.msg[mbx.last])
          /\ mbx' = Removed(mbx)
       \/ mbx.count = 0 /\ task' = "waiting" /\ UNCHANGED <<mbx, taken>>
    /\ UNCHANGED <<psq, lost>>

(* The thread has done with the character. *)
Done ==
    /\ psq = << >> /\ task = "received"
    /\ task' = "running"
    /\ UNCHANGED <<mbx, psq, taken, lost>>

MailboxNext == (\E ch \in Chars : IsrPut(ch)) \/ PopReq \/ Get \/ Done

MailboxSpec == MailboxInit /\ [][MailboxNext]_mailboxVars

-----------------------------------------------------------------------------
(* Properties *)

Ring == [msg : [Slots -> Chars], first : Slots, last : Slots, count : 0..Size]

(* The ring's indices, and the number of stored messages, keep to it. *)
MailboxTypeOK ==
    /\ mbx \in Ring
    /\ psq \in {<< >>} \cup {<<ch>> : ch \in Chars}
    /\ task \in {"running", "waiting", "received"}
    /\ taken \in Seq(Chars)
    /\ lost \in Nat

(* What is stored, oldest first *)
ContentsOf(m) == [i \in 1..m.count |-> m.msg[Wrap(m.last + i - 1)]]

(* The mailbox, with what is left for the kernel, is a queue of Size
   characters that loses one only when it is full. *)
queue == ContentsOf(mbx) \o psq
SQ == INSTANCE SerialQueue
ImplementsSerialQueue == SQ!Spec
=============================================================================
