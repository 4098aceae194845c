---------------------------- MODULE EventThreads ----------------------------
(***************************************************************************)
(* protocalPushEvent in the uart thread and protocalDispatchEvents in the  *)
(* timer thread of electronicVehicleThread.cpp, one statement a step.  Both*)
(* threads have the same priority and RTX switches between them every 5 ms *)
(* wherever they are; nothing in protocal.c or list.c locks.               *)
(*                                                                         *)
(* SwitchPoints are the program points a thread can be switched out at.    *)
(* The firmware allows all of them (AllPoints); a smaller set shows which  *)
(* points do no harm.  A thread always gives way where it blocks.          *)
(***************************************************************************)
EXTENDS Naturals, Sequences, SequencesExt, FiniteSets

CONSTANTS
    EventNum,       \* PROTOCAL_MAX_EVENT_NUM
    PoolSize,       \* MAX_LIST_SIZE
    Messages,       \* records [type, cmd, buff] that frames carry
    MaxAccepted,    \* bound: messages that are accepted
    SwitchPoints

FREE == 0

(* No frame carries the type that marks a free event, and a list of all events
   has links enough. *)
ASSUME ThreadsAssumption ==
    /\ EventNum \in Nat \ {0}
    /\ PoolSize \in Nat
    /\ EventNum <= PoolSize
    /\ MaxAccepted \in Nat
    /\ \A m \in Messages : m = [type |-> m.type, cmd |-> m.cmd, buff |-> m.buff]
                           /\ m.type # FREE

NULL == 0
Events == 1..EventNum
Links == 1..PoolSize

UartPoints == {"ready", "alloc", "cmd", "type", "buff", "link", "fill", "test_equal",
               "test_null", "first_head", "first_tail", "first_count",
               "append_next", "append_tail", "append_load", "append_store"}
TimerPoints == {"wait", "get", "remove", "scan", "head_load", "head_store", "tail_test",
                "tail_store", "pre_next", "free", "count_load", "count_store",
                "advance", "read_type", "release", "handle_cmd", "handle"}
AllPoints == UartPoints \cup TimerPoints

(* Where one thread works on what the other one reads: the links of the list
   in listAdd and listRemoveData, and the event after its release. *)
ListWindows == {"test_null", "first_head", "first_tail", "first_count",
                "append_next", "append_tail", "append_load", "append_store",
                "head_load", "head_store", "tail_test", "tail_store", "pre_next",
                "free", "count_load", "count_store"}
EventWindow == {"handle_cmd", "handle"}

VARIABLES
    pool,       \* eventPool: an event is a record [type, cmd, buff]
    list,       \* eventStack: [head, tail, count, next, data, isUsed]
    uart,       \* uart thread: program counter and locals
    timer,      \* timer thread: program counter and locals
    accepted,   \* history: the messages whose frame was accepted
    handled     \* history: what the handlers were called with

vars == <<pool, list, uart, timer, accepted, handled>>

NoMessage == [type |-> FREE, cmd |-> 0, buff |-> 0]

Init ==
    /\ pool = [e \in Events |-> NoMessage]
    /\ list = [head |-> NULL, tail |-> NULL, count |-> 0,
               next |-> [l \in Links |-> NULL],
               data |-> [l \in Links |-> 0],
               isUsed |-> [l \in Links |-> FALSE]]
    /\ uart = [pc |-> "ready", msg |-> NoMessage, event |-> 0, link |-> NULL, count |-> 0]
    /\ timer = [pc |-> "wait", event |-> 0, link |-> NULL, pre |-> NULL, next |-> NULL,
                count |-> 0, type |-> FREE, cmd |-> 0]
    /\ accepted = << >>
    /\ handled = << >>

-----------------------------------------------------------------------------
(* The uart thread *)

(* One statement: the thread is at from, and leaves itself, the list and the
   pool as given. *)
UartDoes(from, uart1, list1, pool1) ==
    /\ uart.pc = from
    /\ uart' = uart1 /\ list' = list1 /\ pool' = pool1
    /\ UNCHANGED <<timer, handled>>
UartAt(pc) == [uart EXCEPT !.pc = pc]

(* A frame is complete.  The function looks for a free event before it calls
   protocalPushEvent, which looks again. *)
Accept(m) ==
    /\ Len(accepted) < MaxAccepted
    /\ \E e \in Events : pool[e].type = FREE
    /\ UartDoes("ready", [uart EXCEPT !.pc = "alloc", !.msg = m], list, pool)
    /\ accepted' = Append(accepted, m)

(* protocalAllocEmptyEventMemory takes the first free event, unmarked. *)
Alloc ==
    \E e \in Events :
        /\ pool[e].type = FREE
        /\ \A f \in 1..(e - 1) : pool[f].type # FREE
        /\ UartDoes("alloc", [uart EXCEPT !.pc = "cmd", !.event = e], list, pool)

SetCmd == UartDoes("cmd", UartAt("type"), list,
                   [pool EXCEPT ![uart.event].cmd = uart.msg.cmd])
SetType == UartDoes("type", UartAt("buff"), list,
                    [pool EXCEPT ![uart.event].type = uart.msg.type])
SetBuff == UartDoes("buff", UartAt("link"), list,
                    [pool EXCEPT ![uart.event].buff = uart.msg.buff])

(* listFindEmptyLink.  Without a link listAdd returns an error nobody looks at. *)
TakeLink ==
    IF \A l \in Links : list.isUsed[l]
    THEN UartDoes("link", UartAt("ready"), list, pool)
    ELSE \E l \in Links :
            /\ ~ list.isUsed[l] /\ \A k \in 1..(l - 1) : list.isUsed[k]
            /\ UartDoes("link", [uart EXCEPT !.pc = "fill", !.link = l],
                        [list EXCEPT !.isUsed[l] = TRUE], pool)

FillLink == UartDoes("fill", UartAt("test_equal"),
                     [list EXCEPT !.next[uart.link] = NULL, !.data[uart.link] = uart.event],
                     pool)

TestEqual == UartDoes("test_equal",
                      UartAt(IF list.head = list.tail THEN "test_null" ELSE "append_next"),
                      list, pool)

(* Mutant: a list of one link, whose head is its tail, is taken for an empty one. *)
TestNullSkipped == UartDoes("test_null", UartAt("first_head"), list, pool)

TestNull == UartDoes("test_null",
                     UartAt(IF list.head = NULL THEN "first_head" ELSE "append_next"),
                     list, pool)

FirstHead == UartDoes("first_head", UartAt("first_tail"),
                      [list EXCEPT !.head = uart.link], pool)
FirstTail == UartDoes("first_tail", UartAt("first_count"),
                      [list EXCEPT !.tail = uart.link], pool)

(* Mutant: the first link is not counted. *)
FirstCountForgets == UartDoes("first_count", UartAt("ready"), list, pool)

FirstCount == UartDoes("first_count", UartAt("ready"), [list EXCEPT !.count = 1], pool)

(* tail->next of an empty list: nothing the program does is defined then, and
   a thread that faults stops the processor. *)
AppendNext ==
    IF list.tail = NULL
    THEN UartDoes("append_next", UartAt("fault"), list, pool)
    ELSE UartDoes("append_next", UartAt("append_tail"),
                  [list EXCEPT !.next[list.tail] = uart.link], pool)
AppendTail == UartDoes("append_tail", UartAt("append_load"),
                       [list EXCEPT !.tail = uart.link], pool)
AppendLoad == UartDoes("append_load",
                       [uart EXCEPT !.pc = "append_store", !.count = list.count],
                       list, pool)

(* count is a uint32_t and wraps; HUGE is the largest value it has here. *)
HUGE == PoolSize + MaxAccepted + 1
AppendStore == UartDoes("append_store", UartAt("ready"),
                        [list EXCEPT !.count = (uart.count + 1) % (HUGE + 1)], pool)

Uart ==
    /\ timer.pc \in SwitchPoints \cup {"wait"}
    /\ \/ \E m \in Messages : Accept(m)
       \/ /\ \/ Alloc \/ SetCmd \/ SetType \/ SetBuff
             \/ TakeLink \/ FillLink \/ TestEqual \/ TestNull
             \/ FirstHead \/ FirstTail \/ FirstCount
             \/ AppendNext \/ AppendTail \/ AppendLoad \/ AppendStore
          /\ UNCHANGED accepted

-----------------------------------------------------------------------------
(* The timer thread *)

TimerDoes(from, timer1, list1, pool1) ==
    /\ timer.pc = from
    /\ timer' = timer1 /\ list' = list1 /\ pool' = pool1
    /\ UNCHANGED <<uart, accepted>>
TimerAt(pc) == [timer EXCEPT !.pc = pc]

(* listCount.  The bound on handled only matters once the list is broken and
   the thread handles the same event for ever. *)
Wake ==
    /\ list.count # 0
    /\ Len(handled) <= MaxAccepted
    /\ TimerDoes("wait", TimerAt("get"), list, pool)

(* listGetAt(0).  With no head it returns success and writes nothing: pEvent
   is what the stack held, an event of an earlier call or no event at all. *)
GetFirst ==
    \E e \in IF list.head = NULL THEN Events \cup {NULL} ELSE {list.data[list.head]} :
        TimerDoes("get", [timer EXCEPT !.pc = IF e = NULL THEN "fault" ELSE "remove",
                                       !.event = e], list, pool)

(* listRemoveData, after its Trace *)
RemoveBegin == TimerDoes("remove", [timer EXCEPT !.pc = "scan", !.link = list.head,
                                                 !.pre = NULL], list, pool)
ScanEnd ==
    /\ timer.link = NULL
    /\ TimerDoes("scan", TimerAt("read_type"), list, pool)
ScanMatch ==
    /\ timer.link # NULL
    /\ list.data[timer.link] = timer.event
    /\ TimerDoes("scan", TimerAt(IF timer.link = list.head THEN "head_load" ELSE "tail_test"),
                 list, pool)
ScanOther ==
    /\ timer.link # NULL
    /\ list.data[timer.link] # timer.event
    /\ TimerDoes("scan", [timer EXCEPT !.pre = timer.link,
                                       !.link = list.next[timer.link]], list, pool)

HeadLoad == TimerDoes("head_load", [timer EXCEPT !.pc = "head_store",
                                                 !.next = list.next[timer.link]], list, pool)

HeadStore == TimerDoes("head_store", TimerAt("tail_test"),
                       [list EXCEPT !.head = timer.next], pool)
TailTest == TimerDoes("tail_test",
                      TimerAt(IF timer.link = list.tail THEN "tail_store" ELSE "pre_next"),
                      list, pool)
TailStore == TimerDoes("tail_store", TimerAt("pre_next"),
                       [list EXCEPT !.tail = timer.pre], pool)
PreNext == TimerDoes("pre_next", TimerAt("free"),
                     IF timer.pre = NULL THEN list
                     ELSE [list EXCEPT !.next[timer.pre] = list.next[timer.link]], pool)

(* Mutant: the link is not given back. *)
FreeLinkForgets == TimerDoes("free", TimerAt("count_load"), list, pool)

FreeLink == TimerDoes("free", TimerAt("count_load"),
                      [list EXCEPT !.isUsed[timer.link] = FALSE], pool)
CountLoad == TimerDoes("count_load",
                       [timer EXCEPT !.pc = "count_store", !.count = list.count], list, pool)
CountStore == TimerDoes("count_store", TimerAt("advance"),
                        [list EXCEPT !.count = (timer.count + HUGE) % (HUGE + 1)], pool)
Advance == TimerDoes("advance", [timer EXCEPT !.pc = "scan",
                                              !.link = list.next[timer.link]], list, pool)

ReadType == TimerDoes("read_type", [timer EXCEPT !.pc = "release",
                                                 !.type = pool[timer.event].type], list, pool)

(* Mutant: the event is released with a mark that is not free. *)
ReleaseMarksInvalid == TimerDoes("release", TimerAt("handle_cmd"), list,
                                 [pool EXCEPT ![timer.event].type = 255])

(* The event is free from here on, and still to be read. *)
Release == TimerDoes("release", TimerAt("handle_cmd"), list,
                     [pool EXCEPT ![timer.event].type = FREE])
HandleCmd == TimerDoes("handle_cmd", [timer EXCEPT !.pc = "handle",
                                                   !.cmd = pool[timer.event].cmd], list, pool)
Handle ==
    /\ TimerDoes("handle", TimerAt("wait"), list, pool)
    /\ handled' = Append(handled, [type |-> timer.type, cmd |-> timer.cmd,
                                   buff |-> pool[timer.event].buff])

Timer ==
    /\ uart.pc \in SwitchPoints \cup {"ready"}
    /\ \/ Handle
       \/ /\ \/ Wake \/ GetFirst
             \/ RemoveBegin \/ ScanEnd \/ ScanMatch \/ ScanOther
             \/ HeadLoad \/ HeadStore \/ TailTest \/ TailStore \/ PreNext
             \/ FreeLink \/ CountLoad \/ CountStore \/ Advance
             \/ ReadType \/ Release \/ HandleCmd
          /\ UNCHANGED handled

AtRest == uart.pc = "ready" /\ timer.pc = "wait"

(* Every message the bound allows was received, and the timer thread finds
   nothing to do. *)
Done == AtRest /\ Len(accepted) = MaxAccepted /\ list.count = 0 /\ UNCHANGED vars

Next == Uart \/ Timer \/ Done

Spec == Init /\ [][Next]_vars

(* Threads of equal priority take turns. *)
FairSpec == Spec /\ WF_vars(Uart) /\ WF_vars(Timer)

-----------------------------------------------------------------------------
(* Properties *)

(* Program counters and the fields of pool and list keep to their types. *)
TypeOK ==
    /\ uart.pc \in UartPoints \cup {"fault"}
    /\ timer.pc \in TimerPoints \cup {"fault"}
    /\ {list.head, list.tail} \subseteq Links \cup {NULL}
    /\ list.next \in [Links -> Links \cup {NULL}]
    /\ list.data \in [Links -> Events \cup {0}]
    /\ list.isUsed \in [Links -> BOOLEAN]
    /\ list.count \in 0..HUGE
    /\ \A e \in Events : pool[e].type \in {FREE} \cup {m.type : m \in Messages}

(* The handlers are called with the messages that were received: every one of
   them once, in order, with its own type, command and data. *)
HandledInOrder == IsPrefix(handled, accepted)

(* A message whose frame was accepted is handled some day. *)
EveryMessageHandled ==
    \A n \in 1..MaxAccepted : Len(accepted) >= n ~> Len(handled) >= n

(* Between two calls the pool of links, the pool of events and the count tell
   the same: as many of each are in use as messages wait. *)
NothingLeaks ==
    AtRest =>
        LET waiting == Len(accepted) - Len(handled)
        IN  /\ list.count = waiting
            /\ Cardinality({l \in Links : list.isUsed[l]}) = waiting
            /\ Cardinality({e \in Events : pool[e].type # FREE}) = waiting
=============================================================================
