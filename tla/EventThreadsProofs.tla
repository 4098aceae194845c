------------------------- MODULE EventThreadsProofs -------------------------
(***************************************************************************)
(* Proofs about EventThreads, wherever the threads are switched: pointers  *)
(* keep to their pools; and unless both threads get into the list at once, *)
(* or an event is taken again while it is still read, the handlers are     *)
(* called with the accepted messages in order, and neither a link, an      *)
(* event nor a count leaks.                                                *)
(*                                                                         *)
(* The invariant says that there is a sequence q of links, the list, and a *)
(* truth value, whether the timer thread has taken its event out of it,    *)
(* that fit the list's fields, both threads' places, the events and the    *)
(* two histories.  Each step of a thread keeps q, but for three of them:   *)
(* FirstHead and AppendNext make it longer, HeadStore makes it shorter.    *)
(***************************************************************************)
EXTENDS EventThreads, SequenceTheorems, FiniteSetTheorems, TLAPS

-----------------------------------------------------------------------------
(* The types *)

TypesUsed == {0} \cup {m.type : m \in Messages}
CmdsUsed == {0} \cup {m.cmd : m \in Messages}
BuffsUsed == {0} \cup {m.buff : m \in Messages}
Event == [type : TypesUsed, cmd : CmdsUsed, buff : BuffsUsed]
LinkOrNull == Links \cup {NULL}

UartType == [pc : UartPoints \cup {"fault"}, msg : Messages \cup {NoMessage},
             event : Events \cup {0}, link : LinkOrNull, count : 0..HUGE]
TimerType == [pc : TimerPoints \cup {"fault"}, event : Events \cup {NULL},
              link : LinkOrNull, pre : LinkOrNull, next : LinkOrNull, count : 0..HUGE,
              type : TypesUsed, cmd : CmdsUsed]
ListType == [head : LinkOrNull, tail : LinkOrNull, count : 0..HUGE,
             next : [Links -> LinkOrNull], data : [Links -> Events \cup {0}],
             isUsed : [Links -> BOOLEAN]]
PoolType == [Events -> Event]

(* Where a thread uses its event or its link, it has one. *)
UartHasEvent == UartPoints \ {"ready", "alloc"}
UartHasLink == UartHasEvent \ {"cmd", "type", "buff", "link"}
TimerHasEvent == TimerPoints \ {"wait", "get"}
TimerHasLink == TimerHasEvent \ {"remove", "scan", "read_type", "release", "handle_cmd",
                                 "handle"}

UartTyped(u) ==
    /\ u \in UartType
    /\ u.pc \notin {"ready", "fault"} => u.msg \in Messages
    /\ u.pc \in UartHasEvent => u.event \in Events
    /\ u.pc \in UartHasLink => u.link \in Links

TimerTyped(t) ==
    /\ t \in TimerType
    /\ t.pc \in TimerHasEvent => t.event \in Events
    /\ t.pc \in TimerHasLink => t.link \in Links

TypeInv ==
    /\ UartTyped(uart) /\ TimerTyped(timer) /\ list \in ListType /\ pool \in PoolType
    /\ accepted \in Seq(Messages) /\ handled \in Seq(Event)
    /\ Len(accepted) <= MaxAccepted

LEMMA Constants1 ==
  /\ PoolSize \in Nat \ {0} /\ EventNum \in Nat \ {0} /\ MaxAccepted \in Nat
  /\ HUGE \in Nat /\ HUGE > MaxAccepted /\ 0 \notin Links /\ 0 \notin Events
  /\ \A n \in Nat : n % (HUGE + 1) \in 0..HUGE
<1>1. /\ PoolSize \in Nat \ {0} /\ EventNum \in Nat \ {0} /\ MaxAccepted \in Nat
      /\ HUGE \in Nat /\ HUGE > MaxAccepted /\ 0 \notin Links /\ 0 \notin Events
  BY ThreadsAssumption DEF HUGE, Links, Events
<1>2. \A h \in Nat : \A n \in Nat : n % (h + 1) \in 0..h
  OBVIOUS
<1> QED BY <1>1, <1>2

LEMMA MessageIsEvent == Messages \cup {NoMessage} \subseteq Event
<1>1. ASSUME NEW m \in Messages \cup {NoMessage} PROVE m \in Event
  <2>1. m = [type |-> m.type, cmd |-> m.cmd, buff |-> m.buff]
    BY ThreadsAssumption DEF NoMessage
  <2>2. m.type \in TypesUsed /\ m.cmd \in CmdsUsed /\ m.buff \in BuffsUsed
    BY DEF NoMessage, FREE, TypesUsed, CmdsUsed, BuffsUsed
  <2> QED BY <2>1, <2>2 DEF Event
<1> QED BY <1>1

LEMMA UartDoesTypes ==
  ASSUME TypeInv, NEW pc, NEW u, NEW l, NEW p, UartDoes(pc, u, l, p), UNCHANGED accepted,
         UartTyped(u), l \in ListType, p \in PoolType
  PROVE  TypeInv'
  BY DEF TypeInv, UartDoes, UartTyped, TimerTyped

LEMMA TimerDoesTypes ==
  ASSUME TypeInv, NEW pc, NEW t, NEW l, NEW p, TimerDoes(pc, t, l, p), handled' \in Seq(Event),
         TimerTyped(t), l \in ListType, p \in PoolType
  PROVE  TypeInv'
  BY DEF TypeInv, TimerDoes, UartTyped, TimerTyped

LEMMA UartKeepsTypes ==
  ASSUME TypeInv, Uart
  PROVE  TypeInv'
<1> USE DEF UartAt, UartTyped, UartType, UartPoints, UartHasEvent, UartHasLink
<1>0. UartTyped(uart) /\ list \in ListType /\ pool \in PoolType
  BY DEF TypeInv
<1>1. ASSUME NEW m \in Messages, Accept(m) PROVE TypeInv'
  <2>1. UartTyped([uart EXCEPT !.pc = "alloc", !.msg = m])
    BY <1>0
  <2>2. accepted' = Append(accepted, m) /\ Len(accepted) < MaxAccepted
        /\ accepted \in Seq(Messages)
    BY <1>1 DEF Accept, TypeInv
  <2>3. accepted' \in Seq(Messages) /\ Len(accepted') <= MaxAccepted
    BY <2>2, Constants1
  <2> QED BY <1>0, <1>1, <2>1, <2>3 DEF Accept, UartDoes, TypeInv, TimerTyped
<1>2. ASSUME Alloc, UNCHANGED accepted PROVE TypeInv'
  <2>1. PICK e \in Events : UartDoes("alloc", [uart EXCEPT !.pc = "cmd", !.event = e], list, pool)
    BY <1>2 DEF Alloc
  <2>2. UartTyped([uart EXCEPT !.pc = "cmd", !.event = e])
    BY <1>0, <2>1 DEF UartDoes
  <2> QED BY <1>0, <1>2, <2>1, <2>2, UartDoesTypes
<1>3. ASSUME SetCmd \/ SetType \/ SetBuff, UNCHANGED accepted PROVE TypeInv'
  <2> DEFINE e == uart.event m == uart.msg
  <2>1. m \in Event
    BY <1>0, MessageIsEvent
  <2>2. m.cmd \in CmdsUsed /\ m.type \in TypesUsed /\ m.buff \in BuffsUsed
    BY <2>1 DEF Event
  <2>3. \A x \in CmdsUsed : [pool EXCEPT ![e].cmd = x] \in PoolType
    BY ZenonT(60), <1>0 DEF PoolType, Event
  <2>4. \A x \in TypesUsed : [pool EXCEPT ![e].type = x] \in PoolType
    BY ZenonT(60), <1>0 DEF PoolType, Event
  <2>5. \A x \in BuffsUsed : [pool EXCEPT ![e].buff = x] \in PoolType
    BY <1>0 DEF PoolType, Event
  <2>6. ASSUME SetCmd PROVE TypeInv'
    <3>1. UartTyped(UartAt("type"))
      BY <1>0, <2>6 DEF SetCmd, UartDoes
    <3> QED BY <1>0, <1>3, <2>2, <2>3, <2>6, <3>1, UartDoesTypes DEF SetCmd
  <2>7. ASSUME SetType PROVE TypeInv'
    <3>1. UartTyped(UartAt("buff"))
      BY <1>0, <2>7 DEF SetType, UartDoes
    <3> QED BY <1>0, <1>3, <2>2, <2>4, <2>7, <3>1, UartDoesTypes DEF SetType
  <2>8. ASSUME SetBuff PROVE TypeInv'
    <3>1. UartTyped(UartAt("link"))
      BY SMTT(30), <1>0, <2>8 DEF SetBuff, UartDoes
    <3> QED BY <1>0, <1>3, <2>2, <2>5, <2>8, <3>1, UartDoesTypes DEF SetBuff
  <2> QED BY <1>3, <2>6, <2>7, <2>8
<1>4. ASSUME TakeLink, UNCHANGED accepted PROVE TypeInv'
  <2>1. CASE UartDoes("link", UartAt("ready"), list, pool)
    <3>1. UartTyped(UartAt("ready"))
      BY <1>0
    <3> QED BY <1>0, <1>4, <2>1, <3>1, UartDoesTypes
  <2>2. ASSUME NEW l \in Links,
               UartDoes("link", [uart EXCEPT !.pc = "fill", !.link = l],
                        [list EXCEPT !.isUsed[l] = TRUE], pool)
        PROVE  TypeInv'
    <3>1. UartTyped([uart EXCEPT !.pc = "fill", !.link = l])
      BY <1>0, <2>2 DEF UartDoes, LinkOrNull
    <3>2. [list EXCEPT !.isUsed[l] = TRUE] \in ListType
      BY <1>0 DEF ListType
    <3> QED BY <1>0, <1>4, <2>2, <3>1, <3>2, UartDoesTypes
  <2> QED BY <1>4, <2>1, <2>2 DEF TakeLink
<1>5. ASSUME FillLink \/ FirstHead \/ FirstTail \/ FirstCount, UNCHANGED accepted PROVE TypeInv'
  <2> DEFINE k == uart.link
  <2>1. k \in LinkOrNull /\ NULL \in LinkOrNull /\ uart.event \in Events \cup {0} /\ 1 \in 0..HUGE
    BY <1>0, Constants1 DEF LinkOrNull
  <2>2. /\ [list EXCEPT !.next[k] = NULL, !.data[k] = uart.event] \in ListType
        /\ [list EXCEPT !.head = k] \in ListType /\ [list EXCEPT !.tail = k] \in ListType
        /\ [list EXCEPT !.count = 1] \in ListType
    BY <1>0, <2>1 DEF ListType
  <2>3. ASSUME FillLink PROVE TypeInv'
    <3>1. UartTyped(UartAt("test_equal"))
      BY <1>0, <2>3 DEF FillLink, UartDoes
    <3> QED BY <1>0, <1>5, <2>2, <2>3, <3>1, UartDoesTypes DEF FillLink
  <2>4. ASSUME FirstHead PROVE TypeInv'
    <3>1. UartTyped(UartAt("first_tail"))
      BY <1>0, <2>4 DEF FirstHead, UartDoes
    <3> QED BY <1>0, <1>5, <2>2, <2>4, <3>1, UartDoesTypes DEF FirstHead
  <2>5. ASSUME FirstTail PROVE TypeInv'
    <3>1. UartTyped(UartAt("first_count"))
      BY <1>0, <2>5 DEF FirstTail, UartDoes
    <3> QED BY <1>0, <1>5, <2>2, <2>5, <3>1, UartDoesTypes DEF FirstTail
  <2>6. ASSUME FirstCount PROVE TypeInv'
    <3>1. UartTyped(UartAt("ready"))
      BY <1>0
    <3> QED BY <1>0, <1>5, <2>2, <2>6, <3>1, UartDoesTypes DEF FirstCount
  <2> QED BY <1>5, <2>3, <2>4, <2>5, <2>6
<1>6. ASSUME TestEqual \/ TestNull, UNCHANGED accepted PROVE TypeInv'
  <2>1. /\ uart.pc = "test_equal" => UartTyped(UartAt("test_null"))
        /\ uart.pc = "test_null" => UartTyped(UartAt("first_head"))
        /\ uart.pc \in {"test_equal", "test_null"} => UartTyped(UartAt("append_next"))
    BY <1>0
  <2>2. ASSUME TestEqual PROVE TypeInv'
    BY <1>0, <1>6, <2>1, <2>2, UartDoesTypes DEF TestEqual, UartDoes
  <2>3. ASSUME TestNull PROVE TypeInv'
    BY <1>0, <1>6, <2>1, <2>3, UartDoesTypes DEF TestNull, UartDoes
  <2> QED BY <1>6, <2>2, <2>3
<1>7. ASSUME AppendNext \/ AppendTail \/ AppendLoad \/ AppendStore, UNCHANGED accepted
      PROVE  TypeInv'
  <2> DEFINE k == uart.link
  <2>1. /\ k \in LinkOrNull /\ uart.count \in 0..HUGE /\ list.count \in 0..HUGE
        /\ (uart.count + 1) % (HUGE + 1) \in 0..HUGE
    BY <1>0, Constants1 DEF ListType
  <2>2. /\ [list EXCEPT !.next[list.tail] = k] \in ListType
           /\ [list EXCEPT !.tail = k] \in ListType
        /\ [list EXCEPT !.count = (uart.count + 1) % (HUGE + 1)] \in ListType
    BY <1>0, <2>1 DEF ListType
  <2>3. /\ UartTyped(UartAt("fault"))
        /\ UartTyped(UartAt("ready"))
        /\ uart.pc = "append_next" => UartTyped(UartAt("append_tail"))
        /\ uart.pc = "append_tail" => UartTyped(UartAt("append_load"))
        /\ uart.pc = "append_load" =>
              UartTyped([uart EXCEPT !.pc = "append_store", !.count = list.count])
    BY ZenonT(60), <1>0, <2>1
  <2> HIDE DEF UartTyped, UartAt
  <2>4. ASSUME AppendNext PROVE TypeInv'
    BY <1>0, <1>7, <2>2, <2>3, <2>4, UartDoesTypes DEF AppendNext, UartDoes
  <2>5. ASSUME AppendTail PROVE TypeInv'
    BY <1>0, <1>7, <2>2, <2>3, <2>5, UartDoesTypes DEF AppendTail, UartDoes
  <2>6. ASSUME AppendLoad PROVE TypeInv'
    BY <1>0, <1>7, <2>2, <2>3, <2>6, UartDoesTypes DEF AppendLoad, UartDoes
  <2>7. ASSUME AppendStore PROVE TypeInv'
    BY <1>0, <1>7, <2>2, <2>3, <2>7, UartDoesTypes DEF AppendStore, UartDoes
  <2> QED BY <1>7, <2>4, <2>5, <2>6, <2>7
<1> QED BY <1>1, <1>2, <1>3, <1>4, <1>5, <1>6, <1>7 DEF Uart

LEMMA TimerKeepsTypes ==
  ASSUME TypeInv, Timer
  PROVE  TypeInv'
<1> USE DEF TimerAt, TimerTyped, TimerType, TimerPoints, TimerHasEvent, TimerHasLink
<1>0. TimerTyped(timer) /\ list \in ListType /\ pool \in PoolType /\ handled \in Seq(Event)
  BY DEF TypeInv
<1>1. /\ timer.link \in LinkOrNull /\ timer.next \in LinkOrNull /\ timer.pre \in LinkOrNull
      /\ timer.event \in Events \cup {NULL} /\ NULL \in LinkOrNull /\ list.head \in LinkOrNull
      /\ timer.count \in 0..HUGE /\ list.count \in 0..HUGE
      /\ \A k \in Links : list.next[k] \in LinkOrNull /\ list.data[k] \in Events \cup {NULL}
      /\ \A k \in LinkOrNull : k # NULL => k \in Links
      /\ \A e \in Events \cup {NULL} : e # NULL => e \in Events
      /\ \A e \in Events : pool[e].type \in TypesUsed /\ pool[e].cmd \in CmdsUsed
                           /\ pool[e].buff \in BuffsUsed
  BY <1>0, Constants1 DEF ListType, LinkOrNull, PoolType, Event, NULL
<1>2. ASSUME Wake \/ GetFirst, UNCHANGED handled PROVE TypeInv'
  <2>1. ASSUME Wake PROVE TypeInv'
    <3>1. TimerTyped(TimerAt("get"))
      BY <1>0
    <3> QED BY <1>0, <1>2, <2>1, <3>1, TimerDoesTypes DEF Wake
  <2>2. ASSUME NEW e \in Events \cup {NULL},
               TimerDoes("get", [timer EXCEPT !.pc = IF e = NULL THEN "fault" ELSE "remove",
                                              !.event = e], list, pool)
        PROVE  TypeInv'
    <3> DEFINE t == [timer EXCEPT !.pc = IF e = NULL THEN "fault" ELSE "remove", !.event = e]
    <3>1. TimerTyped(t)
      BY ZenonT(60), <1>0, <1>1
    <3>2. TimerDoes("get", t, list, pool)
      BY <2>2
    <3> HIDE DEF t, TimerTyped
    <3> QED BY <1>0, <1>2, <3>1, <3>2, TimerDoesTypes
  <2>3. list.head # NULL => list.data[list.head] \in Events \cup {NULL}
    BY <1>1
  <2> QED BY <1>2, <2>1, <2>2, <2>3 DEF GetFirst
<1>3. ASSUME RemoveBegin \/ ScanEnd \/ ScanMatch \/ ScanOther, UNCHANGED handled PROVE TypeInv'
  <2>1. ASSUME RemoveBegin PROVE TypeInv'
    <3>1. TimerTyped([timer EXCEPT !.pc = "scan", !.link = list.head, !.pre = NULL])
      BY <1>0, <1>1, <2>1 DEF RemoveBegin, TimerDoes
    <3> QED BY <1>0, <1>3, <2>1, <3>1, TimerDoesTypes DEF RemoveBegin
  <2>2. ASSUME ScanEnd PROVE TypeInv'
    <3>1. TimerTyped(TimerAt("read_type"))
      BY <1>0, <2>2 DEF ScanEnd, TimerDoes
    <3> QED BY <1>0, <1>3, <2>2, <3>1, TimerDoesTypes DEF ScanEnd
  <2>3. ASSUME ScanMatch PROVE TypeInv'
    <3>1. TimerTyped(TimerAt(IF timer.link = list.head THEN "head_load" ELSE "tail_test"))
      BY <1>0, <1>1, <2>3 DEF ScanMatch, TimerDoes
    <3> QED BY <1>0, <1>3, <2>3, <3>1, TimerDoesTypes DEF ScanMatch
  <2>4. ASSUME ScanOther PROVE TypeInv'
    <3>1. TimerTyped([timer EXCEPT !.pre = timer.link, !.link = list.next[timer.link]])
      BY <1>0, <1>1, <2>4 DEF ScanOther, TimerDoes
    <3> QED BY <1>0, <1>3, <2>4, <3>1, TimerDoesTypes DEF ScanOther
  <2> QED BY <1>3, <2>1, <2>2, <2>3, <2>4
<1>4. ASSUME HeadLoad \/ HeadStore \/ TailTest \/ TailStore, UNCHANGED handled PROVE TypeInv'
  <2>1. /\ [list EXCEPT !.head = timer.next] \in ListType
        /\ [list EXCEPT !.tail = timer.pre] \in ListType
    BY <1>0, <1>1 DEF ListType
  <2>2. ASSUME HeadLoad PROVE TypeInv'
    <3>1. TimerTyped([timer EXCEPT !.pc = "head_store", !.next = list.next[timer.link]])
      BY <1>0, <1>1, <2>2 DEF HeadLoad, TimerDoes
    <3> QED BY <1>0, <1>4, <2>2, <3>1, TimerDoesTypes DEF HeadLoad
  <2>3. ASSUME HeadStore PROVE TypeInv'
    <3>1. TimerTyped(TimerAt("tail_test"))
      BY <1>0, <2>3 DEF HeadStore, TimerDoes
    <3> QED BY <1>0, <1>4, <2>1, <2>3, <3>1, TimerDoesTypes DEF HeadStore
  <2>4. ASSUME TailTest PROVE TypeInv'
    <3>1. TimerTyped(TimerAt(IF timer.link = list.tail THEN "tail_store" ELSE "pre_next"))
      BY <1>0, <2>4 DEF TailTest, TimerDoes
    <3> QED BY <1>0, <1>4, <2>4, <3>1, TimerDoesTypes DEF TailTest
  <2>5. ASSUME TailStore PROVE TypeInv'
    <3>1. TimerTyped(TimerAt("pre_next"))
      BY <1>0, <2>5 DEF TailStore, TimerDoes
    <3> QED BY <1>0, <1>4, <2>1, <2>5, <3>1, TimerDoesTypes DEF TailStore
  <2> QED BY <1>4, <2>2, <2>3, <2>4, <2>5
<1>5. ASSUME PreNext \/ FreeLink, UNCHANGED handled PROVE TypeInv'
  <2>1. ASSUME PreNext PROVE TypeInv'
    <3>1. TimerTyped(TimerAt("free")) /\ timer.link \in Links
      BY <1>0, <2>1 DEF PreNext, TimerDoes
    <3>2. [list EXCEPT !.next[timer.pre] = list.next[timer.link]] \in ListType
      BY <1>0, <1>1, <3>1 DEF ListType
    <3> QED BY <1>0, <1>5, <2>1, <3>1, <3>2, TimerDoesTypes DEF PreNext
  <2>2. ASSUME FreeLink PROVE TypeInv'
    <3>1. TimerTyped(TimerAt("count_load"))
      BY <1>0, <2>2 DEF FreeLink, TimerDoes
    <3>2. [list EXCEPT !.isUsed[timer.link] = FALSE] \in ListType
      BY <1>0 DEF ListType
    <3> QED BY <1>0, <1>5, <2>2, <3>1, <3>2, TimerDoesTypes DEF FreeLink
  <2> QED BY <1>5, <2>1, <2>2
<1>6. ASSUME CountLoad \/ CountStore \/ Advance, UNCHANGED handled PROVE TypeInv'
  <2>1. ASSUME CountLoad PROVE TypeInv'
    <3>1. TimerTyped([timer EXCEPT !.pc = "count_store", !.count = list.count])
      BY <1>0, <1>1, <2>1 DEF CountLoad, TimerDoes
    <3> QED BY <1>0, <1>6, <2>1, <3>1, TimerDoesTypes DEF CountLoad
  <2>2. ASSUME CountStore PROVE TypeInv'
    <3>1. TimerTyped(TimerAt("advance"))
      BY <1>0, <2>2 DEF CountStore, TimerDoes
    <3>2. (timer.count + HUGE) % (HUGE + 1) \in 0..HUGE
      BY <1>1, Constants1
    <3>3. [list EXCEPT !.count = (timer.count + HUGE) % (HUGE + 1)] \in ListType
      BY <1>0, <3>2 DEF ListType
    <3> QED BY <1>0, <1>6, <2>2, <3>1, <3>3, TimerDoesTypes DEF CountStore
  <2>3. ASSUME Advance PROVE TypeInv'
    <3>1. TimerTyped([timer EXCEPT !.pc = "scan", !.link = list.next[timer.link]])
      BY <1>0, <1>1, <2>3 DEF Advance, TimerDoes
    <3> QED BY <1>0, <1>6, <2>3, <3>1, TimerDoesTypes DEF Advance
  <2> QED BY <1>6, <2>1, <2>2, <2>3
<1>7. ASSUME ReadType \/ Release \/ HandleCmd, UNCHANGED handled PROVE TypeInv'
  <2>1. ASSUME ReadType PROVE TypeInv'
    <3>1. TimerTyped([timer EXCEPT !.pc = "release", !.type = pool[timer.event].type])
      BY <1>0, <1>1, <2>1 DEF ReadType, TimerDoes
    <3> QED BY <1>0, <1>7, <2>1, <3>1, TimerDoesTypes DEF ReadType
  <2>2. ASSUME Release PROVE TypeInv'
    <3>1. TimerTyped(TimerAt("handle_cmd"))
      BY <1>0, <2>2 DEF Release, TimerDoes
    <3>2. FREE \in TypesUsed
      BY DEF TypesUsed, FREE
    <3>3. [pool EXCEPT ![timer.event].type = FREE] \in PoolType
      BY <1>0, <3>2 DEF PoolType, Event
    <3> QED BY <1>0, <1>7, <2>2, <3>1, <3>3, TimerDoesTypes DEF Release
  <2>3. ASSUME HandleCmd PROVE TypeInv'
    <3>1. TimerTyped([timer EXCEPT !.pc = "handle", !.cmd = pool[timer.event].cmd])
      BY <1>0, <1>1, <2>3 DEF HandleCmd, TimerDoes
    <3> QED BY <1>0, <1>7, <2>3, <3>1, TimerDoesTypes DEF HandleCmd
  <2> QED BY <1>7, <2>1, <2>2, <2>3
<1>8. ASSUME Handle PROVE TypeInv'
  <2> DEFINE x == [type |-> timer.type, cmd |-> timer.cmd, buff |-> pool[timer.event].buff]
  <2>1. TimerTyped(TimerAt("wait")) /\ timer.event \in Events /\ timer.type \in TypesUsed
        /\ timer.cmd \in CmdsUsed
    BY <1>0, <1>8 DEF Handle, TimerDoes
  <2>2. x \in Event
    BY <1>1, <2>1 DEF Event
  <2>3. handled' = Append(handled, x)
    BY <1>8 DEF Handle
  <2> HIDE DEF x
  <2>4. handled' \in Seq(Event)
    BY <1>0, <2>2, <2>3
  <2> QED BY <1>0, <1>8, <2>1, <2>4, TimerDoesTypes DEF Handle
<1> QED BY <1>2, <1>3, <1>4, <1>5, <1>6, <1>7, <1>8 DEF Timer

LEMMA InitTypes == Init => TypeInv
<1> SUFFICES ASSUME Init PROVE TypeInv
  OBVIOUS
<1>1. UartTyped(uart)
  BY Constants1 DEF Init, UartTyped, UartType, UartPoints, UartHasEvent, UartHasLink, LinkOrNull,
     NULL
<1>2. 0 \in TypesUsed /\ 0 \in CmdsUsed /\ 0 \in BuffsUsed /\ 0 \in 0..HUGE
  BY Constants1 DEF TypesUsed, CmdsUsed, BuffsUsed, NoMessage, FREE
<1>3. TimerTyped(timer)
  BY <1>2 DEF Init, TimerTyped, TimerType, TimerPoints, TimerHasEvent, TimerHasLink, LinkOrNull,
     NULL, FREE
<1>4. list \in ListType
  BY <1>2 DEF Init, ListType, LinkOrNull, NULL
<1>5. pool \in PoolType
  BY <1>2, MessageIsEvent DEF Init, PoolType
<1> QED BY <1>1, <1>3, <1>4, <1>5, Constants1 DEF Init, TypeInv

LEMMA NextKeepsTypes == TypeInv /\ [Next]_vars => TypeInv'
<1> SUFFICES ASSUME TypeInv, [Next]_vars PROVE TypeInv'
  OBVIOUS
<1>1. ASSUME UNCHANGED vars PROVE TypeInv'
  BY <1>1 DEF TypeInv, vars, UartTyped, TimerTyped
<1>2. ASSUME Done PROVE TypeInv'
  BY <1>1, <1>2 DEF Done
<1> QED BY <1>1, <1>2, UartKeepsTypes, TimerKeepsTypes DEF Next

(* Wherever the threads are switched, also inside the windows, pointers stay in
   list_t.pool and eventPool or are NULL, and every place of a thread that uses a
   link or an event has one. *)
THEOREM ThreadsTypeCorrect == Spec => []TypeOK
<1>1. TypeInv => TypeOK
  <2> SUFFICES ASSUME TypeInv PROVE TypeOK
    OBVIOUS
  <2>1. uart.pc \in UartPoints \cup {"fault"} /\ timer.pc \in TimerPoints \cup {"fault"}
    BY DEF TypeInv, UartTyped, TimerTyped, UartType, TimerType
  <2>2. /\ {list.head, list.tail} \subseteq Links \cup {NULL}
        /\ list.next \in [Links -> Links \cup {NULL}] /\ list.data \in [Links -> Events \cup {0}]
        /\ list.isUsed \in [Links -> BOOLEAN] /\ list.count \in 0..HUGE
    BY DEF TypeInv, ListType, LinkOrNull
  <2>3. \A e \in Events : pool[e].type \in TypesUsed
    BY DEF TypeInv, PoolType, Event
  <2>4. TypesUsed = {FREE} \cup {m.type : m \in Messages}
    BY DEF TypesUsed, FREE
  <2> QED BY <2>1, <2>2, <2>3, <2>4 DEF TypeOK
<1> QED BY InitTypes, NextKeepsTypes, <1>1, PTL DEF Spec

-----------------------------------------------------------------------------
(* What the list, the pool and the two threads have to do with each other *)

(* The link uart has taken and not yet appended; the link timer has unchained
   and not yet freed *)
Appending == {"fill", "test_equal", "test_null", "first_head", "append_next"}
Unchained == {"tail_test", "tail_store", "pre_next", "free"}

(* q: the links in the list, oldest first *)
Listed(q, l) == \E i \in DOMAIN q : q[i] = l

Chain(q) ==
    /\ \A i, j \in DOMAIN q : q[i] = q[j] => i = j
    /\ list.head = IF q = << >> THEN NULL ELSE q[1]
    /\ \A i \in DOMAIN q : list.next[q[i]] = IF i = Len(q) THEN NULL ELSE q[i + 1]

Tail1(q) ==
    list.tail = IF uart.pc = "first_tail" THEN NULL
                ELSE IF uart.pc = "append_tail" THEN q[Len(q) - 1]
                ELSE IF q # << >> THEN q[Len(q)]
                ELSE IF timer.pc \in {"tail_test", "tail_store"} THEN timer.link ELSE NULL

Counted(q) ==
    IF uart.pc \in {"first_tail", "first_count", "append_tail", "append_load", "append_store"}
    THEN list.count + 1 = Len(q)
    ELSE IF timer.pc \in Unchained \cup {"count_load", "count_store"} THEN list.count = Len(q) + 1
    ELSE list.count = Len(q)

Used(q) ==
    /\ \A l \in Links : list.isUsed[l] <=> \/ Listed(q, l)
                                           \/ uart.pc \in Appending /\ l = uart.link
                                           \/ timer.pc \in Unchained /\ l = timer.link
    /\ uart.pc \in Appending => ~ Listed(q, uart.link)
    /\ timer.pc \in Unchained => ~ Listed(q, timer.link) /\ list.data[timer.link] = timer.event
    /\ uart.pc \in Appending /\ timer.pc \in Unchained => uart.link # timer.link
    /\ uart.pc \in Appending \ {"fill"} =>
        list.next[uart.link] = NULL /\ list.data[uart.link] = uart.event

(* Where uart stands *)
UartPlace(q) ==
    /\ uart.pc = "test_null" => list.head = list.tail
    /\ uart.pc = "first_head" => q = << >>
    /\ uart.pc \in {"first_tail", "first_count"} => Len(q) = 1
    /\ uart.pc = "first_tail" => uart.link = q[1]
    /\ uart.pc = "append_next" => q # << >>
    /\ uart.pc = "append_tail" => uart.link = q[Len(q)]
    /\ uart.pc \in {"append_tail", "append_load", "append_store"} => Len(q) >= 2
    /\ uart.pc = "append_store" => uart.count = list.count
    /\ uart.pc # "fault"

(* Where timer stands: taken says whether its event is out of the list. *)
Before == {"get", "remove", "scan", "head_load", "head_store"}
TimerPlace(q, taken) ==
    /\ timer.pc # "fault"
    /\ taken => timer.pc \notin {"wait", "get", "remove", "head_load", "head_store"}
    /\ ~ taken => timer.pc \in Before \cup {"wait"}
    /\ ~ taken /\ timer.pc \in Before => q # << >>
    /\ ~ taken /\ timer.pc \in Before \ {"get"} => timer.event = list.data[q[1]]
    /\ ~ taken /\ timer.pc \in Before \ {"get", "remove"} => timer.link = q[1] /\ timer.pre = NULL
    /\ timer.pc = "head_store" => timer.next = list.next[q[1]]
    /\ timer.pc \in Unchained => timer.pre = NULL
    /\ timer.pc = "tail_store" => q = << >>
    /\ timer.pc \in Unchained \cup {"count_load", "count_store", "advance"} =>
        list.next[timer.link] = NULL \/ Listed(q, list.next[timer.link])
    /\ timer.pc = "count_store" => timer.count = list.count
    /\ taken /\ timer.pc = "scan" => timer.link = NULL \/ Listed(q, timer.link)

(* An event is in the list, in the hands of one thread, or free. *)
InList(q, e) == \E i \in DOMAIN q : list.data[q[i]] = e

InUart == UartHasEvent \ {"first_tail", "first_count", "append_tail", "append_load",
                    "append_store"}

EventsKept(q, taken) ==
    /\ \A i, j \in DOMAIN q : list.data[q[i]] = list.data[q[j]] => i = j
    /\ \A i \in DOMAIN q : list.data[q[i]] \in Events
    /\ uart.pc \in InUart => ~ InList(q, uart.event)
    /\ taken => ~ InList(q, timer.event)
    /\ taken /\ uart.pc \in InUart => uart.event # timer.event
    /\ \A e \in Events : pool[e].type # FREE <=>
            \/ InList(q, e)
            \/ uart.pc \in InUart \ {"cmd", "type"} /\ e = uart.event
            \/ taken /\ timer.pc \notin {"handle_cmd", "handle"} /\ e = timer.event
    /\ uart.pc = "alloc" => \E e \in Events : pool[e].type = FREE

(* The messages: those handled, the one the timer thread has taken out of the
   list, those in the list, the one in the uart thread's hands *)
Coming == uart.pc \in InUart \cup {"alloc"}
Out(taken) == Len(handled) + (IF taken THEN 1 ELSE 0)

Accounted(q, taken) == Len(accepted) = Out(taken) + Len(q) + (IF Coming THEN 1 ELSE 0)
HandledAccepted == \A i \in DOMAIN handled : handled[i] = accepted[i]
ListedMessages(q, taken) ==
    \A i \in DOMAIN q : pool[list.data[q[i]]] = accepted[Out(taken) + i]
UartMessage ==
    /\ Coming => uart.msg = accepted[Len(accepted)]
    /\ uart.pc \in InUart \ {"cmd"} => pool[uart.event].cmd = uart.msg.cmd
    /\ uart.pc \in InUart \ {"cmd", "type"} => pool[uart.event].type = uart.msg.type
    /\ uart.pc \in InUart \ {"cmd", "type", "buff"} => pool[uart.event].buff = uart.msg.buff
TimerMessage(taken) ==
    taken => LET m == accepted[Len(handled) + 1]
             IN  /\ pool[timer.event].cmd = m.cmd /\ pool[timer.event].buff = m.buff
                 /\ timer.pc \notin {"handle_cmd", "handle"} => pool[timer.event].type = m.type
                 /\ timer.pc \in {"release", "handle_cmd", "handle"} => timer.type = m.type
                 /\ timer.pc = "handle" => timer.cmd = m.cmd

MessagesKept(q, taken) ==
    /\ Accounted(q, taken) /\ HandledAccepted /\ ListedMessages(q, taken)
    /\ UartMessage /\ TimerMessage(taken)

Together(q, taken) ==
    /\ Chain(q) /\ Tail1(q) /\ Counted(q) /\ Used(q)
    /\ UartPlace(q) /\ TimerPlace(q, taken) /\ EventsKept(q, taken) /\ MessagesKept(q, taken)

-----------------------------------------------------------------------------
(* What the invariant says of the sizes *)

(* Nothing but the event e is changed, and e is still one. *)
OnlyChanged(p, e) ==
    /\ \A x \in Events : x # e => p[x] = pool[x]
    /\ p[e] = [type |-> p[e].type, cmd |-> p[e].cmd, buff |-> p[e].buff]

LEMMA ListFits ==
  ASSUME TypeInv, NEW q \in Seq(Links), NEW taken \in BOOLEAN, Together(q, taken)
  PROVE  Len(q) \in Nat /\ Len(q) <= MaxAccepted /\ Len(q) < HUGE
<1>1. Len(q) \in Nat /\ Len(handled) \in Nat /\ Len(accepted) \in Nat
      /\ Len(accepted) <= MaxAccepted
  BY DEF TypeInv
<1>2. Len(q) <= Len(accepted)
  <2> DEFINE out == Out(taken)
             coming == IF Coming THEN 1 ELSE 0
  <2>1. Len(accepted) = out + Len(q) + coming
    BY Zenon DEF Together, MessagesKept, Accounted
  <2>2. out \in Nat /\ coming \in Nat
    BY <1>1 DEF Out
  <2> HIDE DEF out, coming
  <2> QED BY <1>1, <2>1, <2>2
<1> QED BY <1>1, <1>2, Constants1

LEMMA CountWraps ==
  ASSUME NEW n \in Nat, n < HUGE
  PROVE  (n + 1) % (HUGE + 1) = n + 1 /\ (n + 1 + HUGE) % (HUGE + 1) = n
<1>1. \A h \in Nat, m \in Nat : m < h => (m + 1) % (h + 1) = m + 1 /\ (m + 1 + h) % (h + 1) = m
  OBVIOUS
<1> QED BY <1>1, Constants1

LEMMA Sizes ==
  ASSUME TypeInv, NEW q \in Seq(Links), NEW taken \in BOOLEAN, Together(q, taken)
  PROVE  /\ Out(taken) \in Nat /\ Len(q) \in Nat /\ Len(accepted) \in Nat /\ Len(handled) \in Nat
         /\ Out(taken) + Len(q) <= Len(accepted) /\ Len(handled) <= Out(taken)
         /\ Coming => Out(taken) + Len(q) + 1 = Len(accepted)
         /\ taken => Len(handled) + 1 = Out(taken)
<1>1. Len(q) \in Nat /\ Len(handled) \in Nat /\ Len(accepted) \in Nat
  BY DEF TypeInv
<1>2. Out(taken) \in Nat /\ Len(handled) <= Out(taken) /\ (taken => Len(handled) + 1 = Out(taken))
  BY <1>1 DEF Out
<1>3. Len(accepted) = Out(taken) + Len(q) + (IF Coming THEN 1 ELSE 0)
  BY Zenon DEF Together, MessagesKept, Accounted
<1> QED BY <1>1, <1>2, <1>3

-----------------------------------------------------------------------------
(* Threads that are kept apart *)

(* What a lock around listAdd and listRemoveData would give, and a release after
   the last use: both threads are not in the list at once, and the event that is
   released and still read is not allocated again.  Nothing in the firmware makes
   it so. *)
Apart ==
    /\ uart.pc \in ListWindows => timer.pc \notin ListWindows
    /\ timer.pc \in EventWindow /\ uart.pc \notin {"ready", "alloc"} => uart.event # timer.event

-----------------------------------------------------------------------------
(* The steps of the uart thread *)

LEMMA SetCmdKeeps ==
  ASSUME TypeInv, NEW q \in Seq(Links), NEW taken \in BOOLEAN, Together(q, taken),
         Apart, Apart', SetCmd, UNCHANGED accepted
  PROVE  Together(q, taken)'
<1>1. /\ uart.pc = "cmd" /\ uart'.pc = "type" /\ uart'.msg = uart.msg
      /\ uart'.event = uart.event /\ uart'.link = uart.link /\ uart'.count = uart.count
      /\ timer' = timer /\ handled' = handled /\ list' = list /\ accepted' = accepted
      /\ uart.msg \in Messages /\ uart.event \in Events
      /\ pool' = [pool EXCEPT ![uart.event].cmd = uart.msg.cmd]
  BY DEF SetCmd, UartDoes, UartAt, TypeInv, UartTyped, UartType, UartHasEvent, UartHasLink,
     UartPoints
<1>2. /\ OnlyChanged(pool', uart.event)
      /\ pool'[uart.event].cmd = uart.msg.cmd
      /\ pool'[uart.event].type = pool[uart.event].type
      /\ pool'[uart.event].buff = pool[uart.event].buff
  BY <1>1 DEF TypeInv, PoolType, Event, OnlyChanged
<1>3. taken => timer.event \in Events
  BY DEF TypeInv, TimerTyped, TimerType, TimerHasEvent, TimerPoints, Together, TimerPlace
<1>4. (Chain(q) /\ Tail1(q) /\ Counted(q) /\ Used(q))'
  BY <1>1 DEF Together, Chain, Tail1, Counted, Used, Listed, Appending, Unchained, UartPlace,
     Apart, ListWindows, EventWindow
<1>5. (UartPlace(q) /\ TimerPlace(q, taken))'
  BY <1>1 DEF Together, Chain, Tail1, Counted, UartPlace, TimerPlace, Listed, Appending,
     Unchained, Before, Apart, ListWindows, EventWindow
<1>6. EventsKept(q, taken)'
  BY <1>1, <1>2, <1>3 DEF Together, EventsKept, InList, InUart, UartHasEvent, UartPoints,
     OnlyChanged
<1>7. MessagesKept(q, taken)'
  BY <1>1, <1>2, <1>3 DEF Together, MessagesKept, Accounted, HandledAccepted, ListedMessages,
     UartMessage, TimerMessage, Coming, Out, InUart, UartHasEvent, UartPoints, EventsKept, InList,
     OnlyChanged
<1> QED BY <1>4, <1>5, <1>6, <1>7 DEF Together

LEMMA SetTypeKeeps ==
  ASSUME TypeInv, NEW q \in Seq(Links), NEW taken \in BOOLEAN, Together(q, taken),
         Apart, Apart', SetType, UNCHANGED accepted
  PROVE  Together(q, taken)'
<1>1. /\ uart.pc = "type" /\ uart'.pc = "buff" /\ uart'.msg = uart.msg
      /\ uart'.event = uart.event /\ uart'.link = uart.link /\ uart'.count = uart.count
      /\ timer' = timer /\ handled' = handled /\ list' = list /\ accepted' = accepted
      /\ uart.msg \in Messages /\ uart.event \in Events
      /\ pool' = [pool EXCEPT ![uart.event].type = uart.msg.type]
  BY DEF SetType, UartDoes, UartAt, TypeInv, UartTyped, UartType, UartHasEvent, UartHasLink,
     UartPoints
<1>2. /\ OnlyChanged(pool', uart.event)
      /\ pool'[uart.event].type = uart.msg.type
      /\ pool'[uart.event].cmd = pool[uart.event].cmd
      /\ pool'[uart.event].buff = pool[uart.event].buff
  BY <1>1 DEF TypeInv, PoolType, Event, OnlyChanged
<1>3. taken => timer.event \in Events
  BY DEF TypeInv, TimerTyped, TimerType, TimerHasEvent, TimerPoints, Together, TimerPlace
<1>4. (Chain(q) /\ Tail1(q) /\ Counted(q) /\ Used(q))'
  BY <1>1 DEF Together, Chain, Tail1, Counted, Used, Listed, Appending, Unchained, UartPlace,
     Apart, ListWindows, EventWindow
<1>5. (UartPlace(q) /\ TimerPlace(q, taken))'
  BY <1>1 DEF Together, Chain, Tail1, Counted, UartPlace, TimerPlace, Listed, Appending,
     Unchained, Before, Apart, ListWindows, EventWindow
<1>6. EventsKept(q, taken)'
  BY <1>1, <1>2, <1>3, ThreadsAssumption DEF Together, EventsKept, InList, InUart, UartHasEvent,
     UartPoints, OnlyChanged
<1>7. MessagesKept(q, taken)'
  BY <1>1, <1>2, <1>3 DEF Together, MessagesKept, Accounted, HandledAccepted, ListedMessages,
     UartMessage, TimerMessage, Coming, Out, InUart, UartHasEvent, UartPoints, EventsKept, InList,
     OnlyChanged
<1> QED BY <1>4, <1>5, <1>6, <1>7 DEF Together

LEMMA SetBuffKeeps ==
  ASSUME TypeInv, NEW q \in Seq(Links), NEW taken \in BOOLEAN, Together(q, taken),
         Apart, Apart', SetBuff, UNCHANGED accepted
  PROVE  Together(q, taken)'
<1>1. /\ uart.pc = "buff" /\ uart'.pc = "link" /\ uart'.msg = uart.msg
      /\ uart'.event = uart.event /\ uart'.link = uart.link /\ uart'.count = uart.count
      /\ timer' = timer /\ handled' = handled /\ list' = list /\ accepted' = accepted
      /\ uart.msg \in Messages /\ uart.event \in Events
      /\ pool' = [pool EXCEPT ![uart.event].buff = uart.msg.buff]
  BY DEF SetBuff, UartDoes, UartAt, TypeInv, UartTyped, UartType, UartHasEvent, UartHasLink,
     UartPoints
<1>2. /\ OnlyChanged(pool', uart.event)
      /\ pool'[uart.event].buff = uart.msg.buff
      /\ pool'[uart.event].cmd = pool[uart.event].cmd
      /\ pool'[uart.event].type = pool[uart.event].type
  BY <1>1 DEF TypeInv, PoolType, Event, OnlyChanged
<1>3. taken => timer.event \in Events
  BY DEF TypeInv, TimerTyped, TimerType, TimerHasEvent, TimerPoints, Together, TimerPlace
<1>4. (Chain(q) /\ Tail1(q) /\ Counted(q) /\ Used(q))'
  BY <1>1 DEF Together, Chain, Tail1, Counted, Used, Listed, Appending, Unchained, UartPlace,
     Apart, ListWindows, EventWindow
<1>5. (UartPlace(q) /\ TimerPlace(q, taken))'
  BY <1>1 DEF Together, Chain, Tail1, Counted, UartPlace, TimerPlace, Listed, Appending,
     Unchained, Before, Apart, ListWindows, EventWindow
<1>6. EventsKept(q, taken)'
  BY <1>1, <1>2, <1>3 DEF Together, EventsKept, InList, InUart, UartHasEvent, UartPoints,
     OnlyChanged
<1>7. MessagesKept(q, taken)'
  BY <1>1, <1>2, <1>3 DEF Together, MessagesKept, Accounted, HandledAccepted, ListedMessages,
     UartMessage, TimerMessage, Coming, Out, InUart, UartHasEvent, UartPoints, EventsKept, InList,
     OnlyChanged
<1> QED BY <1>4, <1>5, <1>6, <1>7 DEF Together

LEMMA TestEqualKeeps ==
  ASSUME TypeInv, NEW q \in Seq(Links), NEW taken \in BOOLEAN, Together(q, taken),
         Apart, Apart', TestEqual, UNCHANGED accepted
  PROVE  Together(q, taken)'
<1>1. /\ uart.pc = "test_equal" /\ uart'.msg = uart.msg /\ uart'.event = uart.event
      /\ uart'.link = uart.link /\ uart'.count = uart.count /\ timer' = timer
      /\ handled' = handled
      /\ uart'.pc = (IF list.head = list.tail THEN "test_null" ELSE "append_next")
      /\ list' = list /\ pool' = pool /\ accepted' = accepted
  BY DEF TestEqual, UartDoes, UartAt, TypeInv, UartTyped, UartType, UartHasEvent, UartHasLink,
     UartPoints, ListType
<1>2. q # << >> => q[1] \in Links /\ q[1] # NULL
  BY Constants1 DEF NULL
<1>3. (Chain(q) /\ Tail1(q) /\ Counted(q) /\ Used(q))'
  BY <1>1 DEF Together, Chain, Tail1, Counted, Used, Listed, Appending, Unchained, UartPlace,
     Apart, ListWindows, EventWindow
<1>4. (UartPlace(q) /\ TimerPlace(q, taken))'
  BY <1>1, <1>2 DEF Together, Chain, Tail1, Counted, UartPlace, TimerPlace, Listed, Appending,
     Unchained, Before, Apart, ListWindows, EventWindow
<1>5. EventsKept(q, taken)'
  BY <1>1 DEF Together, EventsKept, InList, InUart, UartHasEvent, UartPoints
<1>6. MessagesKept(q, taken)'
  BY <1>1 DEF Together, MessagesKept, Accounted, HandledAccepted, ListedMessages, UartMessage,
     TimerMessage, Coming, Out, InUart, UartHasEvent, UartPoints
<1> QED BY <1>3, <1>4, <1>5, <1>6 DEF Together

LEMMA TestNullKeeps ==
  ASSUME TypeInv, NEW q \in Seq(Links), NEW taken \in BOOLEAN, Together(q, taken),
         Apart, Apart', TestNull, UNCHANGED accepted
  PROVE  Together(q, taken)'
<1>1. /\ uart.pc = "test_null" /\ uart'.msg = uart.msg /\ uart'.event = uart.event
      /\ uart'.link = uart.link /\ uart'.count = uart.count /\ timer' = timer
      /\ handled' = handled
      /\ uart'.pc = (IF list.head = NULL THEN "first_head" ELSE "append_next")
      /\ list' = list /\ pool' = pool /\ accepted' = accepted
  BY DEF TestNull, UartDoes, UartAt, TypeInv, UartTyped, UartType, UartHasEvent, UartHasLink,
     UartPoints, ListType
<1>2. q # << >> => q[1] \in Links /\ q[1] # NULL
  BY Constants1 DEF NULL
<1>3. (Chain(q) /\ Tail1(q) /\ Counted(q) /\ Used(q))'
  BY <1>1 DEF Together, Chain, Tail1, Counted, Used, Listed, Appending, Unchained, UartPlace,
     Apart, ListWindows, EventWindow
<1>4. (UartPlace(q) /\ TimerPlace(q, taken))'
  BY <1>1, <1>2 DEF Together, Chain, Tail1, Counted, UartPlace, TimerPlace, Listed, Appending,
     Unchained, Before, Apart, ListWindows, EventWindow
<1>5. EventsKept(q, taken)'
  BY <1>1 DEF Together, EventsKept, InList, InUart, UartHasEvent, UartPoints
<1>6. MessagesKept(q, taken)'
  BY <1>1 DEF Together, MessagesKept, Accounted, HandledAccepted, ListedMessages, UartMessage,
     TimerMessage, Coming, Out, InUart, UartHasEvent, UartPoints
<1> QED BY <1>3, <1>4, <1>5, <1>6 DEF Together

LEMMA AppendLoadKeeps ==
  ASSUME TypeInv, NEW q \in Seq(Links), NEW taken \in BOOLEAN, Together(q, taken),
         Apart, Apart', AppendLoad, UNCHANGED accepted
  PROVE  Together(q, taken)'
<1>1. /\ uart.pc = "append_load" /\ uart'.pc = "append_store" /\ uart'.msg = uart.msg
      /\ uart'.event = uart.event /\ uart'.link = uart.link /\ timer' = timer
      /\ handled' = handled /\ uart'.count = list.count /\ list' = list /\ pool' = pool
      /\ accepted' = accepted
  BY DEF AppendLoad, UartDoes, UartAt, TypeInv, UartTyped, UartType, UartHasEvent, UartHasLink,
     UartPoints, ListType
<1>2. (Chain(q) /\ Tail1(q) /\ Counted(q) /\ Used(q))'
  BY <1>1 DEF Together, Chain, Tail1, Counted, Used, Listed, Appending, Unchained, UartPlace,
     Apart, ListWindows, EventWindow
<1>3. (UartPlace(q) /\ TimerPlace(q, taken))'
  BY <1>1 DEF Together, Chain, Tail1, Counted, UartPlace, TimerPlace, Listed, Appending,
     Unchained, Before, Apart, ListWindows, EventWindow
<1>4. EventsKept(q, taken)'
  BY <1>1 DEF Together, EventsKept, InList, InUart, UartHasEvent, UartPoints
<1>5. MessagesKept(q, taken)'
  BY <1>1 DEF Together, MessagesKept, Accounted, HandledAccepted, ListedMessages, UartMessage,
     TimerMessage, Coming, Out, InUart, UartHasEvent, UartPoints
<1> QED BY <1>2, <1>3, <1>4, <1>5 DEF Together

LEMMA FirstTailKeeps ==
  ASSUME TypeInv, NEW q \in Seq(Links), NEW taken \in BOOLEAN, Together(q, taken),
         Apart, Apart', FirstTail, UNCHANGED accepted
  PROVE  Together(q, taken)'
<1>1. /\ uart.pc = "first_tail" /\ uart'.pc = "first_count" /\ uart'.msg = uart.msg
      /\ uart'.event = uart.event /\ uart'.link = uart.link /\ uart'.count = uart.count
      /\ timer' = timer /\ handled' = handled /\ list'.head = list.head
      /\ list'.count = list.count /\ list'.next = list.next /\ list'.data = list.data
      /\ list'.isUsed = list.isUsed /\ list'.tail = uart.link /\ pool' = pool
      /\ accepted' = accepted
  BY DEF FirstTail, UartDoes, UartAt, TypeInv, UartTyped, UartType, UartHasEvent, UartHasLink,
     UartPoints, ListType
<1>2. Len(q) = 1
  BY <1>1 DEF Together, UartPlace
<1>3. q # << >>
  BY <1>2, Len(<< >>) = 0
<1>4. (Chain(q) /\ Tail1(q) /\ Counted(q) /\ Used(q))'
  BY <1>1, <1>2, <1>3 DEF Together, Chain, Tail1, Counted, Used, Listed, Appending, Unchained,
     UartPlace, Apart, ListWindows, EventWindow
<1>5. (UartPlace(q) /\ TimerPlace(q, taken))'
  BY <1>1, <1>2, <1>3 DEF Together, Chain, Tail1, Counted, UartPlace, TimerPlace, Listed,
     Appending, Unchained, Before, Apart, ListWindows, EventWindow
<1>6. EventsKept(q, taken)'
  BY <1>1 DEF Together, EventsKept, InList, InUart, UartHasEvent, UartPoints
<1>7. MessagesKept(q, taken)'
  BY <1>1 DEF Together, MessagesKept, Accounted, HandledAccepted, ListedMessages, UartMessage,
     TimerMessage, Coming, Out, InUart, UartHasEvent, UartPoints
<1> QED BY <1>4, <1>5, <1>6, <1>7 DEF Together

LEMMA FirstCountKeeps ==
  ASSUME TypeInv, NEW q \in Seq(Links), NEW taken \in BOOLEAN, Together(q, taken),
         Apart, Apart', FirstCount, UNCHANGED accepted
  PROVE  Together(q, taken)'
<1>1. /\ uart.pc = "first_count" /\ uart'.pc = "ready" /\ uart'.msg = uart.msg
      /\ uart'.event = uart.event /\ uart'.link = uart.link /\ uart'.count = uart.count
      /\ timer' = timer /\ handled' = handled /\ list'.head = list.head
      /\ list'.tail = list.tail /\ list'.next = list.next /\ list'.data = list.data
      /\ list'.isUsed = list.isUsed /\ list'.count = 1 /\ pool' = pool
      /\ accepted' = accepted
  BY DEF FirstCount, UartDoes, UartAt, TypeInv, UartTyped, UartType, UartHasEvent, UartHasLink,
     UartPoints, ListType
<1>2. (Chain(q) /\ Tail1(q) /\ Counted(q) /\ Used(q))'
  BY <1>1 DEF Together, Chain, Tail1, Counted, Used, Listed, Appending, Unchained, UartPlace,
     Apart, ListWindows, EventWindow
<1>3. (UartPlace(q) /\ TimerPlace(q, taken))'
  BY <1>1 DEF Together, Chain, Tail1, Counted, UartPlace, TimerPlace, Listed, Appending,
     Unchained, Before, Apart, ListWindows, EventWindow
<1>4. EventsKept(q, taken)'
  BY <1>1 DEF Together, EventsKept, InList, InUart, UartHasEvent, UartPoints
<1>5. MessagesKept(q, taken)'
  BY <1>1 DEF Together, MessagesKept, Accounted, HandledAccepted, ListedMessages, UartMessage,
     TimerMessage, Coming, Out, InUart, UartHasEvent, UartPoints
<1> QED BY <1>2, <1>3, <1>4, <1>5 DEF Together

LEMMA AppendTailKeeps ==
  ASSUME TypeInv, NEW q \in Seq(Links), NEW taken \in BOOLEAN, Together(q, taken),
         Apart, Apart', AppendTail, UNCHANGED accepted
  PROVE  Together(q, taken)'
<1>1. /\ uart.pc = "append_tail" /\ uart'.pc = "append_load" /\ uart'.msg = uart.msg
      /\ uart'.event = uart.event /\ uart'.link = uart.link /\ uart'.count = uart.count
      /\ timer' = timer /\ handled' = handled /\ list'.head = list.head
      /\ list'.count = list.count /\ list'.next = list.next /\ list'.data = list.data
      /\ list'.isUsed = list.isUsed /\ list'.tail = uart.link /\ pool' = pool
      /\ accepted' = accepted
  BY DEF AppendTail, UartDoes, UartAt, TypeInv, UartTyped, UartType, UartHasEvent, UartHasLink,
     UartPoints, ListType
<1>2. (Chain(q) /\ Tail1(q) /\ Counted(q) /\ Used(q))'
  BY <1>1 DEF Together, Chain, Tail1, Counted, Used, Listed, Appending, Unchained, UartPlace,
     Apart, ListWindows, EventWindow
<1>3. (UartPlace(q) /\ TimerPlace(q, taken))'
  BY <1>1 DEF Together, Chain, Tail1, Counted, UartPlace, TimerPlace, Listed, Appending,
     Unchained, Before, Apart, ListWindows, EventWindow
<1>4. EventsKept(q, taken)'
  BY <1>1 DEF Together, EventsKept, InList, InUart, UartHasEvent, UartPoints
<1>5. MessagesKept(q, taken)'
  BY <1>1 DEF Together, MessagesKept, Accounted, HandledAccepted, ListedMessages, UartMessage,
     TimerMessage, Coming, Out, InUart, UartHasEvent, UartPoints
<1> QED BY <1>2, <1>3, <1>4, <1>5 DEF Together

LEMMA AppendStoreKeeps ==
  ASSUME TypeInv, NEW q \in Seq(Links), NEW taken \in BOOLEAN, Together(q, taken),
         Apart, Apart', AppendStore, UNCHANGED accepted
  PROVE  Together(q, taken)'
<1>1. /\ uart.pc = "append_store" /\ uart'.pc = "ready" /\ uart'.msg = uart.msg
      /\ uart'.event = uart.event /\ uart'.link = uart.link /\ uart'.count = uart.count
      /\ timer' = timer /\ handled' = handled /\ list'.head = list.head
      /\ list'.tail = list.tail /\ list'.next = list.next /\ list'.data = list.data
      /\ list'.isUsed = list.isUsed /\ list'.count = (uart.count + 1) % (HUGE + 1)
      /\ pool' = pool /\ accepted' = accepted
  BY DEF AppendStore, UartDoes, UartAt, TypeInv, UartTyped, UartType, UartHasEvent, UartHasLink,
     UartPoints, ListType
<1>2. list.count \in Nat /\ list.count + 1 = Len(q) /\ uart.count = list.count
  BY <1>1 DEF TypeInv, ListType, Together, Counted, UartPlace
<1>3. list.count < HUGE
  <2>1. Len(q) < HUGE /\ Len(q) \in Nat
    BY ListFits, Zenon
  <2> QED BY <1>2, <2>1, Constants1
<1>4. list'.count = Len(q)
  <2> DEFINE n == list.count
  <2>1. (n + 1) % (HUGE + 1) = n + 1
    BY <1>2, <1>3, CountWraps
  <2> QED BY <1>1, <1>2, <2>1
<1>5. (Chain(q) /\ Tail1(q) /\ Counted(q) /\ Used(q))'
  BY <1>1, <1>4 DEF Together, Chain, Tail1, Counted, Used, Listed, Appending, Unchained,
     UartPlace, Apart, ListWindows, EventWindow
<1>6. (UartPlace(q) /\ TimerPlace(q, taken))'
  BY <1>1, <1>4 DEF Together, Chain, Tail1, Counted, UartPlace, TimerPlace, Listed, Appending,
     Unchained, Before, Apart, ListWindows, EventWindow
<1>7. EventsKept(q, taken)'
  BY <1>1 DEF Together, EventsKept, InList, InUart, UartHasEvent, UartPoints
<1>8. MessagesKept(q, taken)'
  BY <1>1 DEF Together, MessagesKept, Accounted, HandledAccepted, ListedMessages, UartMessage,
     TimerMessage, Coming, Out, InUart, UartHasEvent, UartPoints
<1> QED BY <1>5, <1>6, <1>7, <1>8 DEF Together

LEMMA FillLinkKeeps ==
  ASSUME TypeInv, NEW q \in Seq(Links), NEW taken \in BOOLEAN, Together(q, taken),
         Apart, Apart', FillLink, UNCHANGED accepted
  PROVE  Together(q, taken)'
<1>1. /\ uart.pc = "fill" /\ uart'.pc = "test_equal" /\ uart'.msg = uart.msg
      /\ uart'.event = uart.event /\ uart'.link = uart.link /\ uart'.count = uart.count
      /\ timer' = timer /\ handled' = handled /\ list'.head = list.head
      /\ list'.tail = list.tail /\ list'.count = list.count /\ list'.isUsed = list.isUsed
      /\ uart.link \in Links /\ list'.next = [list.next EXCEPT ![uart.link] = NULL]
      /\ list'.data = [list.data EXCEPT ![uart.link] = uart.event] /\ pool' = pool
      /\ accepted' = accepted
  BY DEF FillLink, UartDoes, UartAt, TypeInv, UartTyped, UartType, UartHasEvent, UartHasLink,
     UartPoints, ListType
<1>2. /\ list'.next[uart.link] = NULL /\ list'.data[uart.link] = uart.event
      /\ \A l \in Links : l # uart.link => list'.next[l] = list.next[l]
            /\ list'.data[l] = list.data[l]
  BY <1>1 DEF TypeInv, ListType
<1>3. \A i \in DOMAIN q : q[i] \in Links /\ q[i] # uart.link
  BY <1>1 DEF Together, Used, Listed, Appending
<1>4. (Chain(q) /\ Tail1(q) /\ Counted(q) /\ Used(q))'
  BY <1>1, <1>2, <1>3 DEF Together, Chain, Tail1, Counted, Used, Listed, Appending, Unchained,
     UartPlace, Apart, ListWindows, EventWindow
<1>5. (UartPlace(q) /\ TimerPlace(q, taken))'
  BY <1>1, <1>2, <1>3 DEF Together, Chain, Tail1, Counted, UartPlace, TimerPlace, Listed,
     Appending, Unchained, Before, Apart, ListWindows, EventWindow
<1>6. EventsKept(q, taken)'
  BY <1>1, <1>2, <1>3 DEF Together, EventsKept, InList, InUart, UartHasEvent, UartPoints
<1>7. MessagesKept(q, taken)'
  BY <1>1, <1>2, <1>3 DEF Together, MessagesKept, Accounted, HandledAccepted, ListedMessages,
     UartMessage, TimerMessage, Coming, Out, InUart, UartHasEvent, UartPoints
<1> QED BY <1>4, <1>5, <1>6, <1>7 DEF Together

LEMMA AcceptKeeps ==
  ASSUME TypeInv, NEW m \in Messages, NEW q \in Seq(Links), NEW taken \in BOOLEAN,
         Together(q, taken),
         Apart, Apart', Accept(m)
  PROVE  Together(q, taken)'
<1>1. /\ uart.pc = "ready" /\ uart'.pc = "alloc" /\ uart'.event = uart.event
      /\ uart'.link = uart.link /\ uart'.count = uart.count /\ timer' = timer
      /\ handled' = handled /\ uart'.msg = m /\ list' = list /\ pool' = pool
      /\ accepted' = Append(accepted, m) /\ \E e \in Events : pool[e].type = FREE
  BY DEF Accept, UartDoes, UartAt, TypeInv, UartTyped, UartType, UartHasEvent, UartHasLink,
     UartPoints, ListType
<1>2. /\ Len(accepted') = Len(accepted) + 1
      /\ \A i \in 1..Len(accepted) : accepted'[i] = accepted[i]
      /\ accepted'[Len(accepted')] = m
  BY <1>1 DEF TypeInv
<1>3. Len(accepted) \in Nat /\ Len(handled) \in Nat /\ Len(q) \in Nat
  BY DEF TypeInv
<1>4. (Chain(q) /\ Tail1(q) /\ Counted(q) /\ Used(q))'
  BY <1>1 DEF Together, Chain, Tail1, Counted, Used, Listed, Appending, Unchained, UartPlace,
     Apart, ListWindows, EventWindow
<1>5. (UartPlace(q) /\ TimerPlace(q, taken))'
  BY <1>1 DEF Together, Chain, Tail1, Counted, UartPlace, TimerPlace, Listed, Appending,
     Unchained, Before, Apart, ListWindows, EventWindow
<1>6. EventsKept(q, taken)'
  BY <1>1 DEF Together, EventsKept, InList, InUart, UartHasEvent, UartPoints
<1>7. MessagesKept(q, taken)'
  <2>1. /\ Out(taken)' = Out(taken) /\ Coming' /\ ~ Coming
    BY <1>1 DEF Out, Coming, InUart, UartHasEvent, UartPoints
  <2>2. Accounted(q, taken) /\ HandledAccepted /\ ListedMessages(q, taken) /\ TimerMessage(taken)
    BY DEF Together, MessagesKept
  <2>3. /\ Out(taken) \in Nat /\ Out(taken) + Len(q) <= Len(accepted)
           /\ Len(handled) <= Out(taken)
        /\ taken => Len(handled) + 1 = Out(taken)
    BY Sizes, Zenon
  <2>4. Accounted(q, taken)'
    BY <1>2, <1>3, <2>1, <2>2, <2>3 DEF Accounted
  <2>5. HandledAccepted'
    BY <1>1, <1>2, <1>3, <2>2, <2>3 DEF HandledAccepted
  <2>6. ListedMessages(q, taken)'
    BY <1>1, <1>2, <1>3, <2>1, <2>2, <2>3 DEF ListedMessages
  <2>7. UartMessage'
    BY <1>1, <1>2, <1>3, <2>1 DEF UartMessage, InUart, UartHasEvent, UartPoints
  <2>8. TimerMessage(taken)'
    <3>1. taken => accepted'[Len(handled) + 1] = accepted[Len(handled) + 1]
      <4> DEFINE out == Out(taken)
      <4>1. out \in Nat /\ out + Len(q) <= Len(accepted) /\ (taken => Len(handled) + 1 = out)
        BY <2>3, Zenon
      <4> HIDE DEF out
      <4>2. taken => Len(handled) + 1 \in 1..Len(accepted)
        BY <1>3, <4>1
      <4> QED BY <1>2, <4>2, Zenon
    <3> QED BY <1>1, <2>2, <3>1, Zenon DEF TimerMessage
  <2> QED BY <2>4, <2>5, <2>6, <2>7, <2>8 DEF MessagesKept
<1> QED BY <1>4, <1>5, <1>6, <1>7 DEF Together

LEMMA AllocKeeps ==
  ASSUME TypeInv, NEW q \in Seq(Links), NEW taken \in BOOLEAN, Together(q, taken),
         Apart, Apart', Alloc, UNCHANGED accepted
  PROVE  Together(q, taken)'
<1>1. /\ uart.pc = "alloc" /\ uart'.pc = "cmd" /\ uart'.msg = uart.msg
      /\ uart'.link = uart.link /\ uart'.count = uart.count /\ timer' = timer
      /\ handled' = handled /\ pool[uart'.event].type = FREE /\ uart'.event \in Events
      /\ list' = list /\ pool' = pool /\ accepted' = accepted
  BY DEF Alloc, UartDoes, UartAt, TypeInv, UartTyped, UartType, UartHasEvent, UartHasLink,
     UartPoints, ListType
<1>2. (Chain(q) /\ Tail1(q) /\ Counted(q) /\ Used(q))'
  BY <1>1 DEF Together, Chain, Tail1, Counted, Used, Listed, Appending, Unchained, UartPlace,
     Apart, ListWindows, EventWindow
<1>3. (UartPlace(q) /\ TimerPlace(q, taken))'
  BY <1>1 DEF Together, Chain, Tail1, Counted, UartPlace, TimerPlace, Listed, Appending,
     Unchained, Before, Apart, ListWindows, EventWindow
<1>4. EventsKept(q, taken)'
  BY <1>1 DEF Together, EventsKept, InList, InUart, UartHasEvent, UartPoints, Apart,
     ListWindows, EventWindow, TimerPlace, Before
<1>5. MessagesKept(q, taken)'
  BY <1>1 DEF Together, MessagesKept, Accounted, HandledAccepted, ListedMessages, UartMessage,
     TimerMessage, Coming, Out, InUart, UartHasEvent, UartPoints
<1> QED BY <1>2, <1>3, <1>4, <1>5 DEF Together

LEMMA LinkLeft ==
  ASSUME TypeInv, NEW q \in Seq(Links), NEW taken \in BOOLEAN, Together(q, taken),
         Apart, uart.pc = "link"
  PROVE  \E l \in Links : ~ list.isUsed[l]
<1> SUFFICES ASSUME \A l \in Links : list.isUsed[l] PROVE FALSE
  OBVIOUS
<1> DEFINE Rest == Events \ {uart.event}
           f == [l \in Links |-> list.data[l]]
<1>1. uart.event \in Events
  BY DEF TypeInv, UartTyped, UartHasEvent, UartPoints
<1> DEFINE InTimer(l) == timer.pc \in Unchained /\ l = timer.link
<1>2. \A l \in Links : Listed(q, l) \/ InTimer(l)
  BY DEF Together, Used, Appending
<1>3. \A l \in Links : Listed(q, l) => InList(q, list.data[l]) /\ list.data[l] \in Events
  BY DEF Together, EventsKept, Listed, InList
<1>4. ASSUME NEW l \in Links, InTimer(l)
       PROVE  /\ list.data[l] = timer.event /\ timer.event \in Events
              /\ timer.event # uart.event /\ ~ InList(q, timer.event)
  <2>1. taken /\ list.data[l] = timer.event
    BY <1>4 DEF Together, TimerPlace, Used, Unchained, Before
  <2>2. timer.event \in Events
    BY <1>4 DEF TypeInv, TimerTyped, TimerHasEvent, TimerPoints, Unchained
  <2> QED BY <2>1, <2>2 DEF Together, EventsKept, InUart, UartHasEvent, UartPoints
<1>5. \A k, l \in Links : list.data[k] = list.data[l] => k = l
  <2>1. \A k, l \in Links : Listed(q, k) /\ Listed(q, l) /\ list.data[k] = list.data[l] => k = l
    BY DEF Together, EventsKept, Listed
  <2> QED BY <1>2, <1>3, <1>4, <2>1
<1>6. \A l \in Links : list.data[l] \in Rest
  <2>1. ~ InList(q, uart.event)
    BY DEF Together, EventsKept, InUart, UartHasEvent, UartPoints
  <2> QED BY <1>2, <1>3, <1>4, <2>1
<1>7. f \in Injection(Links, Rest)
  BY <1>5, <1>6 DEF Injection, IsInjective
<1>8. IsFiniteSet(Events) /\ Cardinality(Events) = EventNum /\ Cardinality(Links) = PoolSize
  BY FS_Interval, Constants1 DEF Events, Links
<1>9. IsFiniteSet(Rest) /\ Cardinality(Rest) = EventNum - 1
  BY <1>1, <1>8, FS_RemoveElement
<1>10. Cardinality(Links) <= Cardinality(Rest)
  BY <1>7, <1>9, FS_Injection
<1> QED BY <1>8, <1>9, <1>10, ThreadsAssumption

LEMMA TakeLinkKeeps ==
  ASSUME TypeInv, NEW q \in Seq(Links), NEW taken \in BOOLEAN, Together(q, taken),
         Apart, Apart', TakeLink, UNCHANGED accepted
  PROVE  Together(q, taken)'
<1>1. /\ uart.pc = "link" /\ uart'.pc = "fill" /\ uart'.msg = uart.msg
      /\ uart'.event = uart.event /\ uart'.count = uart.count /\ timer' = timer
      /\ handled' = handled /\ list'.head = list.head /\ list'.tail = list.tail
      /\ list'.count = list.count /\ list'.next = list.next /\ list'.data = list.data
      /\ uart'.link \in Links /\ ~ list.isUsed[uart'.link]
      /\ list'.isUsed = [list.isUsed EXCEPT ![uart'.link] = TRUE] /\ pool' = pool
      /\ accepted' = accepted
  <2>1. uart.pc = "link"
    BY DEF TakeLink, UartDoes
  <2>2. \E l \in Links : ~ list.isUsed[l]
    BY <2>1, LinkLeft, ZenonT(60) DEF Apart, ListWindows, EventWindow
  <2>3. PICK l \in Links :
          /\ ~ list.isUsed[l]
          /\ UartDoes("link", [uart EXCEPT !.pc = "fill", !.link = l],
                      [list EXCEPT !.isUsed[l] = TRUE], pool)
    BY <2>2 DEF TakeLink
  <2> QED BY <2>3 DEF UartDoes, UartAt, TypeInv, UartTyped, UartType, UartHasEvent, UartHasLink,
             UartPoints, ListType
<1>2. list'.isUsed[uart'.link]
         /\ \A l \in Links : l # uart'.link => list'.isUsed[l] = list.isUsed[l]
  BY <1>1 DEF TypeInv, ListType
<1>3. \A i \in DOMAIN q : q[i] \in Links
  OBVIOUS
<1>4. (Chain(q) /\ Tail1(q) /\ Counted(q) /\ Used(q))'
  BY <1>1, <1>2, <1>3 DEF Together, Chain, Tail1, Counted, Used, Listed, Appending, Unchained,
     UartPlace, Apart, ListWindows, EventWindow
<1>5. (UartPlace(q) /\ TimerPlace(q, taken))'
  BY <1>1 DEF Together, Chain, Tail1, Counted, UartPlace, TimerPlace, Listed, Appending,
     Unchained, Before, Apart, ListWindows, EventWindow
<1>6. EventsKept(q, taken)'
  BY <1>1 DEF Together, EventsKept, InList, InUart, UartHasEvent, UartPoints
<1>7. MessagesKept(q, taken)'
  BY <1>1 DEF Together, MessagesKept, Accounted, HandledAccepted, ListedMessages, UartMessage,
     TimerMessage, Coming, Out, InUart, UartHasEvent, UartPoints
<1> QED BY <1>4, <1>5, <1>6, <1>7 DEF Together

LEMMA FirstHeadKeeps ==
  ASSUME TypeInv, NEW q \in Seq(Links), NEW taken \in BOOLEAN, Together(q, taken),
         Apart, Apart', FirstHead, UNCHANGED accepted,
         NEW r \in Seq(Links), r = Append(q, uart.link)
  PROVE  Together(r, taken)'
<1>1. /\ uart.pc = "first_head" /\ uart'.pc = "first_tail" /\ uart'.msg = uart.msg
      /\ uart'.event = uart.event /\ uart'.link = uart.link /\ uart'.count = uart.count
      /\ timer' = timer /\ handled' = handled /\ list'.tail = list.tail
      /\ list'.count = list.count /\ list'.next = list.next /\ list'.data = list.data
      /\ list'.isUsed = list.isUsed /\ list'.head = uart.link /\ uart.link \in Links
      /\ uart.event \in Events /\ uart.msg \in Messages /\ pool' = pool
      /\ accepted' = accepted
  BY DEF FirstHead, UartDoes, UartAt, TypeInv, UartTyped, UartType, UartHasEvent, UartHasLink,
     UartPoints, ListType
<1>2. /\ Len(r) = Len(q) + 1 /\ r[Len(r)] = uart.link /\ Len(q) \in Nat /\ r # << >>
      /\ \A i \in 1..Len(q) : r[i] = q[i]
  BY <1>1, Len(<< >>) = 0
<1>3. \A l : Listed(r, l) <=> Listed(q, l) \/ l = uart.link
  BY <1>2 DEF Listed
<1>4. Len(q) = 0 /\ q = << >>
  BY <1>1, Len(<< >>) = 0 DEF Together, UartPlace
<1>5. pool[uart.event] = accepted[Len(accepted)]
  <2>1. uart.msg = [type |-> uart.msg.type, cmd |-> uart.msg.cmd, buff |-> uart.msg.buff]
    BY <1>1, ThreadsAssumption
  <2>2. pool[uart.event] = [type |-> pool[uart.event].type, cmd |-> pool[uart.event].cmd,
                            buff |-> pool[uart.event].buff]
    BY <1>1 DEF TypeInv, PoolType, Event
  <2> QED BY <1>1, <2>1, <2>2 DEF Together, MessagesKept, UartMessage, Coming, InUart,
             UartHasEvent,
      UartPoints
<1>6. (Chain(r) /\ Tail1(r) /\ Counted(r) /\ Used(r))'
  BY <1>1, <1>2, <1>3, <1>4 DEF Together, Chain, Tail1, Counted, Used, Listed, Appending,
     Unchained, UartPlace, Apart, ListWindows, EventWindow
<1>7. (UartPlace(r) /\ TimerPlace(r, taken))'
  BY <1>1, <1>2, <1>3, <1>4 DEF Together, Chain, Tail1, Counted, UartPlace, TimerPlace, Listed,
     Appending, Unchained, Before, Apart, ListWindows, EventWindow, Used
<1>8. EventsKept(r, taken)'
  BY SMTT(30), <1>1, <1>2, <1>4 DEF Together, EventsKept, InList, InUart, UartHasEvent,
     UartPoints, Used,
     Appending, UartPlace
<1>9. MessagesKept(r, taken)'
  BY <1>1, <1>2, <1>4, <1>5 DEF Together, MessagesKept, Accounted, HandledAccepted,
     ListedMessages, UartMessage, TimerMessage, Coming, Out, InUart, UartHasEvent, UartPoints,
     Used, Appending
<1> QED BY <1>6, <1>7, <1>8, <1>9 DEF Together

LEMMA AppendNextKeeps ==
  ASSUME TypeInv, NEW q \in Seq(Links), NEW taken \in BOOLEAN, Together(q, taken),
         Apart, Apart', AppendNext, UNCHANGED accepted,
         NEW r \in Seq(Links), r = Append(q, uart.link)
  PROVE  Together(r, taken)'
<1>1. /\ uart.pc = "append_next" /\ uart'.pc = "append_tail" /\ uart'.msg = uart.msg
      /\ uart'.event = uart.event /\ uart'.link = uart.link /\ uart'.count = uart.count
      /\ timer' = timer /\ handled' = handled /\ list'.head = list.head
      /\ list'.tail = list.tail /\ list'.count = list.count /\ list'.data = list.data
      /\ list'.isUsed = list.isUsed /\ list.tail = q[Len(q)]
      /\ list'.next = [list.next EXCEPT ![q[Len(q)]] = uart.link] /\ uart.link \in Links
      /\ uart.event \in Events /\ uart.msg \in Messages /\ pool' = pool
      /\ accepted' = accepted
  <2>1. uart.pc = "append_next" /\ timer.pc \notin {"tail_test", "tail_store"}
    BY DEF AppendNext, UartDoes, Apart, ListWindows, EventWindow
  <2>2. q # << >> /\ list.tail = q[Len(q)]
    BY <2>1 DEF Together, UartPlace, Tail1
  <2>3. q[Len(q)] \in Links /\ q[Len(q)] # NULL
    BY <2>2, Constants1 DEF NULL
  <2> QED BY <2>1, <2>2, <2>3 DEF AppendNext, UartDoes, UartAt, TypeInv, UartTyped, UartType,
             UartHasEvent, UartHasLink, UartPoints, ListType
<1>2. /\ Len(r) = Len(q) + 1 /\ r[Len(r)] = uart.link /\ Len(q) \in Nat /\ r # << >>
      /\ \A i \in 1..Len(q) : r[i] = q[i]
  BY <1>1, Len(<< >>) = 0
<1>3. \A l : Listed(r, l) <=> Listed(q, l) \/ l = uart.link
  BY <1>2 DEF Listed
<1>4. /\ list'.next[q[Len(q)]] = uart.link
      /\ \A l \in Links : l # q[Len(q)] => list'.next[l] = list.next[l]
      /\ \A i \in 1..Len(q) : q[i] \in Links /\ q[i] # uart.link
      /\ Len(q) >= 1
      /\ list.next[uart.link] = NULL /\ list.data[uart.link] = uart.event
  <2>1. uart.pc = "append_next" /\ q # << >> /\ Len(q) \in Nat
    BY <1>1, <1>2 DEF Together, UartPlace
  <2>2. Len(q) >= 1
    BY <2>1
  <2> QED BY <1>1, <2>1, <2>2 DEF TypeInv, ListType, Together, Used, Listed, Appending
<1>5. pool[uart.event] = accepted[Len(accepted)]
  <2>1. uart.msg = [type |-> uart.msg.type, cmd |-> uart.msg.cmd, buff |-> uart.msg.buff]
    BY <1>1, ThreadsAssumption
  <2>2. pool[uart.event] = [type |-> pool[uart.event].type, cmd |-> pool[uart.event].cmd,
                            buff |-> pool[uart.event].buff]
    BY <1>1 DEF TypeInv, PoolType, Event
  <2> QED BY <1>1, <2>1, <2>2 DEF Together, MessagesKept, UartMessage, Coming, InUart,
             UartHasEvent,
      UartPoints
<1>6. /\ uart.pc = "append_next" /\ uart'.pc = "append_tail" /\ uart'.msg = uart.msg
      /\ uart'.event = uart.event /\ uart'.link = uart.link /\ uart'.count = uart.count
      /\ list'.head = list.head /\ list'.tail = list.tail /\ list'.count = list.count
      /\ list'.data = list.data /\ list'.isUsed = list.isUsed /\ timer' = timer /\ pool' = pool
      /\ handled' = handled /\ accepted' = accepted /\ uart.link \in Links
      /\ uart.event \in Events /\ list.tail = q[Len(q)]
  BY <1>1
<1>7. (Chain(r) /\ Tail1(r) /\ Counted(r) /\ Used(r))'
  <2>1. Chain(r)'
    <3>1. /\ \A i, j \in DOMAIN r : r[i] = r[j] => i = j
          /\ list'.head = IF r = << >> THEN NULL ELSE r[1]
      BY <1>2, <1>4, <1>6 DEF Together, Chain
    <3>2. ASSUME NEW i \in 1..Len(q) - 1 PROVE list'.next[r[i]] = r[i + 1]
      <4>1. i \in 1..Len(q) /\ i + 1 \in 1..Len(q) /\ i # Len(q) /\ Len(q) \in 1..Len(q)
        BY <1>2
      <4>2. r[i] = q[i] /\ r[i + 1] = q[i + 1] /\ q[i] \in Links
        BY <1>2, <1>4, <4>1
      <4>3. list.next[q[i]] = q[i + 1] /\ q[i] # q[Len(q)]
        BY <4>1 DEF Together, Chain
      <4> QED BY <1>4, <4>2, <4>3, Zenon
    <3>3. list'.next[r[Len(q)]] = r[Len(q) + 1] /\ list'.next[r[Len(r)]] = NULL
      BY <1>2, <1>4, <1>6
    <3> QED BY SMTT(30), <1>2, <3>1, <3>2, <3>3 DEF Chain
  <2>2. Tail1(r)'
    <3>1. Len(r) - 1 = Len(q) /\ r[Len(q)] = q[Len(q)]
      BY <1>2, <1>4
    <3> QED BY <1>6, <3>1 DEF Tail1
  <2>3. Counted(r)'
    BY <1>2, <1>6 DEF Together, Counted, Unchained, Apart, ListWindows, EventWindow
  <2>4. Used(r)'
    BY <1>2, <1>3, <1>6 DEF Together, Used, Appending, Unchained, Apart, ListWindows, EventWindow
  <2> QED BY <2>1, <2>2, <2>3, <2>4
<1>8. (UartPlace(r) /\ TimerPlace(r, taken))'
  <2>1. UartPlace(r)'
    BY <1>2, <1>4, <1>6 DEF UartPlace
  <2>2. TimerPlace(r, taken)'
    <3>1. timer.pc = "advance" => timer.link \in Links
      BY DEF TypeInv, TimerTyped, TimerHasEvent, TimerHasLink, TimerPoints
    <3>2. timer.pc = "advance" => list'.next[timer.link] = NULL
                              \/ Listed(r, list'.next[timer.link])
      BY <1>3, <1>4, <3>1, Zenon DEF Together, TimerPlace
    <3>3. q # << >> => r[1] = q[1]
      BY <1>2, <1>4
    <3>4. q # << >> /\ r # << >>
      BY <1>2, <1>4, Len(<< >>) = 0
    <3>5. timer.pc \notin Unchained \cup {"head_load", "head_store", "count_load", "count_store"}
      BY <1>6 DEF Unchained, Apart, ListWindows, EventWindow
    <3> QED BY <1>3, <1>6, <3>2, <3>3, <3>4, <3>5 DEF Together, TimerPlace, Before, Unchained
  <2> QED BY <2>1, <2>2
<1>9. EventsKept(r, taken)'
  BY SMTT(30), <1>6, <1>2, <1>4 DEF Together, EventsKept, InList, InUart, UartHasEvent, UartPoints
<1>10. MessagesKept(r, taken)'
  <2>1. Out(taken)' = Out(taken) /\ Coming /\ ~ Coming'
    BY <1>6 DEF Out, Coming, InUart, UartHasEvent, UartPoints
  <2>2. Out(taken) \in Nat /\ Len(accepted) = Out(taken) + Len(q) + 1
    BY <2>1, Sizes, Zenon
  <2>3. /\ Accounted(q, taken) /\ HandledAccepted /\ ListedMessages(q, taken)
        /\ UartMessage /\ TimerMessage(taken)
    BY Zenon DEF Together, MessagesKept
  <2>4. Accounted(r, taken)'
    BY <1>2, <1>6, <2>1, <2>2 DEF Accounted
  <2>5. HandledAccepted' /\ UartMessage' /\ TimerMessage(taken)'
    BY <1>6, <2>1, <2>3 DEF HandledAccepted, UartMessage, TimerMessage, Coming, InUart,
       UartHasEvent,
       UartPoints
  <2>6. ListedMessages(r, taken)'
    <3>1. \A i \in 1..Len(q) : pool[list.data[r[i]]] = accepted[Out(taken) + i]
      BY <1>2, <2>3 DEF ListedMessages
    <3>2. pool[list.data[r[Len(r)]]] = accepted[Out(taken) + Len(r)]
      BY <1>2, <1>4, <1>5, <2>2
    <3> QED BY <1>2, <1>6, <2>1, <3>1, <3>2 DEF ListedMessages
  <2> QED BY <2>4, <2>5, <2>6 DEF MessagesKept
<1> QED BY <1>7, <1>8, <1>9, <1>10 DEF Together

-----------------------------------------------------------------------------
(* The steps of the timer thread *)

LEMMA TimerStepEvents ==
  ASSUME NEW q, NEW taken, EventsKept(q, taken), uart' = uart, pool' = pool,
                    list'.data = list.data,
         taken => /\ timer'.event = timer.event
                  /\ timer'.pc \in EventWindow <=> timer.pc \in EventWindow
  PROVE  EventsKept(q, taken)'
  BY DEF EventsKept, InList, EventWindow

LEMMA TimerStepMessages ==
  ASSUME NEW q, NEW taken, MessagesKept(q, taken), TimerMessage(taken)', uart' = uart,
         pool' = pool, list'.data = list.data, accepted' = accepted, handled' = handled
  PROVE  MessagesKept(q, taken)'
<1>1. (Accounted(q, taken) /\ ListedMessages(q, taken))'
  BY DEF MessagesKept, Accounted, ListedMessages, Out, Coming
<1>2. (HandledAccepted /\ UartMessage)'
  BY DEF MessagesKept, HandledAccepted, UartMessage, Coming
<1> QED BY <1>1, <1>2 DEF MessagesKept

LEMMA WakeKeeps ==
  ASSUME TypeInv, NEW q \in Seq(Links), NEW taken \in BOOLEAN, Together(q, taken),
         Apart, Apart', Wake, UNCHANGED handled
  PROVE  Together(q, taken)'
<1>1. /\ timer.pc = "wait" /\ timer'.pc = "get" /\ timer'.event = timer.event
      /\ timer'.link = timer.link /\ timer'.pre = timer.pre /\ timer'.next = timer.next
      /\ timer'.count = timer.count /\ timer'.type = timer.type /\ timer'.cmd = timer.cmd
      /\ uart' = uart /\ accepted' = accepted /\ list.count # 0 /\ list' = list
      /\ pool' = pool /\ handled' = handled
  BY DEF Wake, TimerDoes, TimerAt, TypeInv, TimerTyped, TimerType, TimerHasEvent, TimerHasLink,
     TimerPoints, ListType
<1>2. q # << >>
  <2>1. /\ uart.pc \in {"first_tail", "first_count", "append_tail", "append_load", "append_store"}
           => Len(q) # 0
        /\ Counted(q)
    BY DEF Together, UartPlace
  <2> QED BY <1>1, <2>1, Len(<< >>) = 0 DEF Counted, Unchained
<1>3. (Chain(q) /\ Tail1(q) /\ Counted(q) /\ Used(q))'
  BY <1>1 DEF Together, Chain, Tail1, Counted, Used, Listed, Appending, Unchained, UartPlace,
     Apart, ListWindows, EventWindow
<1>4. (UartPlace(q) /\ TimerPlace(q, taken))'
  BY <1>1, <1>2 DEF Together, Chain, Tail1, Counted, UartPlace, TimerPlace, Listed, Appending,
     Unchained, Before, Apart, ListWindows, EventWindow
<1>5. EventsKept(q, taken)'
  <2>1. /\ EventsKept(q, taken)
        /\ taken => /\ timer'.event = timer.event
                    /\ timer'.pc \in EventWindow <=> timer.pc \in EventWindow
    BY <1>1 DEF Together, TimerPlace, EventWindow
  <2> QED BY <1>1, <2>1, TimerStepEvents, Zenon
<1>6. MessagesKept(q, taken)'
  <2>1. MessagesKept(q, taken) /\ TimerMessage(taken)
    BY Zenon DEF Together, MessagesKept
  <2>2. TimerMessage(taken)'
    BY <1>1, <2>1 DEF Together, TimerPlace, TimerMessage
  <2> QED BY <1>1, <2>1, <2>2, TimerStepMessages, Zenon
<1> QED BY <1>3, <1>4, <1>5, <1>6 DEF Together

LEMMA GetFirstKeeps ==
  ASSUME TypeInv, NEW q \in Seq(Links), NEW taken \in BOOLEAN, Together(q, taken),
         Apart, Apart', GetFirst, UNCHANGED handled
  PROVE  Together(q, taken)'
<1>1. /\ timer.pc = "get" /\ timer'.pc = "remove" /\ timer'.link = timer.link
      /\ timer'.pre = timer.pre /\ timer'.next = timer.next /\ timer'.count = timer.count
      /\ timer'.type = timer.type /\ timer'.cmd = timer.cmd /\ uart' = uart
      /\ accepted' = accepted /\ timer'.event = list.data[q[1]] /\ q # << >> /\ ~ taken
      /\ list' = list /\ pool' = pool /\ handled' = handled
  <2>1. timer.pc = "get"
    BY DEF GetFirst, TimerDoes
  <2>2. ~ taken /\ q # << >>
    BY <2>1 DEF Together, TimerPlace, Before
  <2>3. q[1] \in Links /\ q[1] # NULL /\ list.head = q[1] /\ list.data[q[1]] \in Events
    BY <2>2, Constants1 DEF Together, Chain, EventsKept, NULL
  <2>4. TimerDoes("get", [timer EXCEPT !.pc = "remove", !.event = list.data[q[1]]], list, pool)
    BY <2>3, Constants1 DEF GetFirst, NULL
  <2> QED BY <2>1, <2>2, <2>4 DEF TimerDoes, TimerAt, TypeInv, TimerTyped, TimerType,
             TimerHasEvent, TimerHasLink, TimerPoints, ListType
<1>2. (Chain(q) /\ Tail1(q) /\ Counted(q) /\ Used(q))'
  BY <1>1 DEF Together, Chain, Tail1, Counted, Used, Listed, Appending, Unchained, UartPlace,
     Apart, ListWindows, EventWindow
<1>3. (UartPlace(q) /\ TimerPlace(q, taken))'
  BY <1>1 DEF Together, Chain, Tail1, Counted, UartPlace, TimerPlace, Listed, Appending,
     Unchained, Before, Apart, ListWindows, EventWindow
<1>4. EventsKept(q, taken)'
  <2>1. /\ EventsKept(q, taken)
        /\ taken => /\ timer'.event = timer.event
                    /\ timer'.pc \in EventWindow <=> timer.pc \in EventWindow
    BY <1>1 DEF Together, TimerPlace, EventWindow
  <2> QED BY <1>1, <2>1, TimerStepEvents, Zenon
<1>5. MessagesKept(q, taken)'
  <2>1. MessagesKept(q, taken) /\ TimerMessage(taken)
    BY Zenon DEF Together, MessagesKept
  <2>2. TimerMessage(taken)'
    BY <1>1, <2>1 DEF Together, TimerPlace, TimerMessage
  <2> QED BY <1>1, <2>1, <2>2, TimerStepMessages, Zenon
<1> QED BY <1>2, <1>3, <1>4, <1>5 DEF Together

LEMMA RemoveBeginKeeps ==
  ASSUME TypeInv, NEW q \in Seq(Links), NEW taken \in BOOLEAN, Together(q, taken),
         Apart, Apart', RemoveBegin, UNCHANGED handled
  PROVE  Together(q, taken)'
<1>1. /\ timer.pc = "remove" /\ timer'.pc = "scan" /\ timer'.event = timer.event
      /\ timer'.next = timer.next /\ timer'.count = timer.count /\ timer'.type = timer.type
      /\ timer'.cmd = timer.cmd /\ uart' = uart /\ accepted' = accepted
      /\ timer'.link = list.head /\ timer'.pre = NULL /\ list' = list /\ pool' = pool
      /\ handled' = handled
  BY DEF RemoveBegin, TimerDoes, TimerAt, TypeInv, TimerTyped, TimerType, TimerHasEvent,
     TimerHasLink, TimerPoints, ListType
<1>2. (Chain(q) /\ Tail1(q) /\ Counted(q) /\ Used(q))'
  BY <1>1 DEF Together, Chain, Tail1, Counted, Used, Listed, Appending, Unchained, UartPlace,
     Apart, ListWindows, EventWindow
<1>3. (UartPlace(q) /\ TimerPlace(q, taken))'
  BY <1>1 DEF Together, Chain, Tail1, Counted, UartPlace, TimerPlace, Listed, Appending,
     Unchained, Before, Apart, ListWindows, EventWindow
<1>4. EventsKept(q, taken)'
  <2>1. /\ EventsKept(q, taken)
        /\ taken => /\ timer'.event = timer.event
                    /\ timer'.pc \in EventWindow <=> timer.pc \in EventWindow
    BY <1>1 DEF Together, TimerPlace, EventWindow
  <2> QED BY <1>1, <2>1, TimerStepEvents, Zenon
<1>5. MessagesKept(q, taken)'
  <2>1. MessagesKept(q, taken) /\ TimerMessage(taken)
    BY Zenon DEF Together, MessagesKept
  <2>2. TimerMessage(taken)'
    BY <1>1, <2>1 DEF Together, TimerPlace, TimerMessage
  <2> QED BY <1>1, <2>1, <2>2, TimerStepMessages, Zenon
<1> QED BY <1>2, <1>3, <1>4, <1>5 DEF Together

LEMMA ScanEndKeeps ==
  ASSUME TypeInv, NEW q \in Seq(Links), NEW taken \in BOOLEAN, Together(q, taken),
         Apart, Apart', ScanEnd, UNCHANGED handled
  PROVE  Together(q, taken)'
<1>1. /\ timer.pc = "scan" /\ timer'.pc = "read_type" /\ timer'.event = timer.event
      /\ timer'.link = timer.link /\ timer'.pre = timer.pre /\ timer'.next = timer.next
      /\ timer'.count = timer.count /\ timer'.type = timer.type /\ timer'.cmd = timer.cmd
      /\ uart' = uart /\ accepted' = accepted /\ timer.link = NULL /\ list' = list
      /\ pool' = pool /\ handled' = handled
  BY DEF ScanEnd, TimerDoes, TimerAt, TypeInv, TimerTyped, TimerType, TimerHasEvent, TimerHasLink,
     TimerPoints, ListType
<1>2. q # << >> => q[1] \in Links /\ q[1] # NULL /\ 1 \in DOMAIN q
  BY Constants1 DEF NULL
<1>3. (Chain(q) /\ Tail1(q) /\ Counted(q) /\ Used(q))'
  BY <1>1 DEF Together, Chain, Tail1, Counted, Used, Listed, Appending, Unchained, UartPlace,
     Apart, ListWindows, EventWindow
<1>4. (UartPlace(q) /\ TimerPlace(q, taken))'
  BY <1>1, <1>2 DEF Together, Chain, Tail1, Counted, UartPlace, TimerPlace, Listed, Appending,
     Unchained, Before, Apart, ListWindows, EventWindow
<1>5. EventsKept(q, taken)'
  <2>1. /\ EventsKept(q, taken)
        /\ taken => /\ timer'.event = timer.event
                    /\ timer'.pc \in EventWindow <=> timer.pc \in EventWindow
    BY <1>1 DEF Together, TimerPlace, EventWindow
  <2> QED BY <1>1, <2>1, TimerStepEvents, Zenon
<1>6. MessagesKept(q, taken)'
  <2>1. MessagesKept(q, taken) /\ TimerMessage(taken)
    BY Zenon DEF Together, MessagesKept
  <2>2. TimerMessage(taken)'
    BY <1>1, <2>1 DEF Together, TimerPlace, TimerMessage
  <2> QED BY <1>1, <2>1, <2>2, TimerStepMessages, Zenon
<1> QED BY <1>3, <1>4, <1>5, <1>6 DEF Together

LEMMA ScanMatchKeeps ==
  ASSUME TypeInv, NEW q \in Seq(Links), NEW taken \in BOOLEAN, Together(q, taken),
         Apart, Apart', ScanMatch, UNCHANGED handled
  PROVE  Together(q, taken)'
<1>1. /\ timer.pc = "scan" /\ timer'.pc = "head_load" /\ timer'.event = timer.event
      /\ timer'.link = timer.link /\ timer'.pre = timer.pre /\ timer'.next = timer.next
      /\ timer'.count = timer.count /\ timer'.type = timer.type /\ timer'.cmd = timer.cmd
      /\ uart' = uart /\ accepted' = accepted /\ timer.link = q[1] /\ ~ taken /\ q # << >>
      /\ timer.pre = NULL /\ timer.event = list.data[q[1]] /\ list' = list /\ pool' = pool
      /\ handled' = handled
  <2>1. timer.pc = "scan" /\ timer.link # NULL /\ list.data[timer.link] = timer.event
    BY DEF ScanMatch, TimerDoes
  <2>2. ~ taken
    BY <2>1 DEF Together, TimerPlace, EventsKept, InList, Listed
  <2>3. /\ q # << >> /\ timer.link = q[1] /\ timer.pre = NULL /\ timer.event = list.data[q[1]]
        /\ timer.link = list.head
    BY <2>1, <2>2 DEF Together, TimerPlace, Chain, Before
  <2> QED BY <2>1, <2>2, <2>3 DEF ScanMatch, TimerDoes, TimerAt, TypeInv, TimerTyped, TimerType,
             TimerHasEvent, TimerHasLink, TimerPoints, ListType
<1>2. (Chain(q) /\ Tail1(q) /\ Counted(q) /\ Used(q))'
  BY <1>1 DEF Together, Chain, Tail1, Counted, Used, Listed, Appending, Unchained, UartPlace,
     Apart, ListWindows, EventWindow
<1>3. (UartPlace(q) /\ TimerPlace(q, taken))'
  BY <1>1 DEF Together, Chain, Tail1, Counted, UartPlace, TimerPlace, Listed, Appending,
     Unchained, Before, Apart, ListWindows, EventWindow
<1>4. EventsKept(q, taken)'
  <2>1. /\ EventsKept(q, taken)
        /\ taken => /\ timer'.event = timer.event
                    /\ timer'.pc \in EventWindow <=> timer.pc \in EventWindow
    BY <1>1 DEF Together, TimerPlace, EventWindow
  <2> QED BY <1>1, <2>1, TimerStepEvents, Zenon
<1>5. MessagesKept(q, taken)'
  <2>1. MessagesKept(q, taken) /\ TimerMessage(taken)
    BY Zenon DEF Together, MessagesKept
  <2>2. TimerMessage(taken)'
    BY <1>1, <2>1 DEF Together, TimerPlace, TimerMessage
  <2> QED BY <1>1, <2>1, <2>2, TimerStepMessages, Zenon
<1> QED BY <1>2, <1>3, <1>4, <1>5 DEF Together

LEMMA ScanOtherKeeps ==
  ASSUME TypeInv, NEW q \in Seq(Links), NEW taken \in BOOLEAN, Together(q, taken),
         Apart, Apart', ScanOther, UNCHANGED handled
  PROVE  Together(q, taken)'
<1>1. /\ timer.pc = "scan" /\ timer'.pc = "scan" /\ timer'.event = timer.event
      /\ timer'.next = timer.next /\ timer'.count = timer.count /\ timer'.type = timer.type
      /\ timer'.cmd = timer.cmd /\ uart' = uart /\ accepted' = accepted
      /\ timer'.link = list.next[timer.link] /\ taken
      /\ \E i \in DOMAIN q : timer.link = q[i] /\ list' = list /\ pool' = pool
      /\ handled' = handled
  <2>1. timer.pc = "scan" /\ timer.link # NULL /\ list.data[timer.link] # timer.event
    BY DEF ScanOther, TimerDoes
  <2>2. taken
    BY <2>1 DEF Together, TimerPlace, Before
  <2>3. \E i \in DOMAIN q : timer.link = q[i]
    BY <2>1, <2>2 DEF Together, TimerPlace, Listed
  <2> QED BY <2>1, <2>2, <2>3 DEF ScanOther, TimerDoes, TimerAt, TypeInv, TimerTyped, TimerType,
             TimerHasEvent, TimerHasLink, TimerPoints, ListType
<1>2. (Chain(q) /\ Tail1(q) /\ Counted(q) /\ Used(q))'
  BY <1>1 DEF Together, Chain, Tail1, Counted, Used, Listed, Appending, Unchained, UartPlace,
     Apart, ListWindows, EventWindow
<1>3. (UartPlace(q) /\ TimerPlace(q, taken))'
  BY <1>1 DEF Together, Chain, Tail1, Counted, UartPlace, TimerPlace, Listed, Appending,
     Unchained, Before, Apart, ListWindows, EventWindow
<1>4. EventsKept(q, taken)'
  <2>1. /\ EventsKept(q, taken)
        /\ taken => /\ timer'.event = timer.event
                    /\ timer'.pc \in EventWindow <=> timer.pc \in EventWindow
    BY <1>1 DEF Together, TimerPlace, EventWindow
  <2> QED BY <1>1, <2>1, TimerStepEvents, Zenon
<1>5. MessagesKept(q, taken)'
  <2>1. MessagesKept(q, taken) /\ TimerMessage(taken)
    BY Zenon DEF Together, MessagesKept
  <2>2. TimerMessage(taken)'
    BY <1>1, <2>1 DEF Together, TimerPlace, TimerMessage
  <2> QED BY <1>1, <2>1, <2>2, TimerStepMessages, Zenon
<1> QED BY <1>2, <1>3, <1>4, <1>5 DEF Together

LEMMA HeadLoadKeeps ==
  ASSUME TypeInv, NEW q \in Seq(Links), NEW taken \in BOOLEAN, Together(q, taken),
         Apart, Apart', HeadLoad, UNCHANGED handled
  PROVE  Together(q, taken)'
<1>1. /\ timer.pc = "head_load" /\ timer'.pc = "head_store" /\ timer'.event = timer.event
      /\ timer'.link = timer.link /\ timer'.pre = timer.pre /\ timer'.count = timer.count
      /\ timer'.type = timer.type /\ timer'.cmd = timer.cmd /\ uart' = uart
      /\ accepted' = accepted /\ timer'.next = list.next[timer.link] /\ list' = list
      /\ pool' = pool /\ handled' = handled
  BY DEF HeadLoad, TimerDoes, TimerAt, TypeInv, TimerTyped, TimerType, TimerHasEvent,
     TimerHasLink, TimerPoints, ListType
<1>2. (Chain(q) /\ Tail1(q) /\ Counted(q) /\ Used(q))'
  BY <1>1 DEF Together, Chain, Tail1, Counted, Used, Listed, Appending, Unchained, UartPlace,
     Apart, ListWindows, EventWindow
<1>3. (UartPlace(q) /\ TimerPlace(q, taken))'
  BY <1>1 DEF Together, Chain, Tail1, Counted, UartPlace, TimerPlace, Listed, Appending,
     Unchained, Before, Apart, ListWindows, EventWindow
<1>4. EventsKept(q, taken)'
  <2>1. /\ EventsKept(q, taken)
        /\ taken => /\ timer'.event = timer.event
                    /\ timer'.pc \in EventWindow <=> timer.pc \in EventWindow
    BY <1>1 DEF Together, TimerPlace, EventWindow
  <2> QED BY <1>1, <2>1, TimerStepEvents, Zenon
<1>5. MessagesKept(q, taken)'
  <2>1. MessagesKept(q, taken) /\ TimerMessage(taken)
    BY Zenon DEF Together, MessagesKept
  <2>2. TimerMessage(taken)'
    BY <1>1, <2>1 DEF Together, TimerPlace, TimerMessage
  <2> QED BY <1>1, <2>1, <2>2, TimerStepMessages, Zenon
<1> QED BY <1>2, <1>3, <1>4, <1>5 DEF Together

LEMMA TailTestKeeps ==
  ASSUME TypeInv, NEW q \in Seq(Links), NEW taken \in BOOLEAN, Together(q, taken),
         Apart, Apart', TailTest, UNCHANGED handled
  PROVE  Together(q, taken)'
<1>1. /\ timer.pc = "tail_test" /\ timer'.event = timer.event /\ timer'.link = timer.link
      /\ timer'.pre = timer.pre /\ timer'.next = timer.next /\ timer'.count = timer.count
      /\ timer'.type = timer.type /\ timer'.cmd = timer.cmd /\ uart' = uart
      /\ accepted' = accepted
      /\ timer'.pc = (IF timer.link = list.tail THEN "tail_store" ELSE "pre_next")
      /\ list' = list /\ pool' = pool /\ handled' = handled
  BY DEF TailTest, TimerDoes, TimerAt, TypeInv, TimerTyped, TimerType, TimerHasEvent,
     TimerHasLink, TimerPoints, ListType
<1>2. q # << >> => Len(q) \in DOMAIN q
  BY Len(<< >>) = 0
<1>3. (Chain(q) /\ Tail1(q) /\ Counted(q) /\ Used(q))'
  BY <1>1, <1>2 DEF Together, Chain, Tail1, Counted, Used, Listed, Appending, Unchained,
     UartPlace, Apart, ListWindows, EventWindow
<1>4. (UartPlace(q) /\ TimerPlace(q, taken))'
  BY <1>1, <1>2 DEF Together, Chain, Tail1, Counted, UartPlace, TimerPlace, Listed, Appending,
     Unchained, Before, Apart, ListWindows, EventWindow, Used
<1>5. EventsKept(q, taken)'
  <2>1. /\ EventsKept(q, taken)
        /\ taken => /\ timer'.event = timer.event
                    /\ timer'.pc \in EventWindow <=> timer.pc \in EventWindow
    BY <1>1 DEF Together, TimerPlace, EventWindow
  <2> QED BY <1>1, <2>1, TimerStepEvents, Zenon
<1>6. MessagesKept(q, taken)'
  <2>1. MessagesKept(q, taken) /\ TimerMessage(taken)
    BY Zenon DEF Together, MessagesKept
  <2>2. TimerMessage(taken)'
    BY <1>1, <2>1 DEF Together, TimerPlace, TimerMessage
  <2> QED BY <1>1, <2>1, <2>2, TimerStepMessages, Zenon
<1> QED BY <1>3, <1>4, <1>5, <1>6 DEF Together

LEMMA TailStoreKeeps ==
  ASSUME TypeInv, NEW q \in Seq(Links), NEW taken \in BOOLEAN, Together(q, taken),
         Apart, Apart', TailStore, UNCHANGED handled
  PROVE  Together(q, taken)'
<1>1. /\ timer.pc = "tail_store" /\ timer'.pc = "pre_next" /\ timer'.event = timer.event
      /\ timer'.link = timer.link /\ timer'.pre = timer.pre /\ timer'.next = timer.next
      /\ timer'.count = timer.count /\ timer'.type = timer.type /\ timer'.cmd = timer.cmd
      /\ uart' = uart /\ accepted' = accepted /\ list'.tail = timer.pre
      /\ list'.head = list.head /\ list'.count = list.count /\ list'.next = list.next
      /\ list'.data = list.data /\ list'.isUsed = list.isUsed /\ pool' = pool
      /\ handled' = handled
  BY DEF TailStore, TimerDoes, TimerAt, TypeInv, TimerTyped, TimerType, TimerHasEvent,
     TimerHasLink, TimerPoints, ListType
<1>2. (Chain(q) /\ Tail1(q) /\ Counted(q) /\ Used(q))'
  BY <1>1 DEF Together, Chain, Tail1, Counted, Used, Listed, Appending, Unchained, UartPlace,
     Apart, ListWindows, EventWindow, TimerPlace
<1>3. (UartPlace(q) /\ TimerPlace(q, taken))'
  BY <1>1 DEF Together, Chain, Tail1, Counted, UartPlace, TimerPlace, Listed, Appending,
     Unchained, Before, Apart, ListWindows, EventWindow
<1>4. EventsKept(q, taken)'
  <2>1. /\ EventsKept(q, taken)
        /\ taken => /\ timer'.event = timer.event
                    /\ timer'.pc \in EventWindow <=> timer.pc \in EventWindow
    BY <1>1 DEF Together, TimerPlace, EventWindow
  <2> QED BY <1>1, <2>1, TimerStepEvents, Zenon
<1>5. MessagesKept(q, taken)'
  <2>1. MessagesKept(q, taken) /\ TimerMessage(taken)
    BY Zenon DEF Together, MessagesKept
  <2>2. TimerMessage(taken)'
    BY <1>1, <2>1 DEF Together, TimerPlace, TimerMessage
  <2> QED BY <1>1, <2>1, <2>2, TimerStepMessages, Zenon
<1> QED BY <1>2, <1>3, <1>4, <1>5 DEF Together

LEMMA PreNextKeeps ==
  ASSUME TypeInv, NEW q \in Seq(Links), NEW taken \in BOOLEAN, Together(q, taken),
         Apart, Apart', PreNext, UNCHANGED handled
  PROVE  Together(q, taken)'
<1>1. /\ timer.pc = "pre_next" /\ timer'.pc = "free" /\ timer'.event = timer.event
      /\ timer'.link = timer.link /\ timer'.pre = timer.pre /\ timer'.next = timer.next
      /\ timer'.count = timer.count /\ timer'.type = timer.type /\ timer'.cmd = timer.cmd
      /\ uart' = uart /\ accepted' = accepted /\ list' = list /\ pool' = pool
      /\ handled' = handled
  <2>1. timer.pc = "pre_next"
    BY DEF PreNext, TimerDoes
  <2>2. timer.pre = NULL
    BY <2>1 DEF Together, TimerPlace, Unchained
  <2> QED BY <2>1, <2>2 DEF PreNext, TimerDoes, TimerAt, TypeInv, TimerTyped, TimerType,
             TimerHasEvent, TimerHasLink, TimerPoints, ListType
<1>2. (Chain(q) /\ Tail1(q) /\ Counted(q) /\ Used(q))'
  BY <1>1 DEF Together, Chain, Tail1, Counted, Used, Listed, Appending, Unchained, UartPlace,
     Apart, ListWindows, EventWindow
<1>3. (UartPlace(q) /\ TimerPlace(q, taken))'
  BY <1>1 DEF Together, Chain, Tail1, Counted, UartPlace, TimerPlace, Listed, Appending,
     Unchained, Before, Apart, ListWindows, EventWindow
<1>4. EventsKept(q, taken)'
  <2>1. /\ EventsKept(q, taken)
        /\ taken => /\ timer'.event = timer.event
                    /\ timer'.pc \in EventWindow <=> timer.pc \in EventWindow
    BY <1>1 DEF Together, TimerPlace, EventWindow
  <2> QED BY <1>1, <2>1, TimerStepEvents, Zenon
<1>5. MessagesKept(q, taken)'
  <2>1. MessagesKept(q, taken) /\ TimerMessage(taken)
    BY Zenon DEF Together, MessagesKept
  <2>2. TimerMessage(taken)'
    BY <1>1, <2>1 DEF Together, TimerPlace, TimerMessage
  <2> QED BY <1>1, <2>1, <2>2, TimerStepMessages, Zenon
<1> QED BY <1>2, <1>3, <1>4, <1>5 DEF Together

LEMMA FreeLinkKeeps ==
  ASSUME TypeInv, NEW q \in Seq(Links), NEW taken \in BOOLEAN, Together(q, taken),
         Apart, Apart', FreeLink, UNCHANGED handled
  PROVE  Together(q, taken)'
<1>1. /\ timer.pc = "free" /\ timer'.pc = "count_load" /\ timer'.event = timer.event
      /\ timer'.link = timer.link /\ timer'.pre = timer.pre /\ timer'.next = timer.next
      /\ timer'.count = timer.count /\ timer'.type = timer.type /\ timer'.cmd = timer.cmd
      /\ uart' = uart /\ accepted' = accepted /\ timer.link \in Links
      /\ list'.isUsed = [list.isUsed EXCEPT ![timer.link] = FALSE] /\ list'.head = list.head
      /\ list'.tail = list.tail /\ list'.count = list.count /\ list'.next = list.next
      /\ list'.data = list.data /\ pool' = pool /\ handled' = handled
  BY DEF FreeLink, TimerDoes, TimerAt, TypeInv, TimerTyped, TimerType, TimerHasEvent,
     TimerHasLink, TimerPoints, ListType
<1>2. ~ list'.isUsed[timer.link]
         /\ \A l \in Links : l # timer.link => list'.isUsed[l] = list.isUsed[l]
  BY <1>1 DEF TypeInv, ListType
<1>3. (Chain(q) /\ Tail1(q) /\ Counted(q) /\ Used(q))'
  BY <1>1, <1>2 DEF Together, Chain, Tail1, Counted, Used, Listed, Appending, Unchained,
     UartPlace, Apart, ListWindows, EventWindow
<1>4. (UartPlace(q) /\ TimerPlace(q, taken))'
  BY <1>1 DEF Together, Chain, Tail1, Counted, UartPlace, TimerPlace, Listed, Appending,
     Unchained, Before, Apart, ListWindows, EventWindow
<1>5. EventsKept(q, taken)'
  <2>1. /\ EventsKept(q, taken)
        /\ taken => /\ timer'.event = timer.event
                    /\ timer'.pc \in EventWindow <=> timer.pc \in EventWindow
    BY <1>1 DEF Together, TimerPlace, EventWindow
  <2> QED BY <1>1, <2>1, TimerStepEvents, Zenon
<1>6. MessagesKept(q, taken)'
  <2>1. MessagesKept(q, taken) /\ TimerMessage(taken)
    BY Zenon DEF Together, MessagesKept
  <2>2. TimerMessage(taken)'
    BY <1>1, <2>1 DEF Together, TimerPlace, TimerMessage
  <2> QED BY <1>1, <2>1, <2>2, TimerStepMessages, Zenon
<1> QED BY <1>3, <1>4, <1>5, <1>6 DEF Together

LEMMA CountLoadKeeps ==
  ASSUME TypeInv, NEW q \in Seq(Links), NEW taken \in BOOLEAN, Together(q, taken),
         Apart, Apart', CountLoad, UNCHANGED handled
  PROVE  Together(q, taken)'
<1>1. /\ timer.pc = "count_load" /\ timer'.pc = "count_store" /\ timer'.event = timer.event
      /\ timer'.link = timer.link /\ timer'.pre = timer.pre /\ timer'.next = timer.next
      /\ timer'.type = timer.type /\ timer'.cmd = timer.cmd /\ uart' = uart
      /\ accepted' = accepted /\ timer'.count = list.count /\ list' = list /\ pool' = pool
      /\ handled' = handled
  BY DEF CountLoad, TimerDoes, TimerAt, TypeInv, TimerTyped, TimerType, TimerHasEvent,
     TimerHasLink, TimerPoints, ListType
<1>2. (Chain(q) /\ Tail1(q) /\ Counted(q) /\ Used(q))'
  BY <1>1 DEF Together, Chain, Tail1, Counted, Used, Listed, Appending, Unchained, UartPlace,
     Apart, ListWindows, EventWindow
<1>3. (UartPlace(q) /\ TimerPlace(q, taken))'
  BY <1>1 DEF Together, Chain, Tail1, Counted, UartPlace, TimerPlace, Listed, Appending,
     Unchained, Before, Apart, ListWindows, EventWindow
<1>4. EventsKept(q, taken)'
  <2>1. /\ EventsKept(q, taken)
        /\ taken => /\ timer'.event = timer.event
                    /\ timer'.pc \in EventWindow <=> timer.pc \in EventWindow
    BY <1>1 DEF Together, TimerPlace, EventWindow
  <2> QED BY <1>1, <2>1, TimerStepEvents, Zenon
<1>5. MessagesKept(q, taken)'
  <2>1. MessagesKept(q, taken) /\ TimerMessage(taken)
    BY Zenon DEF Together, MessagesKept
  <2>2. TimerMessage(taken)'
    BY <1>1, <2>1 DEF Together, TimerPlace, TimerMessage
  <2> QED BY <1>1, <2>1, <2>2, TimerStepMessages, Zenon
<1> QED BY <1>2, <1>3, <1>4, <1>5 DEF Together

LEMMA CountStoreKeeps ==
  ASSUME TypeInv, NEW q \in Seq(Links), NEW taken \in BOOLEAN, Together(q, taken),
         Apart, Apart', CountStore, UNCHANGED handled
  PROVE  Together(q, taken)'
<1>1. /\ timer.pc = "count_store" /\ timer'.pc = "advance" /\ timer'.event = timer.event
      /\ timer'.link = timer.link /\ timer'.pre = timer.pre /\ timer'.next = timer.next
      /\ timer'.count = timer.count /\ timer'.type = timer.type /\ timer'.cmd = timer.cmd
      /\ uart' = uart /\ accepted' = accepted
      /\ list'.count = (timer.count + HUGE) % (HUGE + 1) /\ list'.head = list.head
      /\ list'.tail = list.tail /\ list'.next = list.next /\ list'.data = list.data
      /\ list'.isUsed = list.isUsed /\ pool' = pool /\ handled' = handled
  BY DEF CountStore, TimerDoes, TimerAt, TypeInv, TimerTyped, TimerType, TimerHasEvent,
     TimerHasLink, TimerPoints, ListType
<1>2. list.count = Len(q) + 1 /\ timer.count = list.count /\ Len(q) \in Nat
  BY <1>1 DEF Together, Counted, TimerPlace, Apart, ListWindows, EventWindow
<1>3. Len(q) < HUGE
  BY ListFits, Zenon
<1>4. list'.count = Len(q)
  <2> DEFINE n == Len(q)
  <2>1. (n + 1 + HUGE) % (HUGE + 1) = n
    BY <1>2, <1>3, CountWraps
  <2> QED BY <1>1, <1>2, <2>1
<1>5. (Chain(q) /\ Tail1(q) /\ Counted(q) /\ Used(q))'
  BY <1>1, <1>4 DEF Together, Chain, Tail1, Counted, Used, Listed, Appending, Unchained,
     UartPlace, Apart, ListWindows, EventWindow
<1>6. (UartPlace(q) /\ TimerPlace(q, taken))'
  BY <1>1, <1>4 DEF Together, Chain, Tail1, Counted, UartPlace, TimerPlace, Listed, Appending,
     Unchained, Before, Apart, ListWindows, EventWindow
<1>7. EventsKept(q, taken)'
  <2>1. /\ EventsKept(q, taken)
        /\ taken => /\ timer'.event = timer.event
                    /\ timer'.pc \in EventWindow <=> timer.pc \in EventWindow
    BY <1>1 DEF Together, TimerPlace, EventWindow
  <2> QED BY <1>1, <2>1, TimerStepEvents, Zenon
<1>8. MessagesKept(q, taken)'
  <2>1. MessagesKept(q, taken) /\ TimerMessage(taken)
    BY Zenon DEF Together, MessagesKept
  <2>2. TimerMessage(taken)'
    BY <1>1, <2>1 DEF Together, TimerPlace, TimerMessage
  <2> QED BY <1>1, <2>1, <2>2, TimerStepMessages, Zenon
<1> QED BY <1>5, <1>6, <1>7, <1>8 DEF Together

LEMMA AdvanceKeeps ==
  ASSUME TypeInv, NEW q \in Seq(Links), NEW taken \in BOOLEAN, Together(q, taken),
         Apart, Apart', Advance, UNCHANGED handled
  PROVE  Together(q, taken)'
<1>1. /\ timer.pc = "advance" /\ timer'.pc = "scan" /\ timer'.event = timer.event
      /\ timer'.pre = timer.pre /\ timer'.next = timer.next /\ timer'.count = timer.count
      /\ timer'.type = timer.type /\ timer'.cmd = timer.cmd /\ uart' = uart
      /\ accepted' = accepted /\ timer'.link = list.next[timer.link] /\ list' = list
      /\ pool' = pool /\ handled' = handled
  BY DEF Advance, TimerDoes, TimerAt, TypeInv, TimerTyped, TimerType, TimerHasEvent, TimerHasLink,
     TimerPoints, ListType
<1>2. (Chain(q) /\ Tail1(q) /\ Counted(q) /\ Used(q))'
  BY <1>1 DEF Together, Chain, Tail1, Counted, Used, Listed, Appending, Unchained, UartPlace,
     Apart, ListWindows, EventWindow
<1>3. (UartPlace(q) /\ TimerPlace(q, taken))'
  BY <1>1 DEF Together, Chain, Tail1, Counted, UartPlace, TimerPlace, Listed, Appending,
     Unchained, Before, Apart, ListWindows, EventWindow
<1>4. EventsKept(q, taken)'
  <2>1. /\ EventsKept(q, taken)
        /\ taken => /\ timer'.event = timer.event
                    /\ timer'.pc \in EventWindow <=> timer.pc \in EventWindow
    BY <1>1 DEF Together, TimerPlace, EventWindow
  <2> QED BY <1>1, <2>1, TimerStepEvents, Zenon
<1>5. MessagesKept(q, taken)'
  <2>1. MessagesKept(q, taken) /\ TimerMessage(taken)
    BY Zenon DEF Together, MessagesKept
  <2>2. TimerMessage(taken)'
    BY <1>1, <2>1 DEF Together, TimerPlace, TimerMessage
  <2> QED BY <1>1, <2>1, <2>2, TimerStepMessages, Zenon
<1> QED BY <1>2, <1>3, <1>4, <1>5 DEF Together

LEMMA ReadTypeKeeps ==
  ASSUME TypeInv, NEW q \in Seq(Links), NEW taken \in BOOLEAN, Together(q, taken),
         Apart, Apart', ReadType, UNCHANGED handled
  PROVE  Together(q, taken)'
<1>1. /\ timer.pc = "read_type" /\ timer'.pc = "release" /\ timer'.event = timer.event
      /\ timer'.link = timer.link /\ timer'.pre = timer.pre /\ timer'.next = timer.next
      /\ timer'.count = timer.count /\ timer'.cmd = timer.cmd /\ uart' = uart
      /\ accepted' = accepted /\ timer'.type = pool[timer.event].type /\ list' = list
      /\ pool' = pool /\ handled' = handled
  BY DEF ReadType, TimerDoes, TimerAt, TypeInv, TimerTyped, TimerType, TimerHasEvent,
     TimerHasLink, TimerPoints, ListType
<1>2. (Chain(q) /\ Tail1(q) /\ Counted(q) /\ Used(q))'
  BY <1>1 DEF Together, Chain, Tail1, Counted, Used, Listed, Appending, Unchained, UartPlace,
     Apart, ListWindows, EventWindow
<1>3. (UartPlace(q) /\ TimerPlace(q, taken))'
  BY <1>1 DEF Together, Chain, Tail1, Counted, UartPlace, TimerPlace, Listed, Appending,
     Unchained, Before, Apart, ListWindows, EventWindow
<1>4. EventsKept(q, taken)'
  <2>1. /\ EventsKept(q, taken)
        /\ taken => /\ timer'.event = timer.event
                    /\ timer'.pc \in EventWindow <=> timer.pc \in EventWindow
    BY <1>1 DEF Together, TimerPlace, EventWindow
  <2> QED BY <1>1, <2>1, TimerStepEvents, Zenon
<1>5. MessagesKept(q, taken)'
  <2>1. MessagesKept(q, taken) /\ TimerMessage(taken)
    BY Zenon DEF Together, MessagesKept
  <2>2. TimerMessage(taken)'
    BY <1>1, <2>1 DEF Together, TimerPlace, TimerMessage
  <2> QED BY <1>1, <2>1, <2>2, TimerStepMessages, Zenon
<1> QED BY <1>2, <1>3, <1>4, <1>5 DEF Together

LEMMA ReleaseKeeps ==
  ASSUME TypeInv, NEW q \in Seq(Links), NEW taken \in BOOLEAN, Together(q, taken),
         Apart, Apart', Release, UNCHANGED handled
  PROVE  Together(q, taken)'
<1>1. /\ timer.pc = "release" /\ timer'.pc = "handle_cmd" /\ timer'.event = timer.event
      /\ timer'.link = timer.link /\ timer'.pre = timer.pre /\ timer'.next = timer.next
      /\ timer'.count = timer.count /\ timer'.type = timer.type /\ timer'.cmd = timer.cmd
      /\ uart' = uart /\ accepted' = accepted /\ timer.event \in Events
      /\ pool' = [pool EXCEPT ![timer.event].type = FREE] /\ list' = list
      /\ handled' = handled
  BY DEF Release, TimerDoes, TimerAt, TypeInv, TimerTyped, TimerType, TimerHasEvent, TimerHasLink,
     TimerPoints, ListType
<1>2. /\ OnlyChanged(pool', timer.event) /\ pool'[timer.event].type = FREE
      /\ pool'[timer.event].cmd = pool[timer.event].cmd
      /\ pool'[timer.event].buff = pool[timer.event].buff
  BY <1>1 DEF TypeInv, PoolType, Event, OnlyChanged
<1>3. uart.pc \in InUart => uart.event \in Events
  BY DEF TypeInv, UartTyped, InUart
<1>4. taken
  BY <1>1 DEF Together, TimerPlace, Before
<1>5. (Chain(q) /\ Tail1(q) /\ Counted(q) /\ Used(q))'
  BY <1>1 DEF Together, Chain, Tail1, Counted, Used, Listed, Appending, Unchained, UartPlace,
     Apart, ListWindows, EventWindow
<1>6. (UartPlace(q) /\ TimerPlace(q, taken))'
  BY <1>1 DEF Together, Chain, Tail1, Counted, UartPlace, TimerPlace, Listed, Appending,
     Unchained, Before, Apart, ListWindows, EventWindow
<1>7. EventsKept(q, taken)'
  BY <1>1, <1>2, <1>3, <1>4 DEF Together, EventsKept, InList, InUart, UartHasEvent, UartPoints,
     OnlyChanged
<1>8. MessagesKept(q, taken)'
  <2>1. Accounted(q, taken) /\ HandledAccepted /\ ListedMessages(q, taken) /\ UartMessage
        /\ TimerMessage(taken)
    BY Zenon DEF Together, MessagesKept
  <2>2. (Accounted(q, taken) /\ HandledAccepted)'
    BY <1>1, <2>1 DEF Accounted, HandledAccepted, Out, Coming
  <2>3. ListedMessages(q, taken)'
    <3>1. \A i \in DOMAIN q : list.data[q[i]] \in Events /\ list.data[q[i]] # timer.event
      BY <1>4 DEF Together, EventsKept, InList
    <3>2. \A i \in DOMAIN q : pool'[list.data[q[i]]] = pool[list.data[q[i]]]
      BY <1>2, <3>1 DEF OnlyChanged
    <3> QED BY <1>1, <2>1, <3>2 DEF ListedMessages, Out
  <2>4. UartMessage'
    <3>1. uart.pc \in InUart => pool'[uart.event] = pool[uart.event]
      BY <1>2, <1>3, <1>4 DEF Together, EventsKept, OnlyChanged
    <3> QED BY <1>1, <2>1, <3>1 DEF UartMessage, Coming
  <2>5. TimerMessage(taken)'
    BY <1>1, <1>2, <2>1 DEF TimerMessage
  <2> QED BY <2>2, <2>3, <2>4, <2>5 DEF MessagesKept
<1> QED BY <1>5, <1>6, <1>7, <1>8 DEF Together

LEMMA HandleCmdKeeps ==
  ASSUME TypeInv, NEW q \in Seq(Links), NEW taken \in BOOLEAN, Together(q, taken),
         Apart, Apart', HandleCmd, UNCHANGED handled
  PROVE  Together(q, taken)'
<1>1. /\ timer.pc = "handle_cmd" /\ timer'.pc = "handle" /\ timer'.event = timer.event
      /\ timer'.link = timer.link /\ timer'.pre = timer.pre /\ timer'.next = timer.next
      /\ timer'.count = timer.count /\ timer'.type = timer.type /\ uart' = uart
      /\ accepted' = accepted /\ timer'.cmd = pool[timer.event].cmd /\ list' = list
      /\ pool' = pool /\ handled' = handled
  BY DEF HandleCmd, TimerDoes, TimerAt, TypeInv, TimerTyped, TimerType, TimerHasEvent,
     TimerHasLink, TimerPoints, ListType
<1>2. (Chain(q) /\ Tail1(q) /\ Counted(q) /\ Used(q))'
  BY <1>1 DEF Together, Chain, Tail1, Counted, Used, Listed, Appending, Unchained, UartPlace,
     Apart, ListWindows, EventWindow
<1>3. (UartPlace(q) /\ TimerPlace(q, taken))'
  BY <1>1 DEF Together, Chain, Tail1, Counted, UartPlace, TimerPlace, Listed, Appending,
     Unchained, Before, Apart, ListWindows, EventWindow
<1>4. EventsKept(q, taken)'
  <2>1. /\ EventsKept(q, taken)
        /\ taken => /\ timer'.event = timer.event
                    /\ timer'.pc \in EventWindow <=> timer.pc \in EventWindow
    BY <1>1 DEF Together, TimerPlace, EventWindow
  <2> QED BY <1>1, <2>1, TimerStepEvents, Zenon
<1>5. MessagesKept(q, taken)'
  <2>1. MessagesKept(q, taken) /\ TimerMessage(taken)
    BY Zenon DEF Together, MessagesKept
  <2>2. TimerMessage(taken)'
    BY <1>1, <2>1 DEF Together, TimerPlace, TimerMessage
  <2> QED BY <1>1, <2>1, <2>2, TimerStepMessages, Zenon
<1> QED BY <1>2, <1>3, <1>4, <1>5 DEF Together

LEMMA NotEmpty ==
  ASSUME NEW S, NEW r \in Seq(S)
  PROVE  Len(r) > 0 <=> r # << >>
  BY EmptySeq

LEMMA HeadStoreKeeps ==
  ASSUME TypeInv, NEW q \in Seq(Links), NEW taken \in BOOLEAN, Together(q, taken),
         Apart, Apart', HeadStore, UNCHANGED handled,
         NEW r \in Seq(Links), r = Tail(q)
  PROVE  Together(r, TRUE)'
<1>0. /\ timer.pc = "head_store" /\ ~ taken /\ q # << >> /\ timer.event = list.data[q[1]]
      /\ timer.link = q[1] /\ timer.pre = NULL /\ timer.next = list.next[q[1]]
  <2>1. timer.pc = "head_store"
    BY DEF HeadStore, TimerDoes
  <2>2. ~ taken
    BY <2>1 DEF Together, TimerPlace
  <2> QED BY <2>1, <2>2 DEF Together, TimerPlace, Before
<1>1. /\ timer.pc = "head_store" /\ timer'.pc = "tail_test" /\ timer'.event = timer.event
      /\ timer'.link = timer.link /\ timer'.pre = timer.pre /\ timer'.next = timer.next
      /\ timer'.count = timer.count /\ timer'.type = timer.type /\ timer'.cmd = timer.cmd
      /\ uart' = uart /\ accepted' = accepted /\ list'.tail = list.tail
      /\ list'.count = list.count /\ list'.next = list.next /\ list'.data = list.data
      /\ list'.isUsed = list.isUsed /\ list'.head = list.next[q[1]] /\ timer.link = q[1]
      /\ timer.event = list.data[q[1]] /\ timer.pre = NULL /\ timer.link \in Links
      /\ timer.event \in Events /\ ~ taken /\ pool' = pool /\ handled' = handled
  BY <1>0 DEF HeadStore, TimerDoes, TimerAt, TypeInv, TimerTyped, TimerType, TimerHasEvent,
     TimerHasLink, TimerPoints, ListType
<1>2. /\ Len(q) = Len(r) + 1 /\ Len(r) \in Nat /\ DOMAIN r = 1..Len(r) /\ DOMAIN q = 1..Len(q)
      /\ \A i \in 1..Len(r) : r[i] = q[i + 1] /\ i + 1 \in 1..Len(q)
      /\ 1 \in 1..Len(q)
  BY <1>0
<1>3. \A i, j \in DOMAIN q : q[i] = q[j] => i = j
  BY Zenon DEF Together, Chain
<1>4. ~ Listed(r, q[1]) /\ \A l : Listed(q, l) <=> Listed(r, l) \/ l = q[1]
  <2>1. ASSUME NEW i \in 1..Len(r) PROVE r[i] # q[1]
    <3>1. i + 1 \in 1..Len(q) /\ r[i] = q[i + 1] /\ i + 1 # 1
      BY <1>2
    <3> QED BY <1>2, <1>3, <3>1
  <2>2. ASSUME NEW j \in 1..Len(q), j # 1 PROVE \E i \in 1..Len(r) : r[i] = q[j]
    <3>1. j - 1 \in 1..Len(r) /\ j - 1 + 1 = j
      BY <1>2, <2>2
    <3> QED BY <1>2, <3>1
  <2>3. ~ Listed(r, q[1]) /\ Listed(q, q[1])
    BY <1>2, <2>1 DEF Listed
  <2>4. ASSUME NEW l, Listed(r, l) PROVE Listed(q, l)
    <3>1. PICK i \in 1..Len(r) : r[i] = l
      BY <1>2, <2>4 DEF Listed
    <3> QED BY <1>2, <3>1 DEF Listed
  <2>5. ASSUME NEW l, Listed(q, l), l # q[1] PROVE Listed(r, l)
    <3>1. PICK j \in 1..Len(q) : q[j] = l
      BY <1>2, <2>5 DEF Listed
    <3> QED BY <1>2, <2>2, <2>5, <3>1 DEF Listed
  <2> QED BY <2>3, <2>4, <2>5, Zenon
<1>5. Len(r) > 0 <=> r # << >>
  BY NotEmpty
<1>6. (Chain(r) /\ Tail1(r) /\ Counted(r) /\ Used(r))'
  <2>1. Chain(r)'
    <3>1. \A i, j \in DOMAIN r : r[i] = r[j] => i = j
      <4>1. \A i \in DOMAIN r : i \in Nat
        BY <1>2
      <4> QED BY <1>2, <1>3, <4>1
    <3>2. list.next[q[1]] = IF r = << >> THEN NULL ELSE r[1]
      <4>1. list.next[q[1]] = IF 1 = Len(q) THEN NULL ELSE q[2]
        BY <1>2 DEF Together, Chain
      <4> QED BY <1>2, <1>5, <4>1
    <3>3. ASSUME NEW i \in DOMAIN r
          PROVE  list.next[r[i]] = IF i = Len(r) THEN NULL ELSE r[i + 1]
      <4>1. i + 1 \in DOMAIN q /\ r[i] = q[i + 1]
        BY <1>2
      <4>2. list.next[q[i + 1]] = IF i + 1 = Len(q) THEN NULL ELSE q[(i + 1) + 1]
        BY <4>1 DEF Together, Chain
      <4> QED BY <1>2, <4>1, <4>2
    <3> QED BY SMTT(30), <1>1, <3>1, <3>2, <3>3 DEF Chain
  <2>2. Tail1(r)'
    <3>1. list.tail = q[Len(q)] /\ uart.pc \notin {"first_tail", "append_tail"}
      BY <1>0, <1>1 DEF Together, Tail1, Apart, ListWindows, EventWindow
    <3>2. r # << >> => q[Len(q)] = r[Len(r)]
      BY <1>2, <1>5
    <3>3. r = << >> => q[Len(q)] = q[1]
      BY <1>2, <1>5
    <3> QED BY <1>1, <3>1, <3>2, <3>3 DEF Tail1
  <2>3. Counted(r)'
    BY <1>1, <1>2 DEF Together, Counted, Unchained, Apart, ListWindows, EventWindow
  <2>4. Used(r)'
    <3>1. /\ list.isUsed[q[1]] /\ (uart.pc \in Appending => uart.link # q[1])
      BY <1>1, <1>4 DEF Together, Used
    <3> QED BY <1>1, <1>4, <3>1 DEF Together, Used, Unchained
  <2> QED BY <2>1, <2>2, <2>3, <2>4
<1>7. (UartPlace(r) /\ TimerPlace(r, TRUE))'
  <2>1. UartPlace(r)'
    BY <1>1 DEF Together, UartPlace, Apart, ListWindows, EventWindow
  <2>2. list.next[q[1]] = NULL \/ Listed(r, list.next[q[1]])
    <3>1. list.next[q[1]] = IF 1 = Len(q) THEN NULL ELSE q[2]
      BY <1>2 DEF Together, Chain
    <3>2. 1 # Len(q) => 1 \in 1..Len(r) /\ r[1] = q[2]
      BY <1>2
    <3> QED BY <1>2, <3>1, <3>2 DEF Listed
  <2>3. TimerPlace(r, TRUE)'
    BY <1>1, <2>2 DEF TimerPlace, Before, Unchained
  <2> QED BY <2>1, <2>3
<1>8. ~ InList(r, timer.event) /\ \A e : InList(q, e) <=> InList(r, e) \/ e = timer.event
  <2>1. \A e : InList(q, e) <=> \E l : Listed(q, l) /\ list.data[l] = e
    BY DEF InList, Listed
  <2>2. \A e : InList(r, e) <=> \E l : Listed(r, l) /\ list.data[l] = e
    BY DEF InList, Listed
  <2>3. \A k, l : Listed(q, k) /\ Listed(q, l) /\ list.data[k] = list.data[l] => k = l
    BY DEF Together, EventsKept, Listed
  <2>4. timer.event = list.data[q[1]] /\ Listed(q, q[1])
    BY <1>1, <1>4
  <2> QED BY <1>4, <2>1, <2>2, <2>3, <2>4
<1>9. EventsKept(r, TRUE)'
  <2>1. /\ \A i, j \in DOMAIN r : list.data[r[i]] = list.data[r[j]] => i = j
        /\ \A i \in DOMAIN r : list.data[r[i]] \in Events
    <3>1. \A i \in DOMAIN r : i \in Nat /\ i + 1 \in DOMAIN q /\ r[i] = q[i + 1]
      BY <1>2
    <3>2. \A i, j \in Nat : i + 1 = j + 1 => i = j
      OBVIOUS
    <3> QED BY <3>1, <3>2 DEF Together, EventsKept
  <2>2. uart.pc \in InUart => ~ InList(r, uart.event) /\ uart.event # timer.event
    BY <1>8 DEF Together, EventsKept
  <2>3. \A e : InList(r, e)' <=> InList(r, e)
    BY <1>1 DEF InList
  <2>5. \A e \in Events : pool[e].type # FREE <=>
            \/ InList(q, e)
            \/ uart.pc \in InUart \ {"cmd", "type"} /\ e = uart.event
    BY <1>1 DEF Together, EventsKept
  <2> QED BY <1>1, <1>8, <2>1, <2>2, <2>3, <2>5 DEF Together, EventsKept
<1>10. MessagesKept(r, TRUE)'
  <2>1. /\ Accounted(q, taken) /\ HandledAccepted /\ ListedMessages(q, taken) /\ UartMessage
    BY Zenon DEF Together, MessagesKept
  <2>2. /\ Out(taken) = Len(handled) /\ Out(TRUE)' = Len(handled) + 1 /\ Len(handled) \in Nat
        /\ Coming' = Coming
    BY <1>1 DEF Out, Coming, TypeInv
  <2>3. Accounted(r, TRUE)'
    <3>1. Len(accepted) = Len(handled) + Len(q) + (IF Coming THEN 1 ELSE 0)
      BY <2>1, <2>2 DEF Accounted
    <3> DEFINE coming == IF Coming THEN 1 ELSE 0
    <3>2. coming \in Nat /\ Len(handled) + 1 + Len(r) + coming = Len(handled) + Len(q) + coming
      BY <1>2, <2>2
    <3> QED BY <1>1, <2>2, <3>1, <3>2, Zenon DEF Accounted
  <2>4. (HandledAccepted /\ UartMessage)'
    BY <1>1, <2>1, <2>2 DEF HandledAccepted, UartMessage
  <2>5. \A i \in DOMAIN q : pool[list.data[q[i]]] = accepted[Len(handled) + i]
    BY <2>1, <2>2 DEF ListedMessages
  <2>6. ListedMessages(r, TRUE)'
    <3>1. ASSUME NEW i \in DOMAIN r
          PROVE  pool[list.data[r[i]]] = accepted[Len(handled) + 1 + i]
      <4>1. i + 1 \in DOMAIN q /\ r[i] = q[i + 1] /\ Len(handled) + (i + 1) = Len(handled) + 1 + i
        BY SMTT(30), <1>2, <2>2
      <4> QED BY <2>5, <4>1
    <3> QED BY <1>1, <2>2, <3>1 DEF ListedMessages
  <2>7. pool[timer.event] = accepted[Len(handled) + 1]
    BY <1>1, <1>2, <2>5
  <2>8. TimerMessage(TRUE)'
    BY <1>1, <2>7 DEF TimerMessage
  <2> QED BY <2>3, <2>4, <2>6, <2>8 DEF MessagesKept
<1> QED BY <1>6, <1>7, <1>9, <1>10 DEF Together

LEMMA HandleKeeps ==
  ASSUME TypeInv, NEW q \in Seq(Links), NEW taken \in BOOLEAN, Together(q, taken),
         Apart, Apart', Handle
  PROVE  Together(q, FALSE)'
<1>1. /\ timer.pc = "handle" /\ timer'.pc = "wait" /\ timer'.event = timer.event
      /\ timer'.link = timer.link /\ timer'.pre = timer.pre /\ timer'.next = timer.next
      /\ timer'.count = timer.count /\ timer'.type = timer.type /\ timer'.cmd = timer.cmd
      /\ uart' = uart /\ accepted' = accepted
      /\ handled' = Append(handled, [type |-> timer.type, cmd |-> timer.cmd,
                                   buff |-> pool[timer.event].buff])
      /\ pool' = pool /\ list' = list /\ taken
  <2>1. timer.pc = "handle"
    BY DEF Handle, TimerDoes
  <2>2. taken
    BY <2>1 DEF Together, TimerPlace, Before
  <2> QED BY <2>1, <2>2 DEF Handle, TimerDoes, TimerAt, TypeInv, TimerTyped, TimerType,
             TimerHasEvent, TimerHasLink, TimerPoints, ListType
<1>3. (Chain(q) /\ Tail1(q) /\ Counted(q) /\ Used(q))'
  BY <1>1 DEF Together, Chain, Tail1, Counted, Used, Listed, Appending, Unchained, UartPlace,
     Apart, ListWindows, EventWindow
<1>4. (UartPlace(q) /\ TimerPlace(q, FALSE))'
  BY <1>1 DEF Together, Chain, Tail1, Counted, UartPlace, TimerPlace, Listed, Appending,
     Unchained, Before, Apart, ListWindows, EventWindow
<1>5. EventsKept(q, FALSE)'
  BY <1>1 DEF Together, EventsKept, InList, InUart, UartHasEvent, UartPoints, TimerPlace, Before
<1>6. MessagesKept(q, FALSE)'
  <2> DEFINE n == Len(handled) + 1
             m == accepted[n]
  <2>1. /\ Accounted(q, taken) /\ HandledAccepted /\ ListedMessages(q, taken) /\ UartMessage
        /\ TimerMessage(taken)
    BY Zenon DEF Together, MessagesKept
  <2>2. /\ Out(taken) = n /\ Len(handled) \in Nat /\ Coming' = Coming
    BY <1>1 DEF Out, Coming, TypeInv
  <2>3. n \in 1..Len(accepted)
    <3>1. Out(taken) \in Nat /\ Out(taken) + Len(q) <= Len(accepted) /\ Len(q) \in Nat
          /\ Len(accepted) \in Nat
      BY Sizes, Zenon
    <3> QED BY <2>2, <3>1
  <2>4. m = [type |-> m.type, cmd |-> m.cmd, buff |-> m.buff]
    BY <2>3, ThreadsAssumption DEF TypeInv
  <2>5. timer.type = m.type /\ timer.cmd = m.cmd /\ pool[timer.event].buff = m.buff
    BY <1>1, <2>1 DEF TimerMessage
  <2>6. handled' = Append(handled, m)
    BY <1>1, <2>4, <2>5
  <2> HIDE DEF m
  <2>7. /\ Len(handled') = n /\ handled'[n] = m /\ DOMAIN handled' = 1..n
        /\ \A i \in 1..Len(handled) : handled'[i] = handled[i]
    BY <2>2, <2>6 DEF TypeInv
  <2>8. HandledAccepted'
    BY <1>1, <2>1, <2>2, <2>7 DEF HandledAccepted, m, TypeInv
  <2>9. Out(FALSE)' = n
    BY <2>2, <2>7 DEF Out
  <2>10. (Accounted(q, FALSE) /\ ListedMessages(q, FALSE) /\ UartMessage)'
    BY <1>1, <2>1, <2>2, <2>9 DEF Accounted, ListedMessages, UartMessage
  <2>11. TimerMessage(FALSE)'
    BY DEF TimerMessage
  <2> QED BY <2>8, <2>10, <2>11 DEF MessagesKept
<1> QED BY <1>3, <1>4, <1>5, <1>6 DEF Together

-----------------------------------------------------------------------------
(* The steps together *)

Sound == TypeInv /\ \E q \in Seq(Links), taken \in BOOLEAN : Together(q, taken)

LEMMA InitSound == Init => Sound
<1> SUFFICES ASSUME Init PROVE Sound
  OBVIOUS
<1>1. TypeInv
  BY InitTypes
<1>2. << >> \in Seq(Links) /\ Len(<< >>) = 0 /\ DOMAIN << >> = {}
  OBVIOUS
<1>3. \A i \in DOMAIN << >> : FALSE
  BY <1>2
<1> HIDE <1>2
<1>4. uart.pc = "ready" /\ timer.pc = "wait" /\ list.head = NULL /\ list.tail = NULL
      /\ list.count = 0
  BY DEF Init
<1>5. Chain(<< >>) /\ Tail1(<< >>)
  BY <1>3, <1>4 DEF Chain, Tail1
<1>6. Counted(<< >>)
  BY <1>2, <1>4 DEF Counted, Unchained
<1>7. Used(<< >>)
  <2>1. \A l \in Links : ~ list.isUsed[l]
    BY DEF Init
  <2>2. \A l : ~ Listed(<< >>, l)
    BY <1>3 DEF Listed
  <2> QED BY <1>4, <2>1, <2>2 DEF Used, Appending, Unchained
<1>8. UartPlace(<< >>) /\ TimerPlace(<< >>, FALSE)
  BY <1>4 DEF UartPlace, TimerPlace, Before, Unchained
<1>9. \A e \in Events : pool[e].type = FREE
  BY DEF Init, NoMessage
<1>10. EventsKept(<< >>, FALSE)
  BY <1>3, <1>4, <1>9, Constants1 DEF EventsKept, InList, InUart, UartHasEvent
<1>11. MessagesKept(<< >>, FALSE)
  <2>1. accepted = << >> /\ handled = << >>
    BY DEF Init
  <2>2. Accounted(<< >>, FALSE)
    BY <1>2, <1>4, <2>1 DEF Accounted, Out, Coming, InUart, UartHasEvent
  <2>3. HandledAccepted /\ ListedMessages(<< >>, FALSE)
    BY <1>3, <2>1 DEF HandledAccepted, ListedMessages
  <2>4. UartMessage /\ TimerMessage(FALSE)
    BY <1>4 DEF UartMessage, TimerMessage, Coming, InUart, UartHasEvent
  <2> QED BY <2>2, <2>3, <2>4 DEF MessagesKept
<1>12. Together(<< >>, FALSE)
  BY <1>5, <1>6, <1>7, <1>8, <1>10, <1>11 DEF Together
<1> QED BY <1>1, <1>2, <1>12, Zenon DEF Sound

LEMMA UartKeeps ==
  ASSUME TypeInv, NEW q \in Seq(Links), NEW taken \in BOOLEAN, Together(q, taken),
         Apart, Apart', Uart
  PROVE  \E r \in Seq(Links), t \in BOOLEAN : Together(r, t)'
<1>1. Apart /\ Apart'
  OBVIOUS
<1>2. ASSUME NEW m \in Messages, Accept(m) PROVE Together(q, taken)'
  BY <1>1, <1>2, AcceptKeeps, Zenon
<1>3. ASSUME Alloc, UNCHANGED accepted PROVE Together(q, taken)'
  BY <1>1, <1>3, AllocKeeps, Zenon
<1>4. ASSUME SetCmd, UNCHANGED accepted PROVE Together(q, taken)'
  BY <1>1, <1>4, SetCmdKeeps, Zenon
<1>5. ASSUME SetType, UNCHANGED accepted PROVE Together(q, taken)'
  BY <1>1, <1>5, SetTypeKeeps, Zenon
<1>6. ASSUME SetBuff, UNCHANGED accepted PROVE Together(q, taken)'
  BY <1>1, <1>6, SetBuffKeeps, Zenon
<1>7. ASSUME TakeLink, UNCHANGED accepted PROVE Together(q, taken)'
  BY <1>1, <1>7, TakeLinkKeeps, Zenon
<1>8. ASSUME FillLink, UNCHANGED accepted PROVE Together(q, taken)'
  BY <1>1, <1>8, FillLinkKeeps, Zenon
<1>9. ASSUME TestEqual, UNCHANGED accepted PROVE Together(q, taken)'
  BY <1>1, <1>9, TestEqualKeeps, Zenon
<1>10. ASSUME TestNull, UNCHANGED accepted PROVE Together(q, taken)'
  BY <1>1, <1>10, TestNullKeeps, Zenon
<1>11. ASSUME FirstHead \/ AppendNext, UNCHANGED accepted
       PROVE  \E r \in Seq(Links) : Together(r, taken)'
  <2> DEFINE r == Append(q, uart.link)
  <2>1. uart.pc \in {"first_head", "append_next"}
    BY <1>11 DEF FirstHead, AppendNext, UartDoes
  <2>2. uart.link \in Links
    BY <2>1 DEF TypeInv, UartTyped, UartHasLink, UartHasEvent, UartPoints
  <2>3. PICK s \in Seq(Links) : s = r
    <3>1. r \in Seq(Links)
      BY <2>2, AppendProperties
    <3> QED BY <3>1, Zenon
  <2> HIDE DEF r
  <2>4. ASSUME FirstHead PROVE Together(s, taken)'
    BY <1>1, <1>11, <2>3, <2>4, FirstHeadKeeps, Zenon DEF r
  <2>5. ASSUME AppendNext PROVE Together(s, taken)'
    BY <1>1, <1>11, <2>3, <2>5, AppendNextKeeps, Zenon DEF r
  <2> QED BY <1>11, <2>4, <2>5, Zenon
<1>12. ASSUME FirstTail, UNCHANGED accepted PROVE Together(q, taken)'
  BY <1>1, <1>12, FirstTailKeeps, Zenon
<1>13. ASSUME FirstCount, UNCHANGED accepted PROVE Together(q, taken)'
  BY <1>1, <1>13, FirstCountKeeps, Zenon
<1>14. ASSUME AppendTail, UNCHANGED accepted PROVE Together(q, taken)'
  BY <1>1, <1>14, AppendTailKeeps, Zenon
<1>15. ASSUME AppendLoad, UNCHANGED accepted PROVE Together(q, taken)'
  BY <1>1, <1>15, AppendLoadKeeps, Zenon
<1>16. ASSUME AppendStore, UNCHANGED accepted PROVE Together(q, taken)'
  BY <1>1, <1>16, AppendStoreKeeps, Zenon
<1> QED BY <1>2, <1>3, <1>4, <1>5, <1>6, <1>7, <1>8, <1>9, <1>10, <1>11, <1>12, <1>13, <1>14,
           <1>15, <1>16, Zenon DEF Uart

LEMMA TimerKeeps ==
  ASSUME TypeInv, NEW q \in Seq(Links), NEW taken \in BOOLEAN, Together(q, taken),
         Apart, Apart', Timer
  PROVE  \E r \in Seq(Links), t \in BOOLEAN : Together(r, t)'
<1>1. Apart /\ Apart'
  OBVIOUS
<1>2. ASSUME Wake, UNCHANGED handled PROVE Together(q, taken)'
  BY <1>1, <1>2, WakeKeeps, Zenon
<1>3. ASSUME GetFirst, UNCHANGED handled PROVE Together(q, taken)'
  BY <1>1, <1>3, GetFirstKeeps, ZenonT(60)
<1>4. ASSUME RemoveBegin, UNCHANGED handled PROVE Together(q, taken)'
  BY <1>1, <1>4, RemoveBeginKeeps, Zenon
<1>5. ASSUME ScanEnd, UNCHANGED handled PROVE Together(q, taken)'
  BY <1>1, <1>5, ScanEndKeeps, Zenon
<1>6. ASSUME ScanMatch, UNCHANGED handled PROVE Together(q, taken)'
  BY <1>1, <1>6, ScanMatchKeeps, Zenon
<1>7. ASSUME ScanOther, UNCHANGED handled PROVE Together(q, taken)'
  BY <1>1, <1>7, ScanOtherKeeps, Zenon
<1>8. ASSUME HeadLoad, UNCHANGED handled PROVE Together(q, taken)'
  BY <1>1, <1>8, HeadLoadKeeps, Zenon
<1>9. ASSUME TailTest, UNCHANGED handled PROVE Together(q, taken)'
  BY <1>1, <1>9, TailTestKeeps, Zenon
<1>10. ASSUME TailStore, UNCHANGED handled PROVE Together(q, taken)'
  BY <1>1, <1>10, TailStoreKeeps, Zenon
<1>11. ASSUME PreNext, UNCHANGED handled PROVE Together(q, taken)'
  BY <1>1, <1>11, PreNextKeeps, Zenon
<1>12. ASSUME FreeLink, UNCHANGED handled PROVE Together(q, taken)'
  BY <1>1, <1>12, FreeLinkKeeps, Zenon
<1>13. ASSUME CountLoad, UNCHANGED handled PROVE Together(q, taken)'
  BY <1>1, <1>13, CountLoadKeeps, Zenon
<1>14. ASSUME CountStore, UNCHANGED handled PROVE Together(q, taken)'
  BY <1>1, <1>14, CountStoreKeeps, Zenon
<1>15. ASSUME Advance, UNCHANGED handled PROVE Together(q, taken)'
  BY <1>1, <1>15, AdvanceKeeps, Zenon
<1>16. ASSUME ReadType, UNCHANGED handled PROVE Together(q, taken)'
  BY <1>1, <1>16, ReadTypeKeeps, Zenon
<1>17. ASSUME Release, UNCHANGED handled PROVE Together(q, taken)'
  BY <1>1, <1>17, ReleaseKeeps, Zenon
<1>18. ASSUME HandleCmd, UNCHANGED handled PROVE Together(q, taken)'
  BY <1>1, <1>18, HandleCmdKeeps, Zenon
<1>19. ASSUME HeadStore, UNCHANGED handled
      PROVE  \E r \in Seq(Links) : Together(r, TRUE)'
  <2>1. timer.pc = "head_store"
    BY <1>19 DEF HeadStore, TimerDoes
  <2>2. q # << >>
    BY <2>1 DEF Together, TimerPlace, Before
  <2>3. PICK r \in Seq(Links) : r = Tail(q)
    <3>1. Tail(q) \in Seq(Links)
      BY <2>2, HeadTailProperties
    <3> QED BY <3>1, Zenon
  <2> QED BY <1>1, <1>19, <2>3, HeadStoreKeeps, Zenon
<1>20. ASSUME Handle PROVE Together(q, FALSE)'
  BY <1>1, <1>20, HandleKeeps, Zenon
<1> QED
  BY <1>2, <1>3, <1>4, <1>5, <1>6, <1>7, <1>8, <1>9, <1>10, <1>11, <1>12, <1>13, <1>14, <1>15,
     <1>16, <1>17, <1>18, <1>19, <1>20, Zenon DEF Timer

LEMMA NextSound == Sound /\ Apart /\ Apart' /\ [Next]_vars => Sound'
<1> SUFFICES ASSUME Sound, Apart, Apart', [Next]_vars PROVE Sound'
  OBVIOUS
<1>1. TypeInv /\ TypeInv'
  BY NextKeepsTypes DEF Sound
<1>2. PICK q \in Seq(Links), taken \in BOOLEAN : Together(q, taken)
  BY DEF Sound
<1>3. ASSUME UNCHANGED vars PROVE Together(q, taken)'
  <2>1. /\ list' = list /\ uart' = uart /\ timer' = timer /\ pool' = pool
        /\ accepted' = accepted /\ handled' = handled
    BY <1>3 DEF vars
  <2>2. (Chain(q) /\ Tail1(q) /\ Counted(q))'
    BY <1>2, <2>1 DEF Together, Chain, Tail1, Counted
  <2>3. (Used(q) /\ UartPlace(q) /\ TimerPlace(q, taken))'
    BY <1>2, <2>1 DEF Together, Used, UartPlace, TimerPlace, Listed
  <2>4. EventsKept(q, taken)'
    BY <1>2, <2>1 DEF Together, EventsKept, InList
  <2>5. MessagesKept(q, taken)'
    BY <1>2, <2>1 DEF Together, MessagesKept, Accounted, HandledAccepted, ListedMessages,
       UartMessage, TimerMessage, Out, Coming
  <2> QED BY <2>2, <2>3, <2>4, <2>5 DEF Together
<1>4. \E r \in Seq(Links), t \in BOOLEAN : Together(r, t)'
  <2>1. ASSUME Uart PROVE \E r \in Seq(Links), t \in BOOLEAN : Together(r, t)'
    BY <1>1, <1>2, <2>1, UartKeeps, Zenon
  <2>2. ASSUME Timer PROVE \E r \in Seq(Links), t \in BOOLEAN : Together(r, t)'
    BY <1>1, <1>2, <2>2, TimerKeeps, Zenon
  <2>3. ASSUME Done PROVE UNCHANGED vars
    BY <2>3 DEF Done
  <2> QED BY <1>3, <2>1, <2>2, <2>3, Zenon DEF Next
<1> QED BY <1>1, <1>4, Zenon DEF Sound

LEMMA AlwaysSound == Spec /\ []Apart => []Sound
<1>1. Sound /\ Apart /\ Apart' /\ [Next]_vars => Sound'
  BY NextSound
<1> QED BY InitSound, <1>1, PTL DEF Spec

LEMMA PrefixPointwise ==
  ASSUME NEW S, NEW s \in Seq(S), NEW T, NEW t \in Seq(T), Len(s) <= Len(t),
         \A i \in DOMAIN s : s[i] = t[i]
  PROVE  IsPrefix(s, t)
<1>1. Len(s) \in Nat /\ Len(t) \in Nat /\ DOMAIN s = 1..Len(s) /\ DOMAIN t = 1..Len(t)
  OBVIOUS
<1>2. SubSeq(s, 1, Len(s)) = s
  BY SubSeqFull
<1>3. \A i \in 1..Len(s) : t[i] \in S
  BY <1>1, ElementOfSeq
<1> DEFINE u == SubSeq(t, 1, Len(s))
<1>4. u \in Seq(S) /\ Len(u) = Len(s) /\ \A i \in 1..Len(s) : u[i] = t[i]
  <2>1. /\ u \in Seq(S) /\ Len(u) = (IF 1 <= Len(s) THEN Len(s) - 1 + 1 ELSE 0)
        /\ \A i \in 1..(Len(s) - 1 + 1) : u[i] = t[1 + i - 1]
    BY <1>1, <1>3, SubSeqProperties
  <2> HIDE DEF u
  <2> QED BY <1>1, <2>1
<1> HIDE DEF u
<1>5. \A i \in 1..Len(s) : s[i] = u[i]
  BY <1>1, <1>4
<1>6. s = u
  BY <1>4, <1>5, SeqEqual
<1> QED BY <1>1, <1>2, <1>6 DEF IsPrefix, u

(* Wherever the scheduler switches the threads, the handlers are called with the
   accepted messages, once each and in their order, whatever the sizes of the two
   pools, as long as the threads are apart.  So the two collisions Apart names are
   all that can lose, double or mix a message: protocalPushEvent and
   protocalDispatchEvents may interleave at every other point (the search for a
   link, the tests of head and tail, the search for the event, the filling of an
   event), and a lock in list.c and a later release would be enough. *)
THEOREM ThreadsHandleInOrder == Spec /\ []Apart => []HandledInOrder
<1>1. Sound => HandledInOrder
  <2> SUFFICES ASSUME Sound PROVE HandledInOrder
    OBVIOUS
  <2>1. TypeInv
    BY DEF Sound
  <2>2. PICK q \in Seq(Links), taken \in BOOLEAN : Together(q, taken)
    BY DEF Sound
  <2>3. \A i \in DOMAIN handled : handled[i] = accepted[i]
    BY <2>2 DEF Together, MessagesKept, HandledAccepted
  <2>4. Len(handled) \in Nat /\ Len(accepted) \in Nat /\ Len(handled) <= Len(accepted)
    <3>1. /\ Out(taken) \in Nat /\ Len(q) \in Nat /\ Len(accepted) \in Nat /\ Len(handled) \in Nat
          /\ Out(taken) + Len(q) <= Len(accepted) /\ Len(handled) <= Out(taken)
      BY <2>1, <2>2, Sizes, Zenon
    <3> QED BY <3>1
  <2> QED BY <2>1, <2>3, <2>4, PrefixPointwise DEF HandledInOrder, TypeInv
<1> QED BY AlwaysSound, <1>1, PTL

(* Nothing leaks either, as long as the threads are apart: at rest the count of the
   list, its links and the events in use are as many as the messages that wait. *)
THEOREM ThreadsLeakNothing == Spec /\ []Apart => []NothingLeaks
<1>1. Sound => NothingLeaks
  <2> SUFFICES ASSUME Sound, AtRest PROVE NothingLeaks
    BY DEF NothingLeaks
  <2> DEFINE UsedLinks == {l \in Links : list.isUsed[l]}
             UsedEvents == {e \in Events : pool[e].type # FREE}
             waiting == Len(accepted) - Len(handled)
  <2>1. PICK q \in Seq(Links), taken \in BOOLEAN : Together(q, taken)
    BY DEF Sound
  <2>2. uart.pc = "ready" /\ timer.pc = "wait" /\ ~ taken /\ Len(q) \in Nat
    BY <2>1 DEF AtRest, Together, TimerPlace
  <2>3. waiting = Len(q)
    <3>1. Len(accepted) = Len(handled) + Len(q)
      BY <2>1, <2>2 DEF Together, MessagesKept, Accounted, Out, Coming, InUart, UartHasEvent,
         Sound,
         TypeInv
    <3> QED BY <2>2, <3>1 DEF Sound, TypeInv
  <2>4. list.count = Len(q)
    BY <2>1, <2>2 DEF Together, Counted, Unchained
  <2>5. Cardinality(UsedLinks) = Len(q)
    <3> DEFINE f == [i \in 1..Len(q) |-> q[i]]
    <3>1. \A l \in Links : list.isUsed[l] <=> Listed(q, l)
      BY <2>1, <2>2 DEF Together, Used, Appending, Unchained
    <3>2. \A i \in 1..Len(q) : q[i] \in UsedLinks
      BY <3>1 DEF Listed
    <3>3. \A l \in UsedLinks : \E i \in 1..Len(q) : q[i] = l
      BY <3>1 DEF Listed
    <3>4. \A i, j \in 1..Len(q) : q[i] = q[j] => i = j
      BY <2>1 DEF Together, Chain
    <3>5. f \in Bijection(1..Len(q), UsedLinks)
      BY <3>2, <3>3, <3>4 DEF Bijection, Injection, Surjection, IsInjective
    <3> QED BY <2>2, <3>5, FS_CountingElements DEF ExistsBijection
  <2>6. Cardinality(UsedEvents) = Len(q)
    <3> DEFINE f == [i \in 1..Len(q) |-> list.data[q[i]]]
    <3>1. \A e \in Events : pool[e].type # FREE <=> InList(q, e)
      BY <2>1, <2>2 DEF Together, EventsKept, InUart, UartHasEvent
    <3>2. \A i \in 1..Len(q) : list.data[q[i]] \in UsedEvents
      BY <2>1, <3>1 DEF Together, EventsKept, InList
    <3>3. \A e \in UsedEvents : \E i \in 1..Len(q) : list.data[q[i]] = e
      BY <3>1 DEF InList
    <3>4. \A i, j \in 1..Len(q) : list.data[q[i]] = list.data[q[j]] => i = j
      BY <2>1 DEF Together, EventsKept
    <3>5. f \in Bijection(1..Len(q), UsedEvents)
      BY <3>2, <3>3, <3>4 DEF Bijection, Injection, Surjection, IsInjective
    <3> QED BY <2>2, <3>5, FS_CountingElements DEF ExistsBijection
  <2> QED BY <2>3, <2>4, <2>5, <2>6 DEF NothingLeaks
<1> QED BY AlwaysSound, <1>1, PTL
=============================================================================
