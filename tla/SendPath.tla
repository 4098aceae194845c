------------------------------ MODULE SendPath ------------------------------
(***************************************************************************)
(* protocalSendCmd and protocalSendCmdWait of protocal.c, called by the    *)
(* shell thread (settings and queries of the user) and by the timer thread *)
(* (answers to the peer's queries).  Both build their package in the same  *)
(* buffer and pass it to putc byte by byte, without a lock, and RTX        *)
(* switches between them anywhere: one statement is a step, and a bit of   *)
(* waitingStat is set or cleared with a load and a store.  The timer       *)
(* thread also passes on, to the same line, what a peer sends with type    *)
(* CMD_TYPE_ROUTER.  The uart thread takes part with what the peer's       *)
(* replies do to waitingStat.                                              *)
(***************************************************************************)
EXTENDS Frames

CONSTANTS
    Settings,   \* what the shell thread sends with protocalSendCmd
    Queries,    \* what it sends with protocalSendCmdWait
    Answers,    \* what the timer thread sends with protocalSendCmd
    Routed,     \* events of the type CMD_TYPE_ROUTER it dispatches
    MaxCalls    \* bound: calls of both threads

ASSUME SendAssumption ==
    /\ MaxCalls \in Nat
    /\ Queries \cap (Settings \cup Answers \cup Routed) = {}
    /\ \A m \in Settings \cup Queries \cup Answers \cup Routed :
        m.type \in Byte /\ m.cmd \in Byte /\ m.data \in Seq(Byte)
        /\ Len(m.data) <= PROTOCAL_MAX_DATA_LENGTH

VARIABLES
    package,        \* package[i] of C is package[i + 1] here
    packageSize,
    waitingStat,    \* the set of its bits that are set
    thread,         \* for each thread: where it is, its locals, and histories
    loaded,         \* waitingStat as the shell thread has loaded it
    uart,           \* uart thread: where it is, the bit it clears, what it loaded
    calls,
    beside          \* history: packages protocalSendCmd sent while QUERY was set

vars == <<package, packageSize, waitingStat, thread, loaded, uart, calls, beside>>

Threads == {"shell", "timer"}
Building == {"length", "cmd", "data", "sum", "store_sum", "size", "ack_load", "ack_store",
             "send", "putc"}
Points == Building \cup {"idle", "test", "type", "route", "busy_wait", "query_load",
                         "query_store", "ack_wait", "ack_clear", "query_wait"}
UartPoints == {"ready", "load", "store"}
Bits == {"ack", "query"}

(* thread[t]: msg is the caller's, i and sum are locals of the loops, len is
   the argument of electronicVehicleSendData.  Two histories: alone, the other
   thread has kept out of the buffer and off the line since this one began to
   build, and whole, each byte given to putc so far is the one the caller's frame
   has at its place. *)
Idle == [at |-> "idle", msg |-> [type |-> 0, cmd |-> 0, data |-> << >>],
         i |-> 0, sum |-> 0, len |-> 0, alone |-> TRUE, whole |-> TRUE]

UartReady == [at |-> "ready", bit |-> "ack", stat |-> {}]

Init ==
    /\ package = [i \in 1..PROTOCAL_MAX_PACKAGE_LENGTH |->
                    IF i <= 4 THEN headerMagic[i] ELSE 0]
    /\ packageSize = 0
    /\ waitingStat = {}
    /\ thread = [t \in Threads |-> Idle]
    /\ loaded = {}
    /\ uart = UartReady
    /\ calls = 0
    /\ beside = 0

-----------------------------------------------------------------------------
(* The thread is at from, and leaves itself as given. *)
Goes(t, from, thread1) ==
    /\ thread[t].at = from
    /\ thread' = [thread EXCEPT ![t] = thread1]
At(t, to) == [thread[t] EXCEPT !.at = to]

(* A step that touches nothing shared, and one that stores into package *)
Steps(t, from, thread1) ==
    /\ Goes(t, from, thread1)
    /\ UNCHANGED <<package, packageSize, waitingStat, loaded, uart, calls, beside>>
Stores(t, from, thread1, package1) ==
    /\ Goes(t, from, thread1)
    /\ package' = package1
    /\ UNCHANGED <<packageSize, waitingStat, loaded, uart, calls, beside>>

Call(t, to, messages) ==
    /\ calls < MaxCalls
    /\ \E m \in messages : Goes(t, "idle", [Idle EXCEPT !.at = to, !.msg = m])
    /\ calls' = calls + 1
    /\ UNCHANGED <<package, packageSize, waitingStat, loaded, uart, beside>>

(* Mutant: only the wait for an acknowledgement keeps others from sending. *)
TestAckOnly(t) == Steps(t, "test", IF "ack" \in waitingStat THEN Idle ELSE At(t, "type"))

(* protocalSendCmd returns ERROR_BUSY_STAT, which its callers ignore. *)
Test(t) == Steps(t, "test", IF waitingStat # {} THEN Idle ELSE At(t, "type"))

(* The first statement that writes what the other thread may be using. *)
StoreType(t) ==
    LET used == \E u \in Threads \ {t} : thread[u].at \in Building
    IN  /\ thread[t].at = "type"
        /\ thread' = [u \in Threads |->
                        IF u = t THEN [At(t, "length") EXCEPT !.alone = ~ used]
                        ELSE [thread[u] EXCEPT !.alone = @ /\ ~ used]]
        /\ package' = [package EXCEPT ![5] = thread[t].msg.type]
        /\ UNCHANGED <<packageSize, waitingStat, loaded, uart, calls, beside>>

StoreLength(t) ==
    Stores(t, "length", At(t, "cmd"), [package EXCEPT ![6] = Len(thread[t].msg.data) + 2])

StoreCmd(t) == Stores(t, "cmd", At(t, "data"), [package EXCEPT ![7] = thread[t].msg.cmd])

CopyData(t) ==
    LET data == thread[t].msg.data
    IN  Stores(t, "data", [At(t, "sum") EXCEPT !.i = 4, !.sum = 0],
               [i \in DOMAIN package |->
                    IF i - 7 \in DOMAIN data THEN data[i - 7] ELSE package[i]])

(* Mutant: the sum is kept in a type wider than uint8_t. *)
SumWide(t) ==
    LET i == thread[t].i
    IN  Steps(t, "sum", IF i < Len(thread[t].msg.data) + 7
                        THEN [thread[t] EXCEPT !.i = i + 1, !.sum = @ + package[i + 1]]
                        ELSE At(t, "store_sum"))

(* checkSum += package[i] *)
Sum(t) ==
    LET i == thread[t].i
    IN  Steps(t, "sum", IF i < Len(thread[t].msg.data) + 7
                        THEN [thread[t] EXCEPT !.i = i + 1,
                                               !.sum = (@ + package[i + 1]) % 256]
                        ELSE At(t, "store_sum"))

StoreSum(t) ==
    Stores(t, "store_sum", At(t, "size"),
           [package EXCEPT ![Len(thread[t].msg.data) + 8] = thread[t].sum])

Waits(t) == thread[t].msg \in Queries

(* Mutant: the size of an earlier, longer package is kept. *)
StoreSizeGrows(t) ==
    LET size == Len(thread[t].msg.data) + 8
    IN  /\ Goes(t, "size", At(t, IF Waits(t) THEN "ack_load" ELSE "send"))
        /\ packageSize' = IF packageSize > size THEN packageSize ELSE size
        /\ UNCHANGED <<package, waitingStat, loaded, uart, calls, beside>>

StoreSize(t) ==
    /\ Goes(t, "size", At(t, IF Waits(t) THEN "ack_load" ELSE "send"))
    /\ packageSize' = Len(thread[t].msg.data) + 8
    /\ UNCHANGED <<package, waitingStat, loaded, uart, calls, beside>>

(* electronicVehicleSendData gets the buffer by reference, its size by value. *)
Send(t) == Steps(t, "send", [At(t, "putc") EXCEPT !.i = 0, !.len = packageSize])

(* A byte, and with the last one the end of the call or of its first part *)
LastByte(t) == thread[t].i + 1 = thread[t].len
StillWhole(t) ==
    /\ thread[t].whole
    /\ thread[t].len = Len(thread[t].msg.data) + 8
    /\ package[thread[t].i + 1] = Package(thread[t].msg)[thread[t].i + 1]

PutByte(t) ==
    /\ ~ LastByte(t)
    /\ Steps(t, "putc", [thread[t] EXCEPT !.i = @ + 1, !.whole = StillWhole(t)])

PutLastByte(t) ==
    /\ LastByte(t)
    /\ Goes(t, "putc", IF Waits(t) THEN [Idle EXCEPT !.at = "ack_wait"] ELSE Idle)
    /\ beside' = IF t = "timer" /\ "query" \in waitingStat THEN beside + 1 ELSE beside
    /\ UNCHANGED <<package, packageSize, waitingStat, loaded, uart, calls>>

(* protocalDispatchEvents with an event of the type CMD_TYPE_ROUTER: its own bytes
   go to putc, whoever waits or sends. *)
RouteByte ==
    LET t == thread["timer"]
    IN  /\ t.at = "route" /\ t.i < Len(t.msg.data)
        /\ thread' = [u \in Threads |->
                        IF u = "timer" THEN [t EXCEPT !.i = @ + 1]
                        ELSE [thread[u] EXCEPT !.alone = @ /\ thread[u].at \notin Building]]
        /\ UNCHANGED <<package, packageSize, waitingStat, loaded, uart, calls, beside>>

RouteEnds ==
    /\ thread["timer"].i = Len(thread["timer"].msg.data)
    /\ Steps("timer", "route", Idle)

-----------------------------------------------------------------------------
(* What a query does besides: it waits until nobody waits, sets QUERY, sends
   and sets ACK, and waits for both bits to be cleared.  Each loop may also
   end with its count, and only the one for ACK takes its bit back. *)

WaitUntilFree ==
    \/ waitingStat = {} /\ Steps("shell", "busy_wait", At("shell", "query_load"))
    \/ waitingStat # {} /\ Steps("shell", "busy_wait", Idle)

(* waitingStat |= bit and waitingStat &= ~bit: a load, and a store that undoes
   what another thread has stored between the two *)
LoadWord(from, to, stat) ==
    /\ Goes("shell", from, At("shell", to))
    /\ loaded' = stat
    /\ UNCHANGED <<package, packageSize, waitingStat, uart, calls, beside>>

WordIs(stat) ==
    /\ waitingStat' = stat
    /\ beside' = IF "query" \in stat THEN beside ELSE 0

StoreWord(from, thread1) ==
    /\ Goes("shell", from, thread1)
    /\ WordIs(loaded)
    /\ loaded' = {}
    /\ UNCHANGED <<package, packageSize, uart, calls>>

SetQuery ==
    \/ LoadWord("query_load", "query_store", waitingStat \cup {"query"})
    \/ StoreWord("query_store", At("shell", "type"))
SetAck ==
    \/ LoadWord("ack_load", "ack_store", waitingStat \cup {"ack"})
    \/ StoreWord("ack_store", At("shell", "send"))

(* The acknowledgement may be an error, after which the call returns. *)
AckWaitEnds ==
    \/ "ack" \notin waitingStat /\ Steps("shell", "ack_wait", At("shell", "query_wait"))
    \/ "ack" \notin waitingStat /\ Steps("shell", "ack_wait", Idle)
    \/ LoadWord("ack_wait", "ack_clear", waitingStat \ {"ack"})
    \/ StoreWord("ack_clear", Idle)

QueryWaitEnds == Steps("shell", "query_wait", Idle)

(* The uart thread takes an acknowledgement or an answer: it tests the bit and
   clears it. *)
UartDoes(from, uart1) ==
    /\ uart.at = from
    /\ uart' = uart1
    /\ UNCHANGED <<package, packageSize, thread, loaded, calls>>

ReplyTest ==
    /\ \E bit \in waitingStat : UartDoes("ready", [uart EXCEPT !.at = "load", !.bit = bit])
    /\ UNCHANGED <<waitingStat, beside>>
ReplyLoad ==
    /\ UartDoes("load", [uart EXCEPT !.at = "store", !.stat = waitingStat \ {uart.bit}])
    /\ UNCHANGED <<waitingStat, beside>>
ReplyStore ==
    /\ UartDoes("store", UartReady)
    /\ WordIs(uart.stat)

Calls ==
    \/ Call("shell", "test", Settings)
    \/ Call("shell", "busy_wait", Queries)
    \/ Call("timer", "test", Answers)
    \/ Call("timer", "route", Routed)

Sends(t) ==
    \/ Test(t) \/ StoreType(t) \/ StoreLength(t) \/ StoreCmd(t) \/ CopyData(t)
    \/ Sum(t) \/ StoreSum(t) \/ StoreSize(t) \/ Send(t) \/ PutByte(t) \/ PutLastByte(t)

Next ==
    \/ Calls
    \/ \E t \in Threads : Sends(t)
    \/ RouteByte \/ RouteEnds
    \/ WaitUntilFree \/ SetQuery \/ SetAck \/ AckWaitEnds \/ QueryWaitEnds
    \/ ReplyTest \/ ReplyLoad \/ ReplyStore

Spec == Init /\ [][Next]_vars

-----------------------------------------------------------------------------
(* Properties *)

Messages == {Idle.msg} \cup Settings \cup Queries \cup Answers \cup Routed
ThreadType == [at : Points, msg : Messages, i : 0..PROTOCAL_MAX_PACKAGE_LENGTH, sum : Byte,
               len : 0..PROTOCAL_MAX_PACKAGE_LENGTH, alone : BOOLEAN, whole : BOOLEAN]

(* Every index stays inside package[32], however the two calls mix. *)
TypeOK ==
    /\ package \in [1..PROTOCAL_MAX_PACKAGE_LENGTH -> Byte]
    /\ packageSize \in 0..PROTOCAL_MAX_PACKAGE_LENGTH
    /\ waitingStat \subseteq Bits
    /\ loaded \subseteq Bits
    /\ uart \in [at : UartPoints, bit : Bits, stat : SUBSET Bits]
    /\ thread \in [Threads -> ThreadType]
    /\ \A t \in Threads : thread[t].at = "putc" => thread[t].i < thread[t].len
    /\ calls \in 0..MaxCalls

(* A package goes out whole if the other thread stores nothing into the buffer and
   sends nothing meanwhile, whatever mixture earlier packages have left in the
   buffer and in packageSize. *)
UndisturbedFramesAreWhole ==
    [][\A t \in Threads : thread[t].alone /\ PutLastByte(t) => StillWhole(t)]_vars

(* For as long as QUERY stays set, protocalSendCmd sends at most one package of the
   timer thread: the one that was past its busy test when QUERY was set, or set
   again by a store that undoes the uart thread's.  Routed bytes are not counted;
   nothing keeps them back. *)
AtMostOneBesideQuery == "query" \in waitingStat => beside <= 1

(* Every call sends its own frame.  protocalApi.c:43: "data to be send to
   remote device" *)
FramesAreWhole == [][\A t \in Threads : PutLastByte(t) => StillWhole(t)]_vars
=============================================================================
