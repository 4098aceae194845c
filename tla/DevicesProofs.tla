--------------------------- MODULE DevicesProofs ---------------------------
(***************************************************************************)
(* Two threads of a device set and clear the bits of waitingStat with no   *)
(* lock, and a bit that one of them cleared may come back.  It comes back  *)
(* only after a call that failed.  For any commands and any number of      *)
(* them, any pool of events and any losses.                                *)
(***************************************************************************)
EXTENDS Devices, TLAPS

-----------------------------------------------------------------------------
(* The inductive invariant *)

UartType == [at : UartPoints, stat : SUBSET Bits, err : 0..1]

(* What the two threads of a device share, or know of it. *)
WaitTypes ==
    /\ waitingStat \in [Devices -> SUBSET Bits]
    /\ loaded \in [Devices -> SUBSET Bits]
    /\ call \in [Devices -> CallPoints]
    /\ uart \in [Devices -> UartType]
    /\ ret \in [Devices -> {"none", "success", "error", "timeout"}]

DataTypes ==
    /\ connectionStatus \in [Devices -> 0..1]
    /\ replyErr \in [Devices -> 0..1]
    /\ events \in [Devices -> Seq(Frames)]
    /\ \A d \in Devices : Len(events[d]) <= EventNum

LineType == line \in [Devices -> Seq(Frames)]

(* The uart thread only clears bits; but what it loaded before the shell took
   ACK back brings ACK again.  QUERY is set then, and no call passes the busy
   test. *)
UartOnlyClears(d) ==
    /\ uart[d].at \in {"answer_load", "answer_store"} => "query" \in waitingStat[d]
    /\ uart[d].at = "ack_store" => "ack" \notin uart[d].stat
    /\ uart[d].at \in {"ack_store", "answer_store"} =>
          \/ uart[d].stat \subseteq waitingStat[d]
          \/ call[d] \in {"idle", "busy"} /\ waitingStat[d] = {"query"}

(* What the shell thread knows of waitingStat where it is. *)
ShellKnows(d) ==
    /\ call[d] \in {"query_load", "query_store"} => waitingStat[d] = {}
    /\ call[d] = "ack_store" => waitingStat[d] \cup {"ack"} \subseteq loaded[d]
    /\ call[d] = "ack_clear" => /\ waitingStat[d] \ {"ack"} \subseteq loaded[d]
                                /\ "ack" \notin loaded[d]
    /\ call[d] = "answer" => "ack" \notin waitingStat[d]

LeavesNothing(d) ==
    call[d] = "idle" /\ waitingStat[d] # {} => ret[d] \in {"error", "timeout"}

Race(d) == UartOnlyClears(d) /\ ShellKnows(d) /\ LeavesNothing(d)

IInv == WaitTypes /\ DataTypes /\ LineType /\ \A d \in Devices : Race(d)

-----------------------------------------------------------------------------
(* A step of device d leaves the waiting of the other one alone. *)

waitVars == <<waitingStat, loaded, call, uart, ret>>

SameWait(e) ==
    /\ waitingStat'[e] = waitingStat[e] /\ loaded'[e] = loaded[e]
    /\ call'[e] = call[e] /\ uart'[e] = uart[e] /\ ret'[e] = ret[e]

OnlyWaitOf(d) == \A e \in Devices : e # d => SameWait(e)

LEMMA OneDevice ==
    ASSUME IInv, NEW d \in Devices, OnlyWaitOf(d), Race(d)'
    PROVE  \A e \in Devices : Race(e)'
<1> SUFFICES ASSUME NEW e \in Devices, e # d PROVE Race(e)'
    OBVIOUS
<1>1. SameWait(e) /\ Race(e)
    BY DEF OnlyWaitOf, IInv
<1> QED
    BY <1>1 DEF SameWait, Race, UartOnlyClears, ShellKnows, LeavesNothing

LEMMA Unchanged ==
    ASSUME IInv, UNCHANGED waitVars
    PROVE  WaitTypes' /\ \A e \in Devices : Race(e)'
BY DEF waitVars, IInv, WaitTypes, Race, UartOnlyClears, ShellKnows, LeavesNothing

LEMMA InitInv == Init => IInv
<1> SUFFICES ASSUME Init PROVE IInv
    OBVIOUS
<1>1. WaitTypes /\ \A d \in Devices : Race(d)
    <2>1. UartReady \in UartType /\ UartReady.at = "ready"
        BY DEF UartReady, UartType, UartPoints, Bits
    <2>2. WaitTypes
        BY <2>1 DEF Init, WaitTypes, CallPoints
    <2>3. ASSUME NEW d \in Devices
          PROVE  waitingStat[d] = {} /\ uart[d] = UartReady /\ call[d] = "idle"
        BY DEF Init
    <2> QED
        BY <2>1, <2>2, <2>3 DEF Race, UartOnlyClears, ShellKnows, LeavesNothing
<1>2. \A d \in Devices : Len(events[d]) <= EventNum
    <2>1. EventNum \in Nat /\ Len(<< >>) = 0
        BY DevicesAssumption
    <2>2. 0 <= EventNum
        BY <2>1
    <2>3. \A d \in Devices : Len(events[d]) = 0
        BY <2>1, Zenon DEF Init
    <2> QED
        BY <2>2, <2>3, Zenon
<1>3. /\ connectionStatus \in [Devices -> 0..1] /\ replyErr \in [Devices -> 0..1]
      /\ events \in [Devices -> Seq(Frames)] /\ LineType
    BY DEF Init, LineType
<1> QED
    BY <1>1, <1>2, <1>3 DEF IInv, DataTypes

-----------------------------------------------------------------------------
(* The line *)

LEMMA PeerIsDevice == ASSUME NEW d \in Devices PROVE Peer(d) \in Devices
<1>1. PICK a, b \in Devices : a # b /\ Devices = {a, b}
    BY DevicesAssumption
<1>2. Peer(a) = b /\ Peer(b) = a
    BY <1>1 DEF Peer
<1> QED
    BY <1>1, <1>2

LEMMA ArrivalKeeps ==
    ASSUME LineType, NEW d \in Devices, line[d] # << >>
    PROVE  [line EXCEPT ![d] = Tail(@)] \in [Devices -> Seq(Frames)]
<1>1. line[d] \in Seq(Frames) /\ Tail(line[d]) \in Seq(Frames)
    BY DEF LineType
<1> QED
    BY <1>1 DEF LineType

LEMMA SendingKeeps ==
    ASSUME NEW lines \in [Devices -> Seq(Frames)], NEW d \in Devices, NEW m \in Frames
    PROVE  [lines EXCEPT ![Peer(d)] = Append(@, m)] \in [Devices -> Seq(Frames)]
<1>1. Peer(d) \in Devices
    BY PeerIsDevice
<1>2. lines[Peer(d)] \in Seq(Frames) /\ Append(lines[Peer(d)], m) \in Seq(Frames)
    BY <1>1
<1> QED
    BY <1>1, <1>2

LEMMA SendCmdKeeps ==
    ASSUME LineType, NEW d \in Devices, NEW m \in Frames
    PROVE  SendCmd(d, m) \in [Devices -> Seq(Frames)]
BY SendingKeeps DEF LineType, SendCmd

LEMMA ResetKeeps ==
    ASSUME LineType, NEW d \in Devices, protocalReset(d)
    PROVE  LineType'
<1>1. CASE line' = line
    BY <1>1 DEF LineType
<1>2. CASE line[d] # << >> /\ line' = [line EXCEPT ![d] = Tail(@)]
    BY <1>2, ArrivalKeeps DEF LineType
<1> QED
    BY <1>1, <1>2 DEF protocalReset

-----------------------------------------------------------------------------
(* The shell thread *)

Results == {"none", "success", "error", "timeout"}

(* The shell thread of d goes on, and leaves waitingStat, what it loaded and the
   result of the call as given. *)
ShellMoves(d, from, to, stat, l, r) ==
    /\ to \in CallPoints /\ stat \in SUBSET Bits /\ l \in SUBSET Bits /\ r \in Results
    /\ call[d] = from /\ call' = [call EXCEPT ![d] = to]
    /\ waitingStat' = [waitingStat EXCEPT ![d] = stat]
    /\ loaded' = [loaded EXCEPT ![d] = l]
    /\ ret' = [ret EXCEPT ![d] = r]
    /\ UNCHANGED uart

LEMMA ShellMovesTo ==
    ASSUME IInv, NEW d \in Devices, NEW from, NEW to, NEW stat, NEW l, NEW r,
           ShellMoves(d, from, to, stat, l, r)
    PROVE  /\ WaitTypes' /\ OnlyWaitOf(d)
           /\ call[d] = from /\ call'[d] = to /\ uart'[d] = uart[d]
           /\ waitingStat'[d] = stat /\ loaded'[d] = l /\ ret'[d] = r
BY DEF IInv, WaitTypes, ShellMoves, Results, OnlyWaitOf, SameWait

(* It goes on and stores nothing. *)
ShellLeaves(d, from, to, l, r) == ShellMoves(d, from, to, waitingStat[d], l, r)

LEMMA ShellLeavesAt ==
    ASSUME IInv, NEW d \in Devices, NEW from, NEW to, NEW l, NEW r,
           ShellLeaves(d, from, to, l, r)
    PROVE  /\ WaitTypes' /\ OnlyWaitOf(d)
           /\ call[d] = from /\ call'[d] = to /\ uart'[d] = uart[d]
           /\ waitingStat'[d] = waitingStat[d] /\ loaded'[d] = l /\ ret'[d] = r
BY ShellMovesTo DEF ShellLeaves

LEMMA WaitOf ==
    ASSUME IInv, NEW d \in Devices
    PROVE  /\ waitingStat[d] \in SUBSET Bits /\ loaded[d] \in SUBSET Bits
           /\ call[d] \in CallPoints /\ ret[d] \in Results /\ uart[d] \in UartType
           /\ waitingStat = [waitingStat EXCEPT ![d] = waitingStat[d]]
           /\ loaded = [loaded EXCEPT ![d] = loaded[d]]
           /\ ret = [ret EXCEPT ![d] = ret[d]]
           /\ Race(d)
BY DEF IInv, WaitTypes, Results

LEMMA QueryRace ==
    ASSUME IInv, NEW d \in Devices, Query(d)
    PROVE  WaitTypes' /\ \A e \in Devices : Race(e)'
<1>1. ShellLeaves(d, "idle", "busy", loaded[d], ret[d])
    BY WaitOf DEF Query, Command, protocolVars, ShellLeaves, ShellMoves, CallPoints, Results
<1>2. /\ WaitTypes' /\ OnlyWaitOf(d) /\ call[d] = "idle" /\ call'[d] = "busy"
      /\ uart'[d] = uart[d] /\ waitingStat'[d] = waitingStat[d]
    BY <1>1, ShellLeavesAt
<1>3. Race(d)'
    BY <1>2, WaitOf DEF Race, UartOnlyClears, ShellKnows, LeavesNothing
<1> QED
    BY <1>2, <1>3, OneDevice

LEMMA NobodyWaitsRace ==
    ASSUME IInv, NEW d \in Devices, NobodyWaits(d), UNCHANGED uart
    PROVE  WaitTypes' /\ \A e \in Devices : Race(e)'
<1>1. ShellLeaves(d, "busy", "query_load", loaded[d], ret[d]) /\ waitingStat[d] = {}
    BY WaitOf
       DEF NobodyWaits, CallGoes, protocolVars, ShellLeaves, ShellMoves, CallPoints, Results
<1>2. /\ WaitTypes' /\ OnlyWaitOf(d) /\ call[d] = "busy" /\ call'[d] = "query_load"
      /\ uart'[d] = uart[d] /\ waitingStat'[d] = waitingStat[d]
    BY <1>1, ShellLeavesAt
<1>3. Race(d)'
    BY <1>1, <1>2, WaitOf DEF Race, UartOnlyClears, ShellKnows, LeavesNothing
<1> QED
    BY <1>2, <1>3, OneDevice

(* The word is empty when QUERY is set: neither thread has anything to bring back. *)
LEMMA SetQueryRace ==
    ASSUME IInv, NEW d \in Devices, SetQuery(d), UNCHANGED uart
    PROVE  WaitTypes' /\ \A e \in Devices : Race(e)'
<1>1. CASE Load(d, "query_load", "query_store", waitingStat[d] \cup {"query"})
    <2>1. waitingStat[d] \cup {"query"} \in SUBSET Bits
        BY WaitOf DEF Bits
    <2>2. ShellLeaves(d, "query_load", "query_store", waitingStat[d] \cup {"query"}, ret[d])
        BY <1>1, <2>1, WaitOf
             DEF Load, CallGoes, protocolVars, ShellLeaves, ShellMoves, CallPoints, Results
    <2>3. /\ WaitTypes' /\ OnlyWaitOf(d) /\ call[d] = "query_load"
          /\ call'[d] = "query_store" /\ uart'[d] = uart[d]
          /\ waitingStat'[d] = waitingStat[d]
        BY <2>2, ShellLeavesAt
    <2>4. Race(d)'
        BY <2>3, WaitOf DEF Race, UartOnlyClears, ShellKnows, LeavesNothing
    <2> QED
        BY <2>3, <2>4, OneDevice
<1>2. CASE Store(d, "query_store", "ack_load") /\ UNCHANGED <<line, ret>>
    <2>1. ShellMoves(d, "query_store", "ack_load", loaded[d], {}, ret[d])
        BY <1>2, WaitOf DEF Store, CallGoes, ShellMoves, CallPoints
    <2>2. /\ WaitTypes' /\ OnlyWaitOf(d) /\ call[d] = "query_store"
          /\ call'[d] = "ack_load" /\ uart'[d] = uart[d]
        BY <2>1, ShellMovesTo
    <2>3. Race(d)'
        BY <2>2, WaitOf DEF Race, UartOnlyClears, ShellKnows, LeavesNothing
    <2> QED
        BY <2>2, <2>3, OneDevice
<1> QED
    BY <1>1, <1>2 DEF SetQuery

(* What the shell stores covers the word, so the uart thread still only clears. *)
LEMMA SetAckRace ==
    ASSUME IInv, NEW d \in Devices, SetAck(d), UNCHANGED uart
    PROVE  WaitTypes' /\ \A e \in Devices : Race(e)'
<1>1. CASE Load(d, "ack_load", "ack_store", waitingStat[d] \cup {"ack"})
    <2>1. waitingStat[d] \cup {"ack"} \in SUBSET Bits
        BY WaitOf DEF Bits
    <2>2. ShellLeaves(d, "ack_load", "ack_store", waitingStat[d] \cup {"ack"}, ret[d])
        BY <1>1, <2>1, WaitOf
             DEF Load, CallGoes, protocolVars, ShellLeaves, ShellMoves, CallPoints, Results
    <2>3. /\ WaitTypes' /\ OnlyWaitOf(d) /\ call[d] = "ack_load"
          /\ call'[d] = "ack_store" /\ uart'[d] = uart[d]
          /\ waitingStat'[d] = waitingStat[d]
          /\ loaded'[d] = waitingStat[d] \cup {"ack"}
        BY <2>2, ShellLeavesAt
    <2>4. Race(d)'
        BY <2>3, WaitOf DEF Race, UartOnlyClears, ShellKnows, LeavesNothing
    <2> QED
        BY <2>3, <2>4, OneDevice
<1>2. CASE Store(d, "ack_store", "send") /\ UNCHANGED <<line, ret>>
    <2>1. ShellMoves(d, "ack_store", "send", loaded[d], {}, ret[d])
        BY <1>2, WaitOf DEF Store, CallGoes, ShellMoves, CallPoints
    <2>2. /\ WaitTypes' /\ OnlyWaitOf(d) /\ call[d] = "ack_store"
          /\ call'[d] = "send" /\ uart'[d] = uart[d] /\ waitingStat'[d] = loaded[d]
        BY <2>1, ShellMovesTo
    <2>3. Race(d)'
        BY <2>2, WaitOf DEF Race, UartOnlyClears, ShellKnows, LeavesNothing
    <2> QED
        BY <2>2, <2>3, OneDevice
<1> QED
    BY <1>1, <1>2 DEF SetAck

(* From the sending of the query to the answer, and where the call gives up
   without taking a bit back. *)
LEMMA WaitsRace ==
    ASSUME IInv, NEW d \in Devices, UNCHANGED uart,
           SendQuery(d) \/ Acknowledged(d) \/ Answered(d) \/ GiveUp(d)
    PROVE  WaitTypes' /\ \A e \in Devices : Race(e)'
<1> DEFINE Leaves(from, to, r) ==
        /\ WaitTypes' /\ OnlyWaitOf(d) /\ call[d] = from /\ call'[d] = to
        /\ uart'[d] = uart[d] /\ waitingStat'[d] = waitingStat[d] /\ ret'[d] = r
<1>1. CASE SendQuery(d)
    <2>1. ShellLeaves(d, "send", "ack", loaded[d], ret[d])
        BY <1>1, WaitOf
             DEF SendQuery, CallGoes, protocolVars, ShellLeaves, ShellMoves, CallPoints, Results
    <2>2. Leaves("send", "ack", ret[d])
        BY <2>1, ShellLeavesAt
    <2>3. Race(d)'
        BY <2>2, WaitOf DEF Race, UartOnlyClears, ShellKnows, LeavesNothing
    <2> QED
        BY <2>2, <2>3, OneDevice
<1>2. ASSUME Acknowledged(d), replyErr[d] = 0
      PROVE  WaitTypes' /\ \A e \in Devices : Race(e)'
    <2>1. ShellLeaves(d, "ack", "answer", loaded[d], ret[d]) /\ "ack" \notin waitingStat[d]
        BY <1>2, WaitOf
             DEF Acknowledged, CallGoes, protocolVars,
               ShellLeaves, ShellMoves, CallPoints, Results
    <2>2. Leaves("ack", "answer", ret[d])
        BY <2>1, ShellLeavesAt
    <2>3. Race(d)'
        BY <2>1, <2>2, WaitOf DEF Race, UartOnlyClears, ShellKnows, LeavesNothing
    <2> QED
        BY <2>2, <2>3, OneDevice
<1>3. ASSUME Acknowledged(d), replyErr[d] # 0
      PROVE  WaitTypes' /\ \A e \in Devices : Race(e)'
    <2>1. ShellLeaves(d, "ack", "idle", loaded[d], "error")
        BY <1>3, WaitOf
             DEF Acknowledged, CallGoes, protocolVars,
               ShellLeaves, ShellMoves, CallPoints, Results
    <2>2. Leaves("ack", "idle", "error")
        BY <2>1, ShellLeavesAt
    <2>3. Race(d)'
        BY <2>2, WaitOf DEF Race, UartOnlyClears, ShellKnows, LeavesNothing
    <2> QED
        BY <2>2, <2>3, OneDevice
<1>4. CASE Answered(d)
    <2>1. ShellLeaves(d, "answer", "idle", loaded[d], "success")
         /\ "query" \notin waitingStat[d]
        BY <1>4, WaitOf
             DEF Answered, CallGoes, protocolVars,
               ShellLeaves, ShellMoves, CallPoints, Results
    <2>2. Leaves("answer", "idle", "success")
        BY <2>1, ShellLeavesAt
    <2>3. waitingStat[d] = {}
        BY <2>1, <2>2, WaitOf DEF Race, ShellKnows, Bits
    <2>4. Race(d)'
        BY <2>2, <2>3, WaitOf DEF Race, UartOnlyClears, ShellKnows, LeavesNothing
    <2> QED
        BY <2>2, <2>4, OneDevice
<1>5. CASE GiveUp(d)
    <2>1. PICK from \in {"busy", "answer"} :
            ShellLeaves(d, from, "idle", loaded[d], "timeout")
        BY <1>5, WaitOf
             DEF GiveUp, TimesOut, CallGoes, protocolVars,
               ShellLeaves, ShellMoves, CallPoints, Results
    <2>2. Leaves(from, "idle", "timeout")
        BY <2>1, ShellLeavesAt
    <2>3. Race(d)'
        BY <2>2, WaitOf DEF Race, UartOnlyClears, ShellKnows, LeavesNothing
    <2> QED
        BY <2>2, <2>3, OneDevice
<1> QED
    BY <1>1, <1>2, <1>3, <1>4, <1>5

(* Here ACK may come back, where the uart thread is taking the answer: it loaded
   the word while ACK was set.  QUERY is then all that the shell stores. *)
LEMMA GiveUpAckRace ==
    ASSUME IInv, NEW d \in Devices, GiveUpAck(d), UNCHANGED uart
    PROVE  WaitTypes' /\ \A e \in Devices : Race(e)'
<1>1. CASE Load(d, "ack", "ack_clear", waitingStat[d] \ {"ack"})
    <2>1. waitingStat[d] \ {"ack"} \in SUBSET Bits
        BY WaitOf
    <2>2. ShellLeaves(d, "ack", "ack_clear", waitingStat[d] \ {"ack"}, ret[d])
        BY <1>1, <2>1, WaitOf
             DEF Load, CallGoes, protocolVars, ShellLeaves, ShellMoves, CallPoints, Results
    <2>3. /\ WaitTypes' /\ OnlyWaitOf(d) /\ call[d] = "ack" /\ call'[d] = "ack_clear"
          /\ uart'[d] = uart[d] /\ waitingStat'[d] = waitingStat[d]
          /\ loaded'[d] = waitingStat[d] \ {"ack"}
        BY <2>2, ShellLeavesAt
    <2>4. Race(d)'
        BY <2>3, WaitOf DEF Race, UartOnlyClears, ShellKnows, LeavesNothing
    <2> QED
        BY <2>3, <2>4, OneDevice
<1>2. CASE Store(d, "ack_clear", "idle") /\ TimesOut(d)
    <2>1. ShellMoves(d, "ack_clear", "idle", loaded[d], {}, "timeout")
        BY <1>2, WaitOf DEF Store, TimesOut, CallGoes, ShellMoves, CallPoints, Results
    <2>2. /\ WaitTypes' /\ OnlyWaitOf(d) /\ call[d] = "ack_clear" /\ call'[d] = "idle"
          /\ uart'[d] = uart[d] /\ waitingStat'[d] = loaded[d] /\ ret'[d] = "timeout"
        BY <2>1, ShellMovesTo
    <2>3. ASSUME uart[d].at = "answer_store" PROVE waitingStat'[d] = {"query"}
        BY <2>2, <2>3, WaitOf DEF Race, UartOnlyClears, ShellKnows, Bits
    <2>4. ASSUME uart[d].at = "ack_store" PROVE uart[d].stat \subseteq waitingStat'[d]
        BY <2>2, <2>4, WaitOf DEF Race, UartOnlyClears, ShellKnows
    <2>5. UartOnlyClears(d)'
        BY <2>2, <2>3, <2>4, WaitOf DEF Race, UartOnlyClears, ShellKnows
    <2>6. Race(d)'
        BY <2>2, <2>5 DEF Race, ShellKnows, LeavesNothing
    <2> QED
        BY <2>2, <2>6, OneDevice
<1> QED
    BY <1>1, <1>2 DEF GiveUpAck

LEMMA ShellRace ==
    ASSUME IInv, NEW d \in Devices, Shell(d)
    PROVE  WaitTypes' /\ \A e \in Devices : Race(e)'
<1> UNCHANGED uart
    BY DEF Shell
<1> QED
    BY NobodyWaitsRace, SetQueryRace, SetAckRace, WaitsRace, GiveUpAckRace DEF Shell

-----------------------------------------------------------------------------
(* The uart thread *)

(* The uart thread of d goes on, and leaves waitingStat and itself as given. *)
UartMoves(d, from, stat, u) ==
    /\ u \in UartType /\ stat \in SUBSET Bits
    /\ uart[d].at = from /\ uart' = [uart EXCEPT ![d] = u]
    /\ waitingStat' = [waitingStat EXCEPT ![d] = stat]
    /\ UNCHANGED <<call, loaded, ret>>

LEMMA UartMovesTo ==
    ASSUME IInv, NEW d \in Devices, NEW from, NEW stat, NEW u, UartMoves(d, from, stat, u)
    PROVE  /\ WaitTypes' /\ OnlyWaitOf(d)
           /\ uart[d].at = from /\ uart'[d] = u /\ waitingStat'[d] = stat
           /\ call'[d] = call[d] /\ loaded'[d] = loaded[d] /\ ret'[d] = ret[d]
BY DEF IInv, WaitTypes, UartMoves, OnlyWaitOf, SameWait

(* It loads the word and clears a bit of what it loaded. *)
LEMMA UartLoadRace ==
    ASSUME IInv, NEW d \in Devices, UNCHANGED <<call, loaded, ret>>,
           \/ UartLoad(d, "ack_load", "ack_store", "ack")
           \/ UartLoad(d, "answer_load", "answer_store", "query")
    PROVE  WaitTypes' /\ \A e \in Devices : Race(e)'
<1>1. ASSUME NEW from, NEW to \in UartPoints, NEW bit, UartLoad(d, from, to, bit)
      PROVE  \E u : /\ UartMoves(d, from, waitingStat[d], u)
                    /\ u.at = to /\ u.stat = waitingStat[d] \ {bit}
    <2> DEFINE v == [uart[d] EXCEPT !.at = to]
               u == [v EXCEPT !.stat = waitingStat[d] \ {bit}]
    <2>1. v \in UartType /\ v.at = to
        BY WaitOf DEF UartType
    <2>2. u \in UartType /\ u.at = to /\ u.stat = waitingStat[d] \ {bit}
        <3> HIDE DEF v
        <3> QED
            BY <2>1, WaitOf DEF UartType
    <2>3. UartMoves(d, from, waitingStat[d], u)
        BY <1>1, <2>2, WaitOf DEF UartLoad, UartMoves, protocolVars
    <2> QED
        BY <2>2, <2>3
<1>2. CASE UartLoad(d, "ack_load", "ack_store", "ack")
    <2>1. PICK u : /\ UartMoves(d, "ack_load", waitingStat[d], u)
                   /\ u.at = "ack_store" /\ u.stat = waitingStat[d] \ {"ack"}
        BY <1>1, <1>2 DEF UartPoints
    <2>2. /\ WaitTypes' /\ OnlyWaitOf(d) /\ uart'[d] = u
          /\ waitingStat'[d] = waitingStat[d]
          /\ call'[d] = call[d] /\ loaded'[d] = loaded[d] /\ ret'[d] = ret[d]
        BY <2>1, UartMovesTo
    <2>3. Race(d)'
        BY <2>1, <2>2, WaitOf DEF Race, UartOnlyClears, ShellKnows, LeavesNothing
    <2> QED
        BY <2>2, <2>3, OneDevice
<1>3. CASE UartLoad(d, "answer_load", "answer_store", "query")
    <2>1. PICK u : /\ UartMoves(d, "answer_load", waitingStat[d], u)
                   /\ u.at = "answer_store" /\ u.stat = waitingStat[d] \ {"query"}
        BY <1>1, <1>3 DEF UartPoints
    <2>2. /\ WaitTypes' /\ OnlyWaitOf(d) /\ uart[d].at = "answer_load" /\ uart'[d] = u
          /\ waitingStat'[d] = waitingStat[d]
          /\ call'[d] = call[d] /\ loaded'[d] = loaded[d] /\ ret'[d] = ret[d]
        BY <2>1, UartMovesTo
    <2>3. Race(d)'
        BY <2>1, <2>2, WaitOf DEF Race, UartOnlyClears, ShellKnows, LeavesNothing
    <2> QED
        BY <2>2, <2>3, OneDevice
<1> QED
    BY <1>2, <1>3

(* What it stores is part of the word, or ACK alone after the shell gave up. *)
LEMMA UartStoreRace ==
    ASSUME IInv, NEW d \in Devices, NEW from \in {"ack_store", "answer_store"},
           NEW u \in UartType, u.at \in {"ack_err", "ready"},
           UartStore(d, from, u), UNCHANGED <<call, loaded, ret>>
    PROVE  WaitTypes' /\ \A e \in Devices : Race(e)'
<1>1. uart[d].stat \in SUBSET Bits
    BY WaitOf DEF UartType
<1>2. UartMoves(d, from, uart[d].stat, u)
    BY <1>1 DEF UartStore, UartMoves
<1>3. /\ WaitTypes' /\ OnlyWaitOf(d) /\ uart[d].at = from /\ uart'[d] = u
      /\ waitingStat'[d] = uart[d].stat
      /\ call'[d] = call[d] /\ loaded'[d] = loaded[d] /\ ret'[d] = ret[d]
    BY <1>2, UartMovesTo
<1>4. UartOnlyClears(d)'
    BY <1>3 DEF UartOnlyClears
<1>5. CASE uart[d].stat \subseteq waitingStat[d]
    <2>1. ShellKnows(d)' /\ LeavesNothing(d)'
        BY <1>3, <1>5, WaitOf DEF Race, ShellKnows, LeavesNothing
    <2> QED
        BY <1>3, <1>4, <2>1, OneDevice DEF Race
<1>6. CASE call[d] \in {"idle", "busy"} /\ waitingStat[d] = {"query"}
    <2>1. ShellKnows(d)' /\ LeavesNothing(d)'
        BY <1>3, <1>6, WaitOf DEF Race, ShellKnows, LeavesNothing
    <2> QED
        BY <1>3, <1>4, <2>1, OneDevice DEF Race
<1> QED
    BY <1>3, <1>5, <1>6, WaitOf DEF Race, UartOnlyClears

LEMMA TakeReplyRace ==
    ASSUME IInv, NEW d \in Devices, TakeReply(d)
    PROVE  WaitTypes' /\ \A e \in Devices : Race(e)'
<1> UNCHANGED <<call, loaded, ret>>
    BY DEF TakeReply, shellVars
<1>0. UartReady \in UartType /\ UartReady.at = "ready"
    BY DEF UartReady, UartType, UartPoints
<1>1. CASE \/ UartLoad(d, "ack_load", "ack_store", "ack")
           \/ UartLoad(d, "answer_load", "answer_store", "query")
    BY <1>1, UartLoadRace
<1>2. CASE UartStore(d, "ack_store", [UartReady EXCEPT !.at = "ack_err", !.err = uart[d].err])
    <2> DEFINE u == [UartReady EXCEPT !.at = "ack_err", !.err = uart[d].err]
    <2>1. u \in UartType /\ u.at = "ack_err"
        BY WaitOf DEF UartReady, UartType, UartPoints
    <2> HIDE DEF u
    <2> QED
        BY <1>2, <2>1, UartStoreRace DEF u
<1>3. CASE UartStore(d, "answer_store", UartReady)
    BY <1>0, <1>3, UartStoreRace
<1>4. CASE /\ uart[d].at = "ack_err"
           /\ uart' = [uart EXCEPT ![d] = UartReady] /\ UNCHANGED waitingStat
    <2>1. UartMoves(d, "ack_err", waitingStat[d], UartReady)
        BY <1>0, <1>4, WaitOf DEF UartMoves
    <2>2. /\ WaitTypes' /\ OnlyWaitOf(d) /\ uart'[d] = UartReady
          /\ waitingStat'[d] = waitingStat[d]
          /\ call'[d] = call[d] /\ loaded'[d] = loaded[d] /\ ret'[d] = ret[d]
        BY <2>1, UartMovesTo
    <2>3. Race(d)'
        BY <1>0, <2>2, WaitOf DEF Race, UartOnlyClears, ShellKnows, LeavesNothing
    <2> QED
        BY <2>2, <2>3, OneDevice
<1> QED
    BY <1>1, <1>2, <1>3, <1>4 DEF TakeReply, TakeAck, TakeAnswer

(* A frame arrives: a reply only if its bit is set. *)
LEMMA ReceiveRace ==
    ASSUME IInv, NEW d \in Devices, Receive(d)
    PROVE  WaitTypes' /\ \A e \in Devices : Race(e)'
<1> DEFINE m == Head(line[d])
<1>0. m \in Frames
    <2>1. line[d] \in Seq(Frames) /\ line[d] # << >>
        BY DEF IInv, LineType, Receive
    <2> QED
        BY <2>1
<1>1. uart[d].at = "ready" /\ UNCHANGED <<call, loaded, ret>>
    BY DEF Receive, shellVars
<1>2. ASSUME NEW to \in {"ack_load", "answer_load"}, NEW u,
             UartMoves(d, "ready", waitingStat[d], u), u.at = to,
             to = "answer_load" => "query" \in waitingStat[d]
      PROVE  WaitTypes' /\ \A e \in Devices : Race(e)'
    <2>1. /\ WaitTypes' /\ OnlyWaitOf(d) /\ uart'[d] = u
          /\ waitingStat'[d] = waitingStat[d]
          /\ call'[d] = call[d] /\ loaded'[d] = loaded[d] /\ ret'[d] = ret[d]
        BY <1>2, UartMovesTo
    <2>2. Race(d)'
        BY <1>2, <2>1, WaitOf DEF Race, UartOnlyClears, ShellKnows, LeavesNothing
    <2> QED
        BY <2>1, <2>2, OneDevice
<1>3. ASSUME TakesAck(d, m), UNCHANGED waitingStat,
             uart' = [uart EXCEPT ![d].at = "ack_load", ![d].err = m.data]
      PROVE  WaitTypes' /\ \A e \in Devices : Race(e)'
    <2> DEFINE v == [uart[d] EXCEPT !.at = "ack_load"]
               u == [v EXCEPT !.err = m.data]
    <2>1. v \in UartType /\ v.at = "ack_load" /\ m.data \in 0..1
        BY <1>0, WaitOf DEF UartType, UartPoints, Frames
    <2>2. u \in UartType /\ u.at = "ack_load"
        <3> HIDE DEF v, m
        <3> QED
            BY <2>1 DEF UartType
    <2>3. UartMoves(d, "ready", waitingStat[d], u)
        BY <1>1, <1>3, <2>2, WaitOf DEF UartMoves
    <2> HIDE DEF u
    <2> QED
        BY <1>2, <2>2, <2>3
<1>4. ASSUME TakesAnswer(d, m), UNCHANGED waitingStat,
             uart' = [uart EXCEPT ![d].at = "answer_load"]
      PROVE  WaitTypes' /\ \A e \in Devices : Race(e)'
    <2> DEFINE u == [uart[d] EXCEPT !.at = "answer_load"]
    <2>1. u \in UartType /\ u.at = "answer_load"
        BY WaitOf DEF UartType, UartPoints
    <2>2. UartMoves(d, "ready", waitingStat[d], u)
        BY <1>1, <1>4, <2>1, WaitOf DEF UartMoves
    <2>3. "query" \in waitingStat[d]
        BY <1>4 DEF TakesAnswer
    <2> HIDE DEF u
    <2> QED
        BY <1>2, <2>1, <2>2, <2>3
<1>5. CASE ReceiveEvent(d, m)
    BY <1>1, <1>5, Unchanged DEF ReceiveEvent, waitVars
<1>6. CASE ReceiveReply(d, m)
    BY <1>3, <1>4, <1>6 DEF ReceiveReply, protocolVars
<1> QED
    BY <1>5, <1>6 DEF Receive

-----------------------------------------------------------------------------
(* The frames, on the line and stored as events *)

LEMMA ShellLine ==
    ASSUME IInv, NEW d \in Devices, Shell(d)
    PROVE  LineType' /\ DataTypes'
<1>1. UNCHANGED <<connectionStatus, replyErr, events>>
    BY DEF Shell, NobodyWaits, SetQuery, SetAck, SendQuery, Acknowledged, Answered,
           GiveUp, GiveUpAck, Load, Store, protocolVars
<1>2. DataTypes'
    BY <1>1 DEF IInv, DataTypes
<1>3. CASE SendQuery(d)
    <2>1. PICK cmd \in UserQueries :
            line' = [line EXCEPT ![Peer(d)] = Append(@, Frame("query", cmd, 0))]
        BY <1>3 DEF SendQuery
    <2>2. Frame("query", cmd, 0) \in Frames
        BY DevicesAssumption DEF Frame, Frames
    <2>3. LineType'
        BY <2>1, <2>2, SendingKeeps DEF IInv, LineType
    <2> QED
        BY <1>2, <2>3
<1>4. CASE protocalReset(d)
    BY <1>2, <1>4, ResetKeeps DEF IInv
<1>5. CASE UNCHANGED line
    BY <1>2, <1>5 DEF IInv, LineType
<1> QED
    BY <1>3, <1>4, <1>5
    DEF Shell, NobodyWaits, SetQuery, SetAck, Acknowledged, Answered, GiveUp, GiveUpAck,
        TimesOut, Load, Store

LEMMA TakeReplyLine ==
    ASSUME IInv, NEW d \in Devices, TakeReply(d)
    PROVE  LineType' /\ DataTypes'
<1>1. UNCHANGED <<line, connectionStatus, events>>
    BY DEF TakeReply, TakeAck, TakeAnswer, UartLoad, UartStore, protocolVars
<1>2. replyErr' = replyErr \/ replyErr' = [replyErr EXCEPT ![d] = uart[d].err]
    BY DEF TakeReply, TakeAck, TakeAnswer, UartLoad, UartStore, protocolVars
<1>3. uart[d].err \in 0..1
    BY WaitOf DEF UartType
<1>4. replyErr' \in [Devices -> 0..1]
    BY <1>2, <1>3 DEF IInv, DataTypes
<1> QED
    BY <1>1, <1>4 DEF IInv, DataTypes, LineType

(* The pool of events takes no more frames than it has events. *)
LEMMA ReceiveLine ==
    ASSUME IInv, NEW d \in Devices, Receive(d)
    PROVE  LineType' /\ DataTypes'
<1> DEFINE m == Head(line[d])
<1>1. m \in Frames /\ line[d] # << >>
    <2>1. line[d] \in Seq(Frames) /\ line[d] # << >>
        BY DEF IInv, LineType, Receive
    <2> QED
        BY <2>1
<1>2. Arrived(d) \in [Devices -> Seq(Frames)]
    BY <1>1, ArrivalKeeps DEF IInv, Arrived
<1>3. CASE ReceiveReply(d, m)
    BY <1>2, <1>3 DEF ReceiveReply, protocolVars, IInv, DataTypes, LineType
<1>4. CASE ReceiveEvent(d, m)
    <2>1. events[d] \in Seq(Frames) /\ events \in [Devices -> Seq(Frames)]
          /\ \A e \in Devices : Len(events[e]) <= EventNum
        BY DEF IInv, DataTypes
    <2>2. Append(events[d], m) \in Seq(Frames)
          /\ Len(Append(events[d], m)) = Len(events[d]) + 1
        BY <1>1, <2>1
    <2>3. \/ /\ events' = [events EXCEPT ![d] = Append(events[d], m)]
             /\ Len(events[d]) < EventNum
          \/ events' = events
        BY <1>4, <2>1 DEF ReceiveEvent, Push
    <2>4. [events EXCEPT ![d] = Append(events[d], m)] \in [Devices -> Seq(Frames)]
        BY <2>1, <2>2
    <2>5. \A e \in Devices : Len(events'[e]) <= EventNum
        BY <2>1, <2>2, <2>3, DevicesAssumption
    <2>6. DataTypes'
        BY <1>4, <2>1, <2>3, <2>4, <2>5 DEF ReceiveEvent, IInv, DataTypes
    <2>7. ASSUME NEW a \in Acknowledgements(d, m),
                 line' = [Arrived(d) EXCEPT ![Peer(d)] = Append(@, a)]
          PROVE  LineType'
        <3>1. \E err \in 0..1 : a = Frame("ack", m.cmd, err)
            BY <2>7 DEF Acknowledgements
        <3>2. a \in Frames
            BY <1>1, <3>1 DEF Frame, Frames
        <3> QED
            BY <1>2, <2>7, <3>2, SendingKeeps DEF LineType
    <2> QED
        BY <1>2, <1>4, <2>6, <2>7 DEF ReceiveEvent, LineType
<1> QED
    BY <1>3, <1>4 DEF Receive

LEMMA DispatchLine ==
    ASSUME IInv, NEW d \in Devices, Dispatch(d)
    PROVE  LineType' /\ DataTypes'
<1> DEFINE m == Head(events[d])
<1>1. events[d] \in Seq(Frames) /\ events[d] # << >>
    BY DEF Dispatch, IInv, DataTypes
<1>2. m \in Frames /\ Tail(events[d]) \in Seq(Frames)
      /\ Len(Tail(events[d])) = Len(events[d]) - 1
    BY <1>1
<1>3. /\ events' \in [Devices -> Seq(Frames)]
      /\ \A e \in Devices : Len(events'[e]) <= EventNum
    BY <1>1, <1>2, DevicesAssumption DEF Dispatch, IInv, DataTypes
<1>4. ASSUME NEW x \in 0..1, line' = SendCmd(d, Frame("set", m.cmd, x))
      PROVE  LineType'
    <2>1. Frame("set", m.cmd, x) \in Frames
        BY <1>2 DEF Frame, Frames
    <2> QED
        BY <1>4, <2>1, SendCmdKeeps DEF IInv, LineType
<1>5. ASSUME UNCHANGED line PROVE LineType'
    BY <1>5 DEF IInv, LineType
<1>6. UNCHANGED replyErr
    BY DEF Dispatch
<1>7. CASE Preprocess(d, m)
    <2>1. m.data \in 0..1 /\ connectionStatus[d] \in 0..1
        BY <1>2 DEF Frames, IInv, DataTypes
    <2>2. connectionStatus' \in [Devices -> 0..1]
        BY <1>7, <2>1 DEF Preprocess, IInv, DataTypes
    <2>3. LineType'
        BY <1>4, <1>5, <1>7, <2>1, ResetKeeps DEF Preprocess, IInv
    <2> QED
        BY <1>3, <1>6, <2>2, <2>3 DEF IInv, DataTypes
<1>8. CASE OnCmd(d, m)
    <2>1. LineType' /\ UNCHANGED connectionStatus
        BY <1>4, <1>5, <1>8 DEF OnCmd
    <2> QED
        BY <1>3, <1>6, <2>1 DEF IInv, DataTypes
<1> QED
    BY <1>7, <1>8 DEF Dispatch

-----------------------------------------------------------------------------
LEMMA NextInv == IInv /\ [Next]_vars => IInv'
<1> SUFFICES ASSUME IInv, [Next]_vars PROVE IInv'
    OBVIOUS
<1> USE DEF protocolVars, shellVars
<1>1. ASSUME NEW d \in Devices, NEW m \in UserFrames, Set(d, m) PROVE IInv'
    <2>1. m \in Frames
        BY DevicesAssumption DEF UserFrames, Frame, Frames
    <2>2. LineType'
        BY <1>1, <2>1, SendCmdKeeps DEF Set, IInv, LineType
    <2>3. DataTypes'
        BY <1>1 DEF Set, IInv, DataTypes
    <2> QED
        BY <1>1, <2>2, <2>3, Unchanged DEF Set, waitVars, IInv
<1>2. ASSUME NEW d \in Devices, Query(d) PROVE IInv'
    <2>1. LineType' /\ DataTypes'
        BY <1>2 DEF Query, IInv, LineType, DataTypes
    <2> QED
        BY <1>2, <2>1, QueryRace DEF IInv
<1>3. ASSUME NEW d \in Devices, Shell(d) PROVE IInv'
    BY <1>3, ShellRace, ShellLine DEF IInv
<1>4. ASSUME NEW d \in Devices, Receive(d) PROVE IInv'
    BY <1>4, ReceiveRace, ReceiveLine DEF IInv
<1>5. ASSUME NEW d \in Devices, TakeReply(d) PROVE IInv'
    BY <1>5, TakeReplyRace, TakeReplyLine DEF IInv
<1>6. ASSUME NEW d \in Devices, Lose(d) PROVE IInv'
    <2>1. LineType' /\ DataTypes'
        BY <1>6, ArrivalKeeps DEF Lose, Arrived, IInv, LineType, DataTypes
    <2> QED
        BY <1>6, <2>1, Unchanged DEF Lose, waitVars, IInv
<1>7. ASSUME NEW d \in Devices, Dispatch(d) PROVE IInv'
    BY <1>7, DispatchLine, Unchanged DEF Dispatch, waitVars, IInv
<1>8. CASE Done \/ UNCHANGED vars
    <2>1. LineType' /\ DataTypes' /\ UNCHANGED waitVars
        BY <1>8 DEF Done, vars, waitVars, IInv, LineType, DataTypes
    <2> QED
        BY <2>1, Unchanged DEF IInv
<1> QED
    BY <1>1, <1>2, <1>3, <1>4, <1>5, <1>6, <1>7, <1>8 DEF Next

LEMMA Invariant == Spec => []IInv
BY InitInv, NextInv, PTL DEF Spec

(* Outside a call protocalSendCmd is refused only after a query that failed,
   wherever the threads are switched between the load and the store of a bit
   (RefusesOnlyAfterFailure). *)
THEOREM RefusedOnlyAfterFailure == Spec => []RefusesOnlyAfterFailure
<1> IInv => RefusesOnlyAfterFailure
    BY DEF IInv, Race, LeavesNothing, RefusesOnlyAfterFailure
<1> QED
    BY Invariant, PTL

(* No query puts anything into a byte, a status or the pool of events that does
   not fit there (TypeOK). *)
THEOREM TypeCorrect == Spec => []TypeOK
<1>1. ASSUME IInv, NEW d \in Devices, NEW i \in DOMAIN line[d]
      PROVE  line[d][i] \in Frames
    <2>1. line[d] \in Seq(Frames)
        BY <1>1 DEF IInv, LineType
    <2> QED
        BY <1>1, <2>1
<1>2. IInv => TypeOK
    BY <1>1 DEF IInv, WaitTypes, DataTypes, TypeOK, UartType
<1> QED
    BY Invariant, <1>2, PTL
=============================================================================
