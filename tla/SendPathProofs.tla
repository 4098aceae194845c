--------------------------- MODULE SendPathProofs ---------------------------
(***************************************************************************)
(* However many calls the threads make, and whatever they send: at most    *)
(* one package of protocalSendCmd in the timer thread goes out while QUERY *)
(* stays set, no index leaves package[32], and a package that the other    *)
(* thread keeps away from is sent whole.                                   *)
(***************************************************************************)
EXTENDS SendPath, SequenceTheorems, WellFoundedInduction, TLAPS

(* The timer thread is past the busy test and has not sent its last byte. *)
Flying == Building \cup {"type"}
InFlight == thread["timer"].at \in Flying

Shape == DOMAIN thread = Threads /\ \A t \in Threads : "at" \in DOMAIN thread[t]

(* The package in flight is the only one that can still be counted. *)
IInv ==
    /\ Shape
    /\ beside \in 0..1
    /\ beside = 1 => "query" \in waitingStat /\ ~ InFlight

-----------------------------------------------------------------------------
(* Lemmas *)

(* A thread that moves on leaves the other one where it is. *)
LEMMA GoesMoves ==
  ASSUME Shape, NEW t \in Threads, NEW from, NEW r, "at" \in DOMAIN r, Goes(t, from, r)
  PROVE  /\ Shape' /\ thread[t].at = from /\ thread'[t].at = r.at
         /\ \A u \in Threads \ {t} : thread'[u].at = thread[u].at
  BY DEF Shape, Goes

LEMMA IdleHasAt == "at" \in DOMAIN Idle /\ Idle.at = "idle"
  BY DEF Idle

LEMMA AtHasAt ==
  ASSUME Shape, NEW t \in Threads, NEW to
  PROVE  "at" \in DOMAIN At(t, to) /\ At(t, to).at = to
  BY DEF Shape, At

(* The sending call stays between the busy test and its last byte. *)
Stays(t) ==
    /\ Shape' /\ waitingStat' = waitingStat /\ beside' = beside
    /\ \A u \in Threads \ {t} : thread'[u].at = thread[u].at
    /\ thread[t].at \in Flying /\ thread'[t].at \in Flying

LEMMA StepStays ==
  ASSUME Shape, NEW t \in Threads, NEW from \in Building, NEW r, "at" \in DOMAIN r,
         r.at \in Building, Goes(t, from, r), waitingStat' = waitingStat, beside' = beside
  PROVE  Stays(t)
  BY GoesMoves DEF Stays, Flying

LEMMA StoreTypeStays ==
  ASSUME Shape, NEW t \in Threads, StoreType(t)
  PROVE  Stays(t)
<1> DEFINE used == \E u \in Threads \ {t} : thread[u].at \in Building
           r == [At(t, "length") EXCEPT !.alone = ~ used]
<1>1. /\ thread[t].at = "type" /\ waitingStat' = waitingStat /\ beside' = beside
      /\ thread' = [u \in Threads |-> IF u = t THEN r
                                      ELSE [thread[u] EXCEPT !.alone = @ /\ ~ used]]
  BY DEF StoreType
<1>2. "at" \in DOMAIN r /\ r.at = "length"
  BY AtHasAt
<1> HIDE DEF used, r
<1>3. ASSUME NEW u \in Threads \ {t}
      PROVE  "at" \in DOMAIN thread'[u] /\ thread'[u].at = thread[u].at
  BY <1>1 DEF Shape
<1>4. DOMAIN thread' = Threads /\ thread'[t] = r
  BY <1>1
<1>5. "type" \in Flying /\ "length" \in Flying
  BY DEF Flying, Building
<1> QED BY <1>1, <1>2, <1>3, <1>4, <1>5 DEF Shape, Stays

LEMMA BuildingStays ==
  ASSUME Shape, NEW t \in Threads,
         StoreLength(t) \/ StoreCmd(t) \/ CopyData(t) \/ Sum(t) \/ StoreSum(t)
         \/ StoreSize(t) \/ Send(t) \/ PutByte(t)
  PROVE  Stays(t)
<1> USE AtHasAt, StepStays DEF Building
<1>1. ASSUME StoreLength(t) PROVE Stays(t)
  BY <1>1 DEF StoreLength, Stores
<1>2. ASSUME StoreCmd(t) PROVE Stays(t)
  BY <1>2 DEF StoreCmd, Stores
<1>3. ASSUME CopyData(t) PROVE Stays(t)
  <2> DEFINE r == [At(t, "sum") EXCEPT !.i = 4, !.sum = 0]
  <2>1. Goes(t, "data", r) /\ waitingStat' = waitingStat /\ beside' = beside
    BY <1>3 DEF CopyData, Stores
  <2>2. "at" \in DOMAIN r /\ r.at = "sum"
    OBVIOUS
  <2> QED BY <2>1, <2>2
<1>4. ASSUME Sum(t) PROVE Stays(t)
  <2> DEFINE i == thread[t].i
             r == IF i < Len(thread[t].msg.data) + 7
                  THEN [thread[t] EXCEPT !.i = i + 1, !.sum = (@ + package[i + 1]) % 256]
                  ELSE At(t, "store_sum")
  <2>1. Goes(t, "sum", r) /\ waitingStat' = waitingStat /\ beside' = beside
    BY <1>4 DEF Sum, Steps
  <2>2. thread[t].at = "sum"
    BY <2>1 DEF Goes
  <2>3. "at" \in DOMAIN r /\ r.at \in {"sum", "store_sum"}
    BY <2>2 DEF Shape
  <2> HIDE DEF r
  <2> QED BY <2>1, <2>3
<1>5. ASSUME StoreSum(t) PROVE Stays(t)
  BY <1>5 DEF StoreSum, Stores
<1>6. ASSUME StoreSize(t) PROVE Stays(t)
  <2> DEFINE r == At(t, IF Waits(t) THEN "ack_load" ELSE "send")
  <2>1. Goes(t, "size", r) /\ waitingStat' = waitingStat /\ beside' = beside
    BY <1>6 DEF StoreSize
  <2>2. "at" \in DOMAIN r /\ r.at \in {"ack_load", "ack_store", "send"}
    OBVIOUS
  <2> HIDE DEF r
  <2> QED BY <2>1, <2>2
<1>7. ASSUME Send(t) PROVE Stays(t)
  <2> DEFINE r == [At(t, "putc") EXCEPT !.i = 0, !.len = packageSize]
  <2>1. Goes(t, "send", r) /\ waitingStat' = waitingStat /\ beside' = beside
    BY <1>7 DEF Send, Steps
  <2>2. "at" \in DOMAIN r /\ r.at = "putc"
    OBVIOUS
  <2> QED BY <2>1, <2>2
<1>8. ASSUME PutByte(t) PROVE Stays(t)
  <2> DEFINE r == [thread[t] EXCEPT !.i = @ + 1, !.whole = StillWhole(t)]
  <2>1. Goes(t, "putc", r) /\ waitingStat' = waitingStat /\ beside' = beside
    BY <1>8 DEF PutByte, Steps
  <2>2. "at" \in DOMAIN r /\ r.at = "putc"
    BY <2>1 DEF Shape, Goes
  <2> QED BY <2>1, <2>2
<1> QED BY <1>1, <1>2, <1>3, <1>4, <1>5, <1>6, <1>7, <1>8

(* The word and the count after a step: begun anew, or left alone with QUERY *)
Keeps ==
    \/ beside' = 0
    \/ /\ beside' = beside
       /\ "query" \in waitingStat => "query" \in waitingStat'

(* A step of t that leaves the history alone or begins it anew, and does not put
   the timer thread past the busy test while a bit is set *)
LEMMA Harmless ==
  ASSUME IInv, NEW t \in Threads, Shape',
         Keeps,
         \A u \in Threads \ {t} : thread'[u].at = thread[u].at,
         \/ thread'[t].at \notin Flying
         \/ thread[t].at \in Flying
         \/ t = "shell"
         \/ waitingStat = {}
  PROVE  IInv'
<1>1. "timer" \in Threads
  BY DEF Threads
<1>2. CASE t = "shell"
  <2>1. thread'["timer"].at = thread["timer"].at
    BY <1>1, <1>2
  <2> QED BY <2>1 DEF IInv, InFlight, Keeps
<1>3. CASE t = "timer"
  BY <1>3 DEF IInv, InFlight, Keeps
<1> QED BY <1>2, <1>3 DEF Threads

LEMMA SendsHolds ==
  ASSUME IInv, NEW t \in Threads, Sends(t)
  PROVE  IInv'
<1> USE DEF IInv
<1>1. ASSUME Stays(t) PROVE IInv'
  BY <1>1, Harmless DEF Stays, Keeps
<1>2. ASSUME Test(t) PROVE IInv'
  <2> DEFINE r == IF waitingStat # {} THEN Idle ELSE At(t, "type")
  <2>1. Goes(t, "test", r) /\ waitingStat' = waitingStat /\ beside' = beside
    BY <1>2 DEF Test, Steps
  <2>2. "at" \in DOMAIN r /\ r.at = IF waitingStat # {} THEN "idle" ELSE "type"
    BY IdleHasAt, AtHasAt
  <2>3. "idle" \notin Flying
    BY DEF Flying, Building
  <2> HIDE DEF r
  <2>4. /\ Shape' /\ thread'[t].at = r.at
        /\ \A u \in Threads \ {t} : thread'[u].at = thread[u].at
    BY <2>1, <2>2, GoesMoves
  <2> QED BY <2>1, <2>2, <2>3, <2>4, Harmless DEF Keeps
<1>3. ASSUME PutLastByte(t) PROVE IInv'
  <2> DEFINE r == IF Waits(t) THEN [Idle EXCEPT !.at = "ack_wait"] ELSE Idle
  <2>1. /\ Goes(t, "putc", r) /\ waitingStat' = waitingStat
        /\ beside' = IF t = "timer" /\ "query" \in waitingStat THEN beside + 1 ELSE beside
    BY <1>3 DEF PutLastByte
  <2>2. "at" \in DOMAIN r /\ r.at \in {"idle", "ack_wait"}
    BY DEF Idle
  <2>3. "idle" \notin Flying /\ "ack_wait" \notin Flying /\ "putc" \in Flying
    BY DEF Flying, Building
  <2> HIDE DEF r
  <2>4. /\ Shape' /\ thread'[t].at = r.at /\ thread[t].at = "putc"
        /\ \A u \in Threads \ {t} : thread'[u].at = thread[u].at
    BY <2>1, <2>2, GoesMoves
  <2>5. CASE t = "timer" /\ "query" \in waitingStat
    <3>1. InFlight /\ ~ InFlight'
      BY <2>2, <2>3, <2>4, <2>5 DEF InFlight
    <3>2. beside = 0
      BY <3>1
    <3>3. beside' = 1 /\ "query" \in waitingStat'
      BY <2>1, <2>5, <3>2
    <3> QED BY <2>4, <3>1, <3>3
  <2>6. CASE ~ (t = "timer" /\ "query" \in waitingStat)
    BY <2>1, <2>2, <2>3, <2>4, <2>6, Harmless DEF Keeps
  <2> QED BY <2>5, <2>6
<1> QED BY <1>1, <1>2, <1>3, StoreTypeStays, BuildingStays DEF Sends

LEMMA ShellHolds ==
  ASSUME IInv, WaitUntilFree \/ SetQuery \/ SetAck \/ AckWaitEnds \/ QueryWaitEnds
  PROVE  IInv'
<1> USE DEF IInv
<1>1. "shell" \in Threads /\ "timer" \in Threads \ {"shell"}
  BY DEF Threads
<1>2. ASSUME NEW from, NEW to, Goes("shell", from, Idle) \/ Goes("shell", from, At("shell", to)),
             Keeps
      PROVE  IInv'
  <2>1. /\ Shape'
        /\ \A u \in Threads \ {"shell"} : thread'[u].at = thread[u].at
    BY <1>1, <1>2, GoesMoves, AtHasAt, IdleHasAt
  <2> QED BY <1>1, <1>2, <2>1, Harmless
<1>3. ASSUME NEW from, NEW to,
             \/ Steps("shell", from, Idle) \/ Steps("shell", from, At("shell", to))
             \/ \E stat : LoadWord(from, to, stat)
             \/ StoreWord(from, Idle) \/ StoreWord(from, At("shell", to))
      PROVE  IInv'
  <2>1. Goes("shell", from, Idle) \/ Goes("shell", from, At("shell", to))
    BY <1>3 DEF Steps, LoadWord, StoreWord
  <2>2. Keeps
    BY <1>3 DEF Keeps, Steps, LoadWord, StoreWord, WordIs
  <2> QED BY <1>2, <2>1, <2>2
<1>4. \E from, to :
        \/ Steps("shell", from, Idle) \/ Steps("shell", from, At("shell", to))
        \/ \E stat : LoadWord(from, to, stat)
        \/ StoreWord(from, Idle) \/ StoreWord(from, At("shell", to))
  BY DEF WaitUntilFree, SetQuery, SetAck, AckWaitEnds, QueryWaitEnds
<1> QED BY <1>3, <1>4

LEMMA CallsHolds ==
  ASSUME IInv, Calls
  PROVE  IInv'
<1>1. ASSUME NEW t \in Threads, NEW to \in {"test", "busy_wait", "route"}, NEW messages,
             Call(t, to, messages)
      PROVE  IInv'
  <2> DEFINE r(m) == [Idle EXCEPT !.at = to, !.msg = m]
  <2>1. ASSUME NEW m PROVE "at" \in DOMAIN r(m) /\ r(m).at = to
    BY DEF Idle
  <2>2. \E m \in messages : Goes(t, "idle", r(m))
    BY <1>1 DEF Call
  <2>3. to \notin Flying
    BY DEF Flying, Building
  <2>4. waitingStat' = waitingStat /\ beside' = beside
    BY <1>1 DEF Call
  <2> HIDE DEF r
  <2>5. /\ Shape' /\ thread'[t].at = to
        /\ \A u \in Threads \ {t} : thread'[u].at = thread[u].at
    BY <2>1, <2>2, GoesMoves DEF IInv
  <2> QED BY <2>3, <2>4, <2>5, Harmless DEF Keeps
<1> QED BY <1>1 DEF Calls, Threads

LEMMA StepHolds ==
  ASSUME IInv, [Next]_vars
  PROVE  IInv'
<1>1. ASSUME ReplyTest \/ ReplyLoad \/ ReplyStore
      PROVE  IInv'
  <2>1. thread' = thread
    BY <1>1 DEF ReplyTest, ReplyLoad, ReplyStore, UartDoes
  <2>2. Keeps
    BY <1>1 DEF Keeps, ReplyTest, ReplyLoad, ReplyStore, WordIs
  <2> QED BY <2>1, <2>2 DEF IInv, Shape, InFlight, Keeps
<1>2. ASSUME RouteByte \/ RouteEnds
      PROVE  IInv'
  <2>1. "timer" \in Threads
    BY DEF Threads
  <2>2. thread["timer"].at = "route" /\ "route" \notin Flying /\ "idle" \notin Flying
    BY <1>2 DEF RouteByte, RouteEnds, Steps, Goes, Flying, Building
  <2>3. waitingStat' = waitingStat /\ beside' = beside
    BY <1>2 DEF RouteByte, RouteEnds, Steps
  <2>4. CASE RouteByte
    <3>1. ASSUME NEW u \in Threads
          PROVE  "at" \in DOMAIN thread'[u] /\ thread'[u].at = thread[u].at
      BY <2>4 DEF RouteByte, IInv, Shape
    <3>2. DOMAIN thread' = Threads
      BY <2>4 DEF RouteByte
    <3> QED BY <2>1, <2>2, <2>3, <3>1, <3>2, Harmless DEF Shape, Keeps
  <2>5. CASE RouteEnds
    <3>1. Goes("timer", "route", Idle)
      BY <2>5 DEF RouteEnds, Steps
    <3>2. /\ Shape' /\ thread'["timer"].at = "idle"
          /\ \A u \in Threads \ {"timer"} : thread'[u].at = thread[u].at
      BY <2>1, <3>1, IdleHasAt, GoesMoves DEF IInv
    <3> QED BY <2>1, <2>2, <2>3, <3>2, Harmless DEF Keeps
  <2> QED BY <1>2, <2>4, <2>5
<1>3. ASSUME UNCHANGED vars
      PROVE  IInv'
  BY <1>3 DEF vars, IInv, Shape, InFlight
<1> QED BY <1>1, <1>2, <1>3, SendsHolds, ShellHolds, CallsHolds DEF Next

-----------------------------------------------------------------------------
(* For as long as QUERY stays set, protocalSendCmd gets out at most the package of
   the timer thread that had passed the busy test before, whatever else either
   thread sends and whatever the stores of three threads do to waitingStat. *)
THEOREM QueryIsHardlyDisturbed == Spec => []AtMostOneBesideQuery
<1>1. Init => IInv
  <2> SUFFICES ASSUME Init PROVE IInv
    OBVIOUS
  <2>1. Shape
    BY IdleHasAt DEF Init, Shape
  <2> QED BY <2>1 DEF Init, IInv
<1>2. IInv /\ [Next]_vars => IInv'
  BY StepHolds
<1>3. IInv => AtMostOneBesideQuery
  BY DEF IInv, AtMostOneBesideQuery
<1> QED BY <1>1, <1>2, <1>3, PTL DEF Spec

-----------------------------------------------------------------------------
(* Types.  A thread's locals keep to theirs because of where it is: its index
   runs inside its own package, which is shorter than package[32]. *)

Sized(r) ==
    /\ r \in ThreadType
    /\ r.at = "putc" => r.i < r.len
    /\ r.at = "sum" => r.i <= Len(r.msg.data) + 7

SharedType ==
    /\ package \in [1..PROTOCAL_MAX_PACKAGE_LENGTH -> Byte]
    /\ packageSize \in 0..PROTOCAL_MAX_PACKAGE_LENGTH
    /\ waitingStat \subseteq Bits
    /\ loaded \subseteq Bits
    /\ uart \in [at : UartPoints, bit : Bits, stat : SUBSET Bits]
    /\ calls \in 0..MaxCalls

(* A size has been stored once a thread is about to send. *)
SizeStored == \A t \in Threads : thread[t].at \in {"ack_load", "ack_store", "send"} => packageSize >= 8

TInv ==
    /\ SharedType
    /\ DOMAIN thread = Threads /\ thread \in [Threads -> ThreadType]
    /\ \A t \in Threads : Sized(thread[t])
    /\ SizeStored

LEMMA MessageTypes ==
  ASSUME NEW m \in Messages
  PROVE  /\ m.type \in Byte /\ m.cmd \in Byte /\ m.data \in Seq(Byte)
         /\ Len(m.data) \in 0..PROTOCAL_MAX_DATA_LENGTH
<1>1. CASE m = Idle.msg
  <2>1. m.type = 0 /\ m.cmd = 0 /\ m.data = << >>
    BY <1>1 DEF Idle
  <2>2. Len(m.data) = 0 /\ m.data \in Seq(Byte)
    BY <2>1
  <2>3. 0 \in Byte /\ 0 \in 0..PROTOCAL_MAX_DATA_LENGTH
    BY DEF Byte, PROTOCAL_MAX_DATA_LENGTH, PROTOCAL_MAX_PACKAGE_LENGTH
  <2>4. m.type \in Byte /\ m.cmd \in Byte
    BY <2>1, <2>3, Zenon
  <2>5. Len(m.data) \in 0..PROTOCAL_MAX_DATA_LENGTH
    BY <2>2, <2>3, Zenon
  <2> QED BY <2>2, <2>4, <2>5
<1>2. CASE m \in Settings \cup Queries \cup Answers \cup Routed
  <2>1. /\ m.type \in Byte /\ m.cmd \in Byte /\ m.data \in Seq(Byte)
        /\ Len(m.data) <= PROTOCAL_MAX_DATA_LENGTH
    BY <1>2, SendAssumption
  <2>2. Len(m.data) \in Nat
    BY <2>1
  <2>3. ASSUME NEW k \in Nat, k <= PROTOCAL_MAX_DATA_LENGTH
        PROVE  k \in 0..PROTOCAL_MAX_DATA_LENGTH
    BY <2>3 DEF PROTOCAL_MAX_DATA_LENGTH, PROTOCAL_MAX_PACKAGE_LENGTH
  <2> QED BY <2>1, <2>2, <2>3, Zenon
<1> QED BY <1>1, <1>2 DEF Messages

LEMMA IdleSized == Sized(Idle) /\ Idle.at = "idle"
<1>1. Idle.msg \in Messages
  BY DEF Messages
<1>2. /\ Idle = [at |-> "idle", msg |-> Idle.msg, i |-> 0, sum |-> 0, len |-> 0,
                 alone |-> TRUE, whole |-> TRUE]
  BY DEF Idle
<1>3. "idle" \in Points
  BY DEF Points
<1>4. 0 \in Byte /\ 0 \in 0..PROTOCAL_MAX_PACKAGE_LENGTH
  BY DEF Byte, PROTOCAL_MAX_PACKAGE_LENGTH
<1>5. ASSUME NEW m \in Messages
      PROVE  [at |-> "idle", msg |-> m, i |-> 0, sum |-> 0, len |-> 0,
              alone |-> TRUE, whole |-> TRUE] \in ThreadType
  BY <1>3, <1>4 DEF ThreadType
<1>6. Idle \in ThreadType
  BY <1>1, <1>2, <1>5, Zenon
<1> QED BY <1>2, <1>6 DEF Sized

(* A thread moved to another point, with or without other locals *)
LEMMA MovedSized ==
  ASSUME NEW r \in ThreadType, NEW to \in Points \ {"putc", "sum"}
  PROVE  Sized([r EXCEPT !.at = to]) /\ [r EXCEPT !.at = to].at = to
  BY DEF Sized, ThreadType

LEMMA MovedTo ==
  ASSUME NEW r \in ThreadType, NEW to \in Points, NEW alone \in BOOLEAN
  PROVE  LET q == [[r EXCEPT !.at = to] EXCEPT !.alone = alone]
         IN  q \in ThreadType /\ q.at = to
  BY DEF ThreadType

LEMMA NotAlone ==
  ASSUME NEW r, Sized(r), NEW alone \in BOOLEAN
  PROVE  Sized([r EXCEPT !.alone = alone]) /\ [r EXCEPT !.alone = alone].at = r.at
  BY DEF Sized, ThreadType

LEMMA CalledTyped ==
  ASSUME NEW m \in Messages, NEW to \in Points \ {"putc", "sum"}
  PROVE  LET q == [Idle EXCEPT !.at = to, !.msg = m]
         IN  Sized(q) /\ q.at = to
<1>1. Idle \in ThreadType
  BY IdleSized DEF Sized
<1> QED BY <1>1 DEF Sized, ThreadType

LEMMA SumBegins ==
  ASSUME NEW r \in ThreadType
  PROVE  LET q == [[r EXCEPT !.at = "sum"] EXCEPT !.i = 4, !.sum = 0]
         IN  Sized(q) /\ q.at = "sum"
<1>1. "sum" \in Points
  BY DEF Points, Building
<1>2. r.msg \in Messages
  BY DEF ThreadType
<1>3. 4 \in 0..PROTOCAL_MAX_PACKAGE_LENGTH /\ 0 \in Byte /\ 4 <= Len(r.msg.data) + 7
  BY <1>2, MessageTypes DEF PROTOCAL_MAX_PACKAGE_LENGTH, PROTOCAL_MAX_DATA_LENGTH, Byte
<1> QED BY <1>1, <1>3 DEF Sized, ThreadType

LEMMA OneMore ==
  ASSUME NEW i \in 0..PROTOCAL_MAX_PACKAGE_LENGTH, NEW k \in 0..PROTOCAL_MAX_DATA_LENGTH,
         i < k + 7
  PROVE  i + 1 \in 0..PROTOCAL_MAX_PACKAGE_LENGTH /\ i + 1 <= k + 7
  BY DEF PROTOCAL_MAX_PACKAGE_LENGTH, PROTOCAL_MAX_DATA_LENGTH

LEMMA SumGoesOn ==
  ASSUME NEW r \in ThreadType, r.at = "sum", NEW n \in Byte, r.i < Len(r.msg.data) + 7
  PROVE  LET q == [r EXCEPT !.i = r.i + 1, !.sum = n]
         IN  Sized(q) /\ q.at = "sum"
<1>1. r.msg \in Messages /\ r.i \in 0..PROTOCAL_MAX_PACKAGE_LENGTH
  BY DEF ThreadType
<1>2. Len(r.msg.data) \in 0..PROTOCAL_MAX_DATA_LENGTH
  BY <1>1, MessageTypes
<1>3. /\ r.i + 1 \in 0..PROTOCAL_MAX_PACKAGE_LENGTH
      /\ r.i + 1 <= Len(r.msg.data) + 7
  BY <1>1, <1>2, OneMore, Zenon
<1> DEFINE j == r.i + 1
           q == [r EXCEPT !.i = j, !.sum = n]
<1> HIDE DEF j
<1>4. q \in ThreadType /\ q.at = "sum" /\ q.i = j /\ q.msg = r.msg
  BY <1>3 DEF ThreadType, j
<1> QED BY <1>3, <1>4 DEF Sized, j

LEMMA SendBegins ==
  ASSUME NEW r \in ThreadType, NEW n \in 8..PROTOCAL_MAX_PACKAGE_LENGTH
  PROVE  LET q == [[r EXCEPT !.at = "putc"] EXCEPT !.i = 0, !.len = n]
         IN  Sized(q) /\ q.at = "putc"
<1>1. "putc" \in Points
  BY DEF Points, Building
<1>2. /\ 0 \in 0..PROTOCAL_MAX_PACKAGE_LENGTH /\ n \in 0..PROTOCAL_MAX_PACKAGE_LENGTH
      /\ 0 < n
  BY DEF PROTOCAL_MAX_PACKAGE_LENGTH
<1> QED BY <1>1, <1>2 DEF Sized, ThreadType

LEMMA SendGoesOn ==
  ASSUME NEW r, Sized(r), r.at = "putc", r.i + 1 # r.len, NEW whole \in BOOLEAN
  PROVE  LET q == [r EXCEPT !.i = r.i + 1, !.whole = whole]
         IN  Sized(q) /\ q.at = "putc"
<1>1. /\ r \in ThreadType /\ r.i < r.len
      /\ r.i \in 0..PROTOCAL_MAX_PACKAGE_LENGTH /\ r.len \in 0..PROTOCAL_MAX_PACKAGE_LENGTH
  BY DEF Sized, ThreadType
<1>2. r.i + 1 \in 0..PROTOCAL_MAX_PACKAGE_LENGTH /\ r.i + 1 < r.len
  BY <1>1 DEF PROTOCAL_MAX_PACKAGE_LENGTH
<1> DEFINE j == r.i + 1
           q == [r EXCEPT !.i = j, !.whole = whole]
<1> HIDE DEF j
<1>3. q \in ThreadType /\ q.at = "putc" /\ q.i = j /\ q.len = r.len
  BY <1>1, <1>2 DEF ThreadType, j
<1> QED BY <1>2, <1>3 DEF Sized, j

(* A step of one thread keeps the types if its own record and what is shared
   keep theirs. *)
LEMMA ThreadHolds ==
  ASSUME TInv, NEW t \in Threads, NEW from, NEW r, Sized(r), Goes(t, from, r), SharedType',
         packageSize' >= packageSize \/ packageSize' >= 8,
         r.at \in {"ack_load", "ack_store", "send"} => packageSize' >= 8
  PROVE  TInv'
<1>1. /\ DOMAIN thread' = Threads /\ thread'[t] = r
      /\ \A u \in Threads \ {t} : thread'[u] = thread[u]
      /\ thread' = [u \in Threads |-> IF u = t THEN r ELSE thread[u]]
  BY DEF TInv, Goes
<1>2. \A u \in Threads : Sized(thread'[u])
  BY <1>1 DEF TInv
<1>3. thread' \in [Threads -> ThreadType]
  BY <1>1, <1>2 DEF Sized
<1>4. packageSize \in Nat /\ packageSize' \in Nat
  BY DEF TInv, SharedType, PROTOCAL_MAX_PACKAGE_LENGTH
<1>5. SizeStored'
  BY <1>1, <1>4 DEF TInv, SizeStored
<1> QED BY <1>1, <1>2, <1>3, <1>5 DEF TInv

LEMMA StepsHold ==
  ASSUME TInv, NEW t \in Threads, NEW from, NEW r, Sized(r), r.at \notin {"ack_load", "ack_store", "send"},
         Steps(t, from, r)
  PROVE  TInv'
<1>1. Goes(t, from, r) /\ UNCHANGED <<package, packageSize, waitingStat, loaded, uart, calls>>
  BY DEF Steps
<1>2. SharedType' /\ packageSize' >= packageSize
  BY <1>1 DEF TInv, SharedType, PROTOCAL_MAX_PACKAGE_LENGTH
<1> QED BY <1>1, <1>2, ThreadHolds

LEMMA StoresHold ==
  ASSUME TInv, NEW t \in Threads, NEW from, NEW r, Sized(r), r.at \notin {"ack_load", "ack_store", "send"},
         NEW p \in [1..PROTOCAL_MAX_PACKAGE_LENGTH -> Byte], Stores(t, from, r, p)
  PROVE  TInv'
<1>1. Goes(t, from, r) /\ package' = p /\ UNCHANGED <<packageSize, waitingStat, loaded, uart, calls>>
  BY DEF Stores
<1>2. SharedType' /\ packageSize' >= packageSize
  BY <1>1 DEF TInv, SharedType, PROTOCAL_MAX_PACKAGE_LENGTH
<1> QED BY <1>1, <1>2, ThreadHolds

LEMMA ThreadTypes ==
  ASSUME TInv, NEW t \in Threads
  PROVE  /\ thread[t] \in ThreadType /\ Sized(thread[t]) /\ thread[t].msg \in Messages
         /\ thread[t].i \in 0..PROTOCAL_MAX_PACKAGE_LENGTH
         /\ Len(thread[t].msg.data) \in 0..PROTOCAL_MAX_DATA_LENGTH
<1>1. thread[t] \in ThreadType /\ Sized(thread[t])
  BY DEF TInv
<1>2. thread[t].msg \in Messages /\ thread[t].i \in 0..PROTOCAL_MAX_PACKAGE_LENGTH
  BY <1>1 DEF ThreadType
<1> QED BY <1>1, <1>2, MessageTypes

(* A package with one byte changed, and a byte of a package *)
LEMMA StoredBytes ==
  ASSUME TInv, NEW b \in Byte, NEW j
  PROVE  [package EXCEPT ![j] = b] \in [1..PROTOCAL_MAX_PACKAGE_LENGTH -> Byte]
  BY DEF TInv, SharedType

LEMMA CallTypes ==
  ASSUME TInv, NEW t \in Threads, NEW to \in {"test", "busy_wait", "route"},
         NEW messages \in SUBSET (Settings \cup Queries \cup Answers \cup Routed), Call(t, to, messages)
  PROVE  TInv'
<1> DEFINE q(m) == [Idle EXCEPT !.at = to, !.msg = m]
<1>1. PICK m \in messages : Goes(t, "idle", q(m))
  BY Zenon DEF Call
<1>2. /\ calls' = calls + 1 /\ calls < MaxCalls
      /\ UNCHANGED <<package, packageSize, waitingStat, loaded, uart>>
  BY Zenon DEF Call
<1>3. m \in Messages /\ to \in Points \ {"putc", "sum"}
  BY DEF Messages, Points
<1>4. Sized(q(m)) /\ q(m).at = to
  BY <1>3, CalledTyped
<1>5. SharedType' /\ packageSize' >= packageSize
  <2>1. /\ calls \in 0..MaxCalls /\ MaxCalls \in Nat
        /\ packageSize \in 0..PROTOCAL_MAX_PACKAGE_LENGTH
    BY SendAssumption DEF TInv, SharedType
  <2>2. calls' \in 0..MaxCalls
    BY <1>2, <2>1
  <2>3. packageSize' >= packageSize
    BY <1>2, <2>1 DEF PROTOCAL_MAX_PACKAGE_LENGTH
  <2> QED BY <1>2, <2>2, <2>3 DEF TInv, SharedType
<1> HIDE DEF q
<1> QED BY <1>1, <1>4, <1>5, ThreadHolds

LEMMA StoreTypeTypes ==
  ASSUME TInv, NEW t \in Threads, StoreType(t)
  PROVE  TInv'
<1> DEFINE used == \E u \in Threads \ {t} : thread[u].at \in Building
           r == [At(t, "length") EXCEPT !.alone = ~ used]
<1>1. /\ package' = [package EXCEPT ![5] = thread[t].msg.type]
      /\ UNCHANGED <<packageSize, waitingStat, loaded, uart, calls>>
      /\ thread' = [u \in Threads |-> IF u = t THEN r
                                      ELSE [thread[u] EXCEPT !.alone = @ /\ ~ used]]
  BY DEF StoreType
<1>2. used \in BOOLEAN
  OBVIOUS
<1> HIDE DEF used
<1>3. "length" \in Points
  BY DEF Points, Building
<1>4. r \in ThreadType /\ r.at = "length"
  BY ZenonT(60), <1>2, <1>3, ThreadTypes, MovedTo DEF At
<1>5. Sized(r)
  BY <1>4 DEF Sized
<1>6. ASSUME NEW u \in Threads \ {t}
      PROVE  Sized(thread'[u]) /\ thread'[u].at = thread[u].at
  <2>1. (thread[u].alone /\ ~ used) \in BOOLEAN
    OBVIOUS
  <2>2. thread'[u] = [thread[u] EXCEPT !.alone = thread[u].alone /\ ~ used]
    BY <1>1
  <2> QED BY ZenonT(60), <2>1, <2>2, ThreadTypes, NotAlone
<1> HIDE DEF r
<1>7. DOMAIN thread' = Threads /\ thread'[t] = r
  BY <1>1
<1>8. \A u \in Threads : Sized(thread'[u])
  BY <1>5, <1>6, <1>7
<1>9. thread' \in [Threads -> ThreadType]
  BY <1>1, <1>7, <1>8 DEF Sized
<1>10. thread[t].msg.type \in Byte
  BY ThreadTypes, MessageTypes
<1>11. package' \in [1..PROTOCAL_MAX_PACKAGE_LENGTH -> Byte]
  BY <1>1, <1>10, StoredBytes
<1>12. SharedType'
  BY <1>1, <1>11 DEF TInv, SharedType
<1>13. SizeStored'
  BY <1>1, <1>4, <1>6, <1>7 DEF TInv, SizeStored
<1> QED BY <1>7, <1>8, <1>9, <1>12, <1>13 DEF TInv

LEMMA BuildTypes ==
  ASSUME TInv, NEW t \in Threads,
         StoreLength(t) \/ StoreCmd(t) \/ CopyData(t) \/ Sum(t) \/ StoreSum(t)
  PROVE  TInv'
<1> DEFINE k == Len(thread[t].msg.data)
<1>1. /\ thread[t] \in ThreadType /\ Sized(thread[t]) /\ thread[t].msg \in Messages
      /\ k \in 0..PROTOCAL_MAX_DATA_LENGTH
  BY ThreadTypes
<1>2. {"cmd", "data", "sum", "size", "store_sum"} \subseteq Points
  BY DEF Points, Building
<1>3. ASSUME StoreLength(t) PROVE TInv'
  <2>1. k + 2 \in Byte
    <3> HIDE DEF k
    <3> QED BY <1>1 DEF Byte, PROTOCAL_MAX_DATA_LENGTH, PROTOCAL_MAX_PACKAGE_LENGTH
  <2>2. Stores(t, "length", At(t, "cmd"), [package EXCEPT ![6] = k + 2])
    BY <1>3, Zenon DEF StoreLength
  <2>3. Sized(At(t, "cmd")) /\ At(t, "cmd").at = "cmd"
    BY <1>1, <1>2, MovedSized DEF At
  <2> HIDE DEF k
  <2> QED BY <2>1, <2>2, <2>3, StoredBytes, StoresHold
<1>4. ASSUME StoreCmd(t) PROVE TInv'
  <2>1. thread[t].msg.cmd \in Byte
    BY <1>1, MessageTypes
  <2>2. Stores(t, "cmd", At(t, "data"), [package EXCEPT ![7] = thread[t].msg.cmd])
    BY <1>4, Zenon DEF StoreCmd
  <2>3. Sized(At(t, "data")) /\ At(t, "data").at = "data"
    BY <1>1, <1>2, MovedSized DEF At
  <2> QED BY <2>1, <2>2, <2>3, StoredBytes, StoresHold
<1>5. ASSUME CopyData(t) PROVE TInv'
  <2> DEFINE data == thread[t].msg.data
             r == [At(t, "sum") EXCEPT !.i = 4, !.sum = 0]
             p == [i \in DOMAIN package |->
                    IF i - 7 \in DOMAIN data THEN data[i - 7] ELSE package[i]]
  <2>1. Stores(t, "data", r, p)
    BY <1>5, Zenon DEF CopyData
  <2>2. Sized(r) /\ r.at = "sum"
    BY <1>1, SumBegins DEF At
  <2>3. data \in Seq(Byte)
    BY <1>1, MessageTypes
  <2>4. \A j \in DOMAIN data : data[j] \in Byte
    BY <2>3
  <2>5. package \in [1..PROTOCAL_MAX_PACKAGE_LENGTH -> Byte]
    BY DEF TInv, SharedType
  <2>6. p \in [1..PROTOCAL_MAX_PACKAGE_LENGTH -> Byte]
    <3> HIDE DEF data
    <3> QED BY <2>4, <2>5, Zenon
  <2> HIDE DEF r, p
  <2> QED BY <2>1, <2>2, <2>6, StoresHold
<1>6. ASSUME Sum(t) PROVE TInv'
  <2> DEFINE i == thread[t].i
             n == (thread[t].sum + package[i + 1]) % 256
             r == IF i < k + 7 THEN [thread[t] EXCEPT !.i = i + 1, !.sum = n]
                  ELSE At(t, "store_sum")
  <2>1. Steps(t, "sum", r)
    BY <1>6 DEF Sum
  <2>2. thread[t].at = "sum"
    BY <2>1 DEF Steps, Goes
  <2>3. CASE i < k + 7
    <3>1. i + 1 \in 1..PROTOCAL_MAX_PACKAGE_LENGTH
      <4>1. i \in 0..PROTOCAL_MAX_PACKAGE_LENGTH
        BY ThreadTypes
      <4> HIDE DEF i, k
      <4> QED BY <1>1, <2>3, <4>1 DEF PROTOCAL_MAX_PACKAGE_LENGTH, PROTOCAL_MAX_DATA_LENGTH
    <3>2. thread[t].sum \in Byte
      BY <1>1 DEF ThreadType
    <3>3. package[i + 1] \in Byte
      <4> HIDE DEF i
      <4> QED BY <3>1 DEF TInv, SharedType
    <3>4. ASSUME NEW a \in Byte, NEW b \in Byte PROVE (a + b) % 256 \in Byte
      BY DEF Byte
    <3>5. n \in Byte
      BY <3>2, <3>3, <3>4, Zenon
    <3>6. r = [thread[t] EXCEPT !.i = thread[t].i + 1, !.sum = n]
      BY <2>3, Zenon
    <3> HIDE DEF n
    <3>7. Sized([thread[t] EXCEPT !.i = thread[t].i + 1, !.sum = n])
          /\ [thread[t] EXCEPT !.i = thread[t].i + 1, !.sum = n].at = "sum"
      BY <1>1, <2>2, <2>3, <3>5, SumGoesOn, Zenon
    <3>8. Sized(r) /\ r.at = "sum"
      BY <3>6, <3>7, Zenon
    <3> HIDE DEF r
    <3> QED BY <2>1, <3>8, StepsHold
  <2>4. CASE ~ (i < k + 7)
    <3>1. r = At(t, "store_sum")
      BY <2>4, Zenon
    <3>2. Sized(At(t, "store_sum")) /\ At(t, "store_sum").at = "store_sum"
      BY <1>1, <1>2, MovedSized DEF At
    <3> HIDE DEF r
    <3> QED BY <2>1, <3>1, <3>2, StepsHold
  <2> QED BY <2>3, <2>4
<1>7. ASSUME StoreSum(t) PROVE TInv'
  <2>1. thread[t].sum \in Byte
    BY <1>1 DEF ThreadType
  <2>2. Stores(t, "store_sum", At(t, "size"), [package EXCEPT ![k + 8] = thread[t].sum])
    BY <1>7, Zenon DEF StoreSum
  <2>3. Sized(At(t, "size")) /\ At(t, "size").at = "size"
    BY <1>1, <1>2, MovedSized DEF At
  <2> HIDE DEF k
  <2> QED BY <2>1, <2>2, <2>3, StoredBytes, StoresHold
<1> QED BY <1>3, <1>4, <1>5, <1>6, <1>7

LEMMA SendTypes ==
  ASSUME TInv, NEW t \in Threads,
         Test(t) \/ StoreSize(t) \/ Send(t) \/ PutByte(t) \/ PutLastByte(t)
  PROVE  TInv'
<1> DEFINE k == Len(thread[t].msg.data)
<1>1. /\ thread[t] \in ThreadType /\ Sized(thread[t])
      /\ k \in 0..PROTOCAL_MAX_DATA_LENGTH
  BY ThreadTypes
<1>2. {"type", "ack_load", "ack_store", "send", "ack_wait"} \subseteq Points
  BY DEF Points, Building
<1>3. ASSUME Test(t) PROVE TInv'
  <2> DEFINE r == IF waitingStat # {} THEN Idle ELSE At(t, "type")
  <2>1. Steps(t, "test", r)
    BY <1>3 DEF Test
  <2>2. Sized(At(t, "type")) /\ At(t, "type").at = "type"
    BY <1>1, <1>2, MovedSized DEF At
  <2>3. Sized(r) /\ r.at \in {"idle", "type"}
    BY <2>2, IdleSized
  <2> HIDE DEF r
  <2> QED BY <2>1, <2>3, StepsHold
<1>4. ASSUME StoreSize(t) PROVE TInv'
  <2> DEFINE to == IF Waits(t) THEN "ack_load" ELSE "send"
             r == At(t, to)
  <2>1. /\ Goes(t, "size", r) /\ packageSize' = k + 8
        /\ UNCHANGED <<package, waitingStat, loaded, uart, calls>>
    BY <1>4, Zenon DEF StoreSize
  <2>2. to \in {"ack_load", "ack_store", "send"}
    OBVIOUS
  <2> HIDE DEF to
  <2>3. Sized(r)
    BY <1>1, <1>2, <2>2, MovedSized DEF At
  <2> HIDE DEF k
  <2>4. k + 8 \in 0..PROTOCAL_MAX_PACKAGE_LENGTH /\ k + 8 >= 8
    BY <1>1 DEF PROTOCAL_MAX_DATA_LENGTH, PROTOCAL_MAX_PACKAGE_LENGTH
  <2>5. SharedType' /\ packageSize' >= 8
    BY <2>1, <2>4 DEF TInv, SharedType
  <2> HIDE DEF r
  <2> QED BY <2>1, <2>3, <2>5, ThreadHolds
<1>5. ASSUME Send(t) PROVE TInv'
  <2> DEFINE n == packageSize
             r == [At(t, "putc") EXCEPT !.i = 0, !.len = n]
  <2>1. Steps(t, "send", r)
    BY <1>5, Zenon DEF Send
  <2>2. thread[t].at = "send"
    BY <2>1 DEF Steps, Goes
  <2>3. n \in 8..PROTOCAL_MAX_PACKAGE_LENGTH
    BY <2>2 DEF TInv, SizeStored, SharedType, PROTOCAL_MAX_PACKAGE_LENGTH
  <2> HIDE DEF n
  <2>4. Sized(r) /\ r.at = "putc"
    BY <1>1, <2>3, SendBegins DEF At
  <2> HIDE DEF r
  <2> QED BY <2>1, <2>4, StepsHold
<1>6. ASSUME PutByte(t) PROVE TInv'
  <2> DEFINE whole == StillWhole(t)
             r == [thread[t] EXCEPT !.i = thread[t].i + 1, !.whole = whole]
  <2>1. Steps(t, "putc", r) /\ thread[t].i + 1 # thread[t].len
    BY <1>6, Zenon DEF PutByte, LastByte
  <2>2. thread[t].at = "putc"
    BY <2>1 DEF Steps, Goes
  <2>3. whole \in BOOLEAN
    <3>1. thread[t].whole \in BOOLEAN
      BY <1>1 DEF ThreadType
    <3> QED BY <3>1 DEF StillWhole
  <2> HIDE DEF whole
  <2>4. Sized(r) /\ r.at = "putc"
    BY <1>1, <2>1, <2>2, <2>3, SendGoesOn, Zenon
  <2> HIDE DEF r
  <2> QED BY <2>1, <2>4, StepsHold
<1>7. ASSUME PutLastByte(t) PROVE TInv'
  <2> DEFINE r == IF Waits(t) THEN [Idle EXCEPT !.at = "ack_wait"] ELSE Idle
  <2>1. Goes(t, "putc", r) /\ UNCHANGED <<package, packageSize, waitingStat, loaded, uart, calls>>
    BY <1>7, Zenon DEF PutLastByte
  <2>2. Sized([Idle EXCEPT !.at = "ack_wait"]) /\ [Idle EXCEPT !.at = "ack_wait"].at = "ack_wait"
    BY <1>2, IdleSized, MovedSized DEF Sized
  <2>3. Sized(r) /\ r.at \in {"idle", "ack_wait"}
    BY <2>2, IdleSized
  <2>4. SharedType' /\ packageSize' >= packageSize
    BY <2>1 DEF TInv, SharedType, PROTOCAL_MAX_PACKAGE_LENGTH
  <2> HIDE DEF r
  <2> QED BY <2>1, <2>3, <2>4, ThreadHolds
<1> QED BY <1>3, <1>4, <1>5, <1>6, <1>7

LEMMA QueryTypes ==
  ASSUME TInv, WaitUntilFree \/ SetQuery \/ SetAck \/ AckWaitEnds \/ QueryWaitEnds
  PROVE  TInv'
<1> DEFINE Places == {"query_load", "query_store", "type", "ack_store", "send", "query_wait",
                      "ack_clear"}
<1>1. "shell" \in Threads /\ thread["shell"] \in ThreadType
  BY ThreadTypes DEF Threads
<1>2. Places \subseteq Points
  BY DEF Points, Building
<1>3. ASSUME NEW to \in Places
      PROVE  Sized(At("shell", to)) /\ At("shell", to).at = to
  BY <1>1, <1>2, MovedSized DEF At
<1>4. ASSUME NEW from, NEW r, Sized(r), Goes("shell", from, r),
             r.at \in {"ack_load", "ack_store", "send"} => from \in {"ack_load", "ack_store"},
             waitingStat' \subseteq Bits, loaded' \subseteq Bits,
             UNCHANGED <<package, packageSize, uart, calls>>
      PROVE  TInv'
  <2>1. SharedType' /\ packageSize' >= packageSize
    BY <1>4 DEF TInv, SharedType, PROTOCAL_MAX_PACKAGE_LENGTH
  <2>2. thread["shell"].at = from
    BY <1>4 DEF Goes
  <2>3. r.at \in {"ack_load", "ack_store", "send"} => packageSize' >= 8
    BY <1>1, <1>4, <2>2 DEF TInv, SizeStored
  <2> QED BY <1>1, <1>4, <2>1, <2>3, ThreadHolds
<1>5. waitingStat \subseteq Bits /\ loaded \subseteq Bits
  BY DEF TInv, SharedType
<1>6. ASSUME NEW from, NEW to \in Places, Steps("shell", from, At("shell", to)),
             to \notin {"ack_store", "send"}
      PROVE  TInv'
  BY <1>3, <1>4, <1>5, <1>6 DEF Steps
<1>7. ASSUME NEW from, Steps("shell", from, Idle) PROVE TInv'
  BY <1>4, <1>5, <1>7, IdleSized DEF Steps
<1>8. ASSUME NEW from, NEW to \in Places, NEW stat \in SUBSET Bits, LoadWord(from, to, stat),
             to \in {"ack_store", "send"} => from = "ack_load"
      PROVE  TInv'
  BY <1>3, <1>4, <1>5, <1>8 DEF LoadWord
<1>9. ASSUME NEW from, NEW to \in Places, StoreWord(from, At("shell", to)),
             to \in {"ack_store", "send"} => from = "ack_store"
      PROVE  TInv'
  BY <1>3, <1>4, <1>5, <1>9 DEF StoreWord, WordIs
<1>10. ASSUME NEW from, StoreWord(from, Idle) PROVE TInv'
  BY <1>4, <1>5, <1>10, IdleSized DEF StoreWord, WordIs
<1>11. /\ waitingStat \cup {"query"} \in SUBSET Bits /\ waitingStat \cup {"ack"} \in SUBSET Bits
       /\ waitingStat \ {"ack"} \in SUBSET Bits
  BY <1>5 DEF Bits
<1>12. ASSUME WaitUntilFree \/ QueryWaitEnds PROVE TInv'
  BY <1>6, <1>7, <1>12 DEF WaitUntilFree, QueryWaitEnds
<1>13. ASSUME SetQuery PROVE TInv'
  BY <1>8, <1>9, <1>11, <1>13 DEF SetQuery
<1>14. ASSUME SetAck PROVE TInv'
  BY <1>8, <1>9, <1>11, <1>14 DEF SetAck
<1>15. ASSUME AckWaitEnds PROVE TInv'
  BY <1>6, <1>7, <1>8, <1>10, <1>11, <1>15 DEF AckWaitEnds
<1> QED BY <1>12, <1>13, <1>14, <1>15

LEMMA RouteTypes ==
  ASSUME TInv, RouteByte \/ RouteEnds
  PROVE  TInv'
<1>1. "timer" \in Threads
  BY DEF Threads
<1>2. ASSUME RouteEnds PROVE TInv'
  BY <1>1, <1>2, IdleSized, StepsHold DEF RouteEnds
<1>3. ASSUME RouteByte PROVE TInv'
  <2> DEFINE t == thread["timer"]
             alone(u) == thread[u].alone /\ thread[u].at \notin Building
  <2>1. /\ t \in ThreadType /\ t.i \in 0..PROTOCAL_MAX_PACKAGE_LENGTH
        /\ Len(t.msg.data) \in 0..PROTOCAL_MAX_DATA_LENGTH
    BY <1>1, ThreadTypes
  <2>2. t.at = "route" /\ t.i < Len(t.msg.data)
    BY <1>3 DEF RouteByte
  <2>3. t.i + 1 \in 0..PROTOCAL_MAX_PACKAGE_LENGTH
    <3>1. ASSUME NEW j \in 0..32, NEW n \in 0..24, j < n PROVE j + 1 \in 0..32
      BY ONLY j \in 0..32, n \in 0..24, j < n
    <3>2. PROTOCAL_MAX_PACKAGE_LENGTH = 32 /\ PROTOCAL_MAX_DATA_LENGTH = 24
      BY DEF PROTOCAL_MAX_PACKAGE_LENGTH, PROTOCAL_MAX_DATA_LENGTH
    <3> HIDE DEF t
    <3> QED BY <2>1, <2>2, <3>1, <3>2
  <2>4. thread' = [u \in Threads |-> IF u = "timer" THEN [t EXCEPT !.i = t.i + 1]
                                     ELSE [thread[u] EXCEPT !.alone = alone(u)]]
    BY <1>3 DEF RouteByte
  <2>5. Sized([t EXCEPT !.i = t.i + 1]) /\ [t EXCEPT !.i = t.i + 1].at = "route"
    <3> DEFINE j == t.i + 1
    <3>1. j \in 0..PROTOCAL_MAX_PACKAGE_LENGTH
      BY <2>3
    <3> HIDE DEF t, j
    <3>2. [t EXCEPT !.i = j] \in ThreadType /\ [t EXCEPT !.i = j].at = "route"
      BY <2>1, <2>2, <3>1 DEF ThreadType
    <3>3. Sized([t EXCEPT !.i = j])
      BY <3>2 DEF Sized
    <3> QED BY <3>2, <3>3 DEF j
  <2>6. ASSUME NEW u \in Threads \ {"timer"}
        PROVE  Sized(thread'[u]) /\ thread'[u].at = thread[u].at
    <3>1. alone(u) \in BOOLEAN
      OBVIOUS
    <3>2. thread'[u] = [thread[u] EXCEPT !.alone = alone(u)]
      BY <2>4
    <3> HIDE DEF alone
    <3> QED BY ZenonT(60), <3>1, <3>2, ThreadTypes, NotAlone
  <2>7. DOMAIN thread' = Threads /\ thread'["timer"] = [t EXCEPT !.i = t.i + 1]
    BY <1>1, <2>4
  <2> HIDE DEF t, alone
  <2>8. \A u \in Threads : Sized(thread'[u])
    BY <2>5, <2>6, <2>7
  <2>9. thread' \in [Threads -> ThreadType]
    BY <2>4, <2>8 DEF Sized
  <2>10. SizeStored' /\ SharedType'
    BY <1>3, <2>5, <2>6, <2>7 DEF RouteByte, TInv, SharedType, SizeStored
  <2> QED BY <2>7, <2>8, <2>9, <2>10 DEF TInv
<1> QED BY <1>2, <1>3

LEMMA ReplyTypes ==
  ASSUME TInv, ReplyTest \/ ReplyLoad \/ ReplyStore \/ UNCHANGED vars
  PROVE  TInv'
<1>1. /\ waitingStat \subseteq Bits /\ uart \in [at : UartPoints, bit : Bits, stat : SUBSET Bits]
      /\ loaded \subseteq Bits
  BY DEF TInv, SharedType
<1>2. waitingStat' \subseteq Bits /\ loaded' = loaded
  BY <1>1 DEF ReplyTest, ReplyLoad, ReplyStore, UartDoes, WordIs, vars
<1>3. uart' \in [at : UartPoints, bit : Bits, stat : SUBSET Bits]
  <2>1. \A bit \in waitingStat : bit \in Bits
    BY <1>1
  <2>2. ASSUME ReplyTest PROVE uart' \in [at : UartPoints, bit : Bits, stat : SUBSET Bits]
    BY <1>1, <2>1, <2>2 DEF ReplyTest, UartDoes, UartPoints
  <2>3. ASSUME ReplyLoad PROVE uart' \in [at : UartPoints, bit : Bits, stat : SUBSET Bits]
    <3> DEFINE stat == waitingStat \ {uart.bit}
    <3>1. uart' = [uart EXCEPT !.at = "store", !.stat = stat]
      BY <2>3 DEF ReplyLoad, UartDoes
    <3>2. stat \in SUBSET Bits
      BY <1>1
    <3> HIDE DEF stat
    <3> QED BY <1>1, <3>1, <3>2 DEF UartPoints
  <2>4. ASSUME ReplyStore PROVE uart' \in [at : UartPoints, bit : Bits, stat : SUBSET Bits]
    BY <2>4 DEF ReplyStore, UartDoes, UartReady, UartPoints, Bits
  <2> QED BY <1>1, <2>2, <2>3, <2>4 DEF vars
<1>4. UNCHANGED <<package, packageSize, thread, calls>>
  BY DEF ReplyTest, ReplyLoad, ReplyStore, UartDoes, vars
<1> QED BY <1>1, <1>2, <1>3, <1>4 DEF TInv, SharedType, SizeStored

LEMMA TypesStart == Init => TInv
<1> SUFFICES ASSUME Init PROVE TInv
  OBVIOUS
<1>1. /\ package = [i \in 1..PROTOCAL_MAX_PACKAGE_LENGTH |->
                      IF i <= 4 THEN headerMagic[i] ELSE 0]
      /\ packageSize = 0 /\ waitingStat = {} /\ calls = 0 /\ loaded = {} /\ uart = UartReady
      /\ thread = [t \in Threads |-> Idle]
  BY DEF Init
<1>2. \A i \in 1..PROTOCAL_MAX_PACKAGE_LENGTH :
          (IF i <= 4 THEN headerMagic[i] ELSE 0) \in Byte
  BY DEF PROTOCAL_MAX_PACKAGE_LENGTH, headerMagic, Byte
<1>3. SharedType
  BY <1>1, <1>2, SendAssumption DEF SharedType, PROTOCAL_MAX_PACKAGE_LENGTH, UartReady,
     UartPoints, Bits
<1>4. \A t \in Threads : Sized(thread[t]) /\ thread[t].at = "idle"
  BY <1>1, IdleSized, Zenon
<1>5. DOMAIN thread = Threads /\ thread \in [Threads -> ThreadType]
  BY <1>1, IdleSized DEF Sized
<1>6. SizeStored
  BY <1>4 DEF SizeStored
<1> QED BY <1>3, <1>4, <1>5, <1>6 DEF TInv

LEMMA TypesHold == TInv /\ [Next]_vars => TInv'
<1> SUFFICES ASSUME TInv, [Next]_vars PROVE TInv'
  OBVIOUS
<1>1. ASSUME Calls PROVE TInv'
  BY <1>1, CallTypes DEF Calls, Threads
<1>2. ASSUME NEW t \in Threads, Sends(t) PROVE TInv'
  BY <1>2, StoreTypeTypes, BuildTypes, SendTypes DEF Sends
<1> QED BY <1>1, <1>2, QueryTypes, RouteTypes, ReplyTypes DEF Next

(* The bytes, the sizes and the indices of both threads keep to package[32],
   for any messages that fit in it and wherever the threads are switched. *)
THEOREM SendTypeCorrect == Spec => []TypeOK
<1>1. TInv => TypeOK
  BY DEF TInv, SharedType, Sized, TypeOK
<1> QED BY TypesStart, TypesHold, <1>1, PTL DEF Spec

-----------------------------------------------------------------------------
(* The bytes of a package, and its checksum.  Induction over the bytes goes
   through the least index at which a statement fails. *)

Body(m) == <<m.type, Len(m.data) + 2, m.cmd>> \o m.data

(* Sums(b)[i] is the sum of the first i bytes of b. *)
Sums(b) ==
    LET sum[i \in 0..Len(b)] == IF i = 0 THEN 0 ELSE (sum[i - 1] + b[i]) % 256
    IN  sum

LEMMA LeastExists ==
  ASSUME NEW T, T \subseteq Nat, T # {}
  PROVE  \E x \in T : \A y \in T : x <= y
<1>1. PICK x \in T : \A y \in T : ~ (<<y, x>> \in OpToRel(<, Nat))
  BY NatLessThanWellFounded, WFMin, Zenon
<1>2. \A y, z \in Nat : y < z => <<y, z>> \in OpToRel(<, Nat)
  BY Zenon DEF OpToRel
<1>3. \A y \in T : ~ (y < x)
  BY <1>1, <1>2
<1> QED BY <1>3

(* f[i] is the sum of the first i bytes, for i up to n. *)
SumsTo(f, b, n) ==
    /\ f \in [0..n -> Byte]
    /\ f[0] = 0
    /\ \A i \in 1..n : f[i] = (f[i - 1] + b[i]) % 256

LEMMA SumsToExist ==
  ASSUME NEW b \in Seq(Byte)
  PROVE  \E f : SumsTo(f, b, Len(b))
<1> DEFINE T == {n \in Nat : n <= Len(b) /\ ~ \E f : SumsTo(f, b, n)}
<1>1. ASSUME T # {} PROVE FALSE
  <2>1. PICK n \in T : \A m \in T : n <= m
    <3>1. T \subseteq Nat
      OBVIOUS
    <3> HIDE DEF T
    <3> QED BY <1>1, <3>1, LeastExists
  <2>2. n # 0
    <3>1. SumsTo([i \in 0..0 |-> 0], b, 0)
      BY DEF SumsTo, Byte
    <3> QED BY <3>1
  <2>3. PICK f : SumsTo(f, b, n - 1)
    BY <2>1, <2>2
  <2> DEFINE g == [i \in 0..n |-> IF i = n THEN (f[n - 1] + b[n]) % 256 ELSE f[i]]
  <2>4. n \in Nat \ {0} /\ n <= Len(b)
    BY <2>2
  <2>5. \A x, y \in Byte : (x + y) % 256 \in Byte
    BY DEF Byte
  <2> HIDE DEF T
  <2>6. b[n] \in Byte /\ f[n - 1] \in Byte /\ (f[n - 1] + b[n]) % 256 \in Byte
    BY <2>3, <2>4, <2>5 DEF SumsTo
  <2>7. SumsTo(g, b, n)
    BY <2>3, <2>4, <2>6 DEF SumsTo
  <2> QED BY <2>7 DEF T
<1>2. Len(b) \in Nat
  OBVIOUS
<1> QED BY <1>1, <1>2

LEMMA SumsAdd ==
  ASSUME NEW b \in Seq(Byte)
  PROVE  /\ Sums(b)[0] = 0
         /\ \A i \in 1..Len(b) : Sums(b)[i] = (Sums(b)[i - 1] + b[i]) % 256
         /\ \A i \in 0..Len(b) : Sums(b)[i] \in Byte
         /\ CheckSum(b) = Sums(b)[Len(b)]
<1> DEFINE rec(f) == [i \in 0..Len(b) |-> IF i = 0 THEN 0 ELSE (f[i - 1] + b[i]) % 256]
           sum == CHOOSE f : f = rec(f)
<1>1. Len(b) \in Nat
  OBVIOUS
<1>2. PICK f : SumsTo(f, b, Len(b))
  BY SumsToExist
<1>3. f = rec(f)
  BY <1>1, <1>2 DEF SumsTo
<1>4. sum = rec(sum)
  <2> HIDE DEF rec
  <2> QED BY <1>3, Zenon
<1>5. Sums(b) = sum /\ CheckSum(b) = sum[Len(b)]
  BY DEF Sums, CheckSum
<1> HIDE DEF sum
<1>6. sum[0] = 0 /\ \A i \in 1..Len(b) : sum[i] = (sum[i - 1] + b[i]) % 256
  BY <1>1, <1>4
<1>7. \A i \in 0..Len(b) : sum[i] = f[i]
  <2> DEFINE T == {i \in 0..Len(b) : sum[i] # f[i]}
  <2> SUFFICES ASSUME T # {} PROVE FALSE
    OBVIOUS
  <2>1. PICK k \in T : \A j \in T : k <= j
    <3>1. T \subseteq Nat
      OBVIOUS
    <3> HIDE DEF T
    <3> QED BY <3>1, LeastExists
  <2>2. k # 0
    BY <1>2, <1>6 DEF SumsTo
  <2>3. sum[k - 1] = f[k - 1]
    BY <2>1, <2>2
  <2> QED BY <1>2, <1>6, <2>2, <2>3 DEF SumsTo
<1> QED BY <1>2, <1>5, <1>6, <1>7 DEF SumsTo

LEMMA BodyBytes ==
  ASSUME NEW m \in Messages
  PROVE  /\ Body(m) \in Seq(Byte) /\ Len(Body(m)) = Len(m.data) + 3
         /\ Body(m)[1] = m.type /\ Body(m)[2] = Len(m.data) + 2 /\ Body(m)[3] = m.cmd
         /\ \A i \in 1..Len(m.data) : Body(m)[i + 3] = m.data[i]
<1> DEFINE d == m.data
           h == <<m.type, Len(d) + 2, m.cmd>>
<1>1. /\ m.type \in Byte /\ m.cmd \in Byte /\ d \in Seq(Byte)
      /\ Len(d) \in 0..PROTOCAL_MAX_DATA_LENGTH
  BY MessageTypes
<1>2. ASSUME NEW k \in 0..PROTOCAL_MAX_DATA_LENGTH
      PROVE  k + 2 \in Byte
  BY DEF Byte, PROTOCAL_MAX_DATA_LENGTH, PROTOCAL_MAX_PACKAGE_LENGTH
<1>3. Body(m) = h \o d
  BY Zenon DEF Body
<1> HIDE DEF d
<1>4. h \in Seq(Byte) /\ Len(h) = 3 /\ h[1] = m.type /\ h[2] = Len(d) + 2 /\ h[3] = m.cmd
  BY <1>1, <1>2
<1> HIDE DEF h
<1>5. /\ h \o d \in Seq(Byte) /\ Len(h \o d) = Len(h) + Len(d)
      /\ \A i \in 1..(Len(h) + Len(d)) :
           (h \o d)[i] = IF i <= Len(h) THEN h[i] ELSE d[i - Len(h)]
  BY <1>1, <1>4, ConcatProperties, Zenon
<1>6. Len(d) \in Nat
  BY <1>1
<1>7. /\ Len(h \o d) = Len(d) + 3
      /\ \A i \in 1..3 : (h \o d)[i] = h[i]
      /\ \A i \in 1..Len(d) : (h \o d)[i + 3] = d[i]
  BY <1>4, <1>5, <1>6
<1> QED BY <1>3, <1>4, <1>5, <1>7 DEF d

LEMMA PackageBytes ==
  ASSUME NEW m \in Messages
  PROVE  /\ \A i \in 1..4 : Package(m)[i] = headerMagic[i]
         /\ \A i \in 1..(Len(m.data) + 3) : Package(m)[i + 4] = Body(m)[i]
         /\ Package(m)[Len(m.data) + 8] = CheckSum(Body(m))
<1> DEFINE n == Len(m.data)
           b == Body(m)
           c == CheckSum(b)
<1>1. b \in Seq(Byte) /\ Len(b) = n + 3 /\ n \in Nat
  BY BodyBytes, MessageTypes
<1>2. headerMagic \in Seq(Byte) /\ Len(headerMagic) = 4
  BY DEF headerMagic, Byte
<1>3. Package(m) = (headerMagic \o b) \o <<c>>
  BY Zenon DEF Package, Body
<1> HIDE DEF b, c, n
<1> DEFINE p == headerMagic \o b
           q == p \o <<c>>
<1>4. c \in Byte
  BY <1>1, SumsAdd DEF c
<1>5. /\ p \in Seq(Byte) /\ Len(p) = Len(headerMagic) + Len(b)
      /\ \A i \in 1..(Len(headerMagic) + Len(b)) :
           p[i] = IF i <= Len(headerMagic) THEN headerMagic[i] ELSE b[i - Len(headerMagic)]
  BY <1>1, <1>2, ConcatProperties, Zenon
<1>6. <<c>> \in Seq(Byte) /\ Len(<<c>>) = 1 /\ <<c>>[1] = c
  BY <1>4
<1> HIDE DEF p
<1>7. /\ q \in Seq(Byte) /\ Len(q) = Len(p) + Len(<<c>>)
      /\ \A i \in 1..(Len(p) + Len(<<c>>)) :
           q[i] = IF i <= Len(p) THEN p[i] ELSE <<c>>[i - Len(p)]
  <2>1. p \in Seq(Byte) /\ <<c>> \in Seq(Byte)
    BY <1>5, <1>6
  <2> QED BY <2>1, ConcatProperties, Zenon
<1>8. Len(p) = n + 7 /\ Len(p) + Len(<<c>>) = n + 8
  BY <1>1, <1>2, <1>5, <1>6
<1> HIDE DEF q
<1>9. \A i \in 1..(n + 7) : q[i] = IF i <= 4 THEN headerMagic[i] ELSE b[i - 4]
  <2>1. \A i \in 1..(n + 7) : p[i] = IF i <= 4 THEN headerMagic[i] ELSE b[i - 4]
    BY <1>1, <1>2, <1>5
  <2>2. \A i \in 1..(n + 7) : q[i] = p[i]
    BY <1>1, <1>7, <1>8
  <2> QED BY <2>1, <2>2
<1>10. q[n + 8] = c
  BY <1>1, <1>6, <1>7, <1>8
<1>11. /\ \A i \in 1..4 : q[i] = headerMagic[i]
       /\ \A i \in 1..(n + 3) : q[i + 4] = b[i]
  BY <1>1, <1>9
<1> QED BY <1>3, <1>10, <1>11 DEF n, b, c, p, q

-----------------------------------------------------------------------------
(* A package that nobody disturbs.  The invariant says of a thread that is
   alone what is already its own in the buffer, in sum and in packageSize. *)

(* How many bytes of its own package a thread has stored, header included *)
Stored(r) ==
    LET k == Len(r.msg.data)
    IN  IF r.at = "length" THEN 5 ELSE IF r.at = "cmd" THEN 6 ELSE IF r.at = "data" THEN 7
        ELSE IF r.at \in {"sum", "store_sum"} THEN k + 7 ELSE k + 8

(* What a thread that was not disturbed has: the bytes it stored are still in
   the buffer, sum is that of the bytes it has been over, the size is its own,
   and what it has sent is whole. *)
KeepsBytes(r, p) == \A i \in 1..Stored(r) : p[i] = Package(r.msg)[i]
KeepsSum(r) ==
    /\ r.at = "sum" => r.i >= 4 /\ r.sum = Sums(Body(r.msg))[r.i - 4]
    /\ r.at = "store_sum" => r.sum = CheckSum(Body(r.msg))
KeepsSize(r, size) ==
    /\ r.at \in {"ack_load", "ack_store", "send"} => size = Len(r.msg.data) + 8
    /\ r.at = "putc" => r.len = Len(r.msg.data) + 8
Builds(r, p, size) == KeepsBytes(r, p) /\ KeepsSum(r) /\ KeepsSize(r, size)

Alone(r) == r.alone /\ r.at \in Building

HeaderStays == \A i \in 1..4 : package[i] = headerMagic[i]
WholeSoFar == \A t \in Threads : thread[t].at # "putc" \/ Alone(thread[t]) => thread[t].whole
OthersKeepOut ==
    \A t, u \in Threads : t # u /\ Alone(thread[t]) => thread[u].at \notin Building
AloneBuilds ==
    \A t \in Threads : Alone(thread[t]) => Builds(thread[t], package, packageSize)

WInv == TInv /\ HeaderStays /\ WholeSoFar /\ OthersKeepOut /\ AloneBuilds

(* What is left alone stays built. *)
LEMMA BuildsStays ==
  ASSUME NEW r \in ThreadType, r.at \in Building, NEW p, NEW q, NEW size,
         \A i \in 1..Stored(r) : q[i] = p[i], Builds(r, p, size)
  PROVE  Builds(r, q, size)
  BY DEF Builds, KeepsBytes

(* A step inside the building of t disturbs nobody: if t is alone, it builds
   on, and if the other thread is alone, t is not there. *)
LEMMA BuildsOn ==
  ASSUME WInv, TInv', NEW t \in Threads, NEW from \in Building, NEW r, Goes(t, from, r),
         r.at \in Building, r.alone = thread[t].alone, HeaderStays',
         r.at # "putc" \/ thread[t].alone => r.whole,
         thread[t].alone => Builds(r, package', packageSize')
  PROVE  WInv'
<1>1. /\ DOMAIN thread = Threads /\ thread[t].at = from
      /\ thread' = [thread EXCEPT ![t] = r]
  BY DEF WInv, TInv, Goes
<1>2. thread'[t] = r /\ \A u \in Threads \ {t} : thread'[u] = thread[u]
  BY <1>1
<1>3. Alone(thread[t]) <=> thread[t].alone
  BY <1>1 DEF Alone
<1>4. Alone(r) <=> thread[t].alone
  BY DEF Alone
<1>5. WholeSoFar'
  BY <1>2, <1>4 DEF WInv, WholeSoFar
<1>6. OthersKeepOut'
  BY <1>1, <1>2, <1>3, <1>4 DEF WInv, OthersKeepOut
<1>7. AloneBuilds'
  <2>1. ASSUME NEW u \in Threads \ {t}, Alone(thread[u])
        PROVE  FALSE
    BY <1>1, <2>1 DEF WInv, OthersKeepOut
  <2> QED BY <1>2, <1>4, <2>1 DEF AloneBuilds
<1> QED BY <1>5, <1>6, <1>7 DEF WInv

(* A step outside, or the one that leaves *)
LEMMA KeepsOut ==
  ASSUME WInv, TInv', NEW t \in Threads, NEW from, NEW r, Goes(t, from, r),
         r.at \notin Building, r.whole, package' = package, packageSize' = packageSize
  PROVE  WInv'
<1>1. DOMAIN thread = Threads /\ thread' = [thread EXCEPT ![t] = r]
  BY DEF WInv, TInv, Goes
<1>2. thread'[t] = r /\ \A u \in Threads \ {t} : thread'[u] = thread[u]
  BY <1>1
<1>3. ~ Alone(r)
  BY DEF Alone
<1>4. WholeSoFar'
  BY <1>2, <1>3 DEF WInv, WholeSoFar
<1>5. OthersKeepOut'
  BY <1>2, <1>3 DEF WInv, OthersKeepOut
<1>6. AloneBuilds' /\ HeaderStays'
  BY <1>2, <1>3 DEF WInv, AloneBuilds, HeaderStays
<1> QED BY <1>4, <1>5, <1>6 DEF WInv

LEMMA NobodyMoves ==
  ASSUME WInv, TInv', UNCHANGED <<package, packageSize, thread>>
  PROVE  WInv'
  BY DEF WInv, HeaderStays, WholeSoFar, OthersKeepOut, AloneBuilds

(* Where the buffer holds t's own bytes, given that it is alone *)
LEMMA OwnBytes ==
  ASSUME WInv, NEW t \in Threads, thread[t].at \in Building
  PROVE  /\ thread[t] \in ThreadType /\ thread[t].msg \in Messages
         /\ Len(thread[t].msg.data) \in 0..PROTOCAL_MAX_DATA_LENGTH
         /\ package \in [1..PROTOCAL_MAX_PACKAGE_LENGTH -> Byte]
         /\ thread[t].alone \in BOOLEAN
         /\ thread[t].alone => Builds(thread[t], package, packageSize) /\ thread[t].whole
         /\ thread[t].at # "putc" => thread[t].whole
<1>1. thread[t] \in ThreadType /\ thread[t].alone \in BOOLEAN
  BY ThreadTypes DEF WInv, ThreadType
<1>2. thread[t].alone <=> Alone(thread[t])
  BY <1>1 DEF Alone
<1> QED BY <1>1, <1>2, ThreadTypes DEF WInv, TInv, SharedType, WholeSoFar, AloneBuilds

(* A store behind the header leaves it. *)
LEMMA HeaderKept ==
  ASSUME HeaderStays, NEW n \in Nat, n > 4, NEW b, package' = [package EXCEPT ![n] = b],
         DOMAIN package = 1..PROTOCAL_MAX_PACKAGE_LENGTH
  PROVE  HeaderStays'
  BY DEF HeaderStays, PROTOCAL_MAX_PACKAGE_LENGTH

(* The next byte of a package is stored. *)
LEMMA OneMoreByte ==
  ASSUME NEW r, NEW q, q.msg = r.msg, Stored(r) \in Nat,
         NEW p \in [1..PROTOCAL_MAX_PACKAGE_LENGTH -> Byte], KeepsBytes(r, p),
         NEW n \in 5..PROTOCAL_MAX_PACKAGE_LENGTH, Stored(q) = n, Stored(r) >= n - 1
  PROVE  KeepsBytes(q, [p EXCEPT ![n] = Package(r.msg)[n]])
<1> DEFINE p1 == [p EXCEPT ![n] = Package(r.msg)[n]]
<1>1. n \in Nat /\ n \in 1..PROTOCAL_MAX_PACKAGE_LENGTH
  BY DEF PROTOCAL_MAX_PACKAGE_LENGTH
<1>2. ASSUME NEW i \in 1..n PROVE p1[i] = Package(r.msg)[i]
  <2>1. CASE i = n
    BY <1>1, <2>1
  <2>2. CASE i # n
    <3>1. i \in 1..Stored(r) /\ p1[i] = p[i]
      BY <1>1, <2>2
    <3> QED BY <3>1 DEF KeepsBytes
  <2> QED BY <2>1, <2>2
<1> HIDE DEF p1
<1>3. KeepsBytes(q, p1)
  BY <1>2 DEF KeepsBytes
<1> QED BY <1>3 DEF p1

(* The first bytes of a package *)
LEMMA PackageBegins ==
  ASSUME NEW m \in Messages
  PROVE  /\ \A i \in 1..4 : Package(m)[i] = headerMagic[i]
         /\ Package(m)[5] = m.type /\ Package(m)[6] = Len(m.data) + 2
         /\ Package(m)[7] = m.cmd
         /\ \A i \in 1..Len(m.data) : Package(m)[i + 7] = m.data[i]
<1> DEFINE k == Len(m.data)
<1>1. /\ \A i \in 1..4 : Package(m)[i] = headerMagic[i]
      /\ \A i \in 1..(k + 3) : Package(m)[i + 4] = Body(m)[i]
  BY PackageBytes
<1>2. /\ Body(m)[1] = m.type /\ Body(m)[2] = k + 2 /\ Body(m)[3] = m.cmd
      /\ \A i \in 1..k : Body(m)[i + 3] = m.data[i]
  BY BodyBytes
<1>3. k \in Nat
  BY MessageTypes
<1> HIDE DEF k
<1>4. 1 \in 1..(k + 3) /\ 2 \in 1..(k + 3) /\ 3 \in 1..(k + 3)
  BY <1>3
<1>5. \A i \in 1..k : i + 3 \in 1..(k + 3) /\ (i + 3) + 4 = i + 7
  BY <1>3
<1>6. \A i \in 1..k : Package(m)[i + 7] = m.data[i]
  BY <1>1, <1>2, <1>5
<1>7. Package(m)[1 + 4] = m.type /\ Package(m)[2 + 4] = k + 2 /\ Package(m)[3 + 4] = m.cmd
  BY <1>1, <1>2, <1>4
<1> QED BY <1>1, <1>6, <1>7 DEF k

LEMMA StoreTypeWhole ==
  ASSUME WInv, TInv', NEW t \in Threads, StoreType(t)
  PROVE  WInv'
<1> DEFINE used == \E u \in Threads \ {t} : thread[u].at \in Building
           r == [At(t, "length") EXCEPT !.alone = ~ used]
<1>1. /\ package' = [package EXCEPT ![5] = thread[t].msg.type]
      /\ packageSize' = packageSize /\ thread[t].at = "type"
      /\ thread' = [u \in Threads |-> IF u = t THEN r
                                      ELSE [thread[u] EXCEPT !.alone = @ /\ ~ used]]
  BY DEF StoreType
<1>2. used \in BOOLEAN
  OBVIOUS
<1>3. /\ thread[t] \in ThreadType /\ thread[t].msg \in Messages
      /\ package \in [1..PROTOCAL_MAX_PACKAGE_LENGTH -> Byte]
  BY ThreadTypes DEF WInv, TInv, SharedType
<1>4. ~ used => \A u \in Threads \ {t} : thread[u].at \notin Building
  OBVIOUS
<1> HIDE DEF used
<1>5. /\ r.at = "length" /\ r.msg = thread[t].msg /\ r.whole = thread[t].whole
      /\ r.alone = ~ used
  BY <1>2, <1>3 DEF At, ThreadType
<1>6. thread'[t] = r
  BY <1>1
<1>7. ASSUME NEW u \in Threads \ {t}
      PROVE  /\ thread'[u].at = thread[u].at /\ thread'[u].whole = thread[u].whole
             /\ thread'[u].alone = (thread[u].alone /\ ~ used)
  <2>1. thread[u] \in ThreadType
    BY ThreadTypes DEF WInv
  <2>2. thread'[u] = [thread[u] EXCEPT !.alone = thread[u].alone /\ ~ used]
    BY <1>1
  <2> QED BY <2>1, <2>2 DEF ThreadType
<1> HIDE DEF r
<1>8. ASSUME NEW u \in Threads \ {t} PROVE ~ Alone(thread'[u])
  BY <1>2, <1>4, <1>7, <1>8 DEF Alone, used
<1>9. HeaderStays'
  <2>1. HeaderStays /\ DOMAIN package = 1..PROTOCAL_MAX_PACKAGE_LENGTH
    BY <1>3 DEF WInv
  <2>2. 5 \in Nat /\ 5 > 4
    OBVIOUS
  <2> QED BY <1>1, <2>1, <2>2, HeaderKept, Zenon
<1>10. WholeSoFar'
  <2>1. thread[t].whole
    BY <1>1 DEF WInv, WholeSoFar
  <2>2. ASSUME NEW u \in Threads \ {t}, thread'[u].at # "putc" PROVE thread'[u].whole
    BY <1>7, <2>2 DEF WInv, WholeSoFar
  <2> QED BY <1>5, <1>6, <1>8, <2>1, <2>2 DEF WholeSoFar
<1>11. OthersKeepOut'
  BY <1>4, <1>5, <1>6, <1>7, <1>8 DEF OthersKeepOut, Alone
<1>12. Builds(r, package', packageSize')
  <2>1. Stored(r) = 5
    BY <1>5 DEF Stored
  <2>2. /\ package'[5] = thread[t].msg.type
        /\ \A i \in 1..4 : package'[i] = headerMagic[i]
    BY <1>1, <1>3, <1>9 DEF PROTOCAL_MAX_PACKAGE_LENGTH, HeaderStays
  <2>3. \A i \in 1..5 : package'[i] = Package(r.msg)[i]
    BY <1>3, <1>5, <2>2, PackageBegins
  <2> QED BY <1>5, <2>1, <2>3 DEF Builds, KeepsBytes, KeepsSum, KeepsSize
<1>13. AloneBuilds'
  BY <1>6, <1>8, <1>12 DEF AloneBuilds
<1> QED BY <1>9, <1>10, <1>11, <1>13 DEF WInv

(* The thread moves on inside its package. *)
LEMMA MovesOn ==
  ASSUME NEW r \in ThreadType, NEW to \in Building
  PROVE  LET q == [r EXCEPT !.at = to]
         IN  q.at = to /\ q.msg = r.msg /\ q.alone = r.alone /\ q.whole = r.whole
             /\ q.sum = r.sum /\ q.i = r.i /\ q.len = r.len
  BY DEF ThreadType

(* A thread that stores its next byte *)
LEMMA StoresByte ==
  ASSUME WInv, TInv', NEW t \in Threads, NEW from \in Building \ {"putc"},
         NEW to \in {"cmd", "data", "size"},
         NEW n \in 5..PROTOCAL_MAX_PACKAGE_LENGTH, NEW b,
         Stores(t, from, At(t, to), [package EXCEPT ![n] = b]),
         thread[t].alone => b = Package(thread[t].msg)[n],
         Stored(thread[t]) = n - 1, Stored(At(t, to)) = n
  PROVE  WInv'
<1> DEFINE r == At(t, to)
<1>1. /\ Goes(t, from, r) /\ thread[t].at = from
      /\ package' = [package EXCEPT ![n] = b] /\ packageSize' = packageSize
  BY DEF Stores, Goes
<1>2. /\ thread[t] \in ThreadType /\ thread[t].msg \in Messages
      /\ package \in [1..PROTOCAL_MAX_PACKAGE_LENGTH -> Byte]
      /\ thread[t].alone => Builds(thread[t], package, packageSize)
      /\ thread[t].whole
  BY <1>1, OwnBytes
<1>3. to \in Building /\ to \notin {"putc", "sum", "store_sum", "ack_load", "ack_store", "send"}
  BY DEF Building
<1>4. /\ r.at = to /\ r.msg = thread[t].msg /\ r.alone = thread[t].alone
      /\ r.whole = thread[t].whole
  BY <1>2, <1>3, MovesOn DEF At
<1>5. HeaderStays'
  <2>1. HeaderStays /\ DOMAIN package = 1..PROTOCAL_MAX_PACKAGE_LENGTH
    BY <1>2 DEF WInv
  <2>2. n \in Nat /\ n > 4
    BY DEF PROTOCAL_MAX_PACKAGE_LENGTH
  <2> QED BY <1>1, <2>1, <2>2, HeaderKept, Zenon
<1> HIDE DEF r
<1>6. ASSUME thread[t].alone
      PROVE  Builds(r, package', packageSize')
  <2>1. KeepsBytes(thread[t], package)
    BY <1>2, <1>6 DEF Builds
  <2>2. n - 1 \in Nat /\ n - 1 >= n - 1
    BY DEF PROTOCAL_MAX_PACKAGE_LENGTH
  <2>3. Stored(thread[t]) \in Nat /\ Stored(thread[t]) >= n - 1 /\ Stored(r) = n
    BY <2>2 DEF r
  <2>4. KeepsBytes(r, [package EXCEPT ![n] = Package(thread[t].msg)[n]])
    BY <1>2, <1>4, <2>1, <2>3, OneMoreByte, Zenon
  <2>5. KeepsBytes(r, package')
    BY <1>1, <1>6, <2>4
  <2> QED BY <1>3, <1>4, <2>5 DEF Builds, KeepsSum, KeepsSize
<1> QED BY <1>1, <1>2, <1>3, <1>4, <1>5, <1>6, BuildsOn

LEMMA StoreLengthWhole ==
  ASSUME WInv, TInv', NEW t \in Threads, StoreLength(t)
  PROVE  WInv'
<1> DEFINE k == Len(thread[t].msg.data)
<1>1. Stores(t, "length", At(t, "cmd"), [package EXCEPT ![6] = k + 2])
  BY Zenon DEF StoreLength
<1>2. thread[t].at = "length" /\ "length" \in Building \ {"putc"}
  BY <1>1 DEF Stores, Goes, Building
<1>3. thread[t] \in ThreadType /\ k + 2 = Package(thread[t].msg)[6]
  BY <1>2, OwnBytes, PackageBegins
<1>4. "cmd" \in Building /\ At(t, "cmd").at = "cmd"
  BY <1>3, MovesOn DEF At, Building
<1>5. Stored(thread[t]) = 6 - 1 /\ Stored(At(t, "cmd")) = 6
  BY <1>2, <1>4 DEF Stored
<1> HIDE DEF k
<1>6. 6 \in 5..PROTOCAL_MAX_PACKAGE_LENGTH
  BY DEF PROTOCAL_MAX_PACKAGE_LENGTH
<1> QED BY <1>1, <1>2, <1>3, <1>5, <1>6, StoresByte

LEMMA StoreCmdWhole ==
  ASSUME WInv, TInv', NEW t \in Threads, StoreCmd(t)
  PROVE  WInv'
<1> DEFINE b == thread[t].msg.cmd
<1>1. Stores(t, "cmd", At(t, "data"), [package EXCEPT ![7] = b])
  BY Zenon DEF StoreCmd
<1>2. thread[t].at = "cmd" /\ "cmd" \in Building \ {"putc"}
  BY <1>1 DEF Stores, Goes, Building
<1>3. thread[t] \in ThreadType /\ b = Package(thread[t].msg)[7]
  BY <1>2, OwnBytes, PackageBegins
<1>4. "data" \in Building /\ At(t, "data").at = "data"
  BY <1>3, MovesOn DEF At, Building
<1>5. Stored(thread[t]) = 7 - 1 /\ Stored(At(t, "data")) = 7
  BY <1>2, <1>4 DEF Stored
<1> HIDE DEF b
<1>6. 7 \in 5..PROTOCAL_MAX_PACKAGE_LENGTH
  BY DEF PROTOCAL_MAX_PACKAGE_LENGTH
<1> QED BY <1>1, <1>2, <1>3, <1>5, <1>6, StoresByte

LEMMA StoreSumWhole ==
  ASSUME WInv, TInv', NEW t \in Threads, StoreSum(t)
  PROVE  WInv'
<1> DEFINE k == Len(thread[t].msg.data)
           b == thread[t].sum
           m == thread[t].msg
<1>1. Stores(t, "store_sum", At(t, "size"), [package EXCEPT ![k + 8] = b])
  BY Zenon DEF StoreSum
<1>2. thread[t].at = "store_sum" /\ "store_sum" \in Building \ {"putc"}
  BY <1>1 DEF Stores, Goes, Building
<1>3. /\ thread[t] \in ThreadType /\ m \in Messages /\ k \in 0..PROTOCAL_MAX_DATA_LENGTH
      /\ thread[t].alone => b = CheckSum(Body(m))
  BY <1>2, OwnBytes DEF Builds, KeepsSum
<1>4. Package(m)[k + 8] = CheckSum(Body(m))
  BY <1>3, PackageBytes
<1>5. "size" \in Building /\ At(t, "size").at = "size" /\ At(t, "size").msg = m
  BY <1>3, MovesOn DEF At, Building
<1>6. Stored(thread[t]) = k + 7 /\ Stored(At(t, "size")) = k + 8
  BY <1>2, <1>5 DEF Stored
<1> HIDE DEF k, b
<1>7. k + 8 \in 5..PROTOCAL_MAX_PACKAGE_LENGTH /\ k + 7 = (k + 8) - 1
  BY <1>3 DEF PROTOCAL_MAX_PACKAGE_LENGTH, PROTOCAL_MAX_DATA_LENGTH
<1> QED BY <1>1, <1>2, <1>3, <1>4, <1>6, <1>7, StoresByte

LEMMA CopyDataWhole ==
  ASSUME WInv, TInv', NEW t \in Threads, CopyData(t)
  PROVE  WInv'
<1> DEFINE m == thread[t].msg
           data == thread[t].msg.data
           k == Len(data)
           r == [At(t, "sum") EXCEPT !.i = 4, !.sum = 0]
           p == [i \in DOMAIN package |->
                    IF i - 7 \in DOMAIN data THEN data[i - 7] ELSE package[i]]
<1>1. Goes(t, "data", r) /\ package' = p /\ packageSize' = packageSize
  BY Zenon DEF CopyData, Stores
<1>2. thread[t].at = "data" /\ "data" \in Building /\ "sum" \in Building
  BY <1>1 DEF Goes, Building
<1>3. /\ thread[t] \in ThreadType /\ m \in Messages /\ k \in 0..PROTOCAL_MAX_DATA_LENGTH
      /\ package \in [1..PROTOCAL_MAX_PACKAGE_LENGTH -> Byte]
      /\ thread[t].alone => Builds(thread[t], package, packageSize)
      /\ thread[t].whole
  BY <1>2, OwnBytes
<1>4. /\ r.at = "sum" /\ r.msg = m /\ r.alone = thread[t].alone /\ r.i = 4 /\ r.sum = 0
      /\ r.whole = thread[t].whole
  BY <1>2, <1>3 DEF At, ThreadType
<1>5. DOMAIN data = 1..k
  BY <1>3, MessageTypes
<1>6. /\ \A i \in 1..7 : Package(m)[i] = Package(m)[i]
      /\ \A i \in 1..k : Package(m)[i + 7] = data[i]
  BY <1>3, PackageBegins
<1>7. Sums(Body(m))[0] = 0
  BY <1>3, BodyBytes, SumsAdd
<1>8. HeaderStays /\ Stored(thread[t]) = 7 /\ Stored(r) = k + 7
  BY <1>2, <1>4 DEF WInv, Stored
<1> HIDE DEF r, data, m, k
<1>9. /\ \A i \in 1..7 : p[i] = package[i]
      /\ \A i \in 8..(k + 7) : p[i] = data[i - 7]
  <2>1. DOMAIN package = 1..32 /\ k \in 0..24
    BY <1>3 DEF PROTOCAL_MAX_PACKAGE_LENGTH, PROTOCAL_MAX_DATA_LENGTH
  <2>2. ASSUME NEW i \in 1..7 PROVE i \in DOMAIN package /\ i - 7 \notin DOMAIN data
    BY <1>5, <2>1
  <2>3. ASSUME NEW i \in 8..(k + 7) PROVE i \in DOMAIN package /\ i - 7 \in DOMAIN data
    BY <1>5, <2>1
  <2> QED BY <2>2, <2>3, Zenon
<1> HIDE DEF p
<1>10. HeaderStays'
  BY <1>1, <1>8, <1>9 DEF HeaderStays
<1>11. ASSUME thread[t].alone
       PROVE  Builds(r, package', packageSize')
  <2>1. \A i \in 1..7 : package[i] = Package(m)[i]
    BY <1>3, <1>8, <1>11 DEF Builds, KeepsBytes, m
  <2>2. \A i \in 8..(k + 7) : Package(m)[i] = data[i - 7]
    <3>1. ASSUME NEW i \in 8..(k + 7) PROVE i - 7 \in 1..k /\ (i - 7) + 7 = i
      BY <1>3
    <3> QED BY <1>6, <3>1
  <2>3. \A i \in 1..(k + 7) : p[i] = Package(m)[i]
    BY <1>3, <1>9, <2>1, <2>2
  <2>4. KeepsBytes(r, p)
    BY <1>4, <1>8, <2>3 DEF KeepsBytes
  <2>5. KeepsSum(r)
    BY <1>4, <1>7 DEF KeepsSum
  <2> QED BY <1>1, <1>4, <2>4, <2>5 DEF Builds, KeepsSize
<1> QED BY <1>1, <1>2, <1>3, <1>4, <1>10, <1>11, BuildsOn

(* The sum goes over the thread's own bytes. *)
LEMMA SumAddsByte ==
  ASSUME NEW m \in Messages, NEW i \in Nat, i >= 4, i < Len(m.data) + 7, NEW b,
         b = Package(m)[i + 1]
  PROVE  (Sums(Body(m))[i - 4] + b) % 256 = Sums(Body(m))[(i + 1) - 4]
<1> DEFINE k == Len(m.data)
<1>1. k \in Nat /\ Body(m) \in Seq(Byte) /\ Len(Body(m)) = k + 3
  BY BodyBytes, MessageTypes
<1>2. \A j \in 1..(k + 3) : Package(m)[j + 4] = Body(m)[j]
  BY PackageBytes
<1>3. \A j \in 1..(k + 3) : Sums(Body(m))[j] = (Sums(Body(m))[j - 1] + Body(m)[j]) % 256
  BY <1>1, SumsAdd
<1> HIDE DEF k
<1>4. /\ i - 3 \in 1..(k + 3) /\ (i - 3) + 4 = i + 1 /\ (i - 3) - 1 = i - 4
      /\ (i + 1) - 4 = i - 3
  BY <1>1 DEF k
<1>5. b = Body(m)[i - 3]
  BY <1>2, <1>4
<1>6. Sums(Body(m))[i - 3] = (Sums(Body(m))[(i - 3) - 1] + Body(m)[i - 3]) % 256
  BY <1>3, <1>4
<1> QED BY <1>4, <1>5, <1>6

LEMMA SumWhole ==
  ASSUME WInv, TInv', NEW t \in Threads, Sum(t)
  PROVE  WInv'
<1> DEFINE m == thread[t].msg
           k == Len(m.data)
           i == thread[t].i
           n == (thread[t].sum + package[i + 1]) % 256
           r == IF i < k + 7 THEN [thread[t] EXCEPT !.i = i + 1, !.sum = n]
                ELSE At(t, "store_sum")
<1>1. Goes(t, "sum", r) /\ package' = package /\ packageSize' = packageSize
  BY DEF Sum, Steps
<1>2. thread[t].at = "sum" /\ {"sum", "store_sum"} \subseteq Building
  BY <1>1 DEF Goes, Building
<1>3. /\ thread[t] \in ThreadType /\ m \in Messages /\ k \in 0..PROTOCAL_MAX_DATA_LENGTH
      /\ thread[t].alone => Builds(thread[t], package, packageSize)
      /\ thread[t].whole
  BY <1>2, OwnBytes
<1>4. i \in 0..PROTOCAL_MAX_PACKAGE_LENGTH /\ Sized(thread[t]) /\ HeaderStays
  BY ThreadTypes DEF WInv
<1>5. HeaderStays'
  BY <1>1, <1>4 DEF HeaderStays
<1>6. thread[t].alone => /\ \A j \in 1..(k + 7) : package[j] = Package(m)[j]
                         /\ i >= 4 /\ thread[t].sum = Sums(Body(m))[i - 4]
  <2>1. Stored(thread[t]) = k + 7
    BY <1>2 DEF Stored
  <2> HIDE DEF k
  <2> QED BY <1>2, <1>3, <2>1 DEF Builds, KeepsBytes, KeepsSum
<1>7. ASSUME i < k + 7 PROVE WInv'
  <2> DEFINE q == [thread[t] EXCEPT !.i = i + 1, !.sum = n]
  <2>1. r = q
    BY <1>7, Zenon
  <2>2. /\ q.at = "sum" /\ q.msg = m /\ q.alone = thread[t].alone
        /\ q.whole = thread[t].whole /\ q.i = i + 1 /\ q.sum = n
    <3> HIDE DEF n, i
    <3> QED BY <1>2, <1>3 DEF ThreadType
  <2> HIDE DEF q, r
  <2>3. ASSUME thread[t].alone PROVE Builds(q, package', packageSize')
    <3>1. i + 1 \in 1..(k + 7) /\ i \in Nat /\ i + 1 >= 4
      <4> HIDE DEF i, k
      <4> QED BY <1>3, <1>4, <1>6, <1>7, <2>3 DEF PROTOCAL_MAX_PACKAGE_LENGTH,
               PROTOCAL_MAX_DATA_LENGTH
    <3>2. package[i + 1] = Package(m)[i + 1]
      BY <1>6, <2>3, <3>1
    <3>3. n = Sums(Body(m))[(i + 1) - 4]
      <4>1. i >= 4 /\ thread[t].sum = Sums(Body(m))[i - 4] /\ m \in Messages
        BY <1>3, <1>6, <2>3
      <4> HIDE DEF i, m
      <4>2. (Sums(Body(m))[i - 4] + package[i + 1]) % 256 = Sums(Body(m))[(i + 1) - 4]
        BY <1>7, <3>1, <3>2, <4>1, SumAddsByte, Zenon
      <4> QED BY <4>1, <4>2
    <3>4. Stored(q) = k + 7
      BY <2>2 DEF Stored
    <3> HIDE DEF n, i, k, m
    <3>5. KeepsBytes(q, package)
      BY <1>6, <2>2, <2>3, <3>4 DEF KeepsBytes
    <3>6. KeepsSum(q)
      BY <2>2, <3>1, <3>3 DEF KeepsSum
    <3> QED BY <1>1, <2>2, <3>5, <3>6 DEF Builds, KeepsSize
  <2>4. Goes(t, "sum", q)
    BY <1>1, <2>1
  <2>5. q.at \in Building /\ q.whole
    BY <1>2, <1>3, <2>2
  <2> QED BY <1>1, <1>2, <1>5, <2>2, <2>3, <2>4, <2>5, BuildsOn
<1>8. ASSUME ~ (i < k + 7) PROVE WInv'
  <2> DEFINE q == At(t, "store_sum")
  <2>1. r = q
    BY <1>8, Zenon
  <2>2. /\ q.at = "store_sum" /\ q.msg = m /\ q.alone = thread[t].alone
        /\ q.whole = thread[t].whole /\ q.sum = thread[t].sum
    BY <1>2, <1>3, MovesOn DEF At
  <2> HIDE DEF q, r
  <2>3. ASSUME thread[t].alone PROVE Builds(q, package', packageSize')
    <3>1. i - 4 = k + 3
      <4>1. i <= k + 7
        BY <1>2, <1>4 DEF Sized
      <4> HIDE DEF i, k
      <4> QED BY <1>3, <1>4, <1>8, <4>1 DEF PROTOCAL_MAX_PACKAGE_LENGTH,
               PROTOCAL_MAX_DATA_LENGTH
    <3>2. Sums(Body(m))[k + 3] = CheckSum(Body(m))
      BY <1>3, BodyBytes, SumsAdd
    <3>3. Stored(q) = k + 7
      BY <2>2 DEF Stored
    <3> HIDE DEF i, k, m
    <3>4. KeepsBytes(q, package)
      BY <1>6, <2>2, <2>3, <3>3 DEF KeepsBytes
    <3>5. KeepsSum(q)
      BY <1>6, <2>2, <2>3, <3>1, <3>2 DEF KeepsSum
    <3> QED BY <1>1, <2>2, <3>4, <3>5 DEF Builds, KeepsSize
  <2>4. Goes(t, "sum", q)
    BY <1>1, <2>1
  <2>5. q.at \in Building /\ q.whole
    BY <1>2, <1>3, <2>2
  <2> QED BY <1>1, <1>2, <1>5, <2>2, <2>3, <2>4, <2>5, BuildsOn
<1> QED BY <1>7, <1>8

(* The whole package is stored and the thread goes on to send it. *)
LEMMA SizeWhole ==
  ASSUME WInv, TInv', NEW t \in Threads, NEW from \in {"size", "ack_load", "ack_store"},
         NEW to \in {"ack_load", "ack_store", "send"}, Goes(t, from, At(t, to)), package' = package,
         \/ packageSize' = Len(thread[t].msg.data) + 8
         \/ packageSize' = packageSize /\ from \in {"ack_load", "ack_store"}
  PROVE  WInv'
<1> DEFINE r == At(t, to)
<1>1. thread[t].at = from /\ from \in Building /\ to \in Building /\ Goes(t, from, r)
  BY DEF Goes, Building
<1>2. /\ thread[t] \in ThreadType
      /\ thread[t].alone => Builds(thread[t], package, packageSize)
      /\ thread[t].whole
  BY <1>1, OwnBytes
<1>3. /\ r.at = to /\ r.msg = thread[t].msg /\ r.alone = thread[t].alone
      /\ r.whole = thread[t].whole
  BY <1>1, <1>2, MovesOn DEF At
<1>4. HeaderStays'
  BY DEF WInv, HeaderStays
<1> HIDE DEF r
<1>5. Stored(thread[t]) = Len(thread[t].msg.data) + 8 /\ Stored(r) = Stored(thread[t])
  BY <1>1, <1>3 DEF Stored
<1>6. ASSUME thread[t].alone PROVE Builds(r, package', packageSize')
  <2>1. KeepsBytes(r, package')
    BY <1>2, <1>3, <1>5, <1>6 DEF Builds, KeepsBytes
  <2>2. packageSize' = Len(r.msg.data) + 8
    BY <1>1, <1>2, <1>3, <1>6 DEF Builds, KeepsSize
  <2> QED BY <1>3, <2>1, <2>2 DEF Builds, KeepsSum, KeepsSize
<1> QED BY <1>1, <1>2, <1>3, <1>4, <1>6, BuildsOn

LEMMA SendWhole ==
  ASSUME WInv, TInv', NEW t \in Threads, Send(t)
  PROVE  WInv'
<1> DEFINE n == packageSize
           r == [At(t, "putc") EXCEPT !.i = 0, !.len = n]
<1>1. Goes(t, "send", r) /\ package' = package
  BY Zenon DEF Send, Steps
<1>2. thread[t].at = "send" /\ {"send", "putc"} \subseteq Building
  BY <1>1 DEF Goes, Building
<1>3. /\ thread[t] \in ThreadType
      /\ thread[t].alone => Builds(thread[t], package, n)
      /\ thread[t].whole
  BY <1>2, OwnBytes
<1> HIDE DEF n
<1>4. /\ r.at = "putc" /\ r.msg = thread[t].msg /\ r.alone = thread[t].alone
      /\ r.whole = thread[t].whole /\ r.len = n
  BY <1>2, <1>3 DEF At, ThreadType
<1>5. HeaderStays'
  BY <1>1 DEF WInv, HeaderStays
<1> HIDE DEF r
<1>6. Stored(thread[t]) = Len(thread[t].msg.data) + 8 /\ Stored(r) = Stored(thread[t])
  BY <1>2, <1>4 DEF Stored
<1>7. ASSUME thread[t].alone PROVE Builds(r, package', packageSize')
  <2>1. KeepsBytes(r, package')
    BY <1>1, <1>3, <1>4, <1>6, <1>7 DEF Builds, KeepsBytes
  <2>2. n = Len(r.msg.data) + 8
    BY <1>2, <1>3, <1>4, <1>7 DEF Builds, KeepsSize
  <2> QED BY <1>4, <2>1, <2>2 DEF Builds, KeepsSum, KeepsSize
<1>8. r.at \in Building /\ r.whole
  BY <1>2, <1>3, <1>4
<1> QED BY <1>1, <1>2, <1>4, <1>5, <1>7, <1>8, BuildsOn

(* Whatever a thread that is alone gives to putc is its own. *)
LEMMA AloneStaysWhole ==
  ASSUME WInv, NEW t \in Threads, thread[t].alone, thread[t].at = "putc"
  PROVE  StillWhole(t)
<1> DEFINE k == Len(thread[t].msg.data)
<1>1. "putc" \in Building
  BY DEF Building
<1>2. /\ Builds(thread[t], package, packageSize) /\ thread[t].whole
      /\ k \in 0..PROTOCAL_MAX_DATA_LENGTH /\ Sized(thread[t])
      /\ thread[t].i \in 0..PROTOCAL_MAX_PACKAGE_LENGTH
  BY <1>1, OwnBytes, ThreadTypes DEF WInv
<1>3. Stored(thread[t]) = k + 8 /\ thread[t].len = k + 8 /\ thread[t].i < thread[t].len
  BY <1>2 DEF Stored, Builds, KeepsSize, Sized
<1> HIDE DEF k
<1>4. thread[t].i + 1 \in 1..(k + 8)
  BY <1>2, <1>3 DEF PROTOCAL_MAX_PACKAGE_LENGTH, PROTOCAL_MAX_DATA_LENGTH
<1>5. package[thread[t].i + 1] = Package(thread[t].msg)[thread[t].i + 1]
  BY <1>2, <1>3, <1>4 DEF Builds, KeepsBytes
<1> QED BY <1>2, <1>3, <1>5 DEF StillWhole, k

LEMMA PutByteWhole ==
  ASSUME WInv, TInv', NEW t \in Threads, PutByte(t)
  PROVE  WInv'
<1> DEFINE whole == StillWhole(t)
           r == [thread[t] EXCEPT !.i = thread[t].i + 1, !.whole = whole]
<1>1. Goes(t, "putc", r) /\ package' = package /\ packageSize' = packageSize
  BY Zenon DEF PutByte, Steps
<1>2. thread[t].at = "putc" /\ "putc" \in Building
  BY <1>1 DEF Goes, Building
<1>3. /\ thread[t] \in ThreadType
      /\ thread[t].alone => Builds(thread[t], package, packageSize)
  BY <1>2, OwnBytes
<1>4. thread[t].alone => whole
  BY <1>2, AloneStaysWhole
<1> HIDE DEF whole
<1>5. /\ r.at = "putc" /\ r.msg = thread[t].msg /\ r.alone = thread[t].alone
      /\ r.whole = whole /\ r.len = thread[t].len
  BY <1>2, <1>3 DEF ThreadType
<1>6. HeaderStays'
  BY <1>1 DEF WInv, HeaderStays
<1> HIDE DEF r
<1>7. ASSUME thread[t].alone PROVE Builds(r, package', packageSize')
  <2>1. Stored(r) = Stored(thread[t])
    BY <1>2, <1>5 DEF Stored
  <2> QED BY <1>1, <1>2, <1>3, <1>5, <1>7, <2>1 DEF Builds, KeepsBytes, KeepsSum, KeepsSize
<1> QED BY <1>1, <1>2, <1>4, <1>5, <1>6, <1>7, BuildsOn

LEMMA OutsideWhole ==
  ASSUME WInv, TInv', Calls \/ (\E t \in Threads : Test(t) \/ PutLastByte(t))
                      \/ WaitUntilFree \/ SetQuery \/ AckWaitEnds \/ QueryWaitEnds
  PROVE  WInv'
<1>1. Idle \in ThreadType /\ Idle.at = "idle" /\ Idle.whole
  BY IdleSized DEF Sized, Idle
<1>2. ASSUME NEW to \in {"test", "busy_wait", "route", "ack_wait"}, NEW m
      PROVE  /\ [Idle EXCEPT !.at = to, !.msg = m].at = to
             /\ [Idle EXCEPT !.at = to, !.msg = m].whole
             /\ [Idle EXCEPT !.at = to].at = to /\ [Idle EXCEPT !.at = to].whole
  BY <1>1 DEF ThreadType
<1> DEFINE Outside == {"type", "query_load", "query_store", "query_wait", "ack_clear"}
<1>3. (Outside \cup {"idle", "test", "busy_wait", "route", "ack_wait"}) \cap Building = {}
  BY DEF Building
<1>4. ASSUME NEW t \in Threads, thread[t].at # "putc", NEW to \in Outside
      PROVE  At(t, to).at = to /\ At(t, to).whole
  <2>1. thread[t] \in ThreadType /\ thread[t].whole
    BY <1>4, ThreadTypes DEF WInv, WholeSoFar
  <2> QED BY <2>1 DEF At, ThreadType
<1>5. ASSUME NEW t \in Threads, NEW to \in {"test", "busy_wait", "route"}, NEW messages,
             Call(t, to, messages)
      PROVE  WInv'
  <2>1. PICK m \in messages : Goes(t, "idle", [Idle EXCEPT !.at = to, !.msg = m])
    BY <1>5, Zenon DEF Call
  <2>2. package' = package /\ packageSize' = packageSize
    BY <1>5, Zenon DEF Call
  <2> DEFINE r == [Idle EXCEPT !.at = to, !.msg = m]
  <2>3. r.at \notin Building /\ r.whole /\ Goes(t, "idle", r)
    BY <1>2, <1>3, <2>1
  <2> HIDE DEF r
  <2> QED BY <2>2, <2>3, KeepsOut
<1>6. ASSUME NEW t \in Threads, Test(t) PROVE WInv'
  <2> DEFINE r == IF waitingStat # {} THEN Idle ELSE At(t, "type")
  <2>1. Goes(t, "test", r) /\ package' = package /\ packageSize' = packageSize
    BY <1>6, Zenon DEF Test, Steps
  <2>2. thread[t].at # "putc"
    BY <2>1 DEF Goes
  <2>3. r.at \notin Building /\ r.whole
    BY <1>1, <1>3, <1>4, <2>2
  <2> HIDE DEF r
  <2> QED BY <2>1, <2>3, KeepsOut
<1>7. ASSUME NEW t \in Threads, PutLastByte(t) PROVE WInv'
  <2> DEFINE r == IF Waits(t) THEN [Idle EXCEPT !.at = "ack_wait"] ELSE Idle
  <2>1. Goes(t, "putc", r) /\ package' = package /\ packageSize' = packageSize
    BY <1>7, Zenon DEF PutLastByte
  <2>2. r.at \notin Building /\ r.whole
    BY <1>1, <1>2, <1>3
  <2> HIDE DEF r
  <2> QED BY <2>1, <2>2, KeepsOut
<1>8. "shell" \in Threads
  BY DEF Threads
<1>9. ASSUME NEW from, from # "putc", NEW to \in Outside,
             Goes("shell", from, At("shell", to)) \/ Goes("shell", from, Idle),
             package' = package, packageSize' = packageSize
      PROVE  WInv'
  <2>1. thread["shell"].at # "putc"
    BY <1>9 DEF Goes
  <2>2. /\ At("shell", to).at \notin Building /\ At("shell", to).whole
        /\ Idle.at \notin Building /\ Idle.whole
    BY <1>1, <1>3, <1>4, <1>8, <2>1
  <2> QED BY <1>8, <1>9, <2>2, KeepsOut
<1>11. ASSUME WaitUntilFree PROVE WInv'
  BY <1>9, <1>11 DEF WaitUntilFree, Steps
<1>12. ASSUME SetQuery PROVE WInv'
  BY <1>9, <1>12 DEF SetQuery, LoadWord, StoreWord
<1>13. ASSUME AckWaitEnds PROVE WInv'
  BY <1>9, <1>13 DEF AckWaitEnds, LoadWord, StoreWord, Steps
<1>14. ASSUME QueryWaitEnds PROVE WInv'
  BY <1>9, <1>14 DEF QueryWaitEnds, Steps
<1>15. ASSUME Calls PROVE WInv'
  BY <1>5, <1>15 DEF Calls, Threads
<1> QED BY <1>6, <1>7, <1>11, <1>12, <1>13, <1>14, <1>15

LEMMA RouteWhole ==
  ASSUME WInv, TInv', RouteByte \/ RouteEnds
  PROVE  WInv'
<1>1. "timer" \in Threads
  BY DEF Threads
<1>2. ASSUME RouteEnds PROVE WInv'
  <2>1. /\ Goes("timer", "route", Idle) /\ package' = package /\ packageSize' = packageSize
    BY <1>2 DEF RouteEnds, Steps
  <2>2. Idle.at \notin Building /\ Idle.whole
    BY IdleSized DEF Idle, Building
  <2> QED BY <1>1, <2>1, <2>2, KeepsOut
<1>3. ASSUME RouteByte PROVE WInv'
  <2>1. ASSUME NEW u \in Threads
        PROVE  /\ thread'[u].at = thread[u].at /\ thread'[u].whole = thread[u].whole
               /\ ~ Alone(thread'[u])
    <3>1. thread[u] \in ThreadType
      BY ThreadTypes DEF WInv
    <3>2. CASE u = "timer"
      <4>1. /\ thread'[u] = [thread[u] EXCEPT !.i = thread[u].i + 1]
            /\ thread[u].at = "route" /\ "route" \notin Building
        BY <1>3, <3>2 DEF RouteByte, Building
      <4> QED BY <3>1, <4>1 DEF ThreadType, Alone
    <3>3. CASE u # "timer"
      <4>1. thread'[u] = [thread[u] EXCEPT !.alone = thread[u].alone
                                                     /\ thread[u].at \notin Building]
        BY <1>3, <3>3 DEF RouteByte
      <4> QED BY <3>1, <4>1 DEF ThreadType, Alone
    <3> QED BY <3>2, <3>3
  <2>2. HeaderStays'
    BY <1>3 DEF RouteByte, WInv, HeaderStays
  <2> QED BY <2>1, <2>2 DEF WInv, WholeSoFar, OthersKeepOut, AloneBuilds
<1> QED BY <1>2, <1>3

LEMMA NextWhole == WInv /\ TInv' /\ [Next]_vars => WInv'
<1> SUFFICES ASSUME WInv, TInv', [Next]_vars PROVE WInv'
  OBVIOUS
<1>1. ASSUME NEW t \in Threads, Sends(t) PROVE WInv'
  <2>1. ASSUME StoreSize(t) PROVE WInv'
    <3> DEFINE to == IF Waits(t) THEN "ack_load" ELSE "send"
    <3>1. /\ Goes(t, "size", At(t, to)) /\ package' = package
          /\ packageSize' = Len(thread[t].msg.data) + 8
      BY <2>1, Zenon DEF StoreSize
    <3>2. to \in {"ack_load", "ack_store", "send"}
      OBVIOUS
    <3> HIDE DEF to
    <3> QED BY <3>1, <3>2, SizeWhole
  <2> QED BY <1>1, <2>1, OutsideWhole, StoreTypeWhole, StoreLengthWhole, StoreCmdWhole,
             CopyDataWhole, SumWhole, StoreSumWhole, SendWhole, PutByteWhole DEF Sends
<1>2. ASSUME SetAck PROVE WInv'
  <2>1. /\ \/ Goes("shell", "ack_load", At("shell", "ack_store"))
           \/ Goes("shell", "ack_store", At("shell", "send"))
        /\ package' = package /\ packageSize' = packageSize
    BY <1>2 DEF SetAck, LoadWord, StoreWord
  <2>2. "shell" \in Threads
    BY DEF Threads
  <2> QED BY <2>1, <2>2, SizeWhole
<1>3. ASSUME ReplyTest \/ ReplyLoad \/ ReplyStore \/ UNCHANGED vars PROVE WInv'
  BY <1>3, NobodyMoves DEF ReplyTest, ReplyLoad, ReplyStore, UartDoes, vars
<1> QED BY <1>1, <1>2, <1>3, OutsideWhole, RouteWhole DEF Next

LEMMA StartWhole == Init /\ TInv => WInv
<1> SUFFICES ASSUME Init, TInv PROVE WInv
  OBVIOUS
<1>1. \A t \in Threads : thread[t] = Idle
  BY DEF Init
<1>2. Idle.at = "idle" /\ Idle.whole /\ "idle" \notin Building
  BY IdleSized DEF Idle, Building
<1>3. HeaderStays
  BY DEF Init, HeaderStays, PROTOCAL_MAX_PACKAGE_LENGTH
<1>4. WholeSoFar /\ OthersKeepOut /\ AloneBuilds
  BY <1>1, <1>2 DEF WholeSoFar, OthersKeepOut, AloneBuilds, Alone
<1> QED BY <1>3, <1>4 DEF WInv

(* A package that the other thread keeps away from is sent whole, with the
   right size and checksum, whatever earlier calls have left in the buffer. *)
THEOREM AloneIsSentWhole == Spec => UndisturbedFramesAreWhole
<1>1. WInv => [\A t \in Threads : thread[t].alone /\ PutLastByte(t) => StillWhole(t)]_vars
  BY AloneStaysWhole DEF PutLastByte, Goes
<1>2. WInv /\ TInv' /\ [Next]_vars => WInv'
  BY NextWhole
<1> QED BY TypesStart, TypesHold, StartWhole, <1>1, <1>2, PTL DEF Spec, UndisturbedFramesAreWhole
=============================================================================
