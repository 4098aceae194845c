--------------------------- MODULE QueryWaitProofs ---------------------------
(***************************************************************************)
(* The two threads of a query, without a lock: for any frames of the peer, *)
(* any buffer, and any number of frames and of retries, the types hold, a  *)
(* call that succeeds leaves no bit behind, and if it began fresh it has   *)
(* taken a setting since it set its QUERY bit and copies that one's data.  *)
(***************************************************************************)
EXTENDS QueryWait, TLAPS

-----------------------------------------------------------------------------
(* The inductive invariant *)

(* From giving up to the next busy test that lets a call pass *)
Between == shell.at \in {"timeout", "idle", "busy_test", "busy_wait"}

SettingInHand == uart.at \in {"answer_load", "answer_store"} => uart.frame.type = "set"

(* The uart thread can only clear bits, except that what it loaded before the
   shell took ACK back may bring ACK again: QUERY is set then, and no call passes
   the busy test. *)
UartOnlyClears ==
    /\ uart.at \in {"answer_load", "answer_store"} => "query" \in reply.waitingStat
    /\ uart.at = "ack_store" => "ack" \notin uart.stat
    /\ uart.at \in {"ack_store", "answer_store"} =>
          \/ uart.stat \subseteq reply.waitingStat
          \/ Between /\ reply.waitingStat = {"query"}

(* In a fresh call the uart thread clears ACK only while it is set. *)
FreshStart ==
    fresh /\ BeforeQuery(shell.at) =>
        (uart.at \in {"ack_load", "ack_store"} => "ack" \in reply.waitingStat)

(* What the shell thread knows of waitingStat where it is. *)
ShellKnows ==
    /\ shell.at \in {"query_load", "query_store"} => reply.waitingStat = {}
    /\ shell.at \in {"ack_load", "ack_store"} => reply.waitingStat \subseteq {"query"}
    /\ shell.at = "query_store" => shell.stat = {"query"}
    /\ shell.at = "ack_store" => reply.waitingStat \cup {"ack"} \subseteq shell.stat
    /\ shell.at = "ack_clear" => /\ reply.waitingStat \ {"ack"} \subseteq shell.stat
                                 /\ "ack" \notin shell.stat
    /\ shell.at \in {"err", "query_test", "query_wait"} => "ack" \notin reply.waitingStat
    /\ shell.at \in {"len", "copy"} => reply.waitingStat = {}

(* Between SetQuery and the end of a call *)
Asking == shell.at \in {"ack_load", "ack_store", "ack_test", "ack_wait", "err",
                        "query_test", "query_wait", "len", "copy"}

(* After a fresh start QUERY is only cleared when a setting is taken for the answer. *)
AnswerAwaited ==
    fresh /\ Asking /\ answer = NoAnswer =>
        /\ "query" \in reply.waitingStat
        /\ uart.at = "ack_store" => "query" \in uart.stat
        /\ shell.at = "ack_store" => "query" \in shell.stat

Race == SettingInHand /\ FreshStart /\ UartOnlyClears /\ ShellKnows /\ AnswerAwaited
IInv == TypeOK /\ Race

-----------------------------------------------------------------------------
(* What a step of either thread does to that thread *)

ShellType == [at : ShellPoints, tries : 0..(WaitTimes + 1), stat : SUBSET WaitingBits,
              len : 0..Least(ReplySize, BufferSize)]
UartType == [at : UartPoints, frame : PeerFrames \cup {NoFrame}, stat : SUBSET WaitingBits]

ShellMoves(from, to, n, stat, len) ==
    /\ shell.at = from /\ ~ owed
    /\ shell' \in ShellType
    /\ shell'.at = to /\ shell'.tries = n /\ shell'.stat = stat /\ shell'.len = len
    /\ owed' = (Sleeping(to) /\ ~ AwaitsChar(uart.at))
    /\ fresh' = IF from = "idle" THEN ~ ClearsBit(uart.at) ELSE fresh
    /\ UNCHANGED <<uart, arrived, pushed>>

UartMoves(from, to, frame, stat) ==
    /\ uart.at = from
    /\ uart' \in UartType
    /\ uart'.at = to /\ uart'.frame = frame /\ uart'.stat = stat
    /\ owed' = (owed /\ to # "ready")
    /\ fresh' = (fresh \/ (BeforeQuery(shell.at) /\ ~ ClearsBit(to)))
    /\ UNCHANGED <<shell, result>>

LEMMA ShellSetsAt ==
  ASSUME TypeOK, NEW from, NEW to \in ShellPoints, ShellGoes(from, to)
  PROVE  ShellMoves(from, to, shell.tries, shell.stat, shell.len)
<1>1. shell \in ShellType
  BY DEF TypeOK, ShellType
<1>2. shell' = [shell EXCEPT !.at = to]
  BY DEF ShellGoes, ShellDoes
<1>3. /\ shell' \in ShellType /\ shell'.at = to /\ shell'.tries = shell.tries
      /\ shell'.stat = shell.stat /\ shell'.len = shell.len
  BY <1>1, <1>2 DEF ShellType
<1> QED BY <1>3 DEF ShellGoes, ShellDoes, ShellMoves

(* The prover takes one field at a time. *)
LEMMA ShellSetsTries ==
  ASSUME TypeOK, NEW from, NEW to \in ShellPoints, NEW n \in 0..(WaitTimes + 1),
         ShellDoes(from, [shell EXCEPT !.at = to, !.tries = n])
  PROVE  ShellMoves(from, to, n, shell.stat, shell.len)
<1> DEFINE s == [shell EXCEPT !.at = to]
<1>1. /\ s \in ShellType /\ s.at = to /\ s.stat = shell.stat /\ s.len = shell.len
  BY DEF TypeOK, ShellType
<1>2. shell' = [s EXCEPT !.tries = n]
  BY Zenon DEF ShellDoes
<1> HIDE DEF s
<1>3. /\ shell' \in ShellType /\ shell'.at = to /\ shell'.tries = n
      /\ shell'.stat = shell.stat /\ shell'.len = shell.len
  BY <1>1, <1>2 DEF ShellType
<1>4. /\ shell.at = from /\ ~ owed /\ UNCHANGED <<uart, arrived, pushed>>
      /\ owed' = (Sleeping(shell'.at) /\ ~ AwaitsChar(uart.at))
      /\ fresh' = IF from = "idle" THEN ~ ClearsBit(uart.at) ELSE fresh
  BY Zenon DEF ShellDoes
<1> QED BY <1>3, <1>4 DEF ShellMoves

LEMMA ShellSetsStat ==
  ASSUME TypeOK, NEW from, NEW to \in ShellPoints, NEW stat \in SUBSET WaitingBits,
         ShellDoes(from, [shell EXCEPT !.at = to, !.stat = stat])
  PROVE  ShellMoves(from, to, shell.tries, stat, shell.len)
<1> DEFINE s == [shell EXCEPT !.at = to]
<1>1. /\ s \in ShellType /\ s.at = to /\ s.tries = shell.tries /\ s.len = shell.len
  BY DEF TypeOK, ShellType
<1>2. shell' = [s EXCEPT !.stat = stat]
  BY Zenon DEF ShellDoes
<1> HIDE DEF s
<1>3. /\ shell' \in ShellType /\ shell'.at = to /\ shell'.tries = shell.tries
      /\ shell'.stat = stat /\ shell'.len = shell.len
  BY <1>1, <1>2 DEF ShellType
<1>4. /\ shell.at = from /\ ~ owed /\ UNCHANGED <<uart, arrived, pushed>>
      /\ owed' = (Sleeping(shell'.at) /\ ~ AwaitsChar(uart.at))
      /\ fresh' = IF from = "idle" THEN ~ ClearsBit(uart.at) ELSE fresh
  BY Zenon DEF ShellDoes
<1> QED BY <1>3, <1>4 DEF ShellMoves

LEMMA ShellSetsLen ==
  ASSUME TypeOK, NEW from, NEW to \in ShellPoints, NEW len \in 0..Least(ReplySize, BufferSize),
         ShellDoes(from, [shell EXCEPT !.at = to, !.len = len])
  PROVE  ShellMoves(from, to, shell.tries, shell.stat, len)
<1> DEFINE s == [shell EXCEPT !.at = to]
<1>1. /\ s \in ShellType /\ s.at = to /\ s.tries = shell.tries /\ s.stat = shell.stat
  BY DEF TypeOK, ShellType
<1>2. shell' = [s EXCEPT !.len = len]
  BY Zenon DEF ShellDoes
<1> HIDE DEF s
<1>3. /\ shell' \in ShellType /\ shell'.at = to /\ shell'.tries = shell.tries
      /\ shell'.stat = shell.stat /\ shell'.len = len
  BY <1>1, <1>2 DEF ShellType
<1>4. /\ shell.at = from /\ ~ owed /\ UNCHANGED <<uart, arrived, pushed>>
      /\ owed' = (Sleeping(shell'.at) /\ ~ AwaitsChar(uart.at))
      /\ fresh' = IF from = "idle" THEN ~ ClearsBit(uart.at) ELSE fresh
  BY Zenon DEF ShellDoes
<1> QED BY <1>3, <1>4 DEF ShellMoves

LEMMA UartSetsAt ==
  ASSUME TypeOK, NEW from, NEW to \in UartPoints, UartGoes(from, to)
  PROVE  UartMoves(from, to, uart.frame, uart.stat)
<1>1. uart \in UartType
  BY DEF TypeOK, UartType
<1>2. uart' = [uart EXCEPT !.at = to]
  BY DEF UartGoes, UartDoes
<1>3. /\ uart' \in UartType /\ uart'.at = to /\ uart'.frame = uart.frame
      /\ uart'.stat = uart.stat
  BY <1>1, <1>2 DEF UartType
<1> QED BY <1>3 DEF UartGoes, UartDoes, UartMoves

LEMMA UartSetsFrame ==
  ASSUME TypeOK, NEW from, NEW to \in UartPoints, NEW f \in PeerFrames,
         UartDoes(from, [uart EXCEPT !.at = to, !.frame = f])
  PROVE  UartMoves(from, to, f, uart.stat)
<1> DEFINE u == [uart EXCEPT !.at = to]
<1>1. u \in UartType /\ u.at = to /\ u.stat = uart.stat
  BY DEF TypeOK, UartType
<1>2. uart' = [u EXCEPT !.frame = f]
  BY Zenon DEF UartDoes
<1> HIDE DEF u
<1>3. uart' \in UartType /\ uart'.at = to /\ uart'.frame = f /\ uart'.stat = uart.stat
  BY <1>1, <1>2 DEF UartType
<1>4. /\ uart.at = from /\ owed' = (owed /\ uart'.at # "ready") /\ UNCHANGED <<shell, result>>
      /\ fresh' = (fresh \/ (BeforeQuery(shell.at) /\ ~ ClearsBit(uart'.at)))
  BY Zenon DEF UartDoes
<1> QED BY <1>3, <1>4 DEF UartMoves

LEMMA UartSetsStat ==
  ASSUME TypeOK, NEW from, NEW to \in UartPoints, NEW stat \in SUBSET WaitingBits,
         UartDoes(from, [uart EXCEPT !.at = to, !.stat = stat])
  PROVE  UartMoves(from, to, uart.frame, stat)
<1> DEFINE u == [uart EXCEPT !.at = to]
<1>1. u \in UartType /\ u.at = to /\ u.frame = uart.frame
  BY DEF TypeOK, UartType
<1>2. uart' = [u EXCEPT !.stat = stat]
  BY Zenon DEF UartDoes
<1> HIDE DEF u
<1>3. uart' \in UartType /\ uart'.at = to /\ uart'.frame = uart.frame /\ uart'.stat = stat
  BY <1>1, <1>2 DEF UartType
<1>4. /\ uart.at = from /\ owed' = (owed /\ uart'.at # "ready") /\ UNCHANGED <<shell, result>>
      /\ fresh' = (fresh \/ (BeforeQuery(shell.at) /\ ~ ClearsBit(uart'.at)))
  BY Zenon DEF UartDoes
<1> QED BY <1>3, <1>4 DEF UartMoves

-----------------------------------------------------------------------------
(* What the types need *)

ReplyType == [waitingStat : SUBSET WaitingBits, replyErr : 0..255, replyLen : 0..BufferSize]
ParserType == [status : {"header", "cmd_type", "checksum"}, cmd : 0..255,
               buffer : [1..BufferSize -> 0..255], bufferIndex : 0..BufferSize]
ResultType == [ret : {"success", "error", "timeout"}, data : Seq(0..255)]

LEMMA ShellTypes ==
  ASSUME TypeOK, NEW from, NEW to, NEW n, NEW stat, NEW len,
         ShellMoves(from, to, n, stat, len),
         reply' \in ReplyType, parser' \in ParserType, result' \in ResultType
  PROVE  TypeOK'
<1>1. uart \in UartType /\ arrived \in 0..MaxFrames /\ fresh \in BOOLEAN
  BY DEF TypeOK, UartType
<1>2. uart' \in UartType /\ arrived' \in 0..MaxFrames /\ shell' \in ShellType
      /\ owed' \in BOOLEAN /\ fresh' \in BOOLEAN
  BY <1>1 DEF ShellMoves, Sleeping, AwaitsChar, ClearsBit
<1> QED BY <1>2 DEF TypeOK, ReplyType, ParserType, ResultType, UartType, ShellType

LEMMA UartTypes ==
  ASSUME TypeOK, NEW from, NEW to, NEW frame, NEW stat, UartMoves(from, to, frame, stat),
         reply' \in ReplyType, parser' \in ParserType, arrived' \in 0..MaxFrames
  PROVE  TypeOK'
<1>1. shell \in ShellType /\ result \in ResultType /\ owed \in BOOLEAN
      /\ fresh \in BOOLEAN
  BY DEF TypeOK, ShellType, ResultType
<1>2. uart' \in UartType /\ shell' \in ShellType /\ result' \in ResultType
      /\ owed' \in BOOLEAN /\ fresh' \in BOOLEAN
  BY <1>1 DEF UartMoves, BeforeQuery, ClearsBit
<1> QED BY <1>2 DEF TypeOK, ReplyType, ParserType, ResultType, UartType, ShellType

LEMMA Types ==
  ASSUME TypeOK
  PROVE  /\ reply \in ReplyType /\ parser \in ParserType /\ result \in ResultType
         /\ shell \in ShellType /\ uart \in UartType /\ arrived \in 0..MaxFrames
  BY DEF TypeOK, ReplyType, ParserType, ResultType, ShellType, UartType

LEMMA StoreTypes ==
  ASSUME TypeOK, NEW stat \in SUBSET WaitingBits,
         reply' = [reply EXCEPT !.waitingStat = stat]
  PROVE  reply' \in ReplyType /\ reply'.waitingStat = stat
  BY Types DEF ReplyType

(* protocalReset, and with other values the start of a frame *)
LEMMA ParserTypes ==
  ASSUME TypeOK, NEW status \in {"header", "cmd_type", "checksum"},
         parser' = [parser EXCEPT !.status = status, !.bufferIndex = 0,
                                  !.cmd = CMD_ID_INVALID]
  PROVE  parser' \in ParserType
<1> DEFINE one == [parser EXCEPT !.status = status]
           two == [one EXCEPT !.bufferIndex = 0]
<1>1. one \in ParserType
  BY Types DEF ParserType
<1>2. 0 \in 0..BufferSize /\ CMD_ID_INVALID \in 0..255
  BY QueryAssumption DEF CMD_ID_INVALID
<1>3. parser' = [two EXCEPT !.cmd = CMD_ID_INVALID]
  BY Zenon
<1> HIDE DEF one
<1>4. two \in ParserType
  BY <1>1, <1>2 DEF ParserType
<1> HIDE DEF two
<1> QED BY <1>2, <1>3, <1>4 DEF ParserType

LEMMA ResetTypes == ASSUME TypeOK, protocalReset PROVE parser' \in ParserType
<1>1. parser' = [parser EXCEPT !.status = "header", !.bufferIndex = 0, !.cmd = CMD_ID_INVALID]
  BY Zenon DEF protocalReset
<1> QED BY <1>1, ParserTypes

-----------------------------------------------------------------------------
(* The steps of the uart thread *)

LEMMA ReceiveHeaderHolds ==
  ASSUME IInv, NEW f \in PeerFrames, ReceiveHeader(f)
  PROVE  IInv'
<1>1. TypeOK
  BY DEF IInv
<1>2. "body" \in UartPoints
  BY DEF UartPoints
<1>3. UartMoves("ready", "body", f, uart.stat)
  BY <1>1, <1>2, UartSetsFrame DEF ReceiveHeader
<1>4. /\ arrived < MaxFrames /\ arrived' = arrived + 1 /\ UNCHANGED <<reply, answer>>
      /\ parser' = [parser EXCEPT !.status = "cmd_type", !.bufferIndex = 0,
                                  !.cmd = CMD_ID_INVALID]
  BY Zenon DEF ReceiveHeader
<1>5. parser' \in ParserType
  BY <1>1, <1>4, ParserTypes
<1>6. reply' \in ReplyType /\ arrived' \in 0..MaxFrames
  BY <1>1, <1>4, Types, QueryAssumption
<1>7. TypeOK'
  BY <1>1, <1>3, <1>5, <1>6, UartTypes
<1>8. Race'
  BY <1>3, <1>4 DEF IInv, Race, UartMoves, SettingInHand, FreshStart,
                               UartOnlyClears,
                    ShellKnows, Asking, AnswerAwaited, Between, BeforeQuery, ClearsBit
<1> QED BY <1>7, <1>8 DEF IInv

LEMMA ElementsOf ==
  ASSUME NEW S, NEW data \in Seq(S), NEW i \in 1..Len(data)
  PROVE  data[i] \in S
  OBVIOUS

LEMMA FilledIsBuffer ==
  ASSUME NEW data \in Seq(0..255), parser \in ParserType, BufferSize \in Nat
  PROVE  Filled(data) \in [1..BufferSize -> 0..255]
<1>1. ASSUME NEW i \in 1..BufferSize
      PROVE  (IF i <= Len(data) THEN data[i] ELSE parser.buffer[i]) \in 0..255
  <2>1. parser.buffer[i] \in 0..255
    BY DEF ParserType
  <2>2. ASSUME i <= Len(data) PROVE data[i] \in 0..255
    <3>1. i \in 1..Len(data)
      BY <2>2
    <3> QED BY <3>1, ElementsOf
  <2> QED BY <2>1, <2>2
<1> QED BY <1>1 DEF Filled

LEMMA FilledTypes ==
  ASSUME TypeOK
  PROVE  /\ uart.frame.cmd \in 0..255 /\ Len(uart.frame.data) \in 0..BufferSize
         /\ Filled(uart.frame.data) \in [1..BufferSize -> 0..255]
<1> DEFINE Fits(f) == f.cmd \in 0..255 /\ f.data \in Seq(0..255) /\ Len(f.data) <= BufferSize
<1>1. uart.frame \in PeerFrames \cup {NoFrame}
  BY Types DEF UartType
<1>2. Fits(NoFrame)
  <2>1. << >> \in Seq(0..255) /\ Len(<< >>) = 0 /\ BufferSize >= 0 /\ 255 \in 0..255
    BY QueryAssumption
  <2>2. NoFrame.data = << >> /\ NoFrame.cmd = 255
    BY DEF NoFrame, CMD_ID_INVALID
  <2>3. Len(NoFrame.data) <= BufferSize
    BY <2>1, <2>2
  <2> QED BY <2>1, <2>2, <2>3
<1>3. \A f \in PeerFrames : Fits(f)
  BY QueryAssumption
<1>4. Fits(uart.frame)
  BY <1>1, <1>2, <1>3
<1>5. BufferSize \in Nat
  BY QueryAssumption
<1>6. Len(uart.frame.data) \in 0..BufferSize
  BY <1>4, <1>5
<1>7. Filled(uart.frame.data) \in [1..BufferSize -> 0..255]
  BY <1>4, <1>5, Types, FilledIsBuffer
<1> QED BY <1>4, <1>6, <1>7

LEMMA ReceiveBodyHolds == ASSUME IInv, ReceiveBody PROVE IInv'
<1>1. TypeOK
  BY DEF IInv
<1>2. "checksum" \in UartPoints
  BY DEF UartPoints
<1>3. UartMoves("body", "checksum", uart.frame, uart.stat)
  BY <1>1, <1>2, UartSetsAt DEF ReceiveBody
<1>4. /\ UNCHANGED <<reply, answer, arrived>>
      /\ parser' = IF parser.status = "header" THEN parser
                   ELSE [status |-> "checksum", cmd |-> uart.frame.cmd,
                         buffer |-> Filled(uart.frame.data),
                         bufferIndex |-> Len(uart.frame.data)]
  BY DEF ReceiveBody, history
<1>5. parser' \in ParserType
  BY <1>1, <1>4, Types, FilledTypes DEF ParserType
<1>6. TypeOK'
  BY <1>1, <1>3, <1>4, <1>5, Types, UartTypes
<1>7. Race'
  BY <1>3, <1>4 DEF IInv, Race, UartMoves, SettingInHand, FreshStart,
                               UartOnlyClears,
                    ShellKnows, Asking, AnswerAwaited, Between, BeforeQuery, ClearsBit
<1> QED BY <1>6, <1>7 DEF IInv

LEMMA ReceiveCheckSumHolds == ASSUME IInv, ReceiveCheckSum PROVE IInv'
<1>1. TypeOK
  BY DEF IInv
<1> DEFINE to == IF TakesAck THEN "ack_load" ELSE IF TakesAnswer THEN "answer_load" ELSE "push"
<1>2. to \in UartPoints
  BY DEF UartPoints
<1>3. UartMoves("checksum", to, uart.frame, uart.stat)
  BY <1>1, <1>2, UartSetsAt DEF ReceiveCheckSum
<1>4. /\ UNCHANGED <<reply, answer, arrived>>
      /\ parser' = [parser EXCEPT !.status = "cmd_type"]
  BY DEF ReceiveCheckSum, history
<1>5. parser' \in ParserType
  BY <1>1, <1>4, Types DEF ParserType
<1>6. TypeOK'
  BY <1>1, <1>3, <1>4, <1>5, Types, UartTypes
<1>7. Race'
  BY <1>3, <1>4 DEF IInv, Race, UartMoves, SettingInHand, FreshStart,
                               UartOnlyClears,
                    ShellKnows, Asking, AnswerAwaited, Between, BeforeQuery, ClearsBit,
                    TakesAck, TakesAnswer
<1> QED BY <1>6, <1>7 DEF IInv

LEMMA ReceiveNoiseHolds == ASSUME IInv, ReceiveNoise PROVE IInv'
<1>1. TypeOK
  BY DEF IInv
<1>2. "ready" \in UartPoints
  BY DEF UartPoints
<1>3. UartMoves("checksum", "ready", uart.frame, uart.stat)
  BY <1>1, <1>2, UartSetsAt DEF ReceiveNoise
<1>4. UNCHANGED <<reply, parser, answer, arrived>>
  BY DEF ReceiveNoise, history
<1>5. reply' \in ReplyType /\ parser' \in ParserType /\ arrived' \in 0..MaxFrames
  BY <1>1, <1>4, Types
<1>6. TypeOK'
  BY <1>1, <1>3, <1>4, <1>5, Types, UartTypes
<1>7. Race'
  BY <1>3, <1>4 DEF IInv, Race, UartMoves, SettingInHand, FreshStart,
                               UartOnlyClears,
                    ShellKnows, Asking, AnswerAwaited, Between, BeforeQuery, ClearsBit
<1> QED BY <1>6, <1>7 DEF IInv

LEMMA AckLoadHolds == ASSUME IInv, AckLoad PROVE IInv'
<1>1. TypeOK
  BY DEF IInv
<1>2. "ack_store" \in UartPoints /\ reply.waitingStat \ {"ack"} \in SUBSET WaitingBits
  BY <1>1, Types DEF UartPoints, ReplyType
<1>3. UartMoves("ack_load", "ack_store", uart.frame, reply.waitingStat \ {"ack"})
  BY <1>1, <1>2, UartSetsStat DEF AckLoad
<1>4. UNCHANGED <<reply, parser, answer, arrived>>
  BY Zenon DEF AckLoad, history
<1>5. reply' \in ReplyType /\ parser' \in ParserType /\ arrived' \in 0..MaxFrames
  BY <1>1, <1>4, Types
<1>6. TypeOK'
  BY <1>1, <1>3, <1>4, <1>5, Types, UartTypes
<1>7. Race'
  BY <1>3, <1>4 DEF IInv, Race, UartMoves, SettingInHand, FreshStart,
                               UartOnlyClears,
                    ShellKnows, Asking, AnswerAwaited, Between, BeforeQuery, ClearsBit
<1> QED BY <1>6, <1>7 DEF IInv

LEMMA AnswerLoadHolds == ASSUME IInv, AnswerLoad PROVE IInv'
<1>1. TypeOK
  BY DEF IInv
<1>2. "answer_store" \in UartPoints /\ reply.waitingStat \ {"query"} \in SUBSET WaitingBits
  BY <1>1, Types DEF UartPoints, ReplyType
<1>3. UartMoves("answer_load", "answer_store", uart.frame, reply.waitingStat \ {"query"})
  BY <1>1, <1>2, UartSetsStat DEF AnswerLoad
<1>4. UNCHANGED <<reply, parser, answer, arrived>>
  BY Zenon DEF AnswerLoad, history
<1>5. reply' \in ReplyType /\ parser' \in ParserType /\ arrived' \in 0..MaxFrames
  BY <1>1, <1>4, Types
<1>6. TypeOK'
  BY <1>1, <1>3, <1>4, <1>5, Types, UartTypes
<1>7. Race'
  BY <1>3, <1>4 DEF IInv, Race, UartMoves, SettingInHand, FreshStart,
                               UartOnlyClears,
                    ShellKnows, Asking, AnswerAwaited, Between, BeforeQuery, ClearsBit
<1> QED BY <1>6, <1>7 DEF IInv

LEMMA AckStoreHolds == ASSUME IInv, AckStore PROVE IInv'
<1>1. TypeOK
  BY DEF IInv
<1>2. "ack_err" \in UartPoints
  BY DEF UartPoints
<1>3. UartMoves("ack_store", "ack_err", uart.frame, uart.stat)
  BY <1>1, <1>2, UartSetsAt DEF AckStore
<1>4. reply' = [reply EXCEPT !.waitingStat = uart.stat] /\ UNCHANGED <<parser, answer, arrived>>
  BY DEF AckStore, history
<1>5. reply' \in ReplyType /\ reply'.waitingStat = uart.stat
  BY <1>1, <1>4, Types, StoreTypes DEF UartType
<1>6. TypeOK'
  BY <1>1, <1>3, <1>4, <1>5, Types, UartTypes
<1>7. Race'
  BY <1>3, <1>4, <1>5 DEF IInv, Race, UartMoves, SettingInHand, FreshStart,
                               UartOnlyClears,
                    ShellKnows, Asking, AnswerAwaited, Between, BeforeQuery, ClearsBit
<1> QED BY <1>6, <1>7 DEF IInv

LEMMA AnswerStoreHolds == ASSUME IInv, AnswerStore PROVE IInv'
<1>1. TypeOK
  BY DEF IInv
<1>2. "answer_len" \in UartPoints
  BY DEF UartPoints
<1>3. UartMoves("answer_store", "answer_len", uart.frame, uart.stat)
  BY <1>1, <1>2, UartSetsAt DEF AnswerStore
<1>4. /\ reply' = [reply EXCEPT !.waitingStat = uart.stat]
      /\ answer' = [frame |-> uart.frame, at |-> arrived] /\ UNCHANGED <<parser, arrived>>
  BY DEF AnswerStore
<1>5. reply' \in ReplyType /\ reply'.waitingStat = uart.stat
  BY <1>1, <1>4, Types, StoreTypes DEF UartType
<1>6. answer' # NoAnswer
  <2>1. uart.frame.type = "set"
    BY <1>3 DEF IInv, Race, SettingInHand, UartMoves
  <2>2. answer'.frame = uart.frame
    BY <1>4
  <2>3. NoAnswer.frame = NoFrame /\ NoFrame.type # "set"
    BY DEF NoAnswer, NoFrame
  <2> QED BY <2>1, <2>2, <2>3
<1>7. TypeOK'
  BY <1>1, <1>3, <1>4, <1>5, Types, UartTypes
<1>8. Race'
  BY <1>3, <1>4, <1>5, <1>6 DEF IInv, Race, UartMoves, SettingInHand, FreshStart,
                               UartOnlyClears,
                    ShellKnows, Asking, AnswerAwaited, Between, BeforeQuery, ClearsBit
<1> QED BY <1>7, <1>8 DEF IInv

LEMMA AckErrHolds == ASSUME IInv, AckErr PROVE IInv'
<1>1. TypeOK
  BY DEF IInv
<1>2. "reset" \in UartPoints
  BY DEF UartPoints
<1>3. UartMoves("ack_err", "reset", uart.frame, uart.stat)
  BY <1>1, <1>2, UartSetsAt DEF AckErr
<1>4. /\ reply' = [reply EXCEPT !.replyErr = parser.buffer[1]]
      /\ UNCHANGED <<parser, answer, arrived>>
  BY DEF AckErr, history
<1>5. reply' \in ReplyType /\ reply'.waitingStat = reply.waitingStat
  <2>1. 1 \in 1..BufferSize
    BY QueryAssumption
  <2>2. parser.buffer[1] \in 0..255
    BY <1>1, <2>1, Types DEF ParserType
  <2> QED BY <1>1, <1>4, <2>2, Types DEF ReplyType
<1>6. TypeOK'
  BY <1>1, <1>3, <1>4, <1>5, Types, UartTypes
<1>7. Race'
  BY <1>3, <1>4, <1>5 DEF IInv, Race, UartMoves, SettingInHand, FreshStart,
                               UartOnlyClears,
                    ShellKnows, Asking, AnswerAwaited, Between, BeforeQuery, ClearsBit
<1> QED BY <1>6, <1>7 DEF IInv

LEMMA AnswerLenHolds == ASSUME IInv, AnswerLen PROVE IInv'
<1>1. TypeOK
  BY DEF IInv
<1>2. "reset" \in UartPoints
  BY DEF UartPoints
<1>3. UartMoves("answer_len", "reset", uart.frame, uart.stat)
  BY <1>1, <1>2, UartSetsAt DEF AnswerLen
<1>4. /\ reply' = [reply EXCEPT !.replyLen = parser.bufferIndex]
      /\ UNCHANGED <<parser, answer, arrived>>
  BY DEF AnswerLen, history
<1>5. reply' \in ReplyType /\ reply'.waitingStat = reply.waitingStat
  BY <1>1, <1>4, Types DEF ReplyType, ParserType
<1>6. TypeOK'
  BY <1>1, <1>3, <1>4, <1>5, Types, UartTypes
<1>7. Race'
  BY <1>3, <1>4, <1>5 DEF IInv, Race, UartMoves, SettingInHand, FreshStart,
                               UartOnlyClears,
                    ShellKnows, Asking, AnswerAwaited, Between, BeforeQuery, ClearsBit
<1> QED BY <1>6, <1>7 DEF IInv

LEMMA PushHolds == ASSUME IInv, Push PROVE IInv'
<1>1. TypeOK
  BY DEF IInv
<1>2. "reset" \in UartPoints
  BY DEF UartPoints
<1>3. UartMoves("push", "reset", uart.frame, uart.stat)
  BY <1>1, <1>2, UartSetsAt DEF Push
<1>4. UNCHANGED <<reply, parser, answer, arrived>>
  BY DEF Push
<1>5. reply' \in ReplyType /\ parser' \in ParserType /\ arrived' \in 0..MaxFrames
  BY <1>1, <1>4, Types
<1>6. TypeOK'
  BY <1>1, <1>3, <1>4, <1>5, Types, UartTypes
<1>7. Race'
  BY <1>3, <1>4 DEF IInv, Race, UartMoves, SettingInHand, FreshStart,
                               UartOnlyClears,
                    ShellKnows, Asking, AnswerAwaited, Between, BeforeQuery, ClearsBit
<1> QED BY <1>6, <1>7 DEF IInv

LEMMA UartResetHolds == ASSUME IInv, UartReset PROVE IInv'
<1>1. TypeOK
  BY DEF IInv
<1>2. /\ uart.at = "reset" /\ uart' = [at |-> "ready", frame |-> NoFrame, stat |-> {}]
      /\ owed' = FALSE /\ UNCHANGED <<shell, result, reply, answer, arrived>>
      /\ fresh' = (fresh \/ BeforeQuery(shell.at))
  BY DEF UartReset, UartDoes, history, ClearsBit
<1>3. parser' \in ParserType
  BY <1>1, ResetTypes DEF UartReset
<1>4. uart' \in UartType
  BY <1>2 DEF UartType, UartPoints
<1>5. TypeOK'
  BY <1>1, <1>2, <1>3, <1>4 DEF TypeOK, UartType, ParserType, BeforeQuery
<1>6. Race'
  BY <1>2 DEF IInv, Race, SettingInHand, FreshStart, UartOnlyClears, ShellKnows,
              Asking, AnswerAwaited, Between, BeforeQuery, ClearsBit
<1> QED BY <1>5, <1>6 DEF IInv

-----------------------------------------------------------------------------
(* The steps of the shell thread *)

LEMMA PartIsSeq ==
  ASSUME NEW size \in Nat, NEW buffer \in [1..size -> 0..255], NEW len \in 0..size
  PROVE  SubSeq(buffer, 1, len) \in Seq(0..255)
<1>1. buffer \in Seq(0..255) /\ Len(buffer) = size
  OBVIOUS
<1> QED BY <1>1

SharedKept == UNCHANGED <<reply, parser, result, answer>>

LEMMA KeptTypes ==
  ASSUME TypeOK, NEW from, NEW to, NEW n, NEW stat, NEW len,
         ShellMoves(from, to, n, stat, len), SharedKept
  PROVE  TypeOK'
  BY Types, ShellTypes DEF SharedKept

LEMMA TestMoves ==
  ASSUME TypeOK, NEW test, NEW holds \in BOOLEAN, NEW wait \in ShellPoints,
         NEW done \in ShellPoints, Test(test, holds, wait, done)
  PROVE  /\ \/ holds /\ ShellMoves(test, wait, shell.tries, shell.stat, shell.len)
            \/ ~ holds /\ ShellMoves(test, done, 0, shell.stat, shell.len)
         /\ SharedKept
<1>1. SharedKept
  BY Zenon DEF Test, SharedKept
<1>2. shell.tries \in 0..(WaitTimes + 1) /\ 0 \in 0..(WaitTimes + 1)
  BY Types, QueryAssumption DEF ShellType
<1>3. CASE holds
  <2>1. ShellDoes(test, [shell EXCEPT !.at = wait, !.tries = shell.tries])
    BY <1>3, Zenon DEF Test
  <2> QED BY <1>1, <1>2, <1>3, <2>1, ShellSetsTries
<1>4. CASE ~ holds
  <2>1. ShellDoes(test, [shell EXCEPT !.at = done, !.tries = 0])
    BY <1>4, Zenon DEF Test
  <2> QED BY <1>1, <1>2, <1>4, <2>1, ShellSetsTries
<1> QED BY <1>3, <1>4

LEMMA WaitAgainMoves ==
  ASSUME TypeOK, NEW wait, NEW test \in ShellPoints, WaitAgain(wait, test)
  PROVE  /\ ShellMoves(wait, test, shell.tries + 1, shell.stat, shell.len)
         /\ SharedKept
<1> DEFINE n == shell.tries + 1
<1>1. shell.tries <= WaitTimes
  BY Zenon DEF WaitAgain
<1>2. n \in 0..(WaitTimes + 1)
  BY <1>1, Types, QueryAssumption DEF ShellType
<1>3. ShellDoes(wait, [shell EXCEPT !.at = test, !.tries = n])
  BY Zenon DEF WaitAgain
<1>4. SharedKept
  BY Zenon DEF WaitAgain, SharedKept
<1> HIDE DEF n
<1>5. ShellMoves(wait, test, n, shell.stat, shell.len)
  BY <1>2, <1>3, ShellSetsTries
<1> QED BY <1>4, <1>5 DEF n

LEMMA GiveUpMoves ==
  ASSUME TypeOK, NEW wait, GiveUp(wait)
  PROVE  ShellMoves(wait, "timeout", shell.tries, shell.stat, shell.len) /\ SharedKept
<1>1. "timeout" \in ShellPoints
  BY DEF ShellPoints
<1> QED BY <1>1, ShellSetsAt DEF GiveUp, SharedKept

LEMMA LoadMoves ==
  ASSUME TypeOK, NEW from, NEW to \in ShellPoints, NEW stat \in SUBSET WaitingBits,
         Load(from, to, stat)
  PROVE  ShellMoves(from, to, shell.tries, stat, shell.len) /\ SharedKept
<1>1. ShellDoes(from, [shell EXCEPT !.at = to, !.stat = stat]) /\ SharedKept
  BY Zenon DEF Load, SharedKept
<1> QED BY <1>1, ShellSetsStat

LEMMA StoreMoves ==
  ASSUME TypeOK, NEW from, NEW to \in ShellPoints, Store(from, to)
  PROVE  /\ ShellMoves(from, to, shell.tries, shell.stat, shell.len)
         /\ reply'.waitingStat = shell.stat
         /\ TypeOK'
<1>1. ShellMoves(from, to, shell.tries, shell.stat, shell.len)
  BY ShellSetsAt DEF Store
<1>2. reply' \in ReplyType /\ reply'.waitingStat = shell.stat
  BY Types, StoreTypes DEF Store, ShellType
<1>3. parser' \in ParserType /\ result' \in ResultType
  BY Types DEF Store
<1> QED BY <1>1, <1>2, <1>3, ShellTypes

LEMMA CallHolds == ASSUME IInv, Call PROVE IInv'
<1>1. TypeOK
  BY DEF IInv
<1>2. "busy_test" \in ShellPoints /\ 0 \in 0..(WaitTimes + 1)
  BY QueryAssumption DEF ShellPoints
<1>3. ShellDoes("idle", [shell EXCEPT !.at = "busy_test", !.tries = 0]) /\ SharedKept
  BY Zenon DEF Call, SharedKept
<1>4. ShellMoves("idle", "busy_test", 0, shell.stat, shell.len)
  BY <1>1, <1>2, <1>3, ShellSetsTries
<1>5. TypeOK'
  BY <1>1, <1>3, <1>4, KeptTypes
<1>6. Race'
  BY <1>3, <1>4 DEF SharedKept, IInv, Race, ShellMoves, SettingInHand, FreshStart,
            UartOnlyClears, ShellKnows, Asking, AnswerAwaited, Between, BeforeQuery, ClearsBit
<1> QED BY <1>5, <1>6 DEF IInv

LEMMA WaitUntilFreeHolds == ASSUME IInv, WaitUntilFree PROVE IInv'
<1>1. TypeOK
  BY DEF IInv
<1>2. ASSUME Test("busy_test", reply.waitingStat # {}, "busy_wait", "query_load") PROVE IInv'
  <2>1. "busy_wait" \in ShellPoints /\ "query_load" \in ShellPoints
        /\ (reply.waitingStat # {}) \in BOOLEAN
    BY DEF ShellPoints
  <2> DEFINE holds == reply.waitingStat # {}
  <2>2. /\ \/ holds /\ ShellMoves("busy_test", "busy_wait", shell.tries, shell.stat, shell.len)
           \/ ~ holds /\ ShellMoves("busy_test", "query_load", 0, shell.stat, shell.len)
        /\ SharedKept
    <3> HIDE DEF holds
    <3> QED BY <1>1, <1>2, <2>1, TestMoves DEF holds
  <2>3. TypeOK'
    BY <1>1, <2>2, KeptTypes
  <2>4. Race'
    <3>1. ASSUME holds, ShellMoves("busy_test", "busy_wait", shell.tries, shell.stat, shell.len)
          PROVE  Race'
      BY <2>2, <3>1 DEF SharedKept, IInv, Race, ShellMoves, SettingInHand, FreshStart,
            UartOnlyClears, ShellKnows, Asking, AnswerAwaited, Between, BeforeQuery, ClearsBit
    <3>2. ASSUME ~ holds, ShellMoves("busy_test", "query_load", 0, shell.stat, shell.len)
          PROVE  Race'
      BY <2>2, <3>2 DEF SharedKept, IInv, Race, ShellMoves, SettingInHand, FreshStart,
            UartOnlyClears, ShellKnows, Asking, AnswerAwaited, Between, BeforeQuery, ClearsBit
    <3> QED BY <2>2, <3>1, <3>2
  <2> QED BY <2>3, <2>4 DEF IInv
<1>3. ASSUME WaitAgain("busy_wait", "busy_test") PROVE IInv'
  <2>1. "busy_test" \in ShellPoints
    BY <1>1, Types DEF ShellPoints, ReplyType
  <2>2. /\ ShellMoves("busy_wait", "busy_test", shell.tries + 1, shell.stat, shell.len)
        /\ SharedKept
    BY <1>1, <1>3, <2>1, WaitAgainMoves
  <2>3. TypeOK'
    BY <1>1, <2>2, KeptTypes
  <2>4. Race'
    BY <2>2 DEF SharedKept, IInv, Race, ShellMoves, SettingInHand, FreshStart,
            UartOnlyClears, ShellKnows, Asking, AnswerAwaited, Between, BeforeQuery, ClearsBit
  <2> QED BY <2>3, <2>4 DEF IInv
<1>4. ASSUME GiveUp("busy_wait") PROVE IInv'
  <2>1. TRUE
    BY <1>1, Types DEF ShellPoints, ReplyType
  <2>2. ShellMoves("busy_wait", "timeout", shell.tries, shell.stat, shell.len) /\ SharedKept
    BY <1>1, <1>4, <2>1, GiveUpMoves
  <2>3. TypeOK'
    BY <1>1, <2>2, KeptTypes
  <2>4. Race'
    BY <2>2 DEF SharedKept, IInv, Race, ShellMoves, SettingInHand, FreshStart,
            UartOnlyClears, ShellKnows, Asking, AnswerAwaited, Between, BeforeQuery, ClearsBit
  <2> QED BY <2>3, <2>4 DEF IInv
<1> QED BY <1>2, <1>3, <1>4 DEF WaitUntilFree

LEMMA SetQueryHolds == ASSUME IInv, SetQuery PROVE IInv'
<1>1. TypeOK
  BY DEF IInv
<1>2. ASSUME Load("query_load", "query_store", reply.waitingStat \cup {"query"}) PROVE IInv'
  <2>1. "query_store" \in ShellPoints /\ reply.waitingStat \cup {"query"} \in SUBSET WaitingBits
    BY <1>1, Types DEF ShellPoints, ReplyType, WaitingBits
  <2>2. /\ ShellMoves("query_load", "query_store", shell.tries,
                     reply.waitingStat \cup {"query"}, shell.len)
        /\ SharedKept
    BY <1>1, <1>2, <2>1, LoadMoves
  <2>3. TypeOK'
    BY <1>1, <2>2, KeptTypes
  <2>4. Race'
    BY <2>2 DEF SharedKept, IInv, Race, ShellMoves, SettingInHand, FreshStart,
            UartOnlyClears, ShellKnows, Asking, AnswerAwaited, Between, BeforeQuery, ClearsBit
  <2> QED BY <2>3, <2>4 DEF IInv
<1>3. ASSUME Store("query_store", "ack_load"), answer' = NoAnswer PROVE IInv'
  <2>1. "ack_load" \in ShellPoints
    BY DEF ShellPoints
  <2>2. ShellMoves("query_store", "ack_load", shell.tries, shell.stat, shell.len)
        /\ reply'.waitingStat = shell.stat /\ TypeOK'
    BY <1>1, <1>3, <2>1, StoreMoves
  <2>3. Race'
    BY <1>3, <2>2 DEF IInv, Race, ShellMoves, SettingInHand, FreshStart, UartOnlyClears,
                    ShellKnows, Asking, AnswerAwaited, Between, BeforeQuery, ClearsBit
  <2> QED BY <2>2, <2>3 DEF IInv
<1> QED BY <1>2, <1>3 DEF SetQuery

LEMMA SetAckHolds == ASSUME IInv, SetAck PROVE IInv'
<1>1. TypeOK
  BY DEF IInv
<1>2. ASSUME Load("ack_load", "ack_store", reply.waitingStat \cup {"ack"}) PROVE IInv'
  <2>1. "ack_store" \in ShellPoints /\ reply.waitingStat \cup {"ack"} \in SUBSET WaitingBits
    BY <1>1, Types DEF ShellPoints, ReplyType, WaitingBits
  <2>2. /\ ShellMoves("ack_load", "ack_store", shell.tries,
                     reply.waitingStat \cup {"ack"}, shell.len)
        /\ SharedKept
    BY <1>1, <1>2, <2>1, LoadMoves
  <2>3. TypeOK'
    BY <1>1, <2>2, KeptTypes
  <2>4. Race'
    BY <2>2 DEF SharedKept, IInv, Race, ShellMoves, SettingInHand, FreshStart,
            UartOnlyClears, ShellKnows, Asking, AnswerAwaited, Between, BeforeQuery, ClearsBit
  <2> QED BY <2>3, <2>4 DEF IInv
<1>3. ASSUME Store("ack_store", "ack_test"), UNCHANGED answer PROVE IInv'
  <2>1. "ack_test" \in ShellPoints
    BY DEF ShellPoints
  <2>2. ShellMoves("ack_store", "ack_test", shell.tries, shell.stat, shell.len)
        /\ reply'.waitingStat = shell.stat /\ TypeOK'
    BY <1>1, <1>3, <2>1, StoreMoves
  <2>3. Race'
    BY <1>3, <2>2 DEF IInv, Race, ShellMoves, SettingInHand, FreshStart, UartOnlyClears,
                    ShellKnows, Asking, AnswerAwaited, Between, BeforeQuery, ClearsBit
  <2> QED BY <2>2, <2>3 DEF IInv
<1> QED BY <1>2, <1>3 DEF SetAck

LEMMA WaitForAckHolds == ASSUME IInv, WaitForAck PROVE IInv'
<1>1. TypeOK
  BY DEF IInv
<1>2. ASSUME Test("ack_test", "ack" \in reply.waitingStat, "ack_wait", "err") PROVE IInv'
  <2>1. "ack_wait" \in ShellPoints /\ "err" \in ShellPoints
        /\ ("ack" \in reply.waitingStat) \in BOOLEAN
    BY DEF ShellPoints
  <2> DEFINE holds == "ack" \in reply.waitingStat
  <2>2. /\ \/ holds /\ ShellMoves("ack_test", "ack_wait", shell.tries, shell.stat, shell.len)
           \/ ~ holds /\ ShellMoves("ack_test", "err", 0, shell.stat, shell.len)
        /\ SharedKept
    <3> HIDE DEF holds
    <3> QED BY <1>1, <1>2, <2>1, TestMoves DEF holds
  <2>3. TypeOK'
    BY <1>1, <2>2, KeptTypes
  <2>4. Race'
    <3>1. ASSUME holds, ShellMoves("ack_test", "ack_wait", shell.tries, shell.stat, shell.len)
          PROVE  Race'
      BY <2>2, <3>1 DEF SharedKept, IInv, Race, ShellMoves, SettingInHand, FreshStart,
            UartOnlyClears, ShellKnows, Asking, AnswerAwaited, Between, BeforeQuery, ClearsBit
    <3>2. ASSUME ~ holds, ShellMoves("ack_test", "err", 0, shell.stat, shell.len)
          PROVE  Race'
      BY <2>2, <3>2 DEF SharedKept, IInv, Race, ShellMoves, SettingInHand, FreshStart,
            UartOnlyClears, ShellKnows, Asking, AnswerAwaited, Between, BeforeQuery, ClearsBit
    <3> QED BY <2>2, <3>1, <3>2
  <2> QED BY <2>3, <2>4 DEF IInv
<1>3. ASSUME WaitAgain("ack_wait", "ack_test") PROVE IInv'
  <2>1. "ack_test" \in ShellPoints
    BY <1>1, Types DEF ShellPoints, ReplyType
  <2>2. /\ ShellMoves("ack_wait", "ack_test", shell.tries + 1, shell.stat, shell.len)
        /\ SharedKept
    BY <1>1, <1>3, <2>1, WaitAgainMoves
  <2>3. TypeOK'
    BY <1>1, <2>2, KeptTypes
  <2>4. Race'
    BY <2>2 DEF SharedKept, IInv, Race, ShellMoves, SettingInHand, FreshStart,
            UartOnlyClears, ShellKnows, Asking, AnswerAwaited, Between, BeforeQuery, ClearsBit
  <2> QED BY <2>3, <2>4 DEF IInv
<1> QED BY <1>2, <1>3 DEF WaitForAck

LEMMA GiveUpAckHolds == ASSUME IInv, GiveUpAck PROVE IInv'
<1>1. TypeOK
  BY DEF IInv
<1>2. ASSUME Load("ack_wait", "ack_clear", reply.waitingStat \ {"ack"}) PROVE IInv'
  <2>1. "ack_clear" \in ShellPoints /\ reply.waitingStat \ {"ack"} \in SUBSET WaitingBits
    BY <1>1, Types DEF ShellPoints, ReplyType
  <2>2. /\ ShellMoves("ack_wait", "ack_clear", shell.tries,
                     reply.waitingStat \ {"ack"}, shell.len)
        /\ SharedKept
    BY <1>1, <1>2, <2>1, LoadMoves
  <2>3. TypeOK'
    BY <1>1, <2>2, KeptTypes
  <2>4. Race'
    BY <2>2 DEF SharedKept, IInv, Race, ShellMoves, SettingInHand, FreshStart,
            UartOnlyClears, ShellKnows, Asking, AnswerAwaited, Between, BeforeQuery, ClearsBit
  <2> QED BY <2>3, <2>4 DEF IInv
<1>3. ASSUME Store("ack_clear", "timeout"), UNCHANGED answer PROVE IInv'
  <2>1. "timeout" \in ShellPoints
    BY DEF ShellPoints
  <2>2. ShellMoves("ack_clear", "timeout", shell.tries, shell.stat, shell.len)
        /\ reply'.waitingStat = shell.stat /\ TypeOK'
    BY <1>1, <1>3, <2>1, StoreMoves
  <2>3. /\ shell.at = "ack_clear" /\ UNCHANGED uart
        /\ reply.waitingStat \ {"ack"} \subseteq shell.stat /\ shell.stat \subseteq {"query"}
    BY <1>1, <2>2, Types DEF IInv, Race, ShellKnows, ShellMoves, ShellType, WaitingBits
  <2>4. UartOnlyClears'
    <3>1. CASE uart.at \in {"answer_load", "answer_store"}
      <4>1. shell.stat = {"query"}
        BY <2>3, <3>1 DEF IInv, Race, UartOnlyClears
      <4> QED BY <2>2, <2>3, <3>1, <4>1 DEF UartOnlyClears, Between, ShellMoves
    <3>2. CASE uart.at = "ack_store"
      <4>1. uart.stat \subseteq reply.waitingStat /\ "ack" \notin uart.stat
        BY <2>3, <3>2 DEF IInv, Race, UartOnlyClears, Between
      <4> QED BY <2>2, <2>3, <3>2, <4>1 DEF UartOnlyClears
    <3> QED BY <2>3, <3>1, <3>2 DEF UartOnlyClears
  <2>5. Race'
    BY <1>3, <2>2, <2>4 DEF IInv, Race, ShellMoves, SettingInHand, FreshStart,
                    ShellKnows, Asking, AnswerAwaited, Between, BeforeQuery, ClearsBit
  <2> QED BY <2>2, <2>5 DEF IInv
<1> QED BY <1>2, <1>3 DEF GiveUpAck

LEMMA WaitForAnswerHolds == ASSUME IInv, WaitForAnswer PROVE IInv'
<1>1. TypeOK
  BY DEF IInv
<1>2. ASSUME Test("query_test", "query" \in reply.waitingStat, "query_wait", "len") PROVE IInv'
  <2>1. "query_wait" \in ShellPoints /\ "len" \in ShellPoints
        /\ ("query" \in reply.waitingStat) \in BOOLEAN
    BY DEF ShellPoints
  <2> DEFINE holds == "query" \in reply.waitingStat
  <2>2. /\ \/ holds /\ ShellMoves("query_test", "query_wait", shell.tries, shell.stat, shell.len)
           \/ ~ holds /\ ShellMoves("query_test", "len", 0, shell.stat, shell.len)
        /\ SharedKept
    <3> HIDE DEF holds
    <3> QED BY <1>1, <1>2, <2>1, TestMoves DEF holds
  <2>3. TypeOK'
    BY <1>1, <2>2, KeptTypes
  <2>4. Race'
    <3>1. ASSUME holds, ShellMoves("query_test", "query_wait", shell.tries, shell.stat, shell.len)
          PROVE  Race'
      BY <2>2, <3>1 DEF SharedKept, IInv, Race, ShellMoves, SettingInHand, FreshStart,
            UartOnlyClears, ShellKnows, Asking, AnswerAwaited, Between, BeforeQuery, ClearsBit
    <3>2. ASSUME ~ holds, ShellMoves("query_test", "len", 0, shell.stat, shell.len)
          PROVE  Race'
      <4>1. reply.waitingStat = {}
        BY <1>1, <3>2, Types DEF IInv, Race, ShellKnows, ShellMoves, ReplyType, WaitingBits
      <4> QED BY <2>2, <3>2, <4>1 DEF SharedKept, IInv, Race, ShellMoves, SettingInHand, FreshStart,
            UartOnlyClears, ShellKnows, Asking, AnswerAwaited, Between, BeforeQuery, ClearsBit
    <3> QED BY <2>2, <3>1, <3>2
  <2> QED BY <2>3, <2>4 DEF IInv
<1>3. ASSUME WaitAgain("query_wait", "query_test") PROVE IInv'
  <2>1. "query_test" \in ShellPoints
    BY <1>1, Types DEF ShellPoints, ReplyType
  <2>2. /\ ShellMoves("query_wait", "query_test", shell.tries + 1, shell.stat, shell.len)
        /\ SharedKept
    BY <1>1, <1>3, <2>1, WaitAgainMoves
  <2>3. TypeOK'
    BY <1>1, <2>2, KeptTypes
  <2>4. Race'
    BY <2>2 DEF SharedKept, IInv, Race, ShellMoves, SettingInHand, FreshStart,
            UartOnlyClears, ShellKnows, Asking, AnswerAwaited, Between, BeforeQuery, ClearsBit
  <2> QED BY <2>3, <2>4 DEF IInv
<1>4. ASSUME GiveUp("query_wait") PROVE IInv'
  <2>1. TRUE
    BY <1>1, Types DEF ShellPoints, ReplyType
  <2>2. ShellMoves("query_wait", "timeout", shell.tries, shell.stat, shell.len) /\ SharedKept
    BY <1>1, <1>4, <2>1, GiveUpMoves
  <2>3. TypeOK'
    BY <1>1, <2>2, KeptTypes
  <2>4. Race'
    BY <2>2 DEF SharedKept, IInv, Race, ShellMoves, SettingInHand, FreshStart,
            UartOnlyClears, ShellKnows, Asking, AnswerAwaited, Between, BeforeQuery, ClearsBit
  <2> QED BY <2>3, <2>4 DEF IInv
<1> QED BY <1>2, <1>3, <1>4 DEF WaitForAnswer

LEMMA ReadErrHolds == ASSUME IInv, ReadErr PROVE IInv'
<1>1. TypeOK
  BY DEF IInv
<1> DEFINE to == IF reply.replyErr = 0 THEN "query_test" ELSE "idle"
<1>2. to \in ShellPoints
  BY DEF ShellPoints
<1>3. ShellMoves("err", to, shell.tries, shell.stat, shell.len)
  BY <1>1, <1>2, ShellSetsAt DEF ReadErr
<1>4. /\ UNCHANGED <<reply, parser, answer>>
      /\ result' = IF reply.replyErr = 0 THEN result ELSE [result EXCEPT !.ret = "error"]
  BY DEF ReadErr
<1>5. reply' \in ReplyType /\ parser' \in ParserType /\ result' \in ResultType
  BY <1>1, <1>4, Types DEF ResultType
<1>6. TypeOK'
  BY <1>1, <1>3, <1>5, ShellTypes
<1>7. Race'
  BY <1>3, <1>4 DEF IInv, Race, ShellMoves, SettingInHand, FreshStart, UartOnlyClears,
                    ShellKnows, Asking, AnswerAwaited, Between, BeforeQuery, ClearsBit
<1> QED BY <1>6, <1>7 DEF IInv

LEMMA TimeOutHolds == ASSUME IInv, TimeOut PROVE IInv'
<1>1. TypeOK
  BY DEF IInv
<1>2. "idle" \in ShellPoints
  BY DEF ShellPoints
<1>3. ShellMoves("timeout", "idle", shell.tries, shell.stat, shell.len)
  BY <1>1, <1>2, ShellSetsAt DEF TimeOut
<1>4. result' = [result EXCEPT !.ret = "timeout"] /\ UNCHANGED <<reply, answer>>
  BY DEF TimeOut
<1>5. parser' \in ParserType
  BY <1>1, ResetTypes DEF TimeOut
<1>6. reply' \in ReplyType /\ result' \in ResultType
  BY <1>1, <1>4, Types DEF ResultType
<1>7. TypeOK'
  BY <1>1, <1>3, <1>5, <1>6, ShellTypes
<1>8. Race'
  BY <1>3, <1>4 DEF IInv, Race, ShellMoves, SettingInHand, FreshStart, UartOnlyClears,
                    ShellKnows, Asking, AnswerAwaited, Between, BeforeQuery, ClearsBit
<1> QED BY <1>7, <1>8 DEF IInv

LEMMA ReadLenHolds == ASSUME IInv, ReadLen PROVE IInv'
<1>1. TypeOK
  BY DEF IInv
<1> DEFINE len == Least(ReplySize, reply.replyLen)
<1>2. "copy" \in ShellPoints /\ len \in 0..Least(ReplySize, BufferSize)
  BY <1>1, Types, QueryAssumption DEF ShellPoints, Least, ReplyType
<1>3. ShellDoes("len", [shell EXCEPT !.at = "copy", !.len = len]) /\ SharedKept
  BY Zenon DEF ReadLen, SharedKept
<1> HIDE DEF len
<1>4. ShellMoves("len", "copy", shell.tries, shell.stat, len)
  BY <1>1, <1>2, <1>3, ShellSetsLen
<1>5. TypeOK'
  BY <1>1, <1>3, <1>4, KeptTypes
<1>6. Race'
  BY <1>3, <1>4 DEF SharedKept, IInv, Race, ShellMoves, SettingInHand, FreshStart,
            UartOnlyClears, ShellKnows, Asking, AnswerAwaited, Between, BeforeQuery, ClearsBit
<1> QED BY <1>5, <1>6 DEF IInv

LEMMA CopyReplyHolds == ASSUME IInv, CopyReply PROVE IInv'
<1>1. TypeOK
  BY DEF IInv
<1>2. "idle" \in ShellPoints
  BY DEF ShellPoints
<1>3. ShellMoves("copy", "idle", shell.tries, shell.stat, shell.len)
  BY <1>1, <1>2, ShellSetsAt DEF CopyReply
<1>4. /\ result' = [ret |-> "success", data |-> SubSeq(parser.buffer, 1, shell.len)]
      /\ UNCHANGED <<reply, parser, answer>>
  BY DEF CopyReply
<1>5. SubSeq(parser.buffer, 1, shell.len) \in Seq(0..255)
  <2>1. shell.len \in 0..BufferSize /\ BufferSize \in Nat
    BY <1>1, Types, QueryAssumption DEF ShellType, Least
  <2>2. parser.buffer \in [1..BufferSize -> 0..255]
    BY <1>1, Types DEF ParserType
  <2> QED BY <2>1, <2>2, PartIsSeq
<1>6. reply' \in ReplyType /\ parser' \in ParserType /\ result' \in ResultType
  BY <1>1, <1>4, <1>5, Types DEF ResultType
<1>7. TypeOK'
  BY <1>1, <1>3, <1>6, ShellTypes
<1>8. Race'
  BY <1>3, <1>4 DEF IInv, Race, ShellMoves, SettingInHand, FreshStart, UartOnlyClears,
                    ShellKnows, Asking, AnswerAwaited, Between, BeforeQuery, ClearsBit
<1> QED BY <1>7, <1>8 DEF IInv

-----------------------------------------------------------------------------
(* The whole *)

LEMMA InitHolds == Init => IInv
<1> SUFFICES ASSUME Init PROVE IInv
  OBVIOUS
<1>1. 0 \in 0..BufferSize /\ 0 \in 0..MaxFrames /\ 0 \in 0..(WaitTimes + 1)
      /\ 0 \in 0..Least(ReplySize, BufferSize)
  BY QueryAssumption DEF Least
<1>2. shell \in ShellType /\ uart \in UartType
  BY <1>1 DEF Init, ShellType, ShellPoints, UartType, UartPoints
<1>3. reply \in ReplyType /\ parser \in ParserType
  BY <1>1 DEF Init, ReplyType, ParserType, CMD_ID_INVALID
<1>4. result \in ResultType
  BY DEF Init, ResultType
<1>5. TypeOK
  BY <1>1, <1>2, <1>3, <1>4 DEF Init, TypeOK, ShellType, UartType, ReplyType, ParserType,
                               ResultType
<1>6. Race
  BY DEF Init, Race, SettingInHand, FreshStart, UartOnlyClears, ShellKnows, Asking,
         AnswerAwaited, Between, BeforeQuery, ClearsBit
<1> QED BY <1>5, <1>6 DEF IInv

LEMMA StepHolds == IInv /\ [Next]_vars => IInv'
<1> SUFFICES ASSUME IInv, [Next]_vars PROVE IInv'
  OBVIOUS
<1>1. ASSUME Receive PROVE IInv'
  BY <1>1, ReceiveHeaderHolds, ReceiveBodyHolds, ReceiveCheckSumHolds, ReceiveNoiseHolds
     DEF Receive
<1>2. ASSUME Work PROVE IInv'
  BY <1>2, AckLoadHolds, AckStoreHolds, AckErrHolds, AnswerLoadHolds, AnswerStoreHolds,
     AnswerLenHolds, PushHolds, UartResetHolds DEF Work
<1>3. ASSUME Shell PROVE IInv'
  BY <1>3, WaitUntilFreeHolds, SetQueryHolds, SetAckHolds, WaitForAckHolds, GiveUpAckHolds,
     ReadErrHolds, WaitForAnswerHolds, ReadLenHolds, CopyReplyHolds, TimeOutHolds DEF Shell
<1>4. ASSUME UNCHANGED vars PROVE IInv'
  BY <1>4 DEF vars, history, IInv, TypeOK, Race, SettingInHand, FreshStart,
              UartOnlyClears, ShellKnows, Asking, AnswerAwaited, Between
<1> QED BY <1>1, <1>2, <1>3, <1>4, CallHolds DEF Next

LEMMA Invariant == Spec => []IInv
BY InitHolds, StepHolds, PTL DEF Spec

(* The two threads keep all they share in its type, no loop runs past its
   bound, and the copied reply fits in both buffers (TypeOK). *)
THEOREM QueryTypeCorrect == Spec => []TypeOK
<1> IInv => TypeOK
  BY DEF IInv
<1> QED BY Invariant, PTL

(* A fresh call of protocalApiQueryWait returns success only after the uart thread
   has taken a setting for the answer since the call set QUERY
   (SuccessNeedsAnswer). *)
THEOREM SuccessIsAnswered == Spec => SuccessNeedsAnswer
<1>1. IInv => (CopyReply /\ fresh => answer # NoAnswer)
  <2> SUFFICES ASSUME IInv, CopyReply, fresh PROVE answer # NoAnswer
    OBVIOUS
  <2>1. shell.at = "copy"
    BY DEF CopyReply, ShellGoes, ShellDoes
  <2> QED BY <2>1 DEF IInv, Race, ShellKnows, AnswerAwaited, Asking
<1>2. IInv => [CopyReply /\ fresh => answer # NoAnswer]_vars
  BY <1>1
<1> QED BY Invariant, <1>2, PTL DEF SuccessNeedsAnswer

(* When it returns success, no bit of waitingStat is left
   (SuccessLeavesNoWait). *)
THEOREM SuccessIsClean == Spec => SuccessLeavesNoWait
<1>1. IInv => (CopyReply => reply.waitingStat = {})
  <2> SUFFICES ASSUME IInv, CopyReply PROVE reply.waitingStat = {}
    OBVIOUS
  <2>1. shell.at = "copy"
    BY DEF CopyReply, ShellGoes, ShellDoes
  <2> QED BY <2>1 DEF IInv, Race, ShellKnows
<1>2. IInv => [CopyReply => reply.waitingStat = {}]_vars
  BY <1>1
<1> QED BY Invariant, <1>2, PTL DEF SuccessLeavesNoWait

-----------------------------------------------------------------------------
(* What protocalApiQueryWait copies is the answer it took.  The parser and the
   shell share buffer and bufferIndex, and protocalReset of the shell may empty
   the parser at any time: the argument follows a setting from the parser
   through the uart thread's three steps to the copy. *)

(* The inductive invariant, on top of IInv *)

InBuffer(data) == \A i \in 1..Len(data) : parser.buffer[i] = data[i]

(* Only a frame whose header was not forgotten reaches its checksum. *)
ParserFilled ==
    parser.status = "checksum" =>
        /\ uart.at = "checksum"
        /\ InBuffer(uart.frame.data) /\ parser.bufferIndex = Len(uart.frame.data)

(* A reset while the uart thread has a setting in hand comes from a call that
   ends with it; no other call begins to ask until that setting is taken. *)
AnswerInHand ==
    uart.at \in {"answer_load", "answer_store", "answer_len"} =>
        /\ InBuffer(uart.frame.data)
        /\ Asking /\ (uart.at = "answer_len" => answer # NoAnswer) =>
              parser.bufferIndex = Len(uart.frame.data)

(* The answer arrived before the frame that is coming in. *)
AnswerIsOlder ==
    /\ arrived \in Nat /\ answer.at \in Nat /\ answer.at <= arrived
    /\ uart.at = "body" => answer.at < arrived

Taken ==
    Asking /\ answer # NoAnswer =>
        /\ answer.frame \in PeerFrames
        /\ uart.at = "answer_len" => answer.frame = uart.frame
        /\ uart.at # "answer_len" => reply.replyLen = Len(answer.frame.data)
        /\ arrived = answer.at => InBuffer(answer.frame.data)

Contents == ParserFilled /\ AnswerInHand /\ AnswerIsOlder /\ Taken

-----------------------------------------------------------------------------
(* The steps of the uart thread *)

(* Those that leave alone what the parser holds and what the shell copies. *)
LEMMA UartKeeps ==
  ASSUME Contents, NEW from, NEW to, NEW stat, UartMoves(from, to, uart.frame, stat),
         from # "answer_len", to \notin {"answer_len", "body"},
         to \in {"answer_load", "answer_store"} => from = "answer_load",
         from = "checksum" => parser.status = "header",
         UNCHANGED <<parser, answer, arrived>>, reply'.replyLen = reply.replyLen
  PROVE  Contents'
  BY DEF Contents, ParserFilled, AnswerInHand, AnswerIsOlder, Taken, InBuffer, Asking,
         UartMoves

LEMMA ReceiveNoiseKeeps == ASSUME IInv, Contents, ReceiveNoise PROVE Contents'
<1>1. TypeOK
  BY DEF IInv
<1>2. "ready" \in UartPoints
  BY <1>1, Types DEF UartPoints, ReplyType
<1>3. UartMoves("checksum", "ready", uart.frame, uart.stat)
  BY <1>1, <1>2, UartSetsAt DEF ReceiveNoise
<1>4. /\ UNCHANGED <<parser, answer, arrived>>
      /\ reply'.replyLen = reply.replyLen /\ parser.status = "header"
  BY <1>1, Types, Zenon DEF ReceiveNoise, history
<1> QED BY <1>3, <1>4, UartKeeps

LEMMA AckLoadKeeps == ASSUME IInv, Contents, AckLoad PROVE Contents'
<1>1. TypeOK
  BY DEF IInv
<1>2. "ack_store" \in UartPoints /\ reply.waitingStat \ {"ack"} \in SUBSET WaitingBits
  BY <1>1, Types DEF UartPoints, ReplyType
<1>3. UartMoves("ack_load", "ack_store", uart.frame, reply.waitingStat \ {"ack"})
  BY <1>1, <1>2, UartSetsStat DEF AckLoad
<1>4. UNCHANGED <<parser, answer, arrived>> /\ reply'.replyLen = reply.replyLen
  BY <1>1, Types, Zenon DEF AckLoad, history
<1> QED BY <1>3, <1>4, UartKeeps

LEMMA AckStoreKeeps == ASSUME IInv, Contents, AckStore PROVE Contents'
<1>1. TypeOK
  BY DEF IInv
<1>2. "ack_err" \in UartPoints
  BY <1>1, Types DEF UartPoints, ReplyType
<1>3. UartMoves("ack_store", "ack_err", uart.frame, uart.stat)
  BY <1>1, <1>2, UartSetsAt DEF AckStore
<1>4. UNCHANGED <<parser, answer, arrived>> /\ reply'.replyLen = reply.replyLen
  BY <1>1, Types, SMT DEF AckStore, history, ReplyType
<1> QED BY <1>3, <1>4, UartKeeps

LEMMA AckErrKeeps == ASSUME IInv, Contents, AckErr PROVE Contents'
<1>1. TypeOK
  BY DEF IInv
<1>2. "reset" \in UartPoints
  BY <1>1, Types DEF UartPoints, ReplyType
<1>3. UartMoves("ack_err", "reset", uart.frame, uart.stat)
  BY <1>1, <1>2, UartSetsAt DEF AckErr
<1>4. UNCHANGED <<parser, answer, arrived>> /\ reply'.replyLen = reply.replyLen
  BY <1>1, Types, SMT DEF AckErr, history, ReplyType
<1> QED BY <1>3, <1>4, UartKeeps

LEMMA AnswerLoadKeeps == ASSUME IInv, Contents, AnswerLoad PROVE Contents'
<1>1. TypeOK
  BY DEF IInv
<1>2. "answer_store" \in UartPoints /\ reply.waitingStat \ {"query"} \in SUBSET WaitingBits
  BY <1>1, Types DEF UartPoints, ReplyType
<1>3. UartMoves("answer_load", "answer_store", uart.frame, reply.waitingStat \ {"query"})
  BY <1>1, <1>2, UartSetsStat DEF AnswerLoad
<1>4. UNCHANGED <<parser, answer, arrived>> /\ reply'.replyLen = reply.replyLen
  BY <1>1, Types, Zenon DEF AnswerLoad, history
<1> QED BY <1>3, <1>4, UartKeeps

LEMMA PushKeeps == ASSUME IInv, Contents, Push PROVE Contents'
<1>1. TypeOK
  BY DEF IInv
<1>2. "reset" \in UartPoints
  BY <1>1, Types DEF UartPoints, ReplyType
<1>3. UartMoves("push", "reset", uart.frame, uart.stat)
  BY <1>1, <1>2, UartSetsAt DEF Push
<1>4. UNCHANGED <<parser, answer, arrived>> /\ reply'.replyLen = reply.replyLen
  BY <1>1, Types, Zenon DEF Push, history
<1> QED BY <1>3, <1>4, UartKeeps

LEMMA AnswerStoreKeeps == ASSUME IInv, Contents, AnswerStore PROVE Contents'
<1>1. TypeOK
  BY DEF IInv
<1>2. "answer_len" \in UartPoints
  BY DEF UartPoints
<1>3. UartMoves("answer_store", "answer_len", uart.frame, uart.stat)
  BY <1>1, <1>2, UartSetsAt DEF AnswerStore
<1>4. /\ answer' = [frame |-> uart.frame, at |-> arrived] /\ UNCHANGED <<parser, arrived>>
      /\ reply'.replyLen = reply.replyLen
  BY <1>1, Types DEF AnswerStore, ReplyType
<1>5. uart.frame \in PeerFrames
  BY <1>1, <1>3, Types DEF IInv, Race, SettingInHand, UartMoves, UartType, NoFrame
<1>6. answer'.frame = uart.frame /\ answer'.at = arrived
  BY <1>4
<1>7. InBuffer(uart.frame.data)
  BY <1>3 DEF Contents, AnswerInHand, UartMoves
<1>8. Taken'
  <2>1. uart'.at = "answer_len" /\ uart'.frame = uart.frame
    BY <1>3 DEF UartMoves
  <2>2. InBuffer(answer.frame.data)'
    BY <1>4, <1>6, <1>7 DEF InBuffer
  <2> QED BY <1>5, <1>6, <2>1, <2>2 DEF Taken, InBuffer
<1>9. ParserFilled' /\ AnswerInHand'
  BY <1>3, <1>4 DEF Contents, ParserFilled, AnswerInHand, InBuffer, UartMoves, Asking
<1>10. AnswerIsOlder'
  BY <1>3, <1>4, <1>6 DEF Contents, AnswerIsOlder, UartMoves
<1> QED BY <1>8, <1>9, <1>10 DEF Contents

LEMMA AnswerLenKeeps == ASSUME IInv, Contents, AnswerLen PROVE Contents'
<1>1. TypeOK
  BY DEF IInv
<1>2. "reset" \in UartPoints
  BY DEF UartPoints
<1>3. UartMoves("answer_len", "reset", uart.frame, uart.stat)
  BY <1>1, <1>2, UartSetsAt DEF AnswerLen
<1>4. UNCHANGED <<parser, answer, arrived>> /\ reply'.replyLen = parser.bufferIndex
  BY <1>1, Types DEF AnswerLen, history, ReplyType
<1>5. ParserFilled' /\ AnswerInHand' /\ AnswerIsOlder'
  BY <1>3, <1>4 DEF Contents, ParserFilled, AnswerInHand, AnswerIsOlder,
                              Taken, InBuffer, Asking, UartMoves
<1>6. Taken'
  <2> SUFFICES ASSUME Asking, answer # NoAnswer
               PROVE  /\ answer.frame \in PeerFrames
                      /\ reply'.replyLen = Len(answer.frame.data)
                      /\ arrived = answer.at => InBuffer(answer.frame.data)
    BY <1>3, <1>4 DEF Taken, Asking, UartMoves, InBuffer
  <2>1. parser.bufferIndex = Len(uart.frame.data)
    BY <1>3 DEF Contents, AnswerInHand, UartMoves, Asking
  <2>2. answer.frame = uart.frame
    BY <1>3 DEF Contents, Taken, UartMoves
  <2> QED BY <1>4, <2>1, <2>2 DEF Contents, Taken
<1> QED BY <1>5, <1>6 DEF Contents

LEMMA ParserSets ==
  ASSUME TypeOK, NEW status,
         parser' = [parser EXCEPT !.status = status, !.bufferIndex = 0,
                                  !.cmd = CMD_ID_INVALID]
  PROVE  parser'.status = status /\ parser'.buffer = parser.buffer
<1> DEFINE one == [parser EXCEPT !.status = status]
           two == [one EXCEPT !.bufferIndex = 0]
<1>1. one.status = status /\ one.buffer = parser.buffer
      /\ one = [x \in {"status", "cmd", "buffer", "bufferIndex"} |-> one[x]]
  BY Types DEF ParserType
<1>2. parser' = [two EXCEPT !.cmd = CMD_ID_INVALID]
  BY Zenon
<1> HIDE DEF one
<1>3. two.status = status /\ two.buffer = parser.buffer
      /\ two = [x \in {"status", "cmd", "buffer", "bufferIndex"} |-> two[x]]
  BY <1>1
<1> HIDE DEF two
<1> QED BY <1>2, <1>3

LEMMA ResetSets ==
  ASSUME TypeOK, protocalReset
  PROVE  parser'.status = "header" /\ parser'.buffer = parser.buffer
<1>1. parser' = [parser EXCEPT !.status = "header", !.bufferIndex = 0, !.cmd = CMD_ID_INVALID]
  BY Zenon DEF protocalReset
<1> QED BY <1>1, ParserSets

LEMMA ReceiveHeaderKeeps ==
  ASSUME IInv, Contents, NEW f \in PeerFrames, ReceiveHeader(f)
  PROVE  Contents'
<1>1. TypeOK
  BY DEF IInv
<1>2. "body" \in UartPoints
  BY DEF UartPoints
<1>3. UartMoves("ready", "body", f, uart.stat)
  BY <1>1, <1>2, UartSetsFrame DEF ReceiveHeader
<1>4. /\ arrived' = arrived + 1 /\ UNCHANGED <<reply, answer>>
      /\ parser' = [parser EXCEPT !.status = "cmd_type", !.bufferIndex = 0,
                                  !.cmd = CMD_ID_INVALID]
  BY Zenon DEF ReceiveHeader
<1>5. parser'.status = "cmd_type"
  BY <1>1, <1>4, ParserSets
<1> QED BY <1>3, <1>4, <1>5 DEF Contents, ParserFilled, AnswerInHand, AnswerIsOlder,
                              Taken, InBuffer, Asking, UartMoves

LEMMA FilledHolds ==
  ASSUME TypeOK
  PROVE  \A i \in 1..Len(uart.frame.data) : Filled(uart.frame.data)[i] = uart.frame.data[i]
<1>1. Len(uart.frame.data) \in 0..BufferSize /\ BufferSize \in Nat
  BY FilledTypes, QueryAssumption
<1> QED BY <1>1 DEF Filled

LEMMA ReceiveBodyKeeps == ASSUME IInv, Contents, ReceiveBody PROVE Contents'
<1>1. TypeOK
  BY DEF IInv
<1>2. "checksum" \in UartPoints
  BY DEF UartPoints
<1>3. UartMoves("body", "checksum", uart.frame, uart.stat)
  BY <1>1, <1>2, UartSetsAt DEF ReceiveBody
<1>4. /\ UNCHANGED <<reply, answer, arrived>>
      /\ parser' = IF parser.status = "header" THEN parser
                   ELSE [status |-> "checksum", cmd |-> uart.frame.cmd,
                         buffer |-> Filled(uart.frame.data),
                         bufferIndex |-> Len(uart.frame.data)]
  BY DEF ReceiveBody, history
<1>5. CASE parser.status = "header"
  BY <1>3, <1>4, <1>5 DEF Contents, ParserFilled, AnswerInHand, AnswerIsOlder,
                              Taken, InBuffer, Asking, UartMoves
<1>6. CASE parser.status # "header"
  <2>1. parser'.buffer = Filled(uart.frame.data) /\ parser'.bufferIndex = Len(uart.frame.data)
    BY <1>4, <1>6
  <2>2. ParserFilled' /\ AnswerInHand'
    BY <1>1, <1>3, <2>1, FilledHolds DEF ParserFilled, AnswerInHand, InBuffer, UartMoves
  <2>3. AnswerIsOlder' /\ Taken'
    BY <1>3, <1>4 DEF Contents, ParserFilled, AnswerInHand, AnswerIsOlder,
                              Taken, InBuffer, Asking, UartMoves
  <2> QED BY <2>2, <2>3 DEF Contents
<1> QED BY <1>5, <1>6

LEMMA ReceiveCheckSumKeeps == ASSUME IInv, Contents, ReceiveCheckSum PROVE Contents'
<1>1. TypeOK
  BY DEF IInv
<1> DEFINE to == IF TakesAck THEN "ack_load" ELSE IF TakesAnswer THEN "answer_load" ELSE "push"
<1>2. to \in UartPoints
  BY DEF UartPoints
<1>3. UartMoves("checksum", to, uart.frame, uart.stat)
  BY <1>1, <1>2, UartSetsAt DEF ReceiveCheckSum
<1>4. UNCHANGED <<reply, answer, arrived>> /\ parser.status = "checksum"
  BY DEF ReceiveCheckSum, history
<1>5. /\ parser'.status = "cmd_type" /\ parser'.buffer = parser.buffer
      /\ parser'.bufferIndex = parser.bufferIndex
  BY <1>1, Types DEF ReceiveCheckSum, ParserType
<1>6. to \in {"ack_load", "answer_load", "push"}
  OBVIOUS
<1> HIDE DEF to
<1> QED BY <1>3, <1>4, <1>5, <1>6 DEF Contents, ParserFilled, AnswerInHand, AnswerIsOlder,
                              Taken, InBuffer, Asking, UartMoves

LEMMA UartResetKeeps == ASSUME IInv, Contents, UartReset PROVE Contents'
<1>1. TypeOK
  BY DEF IInv
<1>2. /\ uart.at = "reset" /\ uart' = [at |-> "ready", frame |-> NoFrame, stat |-> {}]
      /\ UNCHANGED <<shell, reply, answer, arrived>>
  BY DEF UartReset, UartDoes, history
<1>3. parser'.status = "header" /\ parser'.buffer = parser.buffer
  BY <1>1, ResetSets DEF UartReset
<1>4. uart'.at = "ready"
  BY <1>2
<1> QED BY <1>2, <1>3, <1>4 DEF Contents, ParserFilled, AnswerInHand, AnswerIsOlder,
                              Taken, InBuffer, Asking, UartMoves

-----------------------------------------------------------------------------
(* The steps of the shell thread *)

(* None of them touches what the uart thread holds, and no step but SetQuery
   begins to ask. *)
LEMMA ShellKeeps ==
  ASSUME Contents, NEW from, NEW to, NEW n, NEW stat, NEW len,
         ShellMoves(from, to, n, stat, len),
         UNCHANGED parser, reply'.replyLen = reply.replyLen,
         \/ answer' = NoAnswer /\ uart.at \notin {"answer_load", "answer_store"}
         \/ answer' = answer /\ (Asking' => Asking)
  PROVE  Contents'
<1>1. ~ owed /\ UNCHANGED <<uart, parser, arrived>>
  BY DEF ShellMoves
<1>2. ParserFilled' /\ AnswerInHand'
  BY <1>1 DEF Contents, ParserFilled, AnswerInHand, InBuffer
<1>3. NoAnswer.at = 0
  BY DEF NoAnswer
<1>4. AnswerIsOlder'
  <2>1. CASE answer' = answer
    BY <1>1, <2>1 DEF Contents, AnswerIsOlder
  <2>2. CASE answer' = NoAnswer
    <3>1. uart.at = "body" => 0 < arrived
      BY DEF Contents, AnswerIsOlder
    <3> QED BY <1>1, <1>3, <2>2, <3>1 DEF Contents, AnswerIsOlder
  <2> QED BY <2>1, <2>2
<1>5. Taken'
  BY <1>1 DEF Contents, Taken, InBuffer
<1> QED BY <1>2, <1>4, <1>5 DEF Contents

LEMMA KeptKeeps ==
  ASSUME Contents, NEW from, NEW to, NEW n, NEW stat, NEW len,
         ShellMoves(from, to, n, stat, len), SharedKept,
         to \in {"ack_load", "ack_store", "ack_test", "ack_wait", "err", "query_test",
                 "query_wait", "len", "copy"} => Asking
  PROVE  Contents'
<1>1. Asking' => Asking
  BY DEF ShellMoves, Asking
<1> QED BY <1>1, ShellKeeps DEF SharedKept

LEMMA StoreKeeps ==
  ASSUME IInv, Contents, NEW from, NEW to \in ShellPoints, Store(from, to),
         \/ answer' = NoAnswer /\ uart.at \notin {"answer_load", "answer_store"}
         \/ /\ answer' = answer
            /\ to \in {"ack_load", "ack_store", "ack_test", "ack_wait", "err",
                       "query_test", "query_wait", "len", "copy"} => Asking
  PROVE  Contents'
<1>1. ShellMoves(from, to, shell.tries, shell.stat, shell.len)
  BY StoreMoves DEF IInv
<1>2. UNCHANGED parser /\ reply'.replyLen = reply.replyLen
  BY Types DEF IInv, Store, ReplyType
<1>3. Asking' => to \in {"ack_load", "ack_store", "ack_test", "ack_wait", "err",
                         "query_test", "query_wait", "len", "copy"}
  BY <1>1 DEF ShellMoves, Asking
<1> QED BY <1>1, <1>2, <1>3, ShellKeeps

LEMMA TestKeeps ==
  ASSUME IInv, Contents, NEW test, NEW holds \in BOOLEAN, NEW wait \in ShellPoints,
         NEW done \in ShellPoints, Test(test, holds, wait, done),
         shell.at = test => Asking \/ (wait = "busy_wait" /\ done = "query_load")
  PROVE  Contents'
<1>1. /\ \/ ShellMoves(test, wait, shell.tries, shell.stat, shell.len)
         \/ ShellMoves(test, done, 0, shell.stat, shell.len)
      /\ SharedKept
  BY TestMoves DEF IInv
<1>2. shell.at = test
  BY <1>1 DEF ShellMoves
<1> QED BY <1>1, <1>2, KeptKeeps

LEMMA WaitAgainKeeps ==
  ASSUME IInv, Contents, NEW wait, NEW test \in ShellPoints, WaitAgain(wait, test),
         shell.at = wait => Asking \/ test = "busy_test"
  PROVE  Contents'
<1>1. ShellMoves(wait, test, shell.tries + 1, shell.stat, shell.len) /\ SharedKept
  BY WaitAgainMoves DEF IInv
<1>2. shell.at = wait
  BY <1>1 DEF ShellMoves
<1> QED BY <1>1, <1>2, KeptKeeps

LEMMA GiveUpKeeps == ASSUME IInv, Contents, NEW wait, GiveUp(wait) PROVE Contents'
<1>1. ShellMoves(wait, "timeout", shell.tries, shell.stat, shell.len) /\ SharedKept
  BY GiveUpMoves DEF IInv
<1> QED BY <1>1, KeptKeeps

LEMMA LoadKeeps ==
  ASSUME IInv, Contents, NEW from, NEW to \in ShellPoints,
         NEW stat \in SUBSET WaitingBits, Load(from, to, stat),
         shell.at = from => Asking \/ to = "query_store"
  PROVE  Contents'
<1>1. ShellMoves(from, to, shell.tries, stat, shell.len) /\ SharedKept
  BY LoadMoves DEF IInv
<1>2. shell.at = from
  BY <1>1 DEF ShellMoves
<1> QED BY <1>1, <1>2, KeptKeeps

LEMMA Bits ==
  ASSUME IInv
  PROVE  /\ reply.waitingStat \cup {"query"} \in SUBSET WaitingBits
         /\ reply.waitingStat \cup {"ack"} \in SUBSET WaitingBits
         /\ reply.waitingStat \ {"ack"} \in SUBSET WaitingBits
         /\ (reply.waitingStat # {}) \in BOOLEAN
         /\ ("ack" \in reply.waitingStat) \in BOOLEAN
         /\ ("query" \in reply.waitingStat) \in BOOLEAN
<1>1. reply.waitingStat \in SUBSET WaitingBits
  BY Types DEF IInv, ReplyType
<1> QED BY <1>1 DEF WaitingBits

LEMMA LoopsKeep ==
  ASSUME IInv, Contents, WaitUntilFree \/ WaitForAck \/ WaitForAnswer
  PROVE  Contents'
<1> USE DEF ShellPoints, Asking
<1>1. ASSUME Test("busy_test", reply.waitingStat # {}, "busy_wait", "query_load")
      PROVE  Contents'
  BY <1>1, Bits, TestKeeps
<1>2. ASSUME Test("ack_test", "ack" \in reply.waitingStat, "ack_wait", "err")
      PROVE  Contents'
  BY <1>2, Bits, TestKeeps
<1>3. ASSUME Test("query_test", "query" \in reply.waitingStat, "query_wait", "len")
      PROVE  Contents'
  BY <1>3, Bits, TestKeeps
<1>4. ASSUME WaitAgain("busy_wait", "busy_test") PROVE Contents'
  BY <1>4, WaitAgainKeeps
<1>5. ASSUME WaitAgain("ack_wait", "ack_test") PROVE Contents'
  BY <1>5, WaitAgainKeeps
<1>6. ASSUME WaitAgain("query_wait", "query_test") PROVE Contents'
  BY <1>6, WaitAgainKeeps
<1> QED BY <1>1, <1>2, <1>3, <1>4, <1>5, <1>6, GiveUpKeeps
        DEF WaitUntilFree, WaitForAck, WaitForAnswer

LEMMA BitsKeep ==
  ASSUME IInv, Contents, SetQuery \/ SetAck \/ GiveUpAck
  PROVE  Contents'
<1> USE DEF ShellPoints
<1>1. ASSUME Load("query_load", "query_store", reply.waitingStat \cup {"query"})
      PROVE  Contents'
  BY <1>1, Bits, LoadKeeps
<1>2. ASSUME Load("ack_load", "ack_store", reply.waitingStat \cup {"ack"})
      PROVE  Contents'
  BY <1>2, Bits, LoadKeeps DEF Asking
<1>3. ASSUME Load("ack_wait", "ack_clear", reply.waitingStat \ {"ack"})
      PROVE  Contents'
  BY <1>3, Bits, LoadKeeps DEF Asking
<1>4. ASSUME Store("query_store", "ack_load"), answer' = NoAnswer PROVE Contents'
  <2>1. shell.at = "query_store"
    BY <1>4 DEF Store, ShellGoes, ShellDoes
  <2>2. uart.at \notin {"answer_load", "answer_store"}
    BY <2>1 DEF IInv, Race, UartOnlyClears, ShellKnows
  <2> QED BY <1>4, <2>2, StoreKeeps
<1>5. ASSUME Store("ack_store", "ack_test"), UNCHANGED answer PROVE Contents'
  <2>1. shell.at = "ack_store"
    BY <1>5 DEF Store, ShellGoes, ShellDoes
  <2> QED BY <1>5, <2>1, StoreKeeps DEF Asking
<1>6. ASSUME Store("ack_clear", "timeout"), UNCHANGED answer PROVE Contents'
  BY <1>6, StoreKeeps
<1> QED BY <1>1, <1>2, <1>3, <1>4, <1>5, <1>6 DEF SetQuery, SetAck, GiveUpAck

LEMMA EndsKeep ==
  ASSUME IInv, Contents, Call \/ ReadErr \/ ReadLen \/ CopyReply
  PROVE  Contents'
<1> USE DEF ShellPoints
<1>1. TypeOK
  BY DEF IInv
<1>2. ASSUME Call PROVE Contents'
  <2>1. ShellDoes("idle", [shell EXCEPT !.at = "busy_test", !.tries = 0]) /\ SharedKept
    BY <1>2, Zenon DEF Call, SharedKept
  <2>2. 0 \in 0..(WaitTimes + 1)
    BY QueryAssumption
  <2>3. ShellMoves("idle", "busy_test", 0, shell.stat, shell.len)
    BY <1>1, <2>1, <2>2, ShellSetsTries
  <2> QED BY <2>1, <2>3, KeptKeeps
<1>3. ASSUME ReadErr PROVE Contents'
  <2> DEFINE to == IF reply.replyErr = 0 THEN "query_test" ELSE "idle"
  <2>1. to \in ShellPoints
    OBVIOUS
  <2>2. ShellMoves("err", to, shell.tries, shell.stat, shell.len)
    BY <1>1, <1>3, <2>1, ShellSetsAt DEF ReadErr
  <2>3. UNCHANGED <<reply, parser, answer>> /\ Asking
    BY <1>3, <2>2 DEF ReadErr, ShellMoves, Asking
  <2> QED BY <2>2, <2>3, ShellKeeps
<1>4. ASSUME ReadLen PROVE Contents'
  <2> DEFINE len == Least(ReplySize, reply.replyLen)
  <2>1. len \in 0..Least(ReplySize, BufferSize)
    BY <1>1, Types, QueryAssumption DEF Least, ReplyType
  <2>2. ShellDoes("len", [shell EXCEPT !.at = "copy", !.len = len]) /\ SharedKept
    BY <1>4, Zenon DEF ReadLen, SharedKept
  <2> HIDE DEF len
  <2>3. ShellMoves("len", "copy", shell.tries, shell.stat, len)
    BY <1>1, <2>1, <2>2, ShellSetsLen
  <2>4. Asking
    BY <2>3 DEF ShellMoves, Asking
  <2> QED BY <2>2, <2>3, <2>4, KeptKeeps
<1>5. ASSUME CopyReply PROVE Contents'
  <2>1. ShellMoves("copy", "idle", shell.tries, shell.stat, shell.len)
    BY <1>1, <1>5, ShellSetsAt DEF CopyReply
  <2>2. UNCHANGED <<reply, parser, answer>> /\ Asking
    BY <1>5, <2>1 DEF CopyReply, ShellMoves, Asking
  <2> QED BY <2>1, <2>2, ShellKeeps
<1> QED BY <1>2, <1>3, <1>4, <1>5

(* The one step of the shell that empties the parser *)
LEMMA TimeOutKeeps == ASSUME IInv, Contents, TimeOut PROVE Contents'
<1>1. TypeOK
  BY DEF IInv
<1>2. ShellMoves("timeout", "idle", shell.tries, shell.stat, shell.len)
  BY <1>1, ShellSetsAt DEF TimeOut, ShellPoints
<1>3. parser'.status = "header" /\ parser'.buffer = parser.buffer
  BY <1>1, ResetSets DEF TimeOut
<1>4. UNCHANGED <<reply, answer>>
  BY DEF TimeOut
<1>5. ParserFilled' /\ Taken'
  BY <1>2, <1>3 DEF ParserFilled, Taken, ShellMoves, Asking
<1>6. AnswerInHand'
  BY <1>2, <1>3 DEF Contents, AnswerInHand, InBuffer, ShellMoves, Asking
<1>7. AnswerIsOlder'
  BY <1>2, <1>4 DEF Contents, AnswerIsOlder, ShellMoves
<1> QED BY <1>5, <1>6, <1>7 DEF Contents

-----------------------------------------------------------------------------
(* The whole *)

LEMMA InitContents == Init => Contents
<1> SUFFICES ASSUME Init PROVE Contents
  OBVIOUS
<1>1. NoAnswer.at = 0
  BY DEF NoAnswer
<1>2. parser.status = "header" /\ uart.at = "ready" /\ arrived = 0 /\ answer.at = 0
  BY <1>1 DEF Init
<1>3. ~ Asking
  BY DEF Init, Asking
<1> QED BY <1>2, <1>3 DEF Contents, ParserFilled, AnswerInHand, AnswerIsOlder, Taken

LEMMA StepContents == IInv /\ Contents /\ [Next]_vars => Contents'
<1> SUFFICES ASSUME IInv, Contents, [Next]_vars PROVE Contents'
  OBVIOUS
<1>1. ASSUME Receive PROVE Contents'
  BY <1>1, ReceiveHeaderKeeps, ReceiveBodyKeeps, ReceiveCheckSumKeeps, ReceiveNoiseKeeps
     DEF Receive
<1>2. ASSUME Work PROVE Contents'
  BY <1>2, AckLoadKeeps, AckStoreKeeps, AckErrKeeps, AnswerLoadKeeps, AnswerStoreKeeps,
     AnswerLenKeeps, PushKeeps, UartResetKeeps DEF Work
<1>3. ASSUME Shell PROVE Contents'
  BY <1>3, LoopsKeep, BitsKeep, EndsKeep, TimeOutKeeps DEF Shell
<1>4. ASSUME UNCHANGED vars PROVE Contents'
  BY <1>4 DEF vars, history, Contents, ParserFilled, AnswerInHand, AnswerIsOlder, Taken,
              InBuffer, Asking
<1> QED BY <1>1, <1>2, <1>3, <1>4, EndsKeep DEF Next

LEMMA ContentsInvariant == Spec => [](IInv /\ Contents)
BY InitHolds, StepHolds, InitContents, StepContents, PTL DEF Spec

LEMMA PartHas ==
  ASSUME NEW size \in Nat, NEW buffer \in [1..size -> 0..255], NEW len \in 0..size,
         NEW i \in 1..len
  PROVE  SubSeq(buffer, 1, len)[i] = buffer[i]
<1>1. buffer \in Seq(0..255) /\ Len(buffer) = size
  OBVIOUS
<1> QED BY <1>1

(* The property's action, without the box *)
ReplyStep ==
    /\ ReadLen /\ fresh /\ uart.at # "answer_len" => shell'.len = AnswerLength
    /\ CopyReply /\ fresh /\ arrived = answer.at =>
         \A i \in 1..Least(shell.len, AnswerLength) :
             result'.data[i] = answer.frame.data[i]

(* The length and the data that a fresh call of protocalApiQueryWait copies are
   those of the setting it took for the answer (ReplyIsTheAnswers). *)
THEOREM ReplyIsAnswered == Spec => ReplyIsTheAnswers
<1>1. ASSUME IInv, Contents, ReadLen, fresh, uart.at # "answer_len"
      PROVE  shell'.len = AnswerLength
  <2> DEFINE len == Least(ReplySize, reply.replyLen)
  <2>1. len \in 0..Least(ReplySize, BufferSize) /\ TypeOK
    BY <1>1, Types, QueryAssumption DEF IInv, Least, ReplyType
  <2>2. ShellDoes("len", [shell EXCEPT !.at = "copy", !.len = len])
    BY <1>1, Zenon DEF ReadLen
  <2> HIDE DEF len
  <2>3. ShellMoves("len", "copy", shell.tries, shell.stat, len)
    BY <2>1, <2>2, ShellSetsLen DEF ShellPoints
  <2>4. shell.at = "len" /\ shell'.len = len
    BY <2>3 DEF ShellMoves
  <2>5. answer # NoAnswer
    BY <1>1, <2>4 DEF IInv, Race, ShellKnows, AnswerAwaited, Asking
  <2>6. reply.replyLen = Len(answer.frame.data)
    BY <1>1, <2>4, <2>5 DEF Contents, Taken, Asking
  <2> QED BY <2>4, <2>6 DEF len, AnswerLength
<1>2. ASSUME IInv, Contents, CopyReply, fresh, arrived = answer.at,
             NEW i \in 1..Least(shell.len, AnswerLength)
      PROVE  result'.data[i] = answer.frame.data[i]
  <2>1. shell.at = "copy" /\ result'.data = SubSeq(parser.buffer, 1, shell.len)
    BY <1>2 DEF CopyReply, ShellGoes, ShellDoes
  <2>2. answer # NoAnswer
    BY <1>2, <2>1 DEF IInv, Race, ShellKnows, AnswerAwaited, Asking
  <2>3. answer.frame \in PeerFrames /\ InBuffer(answer.frame.data)
    BY <1>2, <2>1, <2>2 DEF Contents, Taken, Asking
  <2>4. Len(answer.frame.data) \in Nat /\ ReplySize \in Nat
    BY <2>3, QueryAssumption
  <2>5. shell.len \in 0..BufferSize /\ BufferSize \in Nat
    BY <1>2, Types, QueryAssumption DEF IInv, ShellType, Least
  <2>6. i \in 1..shell.len /\ i \in 1..Len(answer.frame.data)
    BY <2>4, <2>5 DEF Least, AnswerLength
  <2>7. SubSeq(parser.buffer, 1, shell.len)[i] = parser.buffer[i]
    <3>1. parser.buffer \in [1..BufferSize -> 0..255]
      BY <1>2, Types DEF IInv, ParserType
    <3> QED BY <2>5, <2>6, <3>1, PartHas
  <2> QED BY <2>1, <2>3, <2>6, <2>7 DEF InBuffer
<1>3. IInv /\ Contents => ReplyStep
  BY <1>1, <1>2 DEF ReplyStep
<1>4. IInv /\ Contents => [ReplyStep]_vars
  BY <1>3
<1> QED BY ContentsInvariant, <1>4, PTL DEF ReplyIsTheAnswers, ReplyStep
=============================================================================
