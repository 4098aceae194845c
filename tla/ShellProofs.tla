---------------------------- MODULE ShellProofs ----------------------------
(***************************************************************************)
(* Mailbox, the queue between the interrupt and the thread, implements     *)
(* SerialQueue for a ring of any size and any set of characters, and in    *)
(* the shell the line never outgrows its array, whatever is typed, and the *)
(* commands that are called are those that were typed.                     *)
(***************************************************************************)
EXTENDS Shell, SequenceTheorems, FiniteSetTheorems, TLAPS

-----------------------------------------------------------------------------
(* The queue *)

(* first is where the next message goes, a thread waits only at an empty
   mailbox, and there is room for the request that is left for the kernel. *)
FirstIsFree(m) == m.first = Wrap(m.last + m.count)

RingInv ==
    /\ FirstIsFree(mbx)
    /\ task = "waiting" => mbx.count = 0
    /\ psq # << >> => mbx.count < Size

IInv == MailboxTypeOK /\ RingInv

-----------------------------------------------------------------------------
(* Lemmas about a ring m *)

LEMMA SizeFacts == Size \in Nat /\ Size > 0 /\ Slots = 0..(Size - 1)
  BY MailboxAssumption DEF Slots

LEMMA WrapIsSlot ==
  ASSUME NEW l \in Slots, NEW i \in 0..Size
  PROVE  Wrap(l + i) \in Slots
  BY SizeFacts DEF Wrap

(* Fewer than Size steps away, and more than none, is another slot. *)
LEMMA WrapMoves ==
  ASSUME NEW l \in Slots, NEW i \in 0..Size, NEW j \in 0..Size, i < j, j - i < Size
  PROVE  Wrap(l + i) # Wrap(l + j)
  BY SizeFacts DEF Wrap

LEMMA WrapOnce ==
  ASSUME NEW l \in Slots, NEW i \in 0..(Size - 1)
  PROVE  /\ Wrap(Wrap(l + i) + 1) = Wrap(l + (i + 1))
         /\ Wrap(Wrap(l + 1) + i) = Wrap(l + (i + 1))
         /\ Wrap(l + 0) = l
  BY SizeFacts DEF Wrap

LEMMA RingFacts ==
  ASSUME NEW m \in Ring
  PROVE  /\ m.msg \in [Slots -> Chars]
         /\ m.first \in Slots /\ m.last \in Slots
         /\ m.count \in 0..Size
         /\ m = [msg |-> m.msg, first |-> m.first, last |-> m.last, count |-> m.count]
  BY DEF Ring

LEMMA ContentsIsSeq ==
  ASSUME NEW m \in Ring
  PROVE  /\ ContentsOf(m) \in Seq(Chars)
         /\ Len(ContentsOf(m)) = m.count
         /\ \A i \in 1..m.count : ContentsOf(m)[i] = m.msg[Wrap(m.last + i - 1)]
<1>1. m.count \in Nat /\ m.count \in 0..Size /\ Size \in Nat
  BY RingFacts, SizeFacts
<1>2. ASSUME NEW i \in 1..m.count
      PROVE  m.msg[Wrap(m.last + i - 1)] \in Chars
  <2>1. i - 1 \in 0..Size
    BY <1>1
  <2>2. Wrap(m.last + (i - 1)) \in Slots
    BY <2>1, RingFacts, WrapIsSlot
  <2>3. m.last + (i - 1) = m.last + i - 1
    BY RingFacts, SizeFacts
  <2> QED BY <2>2, <2>3, RingFacts
<1>3. ContentsOf(m) \in [1..m.count -> Chars]
  BY <1>2 DEF ContentsOf
<1>4. ContentsOf(m) \in Seq(Chars) /\ Len(ContentsOf(m)) = m.count
  BY <1>1, <1>3
<1> QED BY <1>4 DEF ContentsOf

(* Storing a message appends it to what is stored. *)
LEMMA StoreAppends ==
  ASSUME NEW m \in Ring, FirstIsFree(m), m.count < Size, NEW c \in Chars, NEW n,
         n = Stored(m, c)
  PROVE  /\ n \in Ring
         /\ ContentsOf(n) = Append(ContentsOf(m), c)
         /\ FirstIsFree(n)
<1>1. /\ m.first \in Slots /\ m.last \in Slots /\ m.count \in 0..(Size - 1)
      /\ m.msg \in [Slots -> Chars]
      /\ Size \in Nat /\ Size > 0 /\ Slots = 0..(Size - 1)
  BY RingFacts, SizeFacts
<1>2. /\ n.msg = [m.msg EXCEPT ![m.first] = c]
      /\ n.first = Wrap(m.first + 1)
      /\ n.last = m.last
      /\ n.count = m.count + 1
      /\ n = [msg |-> n.msg, first |-> n.first, last |-> n.last, count |-> n.count]
  BY DEF Stored
<1>3. n \in Ring
  <2>1. n.msg \in [Slots -> Chars]
    BY <1>1, <1>2
  <2>2. n.first \in Slots
    <3>1. 1 \in 0..Size /\ m.first \in Slots
      BY <1>1
    <3>2. Wrap(m.first + 1) \in Slots
      BY <3>1, WrapIsSlot, Zenon
    <3> QED BY <1>2, <3>2
  <2>3. n.last \in Slots /\ n.count \in 0..Size
    BY <1>1, <1>2
  <2> QED BY <1>2, <2>1, <2>2, <2>3 DEF Ring
<1>4. /\ ContentsOf(m) \in Seq(Chars) /\ Len(ContentsOf(m)) = m.count
      /\ \A i \in 1..m.count : ContentsOf(m)[i] = m.msg[Wrap(m.last + i - 1)]
  BY ContentsIsSeq
<1>5. /\ ContentsOf(n) \in Seq(Chars) /\ Len(ContentsOf(n)) = m.count + 1
      /\ \A i \in 1..(m.count + 1) : ContentsOf(n)[i] = n.msg[Wrap(m.last + i - 1)]
  <2>1. /\ ContentsOf(n) \in Seq(Chars) /\ Len(ContentsOf(n)) = n.count
        /\ \A i \in 1..n.count : ContentsOf(n)[i] = n.msg[Wrap(n.last + i - 1)]
    BY <1>3, ContentsIsSeq, Zenon
  <2>2. n.count = m.count + 1 /\ n.last = m.last
    BY <1>2
  <2> QED BY <2>1, <2>2, Zenon
<1>6. /\ Append(ContentsOf(m), c) \in Seq(Chars)
      /\ Len(Append(ContentsOf(m), c)) = m.count + 1
      /\ \A i \in 1..m.count : Append(ContentsOf(m), c)[i] = ContentsOf(m)[i]
      /\ Append(ContentsOf(m), c)[m.count + 1] = c
  BY <1>4, AppendProperties
<1>7. m.first = Wrap(m.last + m.count)
  BY DEF FirstIsFree
<1>8. ASSUME NEW i \in 1..(m.count + 1)
      PROVE  ContentsOf(n)[i] = Append(ContentsOf(m), c)[i]
  <2>1. CASE i = m.count + 1
    <3>1. m.last + i - 1 = m.last + m.count
      BY <1>1, <2>1
    <3>2. n.msg[m.first] = c
      BY <1>1, <1>2
    <3> QED BY <1>5, <1>6, <1>7, <2>1, <3>1, <3>2
  <2>2. CASE i # m.count + 1
    <3>1. /\ i \in 1..m.count
          /\ i - 1 \in 0..Size /\ m.count \in 0..Size
          /\ i - 1 < m.count /\ m.count - (i - 1) < Size
          /\ m.last + (i - 1) = m.last + i - 1
      BY <1>1, <2>2
    <3>2. Wrap(m.last + i - 1) # m.first /\ Wrap(m.last + i - 1) \in Slots
      BY <1>1, <1>7, <3>1, WrapMoves, WrapIsSlot
    <3>3. n.msg[Wrap(m.last + i - 1)] = m.msg[Wrap(m.last + i - 1)]
      BY <1>1, <1>2, <3>2
    <3> QED BY <1>4, <1>5, <1>6, <3>1, <3>3
  <2> QED BY <2>1, <2>2
<1>9. ContentsOf(n) = Append(ContentsOf(m), c)
  BY <1>5, <1>6, <1>8, SeqEqual
<1>10. FirstIsFree(n)
  <2>1. Wrap(Wrap(m.last + m.count) + 1) = Wrap(m.last + (m.count + 1))
    BY <1>1, WrapOnce
  <2> QED BY <1>2, <1>7, <2>1 DEF FirstIsFree
<1> QED BY <1>3, <1>9, <1>10

(* Reading takes the oldest of what is stored. *)
LEMMA ReadTakesHead ==
  ASSUME NEW m \in Ring, FirstIsFree(m), m.count > 0, NEW n, n = Removed(m)
  PROVE  /\ n \in Ring
         /\ ContentsOf(m) # << >>
         /\ ContentsOf(n) = Tail(ContentsOf(m))
         /\ m.msg[m.last] = Head(ContentsOf(m))
         /\ FirstIsFree(n)
<1>1. /\ m.first \in Slots /\ m.last \in Slots /\ m.count \in 1..Size
      /\ m.msg \in [Slots -> Chars]
      /\ Size \in Nat /\ Size > 0 /\ Slots = 0..(Size - 1)
  BY RingFacts, SizeFacts
<1>2. /\ n.msg = m.msg
      /\ n.first = m.first
      /\ n.last = Wrap(m.last + 1)
      /\ n.count = m.count - 1
      /\ n = [msg |-> n.msg, first |-> n.first, last |-> n.last, count |-> n.count]
  BY DEF Removed
<1>3. n \in Ring
  <2>1. n.last \in Slots
    <3>1. 1 \in 0..Size
      BY <1>1
    <3>2. Wrap(m.last + 1) \in Slots
      BY <1>1, <3>1, WrapIsSlot
    <3> QED BY <1>2, <3>2
  <2>2. n.count \in 0..Size
    BY <1>1, <1>2
  <2> QED BY <1>1, <1>2, <2>1, <2>2 DEF Ring
<1>4. /\ ContentsOf(m) \in Seq(Chars) /\ Len(ContentsOf(m)) = m.count
      /\ \A i \in 1..m.count : ContentsOf(m)[i] = m.msg[Wrap(m.last + i - 1)]
  BY ContentsIsSeq
<1>5. /\ ContentsOf(n) \in Seq(Chars) /\ Len(ContentsOf(n)) = m.count - 1
      /\ \A i \in 1..(m.count - 1) : ContentsOf(n)[i] = m.msg[Wrap(n.last + i - 1)]
  BY <1>2, <1>3, ContentsIsSeq
<1>6. ContentsOf(m) # << >>
  BY <1>1, <1>4
<1>7. /\ Tail(ContentsOf(m)) \in Seq(Chars)
      /\ Len(Tail(ContentsOf(m))) = m.count - 1
      /\ \A i \in 1..(m.count - 1) : Tail(ContentsOf(m))[i] = ContentsOf(m)[i + 1]
  BY <1>4, <1>6, HeadTailProperties
<1>8. ASSUME NEW i \in 1..(m.count - 1)
      PROVE  ContentsOf(n)[i] = Tail(ContentsOf(m))[i]
  <2>1. /\ i + 1 \in 1..m.count /\ i - 1 \in 0..(Size - 1)
        /\ m.last + ((i - 1) + 1) = m.last + (i + 1) - 1
    BY <1>1
  <2>2. Wrap(Wrap(m.last + 1) + (i - 1)) = Wrap(m.last + (i + 1) - 1)
    <3>1. Wrap(Wrap(m.last + 1) + (i - 1)) = Wrap(m.last + ((i - 1) + 1))
      BY <1>1, <2>1, WrapOnce
    <3> QED BY <2>1, <3>1
  <2>3. n.last + i - 1 = Wrap(m.last + 1) + (i - 1)
    BY <1>1, <1>2, <1>3, RingFacts
  <2>4. ContentsOf(n)[i] = m.msg[Wrap(n.last + i - 1)]
    BY <1>5
  <2>5. ContentsOf(m)[i + 1] = m.msg[Wrap(m.last + (i + 1) - 1)]
    BY <1>4, <2>1
  <2>6. Tail(ContentsOf(m))[i] = ContentsOf(m)[i + 1]
    BY <1>7
  <2> QED BY <2>2, <2>3, <2>4, <2>5, <2>6
<1>9. ContentsOf(n) = Tail(ContentsOf(m))
  BY <1>5, <1>7, <1>8, SeqEqual
<1>10. m.msg[m.last] = Head(ContentsOf(m))
  <2>1. m.last + 1 - 1 = m.last /\ Wrap(m.last) = m.last /\ 1 \in 1..m.count
    BY <1>1 DEF Wrap
  <2> QED BY <1>4, <1>6, <2>1
<1>11. FirstIsFree(n)
  <2>1. Wrap(Wrap(m.last + 1) + (m.count - 1)) = Wrap(m.last + ((m.count - 1) + 1))
    <3>1. m.count - 1 \in 0..(Size - 1) /\ m.last \in Slots
      BY <1>1, RingFacts
    <3> QED BY <3>1, WrapOnce, Zenon
  <2>2. (m.count - 1) + 1 = m.count
    BY <1>1
  <2> QED BY <1>2, <2>1, <2>2 DEF FirstIsFree
<1> QED BY <1>3, <1>6, <1>9, <1>10, <1>11

-----------------------------------------------------------------------------
(* The invariant, and one lemma for what each action means to SerialQueue *)

LEMMA InitHolds ==
  ASSUME MailboxInit
  PROVE  IInv /\ SQ!Init
<1>1. mbx \in Ring /\ mbx.count = 0 /\ mbx.first = 0 /\ mbx.last = 0
  <2> DEFINE zero == CHOOSE c \in Chars : TRUE
  <2>1. zero \in Chars
    BY MailboxAssumption
  <2>2. mbx = [msg |-> [i \in Slots |-> zero], first |-> 0, last |-> 0, count |-> 0]
    BY DEF MailboxInit
  <2> HIDE DEF zero
  <2>3. [i \in Slots |-> zero] \in [Slots -> Chars] /\ 0 \in Slots /\ 0 \in 0..Size
    BY <2>1, SizeFacts
  <2> QED BY <2>2, <2>3 DEF Ring
<1>2. MailboxTypeOK
  BY <1>1 DEF MailboxInit, MailboxTypeOK
<1>3. RingInv
  BY <1>1, SizeFacts DEF MailboxInit, RingInv, FirstIsFree, Wrap
<1>4. ContentsOf(mbx) = << >>
  BY <1>1, ContentsIsSeq
<1>5. queue = << >>
  BY <1>4 DEF queue, MailboxInit
<1> QED BY <1>2, <1>3, <1>5 DEF IInv, MailboxInit, SQ!Init

LEMMA PutIsPutOrLose ==
  ASSUME IInv, NEW c \in Chars, IsrPut(c)
  PROVE  IInv' /\ (SQ!Put(c) \/ SQ!Lose)
<1>1. mbx \in Ring /\ psq = << >>
  BY DEF IInv, MailboxTypeOK, IsrPut
<1>2. /\ ContentsOf(mbx) \in Seq(Chars) /\ Len(ContentsOf(mbx)) = mbx.count
      /\ mbx.count \in 0..Size /\ Size \in Nat
  BY <1>1, ContentsIsSeq, RingFacts, SizeFacts
<1>3. queue = ContentsOf(mbx)
  BY <1>1, <1>2 DEF queue
<1>4. mbx' = mbx /\ task' = task /\ taken' = taken
  BY DEF IsrPut
<1>5. ContentsOf(mbx)' = ContentsOf(mbx)
  BY <1>4 DEF ContentsOf
<1>6. ASSUME mbx.count < Size
      PROVE  IInv' /\ SQ!Put(c)
  <2>1. psq' = <<c>> /\ lost' = lost
    BY <1>1, <1>6 DEF IsrPut
  <2>2. queue' = Append(queue, c)
    BY <1>2, <1>3, <1>5, <2>1 DEF queue
  <2>3. IInv'
    BY <1>4, <1>6, <2>1 DEF IInv, MailboxTypeOK, RingInv
  <2> QED BY <1>2, <1>3, <1>4, <1>6, <2>1, <2>2, <2>3 DEF SQ!Put
<1>7. ASSUME ~ (mbx.count < Size)
      PROVE  IInv' /\ SQ!Lose
  <2>1. psq' = psq /\ lost' = lost + 1
    BY <1>7 DEF IsrPut
  <2>2. queue' = queue /\ Len(queue) = Size
    BY <1>2, <1>3, <1>5, <1>7, <2>1 DEF queue
  <2>3. IInv'
    BY <1>1, <1>4, <2>1 DEF IInv, MailboxTypeOK, RingInv
  <2> QED BY <1>4, <2>1, <2>2, <2>3 DEF SQ!Lose
<1> QED BY <1>6, <1>7

(* The kernel gives the request to the thread, or stores it: for SerialQueue
   a Take, or nothing. *)
LEMMA PopIsTakeOrNothing ==
  ASSUME IInv, PopReq
  PROVE  IInv' /\ (SQ!Take \/ UNCHANGED <<queue, taken, lost>>)
<1>1. /\ mbx \in Ring /\ FirstIsFree(mbx) /\ mbx.count < Size
      /\ psq \in Seq(Chars) /\ psq # << >>
  BY DEF IInv, MailboxTypeOK, RingInv, PopReq
<1>2. Head(psq) \in Chars /\ psq = <<Head(psq)>> /\ Tail(psq) = << >>
  <2>1. PICK c \in Chars : psq = <<c>>
    BY DEF IInv, MailboxTypeOK, PopReq
  <2> QED BY <2>1
<1>3. psq' = << >> /\ lost' = lost
  BY <1>2 DEF PopReq
<1>4. ContentsOf(mbx) \in Seq(Chars) /\ Len(ContentsOf(mbx)) = mbx.count
  BY <1>1, ContentsIsSeq
<1>5. ASSUME task = "waiting", Returns(Head(psq)), mbx' = mbx
      PROVE  IInv' /\ SQ!Take
  <2>1. ContentsOf(mbx) = << >> /\ ContentsOf(mbx)' = << >>
    BY <1>4, <1>5 DEF IInv, RingInv, ContentsOf
  <2>2. queue = psq /\ queue' = << >>
    BY <1>1, <1>3, <2>1 DEF queue
  <2>3. task' = "received" /\ taken' = Append(taken, Head(psq))
    BY <1>5 DEF Returns
  <2>4. taken' \in Seq(Chars)
    BY <1>2, <2>3 DEF IInv, MailboxTypeOK
  <2>5. IInv'
    BY <1>3, <1>5, <2>3, <2>4 DEF IInv, MailboxTypeOK, RingInv
  <2> QED BY <1>1, <1>2, <1>3, <2>2, <2>3, <2>5 DEF SQ!Take
<1>6. ASSUME task # "waiting", mbx' = Stored(mbx, Head(psq)), task' = task, taken' = taken
      PROVE  IInv' /\ UNCHANGED <<queue, taken, lost>>
  <2>1. /\ mbx' \in Ring /\ FirstIsFree(mbx')
        /\ ContentsOf(mbx') = Append(ContentsOf(mbx), Head(psq))
    BY <1>1, <1>2, <1>6, StoreAppends
  <2>2. queue' = queue
    <3> DEFINE head == Head(psq)
    <3>1. head \in Chars /\ queue = ContentsOf(mbx) \o <<head>>
      BY <1>2 DEF queue
    <3>2. queue' = Append(ContentsOf(mbx), head)
      BY <1>3, <1>4, <2>1, <3>1 DEF queue
    <3> HIDE DEF head
    <3> QED BY <1>4, <3>1, <3>2
  <2>3. IInv'
    BY <1>3, <1>6, <2>1 DEF IInv, MailboxTypeOK, RingInv
  <2> QED BY <1>3, <1>6, <2>2, <2>3
<1> QED BY <1>5, <1>6 DEF PopReq

LEMMA GetIsTakeOrNothing ==
  ASSUME IInv, Get
  PROVE  IInv' /\ (SQ!Take \/ UNCHANGED <<queue, taken, lost>>)
<1>1. /\ mbx \in Ring /\ FirstIsFree(mbx) /\ mbx.count \in 0..Size
      /\ psq = << >> /\ psq' = psq /\ lost' = lost
  BY RingFacts DEF IInv, MailboxTypeOK, RingInv, Get
<1>2. ContentsOf(mbx) \in Seq(Chars)
  BY <1>1, ContentsIsSeq
<1>3. queue = ContentsOf(mbx) /\ queue' = ContentsOf(mbx') \o << >>
  BY <1>1, <1>2 DEF queue
<1>4. ASSUME mbx.count > 0, Returns(mbx.msg[mbx.last]), mbx' = Removed(mbx)
      PROVE  IInv' /\ SQ!Take
  <2>1. /\ mbx' \in Ring /\ FirstIsFree(mbx')
        /\ ContentsOf(mbx) # << >>
        /\ ContentsOf(mbx') = Tail(ContentsOf(mbx))
        /\ mbx.msg[mbx.last] = Head(ContentsOf(mbx))
    BY <1>1, <1>4, ReadTakesHead
  <2>2. /\ task' = "received" /\ taken' = Append(taken, Head(queue))
    BY <1>3, <1>4, <2>1 DEF Returns
  <2>3. queue' = Tail(queue)
    <3>1. ContentsOf(mbx') \in Seq(Chars)
      BY <2>1, ContentsIsSeq
    <3> QED BY <1>3, <2>1, <3>1
  <2>4. Head(queue) \in Chars
    BY <1>2, <1>3, <2>1, HeadTailProperties
  <2>5. taken' \in Seq(Chars)
    BY <2>2, <2>4 DEF IInv, MailboxTypeOK
  <2>6. IInv'
    BY <1>1, <2>1, <2>2, <2>5 DEF IInv, MailboxTypeOK, RingInv
  <2> QED BY <1>1, <1>3, <2>1, <2>2, <2>3, <2>6 DEF SQ!Take
<1>5. ASSUME mbx.count = 0, task' = "waiting", mbx' = mbx, taken' = taken
      PROVE  IInv' /\ UNCHANGED <<queue, taken, lost>>
  <2>1. queue' = queue
    BY <1>1, <1>5 DEF queue, ContentsOf
  <2>2. IInv'
    BY <1>1, <1>5 DEF IInv, MailboxTypeOK, RingInv
  <2> QED BY <1>1, <1>5, <2>1, <2>2
<1> QED BY <1>4, <1>5 DEF Get

LEMMA NothingMoves ==
  ASSUME IInv, mbx' = mbx, psq' = psq, taken' = taken, lost' = lost,
         task' \in {task, "running"}
  PROVE  IInv' /\ UNCHANGED <<queue, taken, lost>>
<1>1. queue' = queue
  BY DEF queue, ContentsOf
<1>2. IInv'
  BY DEF IInv, MailboxTypeOK, RingInv
<1> QED BY <1>1, <1>2

LEMMA StepHolds ==
  ASSUME IInv, [MailboxNext]_mailboxVars
  PROVE  IInv' /\ [SQ!Next]_<<queue, taken, lost>>
<1>1. ASSUME NEW c \in Chars, IsrPut(c)
      PROVE  IInv' /\ SQ!Next
  BY <1>1, PutIsPutOrLose DEF SQ!Next
<1>2. ASSUME PopReq
      PROVE  IInv' /\ [SQ!Next]_<<queue, taken, lost>>
  BY <1>2, PopIsTakeOrNothing DEF SQ!Next
<1>3. ASSUME Get
      PROVE  IInv' /\ [SQ!Next]_<<queue, taken, lost>>
  BY <1>3, GetIsTakeOrNothing DEF SQ!Next
<1>4. ASSUME Done
      PROVE  IInv' /\ UNCHANGED <<queue, taken, lost>>
  BY <1>4, NothingMoves DEF Done
<1>5. ASSUME UNCHANGED mailboxVars
      PROVE  IInv' /\ UNCHANGED <<queue, taken, lost>>
  BY <1>5, NothingMoves DEF mailboxVars
<1> QED BY <1>1, <1>2, <1>3, <1>4, <1>5 DEF MailboxNext

-----------------------------------------------------------------------------
(* The ring's indices and its count stay in range. *)
THEOREM MailboxTypeCorrect == MailboxSpec => []MailboxTypeOK
<1>1. MailboxInit => IInv
  BY InitHolds
<1>2. IInv /\ [MailboxNext]_mailboxVars => IInv'
  BY StepHolds
<1>3. IInv => MailboxTypeOK
  BY DEF IInv
<1> QED BY <1>1, <1>2, <1>3, PTL DEF MailboxSpec

(* The mailbox hands on what the interrupt puts, in order and once, loses a
   character only when it is full. *)
THEOREM MailboxRefinement == MailboxSpec => ImplementsSerialQueue
<1>1. MailboxInit => IInv /\ SQ!Init
  BY InitHolds
<1>2. IInv /\ [MailboxNext]_mailboxVars => IInv' /\ [SQ!Next]_<<queue, taken, lost>>
  BY StepHolds
<1> QED BY <1>1, <1>2, PTL DEF MailboxSpec, ImplementsSerialQueue, SQ!Spec

-----------------------------------------------------------------------------
(* The shell *)

(* The thread that works on a character has got one. *)
ShellIInv == IInv /\ TypeOK /\ (task = "received" => taken # << >>)

LEMMA ShellMovesMailbox ==
  ASSUME MailboxTypeOK, typing \in Seq(Chars), [Next]_vars
  PROVE  [MailboxNext]_mailboxVars
<1>1. ASSUME rxInterrupt
      PROVE  MailboxNext
  <2>1. Head(typing) \in Chars
    BY <1>1 DEF rxInterrupt
  <2> QED BY <1>1, <2>1 DEF rxInterrupt, MailboxNext
<1>2. ASSUME Kernel \/ WaitForChar \/ process
      PROVE  MailboxNext
  BY <1>2 DEF Kernel, WaitForChar, process, MailboxNext
<1>3. ASSUME Return \/ UNCHANGED vars
      PROVE  UNCHANGED mailboxVars
  BY <1>3 DEF Return, vars
<1> QED BY <1>1, <1>2, <1>3 DEF Next

(* Editing keeps the line a string that fits. *)
LEMMA EditedFits ==
  ASSUME NEW str \in Seq(Chars), Len(str) < SHELL_MAX_LINE_LEN, NEW key \in Chars
  PROVE  Edited(str, key) \in Seq(Chars) /\ Len(Edited(str, key)) < SHELL_MAX_LINE_LEN
<1>1. SHELL_MAX_LINE_LEN \in Nat /\ Len(str) \in Nat
  BY ShellAssumption
<1>2. ASSUME str # << >>
      PROVE  Front(str) \in Seq(Chars) /\ Len(Front(str)) < SHELL_MAX_LINE_LEN
  <2>1. Len(str) - 1 \in Nat /\ Len(str) - 1 <= Len(str)
    BY <1>1, <1>2
  <2>2. Front(str) \in Seq(Chars) /\ Len(Front(str)) = Len(str) - 1
    BY SMTT(30), <2>1 DEF Front
  <2> QED BY <1>1, <2>2
<1>3. ASSUME Len(str) < SHELL_MAX_LINE_LEN - 1
      PROVE  /\ Append(str, key) \in Seq(Chars)
             /\ Len(Append(str, key)) < SHELL_MAX_LINE_LEN
  BY <1>1, <1>3
<1> QED BY <1>2, <1>3 DEF Edited

LEMMA InitFits == Init => ShellIInv
<1> SUFFICES ASSUME Init PROVE ShellIInv
  OBVIOUS
<1>1. IInv /\ MailboxTypeOK
  BY InitHolds DEF Init, IInv
<1>2. typing \in Seq(Chars)
  BY ShellAssumption DEF Init
<1>3. line \in Seq(Chars) /\ Len(line) = 0 /\ 0 < SHELL_MAX_LINE_LEN
  BY ShellAssumption DEF Init
<1> QED BY <1>1, <1>2, <1>3 DEF Init, MailboxInit, ShellIInv, TypeOK

(* What a step does to the history of Queue.get, and to the thread *)
LEMMA ReceivedHasTaken ==
  ASSUME ShellIInv, [Next]_vars
  PROVE  task' = "received" => taken' # << >>
<1>1. ASSUME NEW c, c \in Chars, Returns(c)
      PROVE  taken' # << >>
  BY <1>1, AppendProperties DEF Returns, ShellIInv, IInv, MailboxTypeOK
<1>2. ASSUME Kernel
      PROVE  task' = "received" => taken' # << >>
  <2>1. Head(psq) \in Chars
    BY <1>2 DEF Kernel, PopReq, ShellIInv, IInv, MailboxTypeOK
  <2> QED BY <1>1, <1>2, <2>1 DEF Kernel, PopReq, ShellIInv
<1>3. ASSUME WaitForChar
      PROVE  task' = "received" => taken' # << >>
  <2>1. mbx.msg[mbx.last] \in Chars
    BY RingFacts DEF ShellIInv, IInv, MailboxTypeOK
  <2> QED BY <1>1, <1>3, <2>1 DEF WaitForChar, Get
<1>4. ASSUME rxInterrupt \/ Return \/ UNCHANGED vars
      PROVE  task' = task /\ taken' = taken
  BY <1>4 DEF rxInterrupt, IsrPut, Return, mailboxVars, vars
<1>5. ASSUME process
      PROVE  task' # "received"
  BY <1>5 DEF process, Done
<1> QED BY <1>2, <1>3, <1>4, <1>5 DEF Next, ShellIInv

LEMMA StepFits ==
  ASSUME ShellIInv, [Next]_vars
  PROVE  ShellIInv' /\ [SQ!Next]_<<queue, taken, lost>>
<1>1. IInv' /\ [SQ!Next]_<<queue, taken, lost>> /\ MailboxTypeOK'
  <2>1. [MailboxNext]_mailboxVars
    BY ShellMovesMailbox DEF ShellIInv, TypeOK
  <2>2. IInv' /\ [SQ!Next]_<<queue, taken, lost>>
    BY <2>1, StepHolds DEF ShellIInv
  <2> QED BY <2>2 DEF IInv
<1>2. typing' \in Seq(Chars)
  <2>1. ASSUME rxInterrupt
        PROVE  typing' \in Seq(Chars)
    BY <2>1, HeadTailProperties DEF rxInterrupt, ShellIInv, TypeOK
  <2>2. ASSUME ~ rxInterrupt
        PROVE  typing' = typing
    BY <2>2 DEF Next, vars, Kernel, WaitForChar, process, Return
  <2> QED BY <2>1, <2>2 DEF ShellIInv, TypeOK
<1>3. /\ line' \in Seq(Chars) /\ Len(line') < SHELL_MAX_LINE_LEN
      /\ running' \in BOOLEAN /\ m_exit' \in BOOLEAN /\ m_echo' \in BOOLEAN
  <2>1. ASSUME Edit, process
        PROVE  /\ line' \in Seq(Chars) /\ Len(line') < SHELL_MAX_LINE_LEN
               /\ UNCHANGED <<running, m_exit, m_echo>>
    <3>1. taken \in Seq(Chars) /\ taken # << >>
      BY <2>1 DEF process, Done, ShellIInv, IInv, MailboxTypeOK
    <3>2. ch \in Chars
      BY <3>1 DEF ch
    <3> QED BY <2>1, <3>2, EditedFits DEF Edit, ShellIInv, TypeOK
  <2>2. ASSUME Execute
        PROVE  /\ line' \in Seq(Chars) /\ Len(line') < SHELL_MAX_LINE_LEN
               /\ running' \in BOOLEAN /\ m_exit' \in BOOLEAN /\ m_echo' \in BOOLEAN
    <3>1. line' \in Seq(Chars) /\ Len(line') < SHELL_MAX_LINE_LEN
      BY <2>2, ShellAssumption DEF Execute
    <3>2. ASSUME NEW k, NEW args, Call(k, args)
          PROVE  running' \in BOOLEAN /\ m_exit' \in BOOLEAN /\ m_echo' \in BOOLEAN
      BY <3>2 DEF Call, cmdEcho, ShellIInv, TypeOK
    <3> QED BY <2>2, <3>1, <3>2 DEF Execute, CallFound, ShellIInv, TypeOK
  <2>3. ASSUME ~ process, ~ Return
        PROVE  UNCHANGED shellVars
    BY <2>3 DEF Next, vars, Kernel, WaitForChar, rxInterrupt
  <2>4. ASSUME Return
        PROVE  running' = FALSE /\ UNCHANGED <<line, m_exit, m_echo>>
    BY <2>4 DEF Return
  <2> QED BY <2>1, <2>2, <2>3, <2>4 DEF process, shellVars, ShellIInv, TypeOK
<1> QED BY <1>1, <1>2, <1>3, ReceivedHasTaken DEF ShellIInv, TypeOK

-----------------------------------------------------------------------------
(* line[] always has room for its NUL, and the ring is never left. *)
THEOREM ShellTypeCorrect == Spec => []TypeOK
<1>1. ShellIInv /\ [Next]_vars => ShellIInv'
  BY StepFits
<1>2. ShellIInv => TypeOK
  BY DEF ShellIInv
<1> QED BY InitFits, <1>1, <1>2, PTL DEF Spec

(* Between its interrupt and its thread the shell has a queue that loses a
   character only when it is full. *)
THEOREM ShellRefinement == Spec => ImplementsSerialQueue
<1>1. Init => SQ!Init
  BY InitHolds DEF Init
<1>2. ShellIInv /\ [Next]_vars => ShellIInv' /\ [SQ!Next]_<<queue, taken, lost>>
  BY StepFits
<1> QED BY InitFits, <1>1, <1>2, PTL DEF Spec, ImplementsSerialQueue, SQ!Spec

-----------------------------------------------------------------------------
(* Lines and words.  Induction goes through the least number at which a
   statement fails. *)

LEMMA LeastExists ==
  ASSUME NEW T, T \subseteq Nat, T # {}
  PROVE  \E x \in T : \A y \in T : x <= y
<1>1. PICK x \in T : \A y \in T : ~ (<<y, x>> \in OpToRel(<, Nat))
  BY NatLessThanWellFounded, WFMin, Zenon
<1>2. \A y, z \in Nat : y < z => <<y, z>> \in OpToRel(<, Nat)
  BY Zenon DEF OpToRel
<1>3. \A y \in T : ~ (y < x)
  BY <1>1, <1>2
<1> QED BY <1>3

LEMMA SegmentSize ==
  ASSUME NEW n \in Nat
  PROVE  IsFiniteSet(1..n) /\ Cardinality(1..n) = n
<1>1. 1 \in Int /\ n \in Int
  OBVIOUS
<1>2. /\ IsFiniteSet(1..n)
      /\ Cardinality(1..n) = IF 1 > n THEN 0 ELSE n - 1 + 1
  BY ONLY <1>1, FS_Interval
<1> QED BY <1>2

(* How many numbers of S are below i: Ascending puts i at that place. *)
Below(S, i) == {j \in S : j < i}

LEMMA BelowCounts ==
  ASSUME NEW S, S \subseteq Nat, IsFiniteSet(S)
  PROVE  /\ Cardinality(S) \in Nat
         /\ \A i \in S : Cardinality(Below(S, i)) + 1 \in 1..Cardinality(S)
         /\ \A i, j \in S : Cardinality(Below(S, i)) = Cardinality(Below(S, j)) => i = j
<1>1. Cardinality(S) \in Nat
  BY FS_CardinalityType
<1>2. ASSUME NEW i \in Nat
      PROVE  IsFiniteSet(Below(S, i)) /\ Cardinality(Below(S, i)) \in Nat
  <2>1. Below(S, i) \in SUBSET S
    BY DEF Below
  <2> QED BY <2>1, FS_Subset, FS_CardinalityType
<1>3. ASSUME NEW i \in S
      PROVE  Cardinality(Below(S, i)) + 1 \in 1..Cardinality(S)
  <2>1. Below(S, i) \in SUBSET (S \ {i})
    BY DEF Below
  <2>2. IsFiniteSet(S \ {i}) /\ Cardinality(S \ {i}) = Cardinality(S) - 1
    BY FS_RemoveElement
  <2>3. Cardinality(Below(S, i)) <= Cardinality(S) - 1
    BY <2>1, <2>2, FS_Subset
  <2>4. Cardinality(Below(S, i)) \in Nat
    BY <1>2
  <2> QED BY <1>1, <2>3, <2>4
<1>4. ASSUME NEW i \in S, NEW j \in S, i < j
      PROVE  Cardinality(Below(S, i)) < Cardinality(Below(S, j))
  <2>1. Below(S, i) \cup {i} \in SUBSET Below(S, j) /\ i \notin Below(S, i)
    <3>1. i \in Nat /\ j \in Nat /\ \A k \in S : k \in Nat
      OBVIOUS
    <3>2. \A k \in S : k < i => k < j
      BY <1>4, <3>1
    <3>3. ~ (i < i)
      BY <3>1
    <3> QED BY <1>4, <3>2, <3>3, Zenon DEF Below
  <2>2. Cardinality(Below(S, i) \cup {i}) = Cardinality(Below(S, i)) + 1
    BY <1>2, <2>1, FS_AddElement
  <2>3. Cardinality(Below(S, i) \cup {i}) <= Cardinality(Below(S, j))
    BY <1>2, <2>1, FS_Subset
  <2>4. Cardinality(Below(S, i)) \in Nat /\ Cardinality(Below(S, j)) \in Nat
    BY <1>2
  <2> QED BY <2>2, <2>3, <2>4
<1>5. ASSUME NEW i \in S, NEW j \in S, Cardinality(Below(S, i)) = Cardinality(Below(S, j))
      PROVE  i = j
  <2>1. Cardinality(Below(S, i)) \in Nat /\ Cardinality(Below(S, j)) \in Nat
    BY <1>2
  <2>2. ~ (i < j) /\ ~ (j < i)
    BY <1>4, <1>5, <2>1
  <2> QED BY <2>2
<1> QED BY <1>1, <1>3, <1>5

LEMMA AscendingIs ==
  ASSUME NEW S, S \subseteq Nat, IsFiniteSet(S)
  PROVE  /\ Ascending(S) \in Seq(S) /\ Len(Ascending(S)) = Cardinality(S)
         /\ Cardinality(S) \in Nat
         /\ \A n \in 1..Cardinality(S) : \A i \in S :
                Cardinality(Below(S, i)) = n - 1 => Ascending(S)[n] = i
         /\ \A n \in 1..Cardinality(S) : Cardinality(Below(S, Ascending(S)[n])) = n - 1
<1> DEFINE c == Cardinality(S)
           f == [i \in S |-> Cardinality(Below(S, i)) + 1]
<1>1. /\ c \in Nat
      /\ \A i \in S : Cardinality(Below(S, i)) + 1 \in 1..c /\ Cardinality(Below(S, i)) \in Nat
      /\ \A i, j \in S : Cardinality(Below(S, i)) = Cardinality(Below(S, j)) => i = j
  <2>1. ASSUME NEW i \in S PROVE Cardinality(Below(S, i)) \in Nat
    <3>1. Below(S, i) \in SUBSET S
      BY DEF Below
    <3> QED BY <3>1, FS_Subset, FS_CardinalityType
  <2> QED BY <2>1, BelowCounts
<1>2. f \in Injection(S, 1..c)
  <2>1. f \in [S -> 1..c]
    BY <1>1
  <2>2. \A i, j \in S : f[i] = f[j] => i = j
    BY <1>1
  <2> HIDE DEF f
  <2> QED BY <2>1, <2>2 DEF Injection, IsInjective
<1>3. IsFiniteSet(1..c) /\ Cardinality(1..c) = c
  BY <1>1, SegmentSize
<1>4. f \in Surjection(S, 1..c)
  <2> HIDE DEF f
  <2> QED BY <1>2, <1>3, FS_Injection, Zenon DEF c
<1>5. \A n \in 1..c : \E i \in S : Cardinality(Below(S, i)) = n - 1
  <2>1. \A n \in 1..c : \E i \in S : f[i] = n
    <3> HIDE DEF f
    <3> QED BY <1>4 DEF Surjection
  <2> QED BY <1>1, <2>1
<1> DEFINE e(n) == CHOOSE i \in S : Cardinality(Below(S, i)) = n - 1
<1>6. \A n \in 1..c : e(n) \in S /\ Cardinality(Below(S, e(n))) = n - 1
  BY <1>5, Zenon
<1>7. Ascending(S) = [n \in 1..c |-> e(n)]
  BY Zenon DEF Ascending, Below
<1> HIDE DEF e, c, f
<1>8. Ascending(S) \in Seq(S) /\ Len(Ascending(S)) = c
  BY <1>1, <1>6, <1>7
<1>9. \A n \in 1..c : Ascending(S)[n] = e(n)
  BY <1>7, Zenon
<1>10. \A n \in 1..c : \A i \in S : Cardinality(Below(S, i)) = n - 1 => e(n) = i
  BY <1>1, <1>6
<1> QED BY <1>1, <1>6, <1>8, <1>9, <1>10 DEF c

(* A number above all others goes to the end, one below them to the front. *)
LEMMA AscendingAppend ==
  ASSUME NEW S, S \subseteq Nat, IsFiniteSet(S), NEW x \in Nat, \A i \in S : i < x
  PROVE  Ascending(S \cup {x}) = Append(Ascending(S), x)
<1> DEFINE T == S \cup {x}
           c == Cardinality(S)
<1>1. /\ T \subseteq Nat /\ IsFiniteSet(T) /\ Cardinality(T) = c + 1
  BY FS_AddElement
<1>2. /\ Ascending(S) \in Seq(S) /\ Len(Ascending(S)) = c /\ c \in Nat
      /\ \A n \in 1..c : Cardinality(Below(S, Ascending(S)[n])) = n - 1
  BY AscendingIs
<1>3. /\ Ascending(T) \in Seq(T) /\ Len(Ascending(T)) = c + 1
      /\ \A n \in 1..(c + 1) : \A i \in T :
            Cardinality(Below(T, i)) = n - 1 => Ascending(T)[n] = i
  <2> HIDE DEF T, c
  <2> QED BY <1>1, AscendingIs
<1>4. Below(T, x) = S /\ \A i \in S : Below(T, i) = Below(S, i)
  <2>1. ~ (x < x) /\ \A i \in S : ~ (x < i)
    OBVIOUS
  <2> QED BY <2>1, Zenon DEF Below
<1> HIDE DEF T, c
<1>5. ASSUME NEW n \in 1..c PROVE Ascending(T)[n] = Ascending(S)[n]
  <2>1. Ascending(S)[n] \in S
    BY <1>2
  <2>2. n \in 1..(c + 1) /\ Ascending(S)[n] \in T
    BY <1>2, <2>1 DEF T
  <2> QED BY <1>2, <1>3, <1>4, <2>1, <2>2
<1>6. Ascending(T)[c + 1] = x
  <2>1. c + 1 \in 1..(c + 1) /\ Cardinality(Below(T, x)) = (c + 1) - 1 /\ x \in T
    BY <1>2, <1>4 DEF c, T
  <2> QED BY <1>3, <2>1
<1>7. Ascending(S) \in Seq(T) /\ x \in T
  BY <1>2 DEF T
<1>8. /\ Append(Ascending(S), x) \in Seq(T) /\ Len(Append(Ascending(S), x)) = c + 1
      /\ \A n \in 1..c : Append(Ascending(S), x)[n] = Ascending(S)[n]
      /\ Append(Ascending(S), x)[c + 1] = x
  BY <1>2, <1>7, AppendProperties
<1>9. \A n \in 1..(c + 1) : Ascending(T)[n] = Append(Ascending(S), x)[n]
  BY <1>2, <1>5, <1>6, <1>8
<1>10. Ascending(T) = Append(Ascending(S), x)
  BY <1>3, <1>8, <1>9, SeqEqual
<1> QED BY <1>10 DEF T

LEMMA AscendingCons ==
  ASSUME NEW S, S \subseteq Nat, IsFiniteSet(S), NEW x \in Nat, \A i \in S : x < i
  PROVE  Ascending({x} \cup S) = <<x>> \o Ascending(S)
<1> DEFINE T == {x} \cup S
           c == Cardinality(S)
<1>1. /\ T \subseteq Nat /\ IsFiniteSet(T) /\ Cardinality(T) = c + 1
  <2>1. T = S \cup {x} /\ x \notin S
    OBVIOUS
  <2> QED BY <2>1, FS_AddElement
<1>2. /\ Ascending(S) \in Seq(S) /\ Len(Ascending(S)) = c /\ c \in Nat
      /\ \A n \in 1..c : Cardinality(Below(S, Ascending(S)[n])) = n - 1
  BY AscendingIs
<1>3. /\ Ascending(T) \in Seq(T) /\ Len(Ascending(T)) = c + 1
      /\ \A n \in 1..(c + 1) : \A i \in T :
            Cardinality(Below(T, i)) = n - 1 => Ascending(T)[n] = i
  <2> HIDE DEF T, c
  <2> QED BY <1>1, AscendingIs
<1>4. /\ Below(T, x) = {}
      /\ \A i \in S : Below(T, i) = Below(S, i) \cup {x} /\ x \notin Below(S, i)
                      /\ Below(S, i) \in SUBSET S
  <2>1. ~ (x < x) /\ \A i \in S : ~ (i < x)
    OBVIOUS
  <2> QED BY <2>1, Zenon DEF Below
<1>5. ASSUME NEW i \in S
      PROVE  Cardinality(Below(T, i)) = Cardinality(Below(S, i)) + 1
  <2>1. IsFiniteSet(Below(S, i))
    BY <1>4, FS_Subset, Zenon
  <2>2. Cardinality(Below(S, i) \cup {x}) = Cardinality(Below(S, i)) + 1
    BY <1>4, <2>1, FS_AddElement, Zenon
  <2> QED BY <1>4, <2>2, Zenon
<1> HIDE DEF T, c
<1>6. ASSUME NEW n \in 1..c PROVE Ascending(T)[n + 1] = Ascending(S)[n]
  <2>1. Ascending(S)[n] \in S
    BY <1>2
  <2>2. n + 1 \in 1..(c + 1) /\ Ascending(S)[n] \in T /\ (n - 1) + 1 = (n + 1) - 1
    BY <1>2, <2>1 DEF T
  <2>3. Cardinality(Below(T, Ascending(S)[n])) = (n + 1) - 1
    BY <1>2, <1>5, <2>1, <2>2
  <2> QED BY <1>3, <2>2, <2>3
<1>7. Ascending(T)[1] = x
  <2>1. 1 \in 1..(c + 1) /\ x \in T
    BY <1>2 DEF T
  <2>2. Cardinality(Below(T, x)) = 0
    BY <1>4, FS_EmptySet, Zenon
  <2> QED BY <1>3, <2>1, <2>2
<1>8. Ascending(S) \in Seq(T) /\ <<x>> \in Seq(T) /\ Len(<<x>>) = 1 /\ <<x>>[1] = x
  BY <1>2 DEF T
<1> DEFINE h == <<x>>
           a == Ascending(S)
<1> HIDE DEF h, a
<1>9. /\ h \o a \in Seq(T) /\ Len(h \o a) = Len(h) + Len(a)
      /\ \A n \in 1..(Len(h) + Len(a)) :
            (h \o a)[n] = IF n <= Len(h) THEN h[n] ELSE a[n - Len(h)]
  <2>1. h \in Seq(T) /\ a \in Seq(T)
    BY <1>8 DEF h, a
  <2> QED BY <2>1, ConcatProperties, Zenon
<1>10. Len(h) = 1 /\ h[1] = x /\ Len(a) = c /\ c \in Nat
  BY <1>2, <1>8 DEF h, a
<1>11. ASSUME NEW n \in 1..(c + 1) PROVE Ascending(T)[n] = (h \o a)[n]
  <2>1. CASE n = 1
    BY <1>7, <1>9, <1>10, <2>1
  <2>2. CASE n # 1
    <3>1. n - 1 \in 1..c /\ (n - 1) + 1 = n
      BY <1>10, <2>2
    <3>2. Ascending(T)[n] = a[n - 1]
      BY <1>6, <3>1 DEF a
    <3>3. (h \o a)[n] = a[n - 1]
      BY <1>9, <1>10, <2>2
    <3> QED BY <3>2, <3>3
  <2> QED BY <2>1, <2>2
<1>12. Len(h \o a) = c + 1
  BY <1>9, <1>10
<1>13. Ascending(T) = h \o a
  BY <1>3, <1>9, <1>11, <1>12, SeqEqual
<1> QED BY <1>13 DEF T, h, a

LEMMA AscendingEmpty == Ascending({}) = << >>
<1>1. Ascending({}) \in Seq({}) /\ Len(Ascending({})) = 0
  BY AscendingIs, FS_EmptySet
<1> QED BY <1>1, EmptySeq

(* Counting up: what holds at 0 and is handed on holds up to n. *)
LEMMA UpTo ==
  ASSUME NEW n \in Nat, NEW T, 0 \in T,
         \A k \in 0..n : k \in T /\ k < n => k + 1 \in T
  PROVE  n \in T
<1> DEFINE B == {k \in 0..n : k \notin T}
<1> SUFFICES ASSUME n \notin T PROVE FALSE
  OBVIOUS
<1>1. B \subseteq Nat /\ n \in B
  OBVIOUS
<1>2. PICK k \in B : \A j \in B : k <= j
  <2> HIDE DEF B
  <2> QED BY <1>1, LeastExists
<1>3. k \in 0..n /\ k # 0 /\ k \notin T
  BY <1>2
<1>4. k - 1 \in 0..n /\ k - 1 < n /\ (k - 1) + 1 = k /\ ~ (k <= k - 1)
  BY <1>3
<1>5. k - 1 \in T
  BY <1>2, <1>4
<1> QED BY <1>3, <1>4, <1>5

-----------------------------------------------------------------------------
(* The fold over a line: with one key more it is edited once more. *)
EditsBy(q, S, f) ==
    f = [s \in SUBSET S |-> IF s = {} THEN << >>
                            ELSE Edited(f[s \ {Max(s)}], q[Max(s)])]

LEMMA FoldIs ==
  ASSUME NEW q
  PROVE  FoldLeft(Edited, << >>, q) = (CHOOSE f : EditsBy(q, DOMAIN q, f))[DOMAIN q]
BY DEF FoldLeft, MapThenFoldSet, EditsBy

LEMMA MaxOf ==
  ASSUME NEW s, s \subseteq Nat, NEW m \in s, \A x \in s : x <= m
  PROVE  Max(s) = m
<1> DEFINE IsMax(x) == x \in s /\ \A y \in s : x >= y
<1>1. IsMax(m)
  OBVIOUS
<1>2. ASSUME NEW x, IsMax(x) PROVE x = m
  BY <1>2
<1>3. Max(s) = CHOOSE x \in s : \A y \in s : x >= y
  BY Zenon DEF Max
<1> QED BY <1>1, <1>2, <1>3

LEMMA EditsExist ==
  ASSUME NEW q, NEW n \in Nat
  PROVE  \E f : EditsBy(q, 1..n, f)
<1> DEFINE T == {k \in 0..n : \E f : EditsBy(q, 1..k, f)}
<1>1. 0 \in T
  <2> DEFINE f == [s \in SUBSET (1..0) |-> << >>]
  <2>1. \A s \in SUBSET (1..0) : s = {}
    <3>1. 1..0 = {}
      OBVIOUS
    <3> QED BY <3>1, Zenon
  <2>2. f = [s \in SUBSET (1..0) |-> IF s = {} THEN << >>
                            ELSE Edited(f[s \ {Max(s)}], q[Max(s)])]
    BY <2>1, Zenon
  <2>3. EditsBy(q, 1..0, f)
    BY <2>2, Zenon DEF EditsBy
  <2> QED BY <2>3
<1>2. ASSUME NEW k \in 0..n, k \in T, k < n
      PROVE  k + 1 \in T
  <2> DEFINE m == k + 1
  <2>1. PICK f : EditsBy(q, 1..k, f)
    BY <1>2
  <2> DEFINE g == [s \in SUBSET (1..m) |->
                      IF m \in s THEN Edited(f[s \ {m}], q[m]) ELSE f[s]]
             h == [s \in SUBSET (1..m) |-> IF s = {} THEN << >>
                            ELSE Edited(g[s \ {Max(s)}], q[Max(s)])]
  <2>2. ASSUME NEW s \in SUBSET (1..k)
        PROVE  f[s] = IF s = {} THEN << >> ELSE Edited(f[s \ {Max(s)}], q[Max(s)])
    BY <2>1, Zenon DEF EditsBy
  <2>3. m \in Nat /\ \A x \in 1..m : x # m => x \in 1..k
    OBVIOUS
  <2>4. \A x \in 1..m : x \in Nat /\ x <= m
    OBVIOUS
  <2>5. \A x \in 1..k : x \in 1..m /\ x # m
    OBVIOUS
  <2> HIDE DEF m
  <2>6. ASSUME NEW s \in SUBSET (1..m)
        PROVE  g[s] = h[s]
    <3>1. CASE m \in s
      <4>1. Max(s) = m
        <5>1. s \subseteq Nat /\ \A x \in s : x <= m
          BY <2>4
        <5> QED BY <3>1, <5>1, MaxOf, Zenon
      <4>2. s \ {m} \in SUBSET (1..k) /\ s \ {m} \in SUBSET (1..m) /\ m \notin s \ {m}
        BY <2>3, Zenon
      <4>3. g[s \ {m}] = f[s \ {m}]
        BY <4>2, Zenon
      <4>4. g[s] = Edited(f[s \ {m}], q[m])
        BY <3>1, Zenon
      <4>5. h[s] = Edited(g[s \ {m}], q[m])
        <5>1. s # {}
          BY <3>1
        <5>2. h[s] = Edited(g[s \ {Max(s)}], q[Max(s)])
          <6> HIDE DEF g
          <6> QED BY <5>1, Zenon
        <5> HIDE DEF h, g
        <5> QED BY <4>1, <5>2, Zenon
      <4> HIDE DEF g, h
      <4> QED BY <4>3, <4>4, <4>5, Zenon
    <3>2. CASE m \notin s
      <4>1. s \in SUBSET (1..k)
        BY <2>3, <3>2, Zenon
      <4>2. g[s] = f[s]
        BY <3>2, Zenon
      <4>3. ASSUME s # {}
            PROVE  g[s \ {Max(s)}] = f[s \ {Max(s)}]
        <5>1. s \ {Max(s)} \in SUBSET (1..m) /\ m \notin s \ {Max(s)}
          BY <3>2, Zenon
        <5> QED BY <5>1, Zenon
      <4>4. h[s] = IF s = {} THEN << >> ELSE Edited(g[s \ {Max(s)}], q[Max(s)])
        <5> HIDE DEF g
        <5> QED BY Zenon
      <4>5. f[s] = IF s = {} THEN << >> ELSE Edited(f[s \ {Max(s)}], q[Max(s)])
        BY <2>2, <4>1, Zenon
      <4> HIDE DEF g, h
      <4>6. CASE s = {}
        BY <4>2, <4>4, <4>5, <4>6, Zenon
      <4>7. CASE s # {}
        BY <4>2, <4>3, <4>4, <4>5, <4>7, Zenon
      <4> QED BY <4>6, <4>7, Zenon
    <3> QED BY <3>1, <3>2, Zenon
  <2>7. g = h
    <3>1. g = [s \in SUBSET (1..m) |-> g[s]]
      BY Zenon
    <3>2. h = [s \in SUBSET (1..m) |-> h[s]]
      <4> HIDE DEF g
      <4> QED BY Zenon
    <3> HIDE DEF g, h
    <3>3. [s \in SUBSET (1..m) |-> g[s]] = [s \in SUBSET (1..m) |-> h[s]]
      BY <2>6, Zenon
    <3> QED BY <3>1, <3>2, <3>3, Zenon
  <2>8. EditsBy(q, 1..m, g)
    <3>1. h = [s \in SUBSET (1..m) |-> IF s = {} THEN << >>
                            ELSE Edited(g[s \ {Max(s)}], q[Max(s)])]
      <4> HIDE DEF g
      <4> QED BY Zenon
    <3> HIDE DEF g, h
    <3> QED BY <2>7, <3>1, Zenon DEF EditsBy
  <2>9. k + 1 \in 0..n
    BY <1>2
  <2> HIDE DEF g, h
  <2> QED BY <2>8, <2>9, Zenon DEF m
<1> HIDE DEF T
<1>3. n \in T
  BY <1>1, <1>2, UpTo, Zenon
<1> QED BY <1>3, Zenon DEF T

LEMMA EditsStep ==
  ASSUME NEW q, NEW n \in Nat, NEW f, EditsBy(q, 1..n, f)
  PROVE  /\ f[1..0] = << >>
         /\ \A k \in 0..n : k < n => f[1..(k + 1)] = Edited(f[1..k], q[k + 1])
<1>1. \A s \in SUBSET (1..n) :
        f[s] = IF s = {} THEN << >> ELSE Edited(f[s \ {Max(s)}], q[Max(s)])
  BY Zenon DEF EditsBy
<1>2. f[1..0] = << >>
  <2>1. 1..0 = {}
    OBVIOUS
  <2> QED BY <1>1, <2>1, Zenon
<1>3. ASSUME NEW k \in 0..n, k < n
      PROVE  f[1..(k + 1)] = Edited(f[1..k], q[k + 1])
  <2> DEFINE s == 1..(k + 1)
  <2>1. /\ s \in SUBSET (1..n) /\ k + 1 \in s /\ s \subseteq Nat
        /\ \A x \in s : x <= k + 1
    BY <1>3
  <2>2. s \ {k + 1} = 1..k
    BY <1>3
  <2> HIDE DEF s
  <2>3. Max(s) = k + 1
    BY <2>1, MaxOf, Zenon
  <2>4. f[s] = Edited(f[s \ {Max(s)}], q[Max(s)])
    BY <1>1, <2>1, Zenon
  <2> QED BY <2>2, <2>3, <2>4, Zenon DEF s
<1> QED BY <1>2, <1>3

LEMMA FoldEmpty == FoldLeft(Edited, << >>, << >>) = << >>
<1> DEFINE f == CHOOSE f : EditsBy(<< >>, 1..0, f)
<1>1. EditsBy(<< >>, 1..0, f)
  BY EditsExist, 0 \in Nat, Zenon
<1>2. f[1..0] = << >>
  <2> HIDE DEF f
  <2> QED BY <1>1, EditsStep, 0 \in Nat, Zenon
<1>3. DOMAIN << >> = 1..0
  OBVIOUS
<1>4. FoldLeft(Edited, << >>, << >>) = f[1..0]
  BY <1>3, FoldIs, Zenon
<1> HIDE DEF f
<1> QED BY <1>2, <1>4

LEMMA FoldAppend ==
  ASSUME NEW q \in Seq(Chars), NEW x \in Chars
  PROVE  FoldLeft(Edited, << >>, Append(q, x)) = Edited(FoldLeft(Edited, << >>, q), x)
<1> DEFINE p == Append(q, x)
           n == Len(q)
           f == CHOOSE f : EditsBy(q, 1..n, f)
           g == CHOOSE g : EditsBy(p, 1..(n + 1), g)
           T == {k \in 0..n : f[1..k] = g[1..k]}
<1>1. /\ n \in Nat /\ n + 1 \in Nat /\ DOMAIN q = 1..n /\ DOMAIN p = 1..(n + 1)
      /\ p[n + 1] = x /\ \A k \in 1..n : p[k] = q[k]
  BY AppendProperties
<1>2. FoldLeft(Edited, << >>, q) = f[1..n] /\ FoldLeft(Edited, << >>, p) = g[1..(n + 1)]
  <2> HIDE DEF n, p
  <2>1. DOMAIN q = 1..n /\ DOMAIN p = 1..(n + 1)
    BY <1>1
  <2> QED BY <2>1, FoldIs, Zenon
<1>3. EditsBy(q, 1..n, f)
  <2> HIDE DEF n
  <2> QED BY <1>1, EditsExist, Zenon
<1>4. EditsBy(p, 1..(n + 1), g)
  <2> HIDE DEF n, p
  <2> QED BY <1>1, EditsExist, Zenon
<1> HIDE DEF f, g, n, p
<1>5. /\ f[1..0] = << >>
      /\ \A k \in 0..n : k < n => f[1..(k + 1)] = Edited(f[1..k], q[k + 1])
  BY <1>1, <1>3, EditsStep, Zenon
<1>6. /\ g[1..0] = << >>
      /\ \A k \in 0..(n + 1) : k < n + 1 => g[1..(k + 1)] = Edited(g[1..k], p[k + 1])
  BY <1>1, <1>4, EditsStep, Zenon
<1>7. n \in T
  <2>1. 0 \in T
    BY <1>1, <1>5, <1>6
  <2>2. ASSUME NEW k \in 0..n, k \in T, k < n
        PROVE  k + 1 \in T
    <3>1. k \in 0..(n + 1) /\ k < n + 1 /\ k + 1 \in 1..n /\ k + 1 \in 0..n
      BY <1>1, <2>2
    <3>2. f[1..k] = g[1..k]
      BY <2>2
    <3>3. f[1..(k + 1)] = g[1..(k + 1)]
      BY <1>1, <1>5, <1>6, <2>2, <3>1, <3>2, Zenon
    <3> QED BY <3>1, <3>3
  <2> HIDE DEF T
  <2> QED BY <1>1, <2>1, <2>2, UpTo, Zenon
<1>8. n \in 0..(n + 1) /\ n < n + 1
  BY <1>1
<1>9. g[1..(n + 1)] = Edited(g[1..n], x)
  BY <1>1, <1>6, <1>8, Zenon
<1>10. f[1..n] = g[1..n]
  BY <1>7
<1> QED BY <1>2, <1>9, <1>10, Zenon DEF p

-----------------------------------------------------------------------------
(* One sequence more, flattened, goes behind what is there. *)
Flattens(g, n, f) ==
    f = [i \in 1..n |-> IF i = 1 THEN g[i] ELSE f[i - 1] \o g[i]]

Flattened(g, n) == CHOOSE f : Flattens(g, n, f)

LEMMA FlattenIs ==
  ASSUME NEW g
  PROVE  FlattenSeq(g) = IF Len(g) = 0 THEN g ELSE Flattened(g, Len(g))[Len(g)]
BY DEF FlattenSeq, Flattens, Flattened

LEMMA FlattensExist ==
  ASSUME NEW g, NEW n \in Nat
  PROVE  \E f : Flattens(g, n, f)
<1> DEFINE T == {k \in 0..n : \E f : Flattens(g, k, f)}
<1>1. 0 \in T
  <2> DEFINE f == [i \in 1..0 |-> g[i]]
  <2>1. \A i \in 1..0 : FALSE
    OBVIOUS
  <2>2. f = [i \in 1..0 |-> IF i = 1 THEN g[i] ELSE f[i - 1] \o g[i]]
    BY <2>1, Zenon
  <2>3. Flattens(g, 0, f)
    BY <2>2, Zenon DEF Flattens
  <2> QED BY <2>3
<1>2. ASSUME NEW k \in 0..n, k \in T, k < n
      PROVE  k + 1 \in T
  <2>1. PICK f : Flattens(g, k, f)
    BY <1>2
  <2> DEFINE m == k + 1
             h == [i \in 1..m |-> IF i \in 1..k THEN f[i]
                                  ELSE IF i = 1 THEN g[i] ELSE f[i - 1] \o g[i]]
             j == [i \in 1..m |-> IF i = 1 THEN g[i] ELSE h[i - 1] \o g[i]]
  <2>2. \A i \in 1..k : f[i] = IF i = 1 THEN g[i] ELSE f[i - 1] \o g[i]
    BY <2>1, Zenon DEF Flattens
  <2>3. \A i \in 1..m : i # 1 => i - 1 \in 1..k /\ i - 1 \in 1..m
    OBVIOUS
  <2> HIDE DEF m
  <2>4. ASSUME NEW i \in 1..m
        PROVE  h[i] = j[i]
    <3>1. j[i] = IF i = 1 THEN g[i] ELSE h[i - 1] \o g[i]
      <4> HIDE DEF h
      <4> QED BY Zenon
    <3>2. i # 1 => h[i - 1] = f[i - 1]
      BY <2>3, Zenon
    <3>3. h[i] = IF i = 1 THEN g[i] ELSE f[i - 1] \o g[i]
      <4>1. h[i] = IF i \in 1..k THEN f[i]
                                  ELSE IF i = 1 THEN g[i] ELSE f[i - 1] \o g[i]
        BY Zenon
      <4> HIDE DEF h
      <4> QED BY <2>2, <4>1, Zenon
    <3> HIDE DEF h, j
    <3>4. CASE i = 1
      BY <3>1, <3>3, <3>4, Zenon
    <3>5. CASE i # 1
      BY <3>1, <3>2, <3>3, <3>5, Zenon
    <3> QED BY <3>4, <3>5
  <2>5. h = j
    <3>1. h = [i \in 1..m |-> h[i]]
      BY Zenon
    <3>2. j = [i \in 1..m |-> j[i]]
      <4> HIDE DEF h
      <4> QED BY Zenon
    <3> HIDE DEF h, j
    <3>3. [i \in 1..m |-> h[i]] = [i \in 1..m |-> j[i]]
      BY <2>4, Zenon
    <3> QED BY <3>1, <3>2, <3>3, Zenon
  <2>6. Flattens(g, m, h)
    <3>1. j = [i \in 1..m |-> IF i = 1 THEN g[i] ELSE h[i - 1] \o g[i]]
      <4> HIDE DEF h
      <4> QED BY Zenon
    <3> HIDE DEF h, j
    <3> QED BY <2>5, <3>1, Zenon DEF Flattens
  <2>7. k + 1 \in 0..n
    BY <1>2
  <2> HIDE DEF h, j
  <2> QED BY <2>6, <2>7, Zenon DEF m
<1> HIDE DEF T
<1>3. n \in T
  BY <1>1, <1>2, UpTo, Zenon
<1> QED BY <1>3, Zenon DEF T

LEMMA FlattensStep ==
  ASSUME NEW g, NEW n \in Nat, NEW f, Flattens(g, n, f)
  PROVE  /\ 0 < n => f[1] = g[1]
         /\ \A k \in 1..n : k < n => f[k + 1] = f[k] \o g[k + 1]
<1>1. \A i \in 1..n : f[i] = IF i = 1 THEN g[i] ELSE f[i - 1] \o g[i]
  BY Zenon DEF Flattens
<1>2. 0 < n => 1 \in 1..n
  OBVIOUS
<1>3. \A k \in 1..n : k < n => k + 1 \in 1..n /\ k + 1 # 1 /\ (k + 1) - 1 = k
  OBVIOUS
<1>4. ASSUME NEW k \in 1..n, k < n
      PROVE  f[k + 1] = f[k] \o g[k + 1]
  <2>1. f[k + 1] = f[(k + 1) - 1] \o g[k + 1]
    BY <1>1, <1>3, <1>4, Zenon
  <2>2. (k + 1) - 1 = k
    BY <1>3, <1>4
  <2> QED BY <2>1, <2>2, Zenon
<1> QED BY <1>1, <1>2, <1>4, Zenon

LEMMA FlattenAppend ==
  ASSUME NEW A, NEW n \in Nat,
         NEW g \in [1..n -> Seq(A)], NEW h \in [1..(n + 1) -> Seq(A)],
         \A k \in 1..n : h[k] = g[k]
  PROVE  FlattenSeq(h) = FlattenSeq(g) \o h[n + 1]
<1>1. /\ n + 1 \in Nat /\ n + 1 # 0 /\ Len(g) = n /\ Len(h) = n + 1
      /\ g \in Seq(Seq(A)) /\ n + 1 \in 1..(n + 1)
  OBVIOUS
<1> DEFINE m == n + 1
           f == Flattened(g, n)
           e == Flattened(h, m)
<1>2. /\ FlattenSeq(h) = e[m]
      /\ FlattenSeq(g) = IF n = 0 THEN g ELSE f[n]
  <2> HIDE DEF m
  <2>1. Len(h) = m /\ m # 0 /\ Len(g) = n
    BY <1>1 DEF m
  <2> QED BY <2>1, FlattenIs, Zenon
<1>3. Flattens(g, n, f)
  BY FlattensExist, Zenon DEF Flattened
<1>4. Flattens(h, m, e)
  <2>1. m \in Nat
    OBVIOUS
  <2> HIDE DEF m
  <2> QED BY <2>1, FlattensExist, Zenon DEF Flattened
<1> HIDE DEF f, e
<1>5. /\ 0 < n => f[1] = g[1]
      /\ \A k \in 1..n : k < n => f[k + 1] = f[k] \o g[k + 1]
  BY <1>3, FlattensStep, Zenon
<1>6. /\ 0 < m => e[1] = h[1]
      /\ \A k \in 1..m : k < m => e[k + 1] = e[k] \o h[k + 1]
  <2>1. m \in Nat
    OBVIOUS
  <2> HIDE DEF m
  <2> QED BY <1>4, <2>1, FlattensStep, Zenon
<1>7. CASE n = 0
  <2>1. FlattenSeq(g) = << >>
    BY <1>1, <1>2, <1>7, EmptySeq
  <2>2. FlattenSeq(h) = h[1] /\ h[n + 1] = h[1]
    BY <1>2, <1>6, <1>7
  <2>3. h[1] \in Seq(A)
    BY <1>7
  <2>4. << >> \o h[1] = h[1]
    BY <2>3
  <2> QED BY <2>1, <2>2, <2>4
<1>8. CASE n # 0
  <2> DEFINE T == {k \in 0..n : k = 0 \/ f[k] = e[k]}
  <2>1. 0 \in T
    OBVIOUS
  <2>2. ASSUME NEW k \in 0..n, k \in T, k < n
        PROVE  k + 1 \in T
    <3>1. CASE k = 0
      <4>1. 0 < n /\ 0 < m /\ 1 \in 1..n /\ k + 1 = 1 /\ 1 \in 0..n
        BY <1>8, <3>1
      <4>2. f[1] = e[1]
        BY <1>5, <1>6, <4>1, Zenon
      <4> QED BY <4>1, <4>2
    <3>2. CASE k # 0
      <4>1. k \in 1..n /\ k \in 1..m /\ k < m /\ k + 1 \in 1..n /\ k + 1 \in 0..n
        BY <2>2, <3>2
      <4>2. f[k] = e[k]
        BY <2>2, <3>2
      <4> HIDE DEF m
      <4>3. f[k + 1] = e[k + 1]
        BY <1>5, <1>6, <2>2, <4>1, <4>2, Zenon
      <4> QED BY <4>1, <4>3
    <3> QED BY <3>1, <3>2
  <2>3. n \in T
    <3> HIDE DEF T
    <3> QED BY <2>1, <2>2, UpTo, Zenon
  <2>4. f[n] = e[n]
    BY <1>8, <2>3
  <2>5. n \in 1..m /\ n < m
    BY <1>8
  <2>6. e[m] = e[n] \o h[m]
    BY <1>6, <2>5
  <2> QED BY <1>2, <1>8, <2>4, <2>6
<1> QED BY <1>7, <1>8

-----------------------------------------------------------------------------
(* _strtok gives the words, by what it gives from each place on. *)
StartsFrom(str, p) ==
    {i \in p..Len(str) : str[i] # BLANK /\ (i = p \/ str[i - 1] = BLANK)}
WordsFrom(str, p) ==
    LET starts == Ascending(StartsFrom(str, p))
    IN  [n \in DOMAIN starts |-> WordAt(str, starts[n])]
WordPart(str, p) == {q \in p..Len(str) : \A i \in p..q : str[i] # BLANK}
TokensAre(str, f) ==
    f = [p \in 1..(Len(str) + 2) |->
            IF p > Len(str) THEN << >>
            ELSE IF str[p] = BLANK THEN f[p + 1]
            ELSE <<SubSeq(str, p, p + Cardinality(WordPart(str, p)) - 1)>>
                    \o f[p + Cardinality(WordPart(str, p)) - 1 + 2]]
TokensOf(str) == CHOOSE f : TokensAre(str, f)

LEMMA StrtokIs == ASSUME NEW str PROVE _strtok(str) = TokensOf(str)[1]
BY DEF _strtok, TokensOf, TokensAre, WordPart

(* The word at p goes up to the next blank or to the end. *)
LEMMA WordHasEnd ==
  ASSUME NEW str \in Seq(Chars), NEW p \in 1..Len(str), str[p] # BLANK
  PROVE  \E e \in p..Len(str) :
            /\ \A j \in p..e : str[j] # BLANK
            /\ e = Len(str) \/ str[e + 1] = BLANK
<1> DEFINE B == {j \in p..Len(str) : str[j] = BLANK}
<1>1. Len(str) \in Nat
  OBVIOUS
<1>2. CASE B = {}
  <2>1. \A j \in p..Len(str) : str[j] # BLANK
    BY <1>2
  <2>2. Len(str) \in p..Len(str)
    BY <1>1
  <2> QED BY <2>1, <2>2
<1>3. CASE B # {}
  <2>1. B \subseteq Nat
    OBVIOUS
  <2>2. PICK b \in B : \A j \in B : b <= j
    <3> HIDE DEF B
    <3> QED BY <1>3, <2>1, LeastExists, Zenon
  <2>3. b \in p..Len(str) /\ str[b] = BLANK /\ b # p
    BY <2>2
  <2>4. /\ b - 1 \in p..Len(str) /\ (b - 1) + 1 = b
        /\ \A j \in p..(b - 1) : j \in p..Len(str) /\ ~ (b <= j)
    BY <1>1, <2>3
  <2>5. \A j \in p..(b - 1) : str[j] # BLANK
    BY <2>2, <2>4
  <2> QED BY <2>3, <2>4, <2>5
<1> QED BY <1>2, <1>3

LEMMA WordIs ==
  ASSUME NEW str \in Seq(Chars), NEW p \in 1..Len(str), NEW e \in p..Len(str),
         \A j \in p..e : str[j] # BLANK,
         e = Len(str) \/ str[e + 1] = BLANK
  PROVE  /\ WordAt(str, p) = SubSeq(str, p, e)
         /\ p + Cardinality(WordPart(str, p)) - 1 = e
<1>1. Len(str) \in Nat /\ p \in Nat /\ e \in Nat
  OBVIOUS
<1> DEFINE IsEnd(x) == /\ \A j \in p..x : str[j] # BLANK
                       /\ x = Len(str) \/ str[x + 1] = BLANK
<1>2. \A x \in p..Len(str) : IsEnd(x) => x = e
  <2> SUFFICES ASSUME NEW x \in p..Len(str), IsEnd(x), x # e PROVE FALSE
    OBVIOUS
  <2>1. CASE x < e
    <3>1. x + 1 \in p..e /\ x # Len(str)
      BY <1>1, <2>1
    <3> QED BY <3>1
  <2>2. CASE e < x
    <3>1. e + 1 \in p..x /\ e # Len(str)
      BY <1>1, <2>2
    <3> QED BY <3>1
  <2> QED BY <1>1, <2>1, <2>2
<1>3. IsEnd(e)
  OBVIOUS
<1>4. WordAt(str, p) = SubSeq(str, p, CHOOSE x \in p..Len(str) : IsEnd(x))
  BY Zenon DEF WordAt
<1>5. (CHOOSE x \in p..Len(str) : IsEnd(x)) = e
  <2> HIDE DEF IsEnd
  <2> QED BY <1>2, <1>3
<1>6. WordPart(str, p) = p..e
  <2>1. ASSUME NEW q \in p..e PROVE q \in WordPart(str, p)
    <3>1. q \in p..Len(str) /\ \A i \in p..q : i \in p..e
      BY <1>1
    <3> QED BY <3>1 DEF WordPart
  <2>2. ASSUME NEW q \in WordPart(str, p) PROVE q \in p..e
    <3> SUFFICES ASSUME q \notin p..e PROVE FALSE
      OBVIOUS
    <3>1. q \in p..Len(str) /\ \A i \in p..q : str[i] # BLANK
      BY DEF WordPart
    <3>2. e + 1 \in p..q /\ e # Len(str)
      BY <1>1, <3>1
    <3> QED BY <3>1, <3>2
  <2> QED BY <2>1, <2>2
<1>7. Cardinality(p..e) = e - p + 1
  <2>1. p \in Int /\ e \in Int /\ ~ (p > e)
    BY <1>1
  <2>2. Cardinality(p..e) = IF p > e THEN 0 ELSE e - p + 1
    BY <2>1, FS_Interval, Zenon
  <2> QED BY <2>1, <2>2
<1>8. p + (e - p + 1) - 1 = e
  BY <1>1
<1> QED BY <1>4, <1>5, <1>6, <1>7, <1>8

LEMMA StartsAreFinite ==
  ASSUME NEW str \in Seq(Chars), NEW p \in Nat \ {0}
  PROVE  /\ StartsFrom(str, p) \subseteq Nat /\ IsFiniteSet(StartsFrom(str, p))
         /\ StartsFrom(str, p) \subseteq 1..Len(str)
<1>1. Len(str) \in Nat
  OBVIOUS
<1>2. StartsFrom(str, p) \in SUBSET (1..Len(str))
  BY <1>1 DEF StartsFrom
<1>3. IsFiniteSet(1..Len(str))
  BY <1>1, SegmentSize
<1>4. 1..Len(str) \subseteq Nat
  OBVIOUS
<1> QED BY <1>2, <1>3, <1>4, FS_Subset, Zenon

(* The starts from p on, where p is a blank, and where a word begins there *)
LEMMA StartsStep ==
  ASSUME NEW str \in Seq(Chars), NEW p \in 1..(Len(str) + 2)
  PROVE  /\ p > Len(str) => StartsFrom(str, p) = {}
         /\ p <= Len(str) /\ str[p] = BLANK => StartsFrom(str, p) = StartsFrom(str, p + 1)
         /\ \A e \in p..Len(str) :
                /\ \A j \in p..e : str[j] # BLANK
                /\ e = Len(str) \/ str[e + 1] = BLANK
                => /\ StartsFrom(str, p) = {p} \cup StartsFrom(str, e + 2)
                   /\ \A i \in StartsFrom(str, e + 2) : p < i
<1>1. Len(str) \in Nat /\ p \in Nat
  OBVIOUS
<1>2. ASSUME p > Len(str) PROVE StartsFrom(str, p) = {}
  BY <1>1, <1>2 DEF StartsFrom
<1>3. ASSUME p <= Len(str), str[p] = BLANK
      PROVE  StartsFrom(str, p) = StartsFrom(str, p + 1)
  <2>1. ASSUME NEW i \in StartsFrom(str, p) PROVE i \in StartsFrom(str, p + 1)
    <3>1. i \in p..Len(str) /\ str[i] # BLANK /\ (i = p \/ str[i - 1] = BLANK)
      BY DEF StartsFrom
    <3>2. i # p
      BY <1>3, <3>1
    <3>3. i \in (p + 1)..Len(str)
      BY <1>1, <3>1, <3>2
    <3> QED BY <3>1, <3>2, <3>3 DEF StartsFrom
  <2>2. ASSUME NEW i \in StartsFrom(str, p + 1) PROVE i \in StartsFrom(str, p)
    <3>1. i \in (p + 1)..Len(str) /\ str[i] # BLANK /\ (i = p + 1 \/ str[i - 1] = BLANK)
      BY DEF StartsFrom
    <3>2. i \in p..Len(str) /\ (p + 1) - 1 = p
      BY <1>1, <3>1
    <3> QED BY <1>3, <3>1, <3>2 DEF StartsFrom
  <2> QED BY <2>1, <2>2
<1>4. ASSUME NEW e \in p..Len(str), \A j \in p..e : str[j] # BLANK,
             e = Len(str) \/ str[e + 1] = BLANK
      PROVE  /\ StartsFrom(str, p) = {p} \cup StartsFrom(str, e + 2)
             /\ \A i \in StartsFrom(str, e + 2) : p < i
  <2>1. ASSUME NEW i \in StartsFrom(str, p), i # p PROVE i \in StartsFrom(str, e + 2)
    <3>1. i \in p..Len(str) /\ str[i] # BLANK /\ str[i - 1] = BLANK
      BY <2>1 DEF StartsFrom
    <3>2. i - 1 \notin p..e
      BY <1>4, <3>1
    <3>3. i >= e + 2
      BY <1>1, <2>1, <3>1, <3>2
    <3>4. i \in (e + 2)..Len(str)
      BY <1>1, <3>1, <3>3
    <3> QED BY <3>1, <3>4 DEF StartsFrom
  <2>2. ASSUME NEW i \in StartsFrom(str, e + 2) PROVE i \in StartsFrom(str, p) /\ p < i
    <3>1. i \in (e + 2)..Len(str) /\ str[i] # BLANK /\ (i = e + 2 \/ str[i - 1] = BLANK)
      BY DEF StartsFrom
    <3>2. i \in p..Len(str) /\ p < i /\ e # Len(str) /\ (e + 2) - 1 = e + 1
      BY <1>1, <3>1
    <3>3. str[i - 1] = BLANK
      BY <1>4, <3>1, <3>2
    <3> QED BY <3>1, <3>2, <3>3 DEF StartsFrom
  <2>3. p \in StartsFrom(str, p)
    <3>1. p \in p..Len(str) /\ p \in p..e
      BY <1>1
    <3> QED BY <1>4, <3>1 DEF StartsFrom
  <2> QED BY <2>1, <2>2, <2>3
<1> QED BY <1>2, <1>3, <1>4

LEMMA WordsFromIs ==
  ASSUME NEW str \in Seq(Chars), NEW p \in 1..(Len(str) + 2)
  PROVE  /\ WordsFrom(str, p) \in Seq(Seq(Chars))
         /\ p > Len(str) => WordsFrom(str, p) = << >>
         /\ p <= Len(str) /\ str[p] = BLANK => WordsFrom(str, p) = WordsFrom(str, p + 1)
         /\ \A e \in p..Len(str) :
                /\ \A j \in p..e : str[j] # BLANK
                /\ e = Len(str) \/ str[e + 1] = BLANK
                => WordsFrom(str, p) = <<SubSeq(str, p, e)>> \o WordsFrom(str, e + 2)
<1>1. Len(str) \in Nat /\ p \in Nat \ {0}
  OBVIOUS
<1>2. ASSUME NEW i \in 1..Len(str), str[i] # BLANK
      PROVE  WordAt(str, i) \in Seq(Chars)
  <2>1. PICK e \in i..Len(str) : /\ \A j \in i..e : str[j] # BLANK
                                 /\ e = Len(str) \/ str[e + 1] = BLANK
    BY <1>2, WordHasEnd
  <2>2. WordAt(str, i) = SubSeq(str, i, e)
    BY <2>1, WordIs
  <2>3. \A j \in i..e : str[j] \in Chars
    OBVIOUS
  <2>4. i \in Int /\ e \in Int
    OBVIOUS
  <2>5. SubSeq(str, i, e) \in Seq(Chars)
    BY <2>3, <2>4, SubSeqProperties
  <2> QED BY <2>2, <2>5
<1>3. ASSUME NEW r \in Nat \ {0}
      PROVE  /\ Ascending(StartsFrom(str, r)) \in Seq(StartsFrom(str, r))
             /\ \A i \in StartsFrom(str, r) : WordAt(str, i) \in Seq(Chars)
  <2>1. /\ StartsFrom(str, r) \subseteq Nat /\ IsFiniteSet(StartsFrom(str, r))
        /\ StartsFrom(str, r) \subseteq 1..Len(str)
    BY StartsAreFinite
  <2>2. \A i \in StartsFrom(str, r) : str[i] # BLANK
    BY DEF StartsFrom
  <2>3. Ascending(StartsFrom(str, r)) \in Seq(StartsFrom(str, r))
    BY <2>1, AscendingIs, Zenon
  <2> QED BY <1>2, <2>1, <2>2, <2>3
<1>4. ASSUME NEW r \in Nat \ {0}
      PROVE  WordsFrom(str, r) \in Seq(Seq(Chars))
  <2> DEFINE a == Ascending(StartsFrom(str, r))
  <2>1. a \in Seq(StartsFrom(str, r)) /\ \A i \in StartsFrom(str, r) : WordAt(str, i) \in Seq(Chars)
    BY <1>3
  <2>2. WordsFrom(str, r) = [n \in DOMAIN a |-> WordAt(str, a[n])]
    BY Zenon DEF WordsFrom
  <2> HIDE DEF a
  <2>3. \A n \in DOMAIN a : WordAt(str, a[n]) \in Seq(Chars)
    BY <2>1
  <2>4. Len(a) \in Nat /\ DOMAIN a = 1..Len(a)
    BY <2>1
  <2> QED BY <2>2, <2>3, <2>4
<1>5. ASSUME p > Len(str) PROVE WordsFrom(str, p) = << >>
  <2>1. StartsFrom(str, p) = {}
    BY <1>5, StartsStep
  <2>2. Ascending(StartsFrom(str, p)) = << >>
    BY <2>1, AscendingEmpty, Zenon
  <2>3. WordsFrom(str, p) = [n \in DOMAIN << >> |-> WordAt(str, << >>[n])]
    BY <2>2, Zenon DEF WordsFrom
  <2>4. DOMAIN << >> = 1..0
    OBVIOUS
  <2>5. Len(WordsFrom(str, p)) = 0
    BY <2>3, <2>4
  <2> QED BY <1>1, <1>4, <2>5, EmptySeq
<1>6. ASSUME p <= Len(str), str[p] = BLANK
      PROVE  WordsFrom(str, p) = WordsFrom(str, p + 1)
  <2>1. StartsFrom(str, p) = StartsFrom(str, p + 1)
    BY <1>6, StartsStep
  <2> QED BY <2>1, Zenon DEF WordsFrom
<1>7. ASSUME NEW e \in p..Len(str), \A j \in p..e : str[j] # BLANK,
             e = Len(str) \/ str[e + 1] = BLANK
      PROVE  WordsFrom(str, p) = <<SubSeq(str, p, e)>> \o WordsFrom(str, e + 2)
  <2> DEFINE r == e + 2
             S == StartsFrom(str, r)
             a == Ascending(S)
             w == WordsFrom(str, r)
             v == WordsFrom(str, p)
             x == <<SubSeq(str, p, e)>>
  <2>1. StartsFrom(str, p) = {p} \cup S /\ \A i \in S : p < i
    BY <1>7, StartsStep
  <2>2. r \in Nat \ {0} /\ p \in 1..Len(str) /\ p \in Nat
    BY <1>1
  <2>3. WordAt(str, p) = SubSeq(str, p, e)
    BY <1>7, <2>2, WordIs
  <2> HIDE DEF r
  <2>4. S \subseteq Nat /\ IsFiniteSet(S)
    BY <2>2, StartsAreFinite
  <2>5. a \in Seq(S)
    BY <1>3, <2>2
  <2>6. w = [n \in DOMAIN a |-> WordAt(str, a[n])] /\ w \in Seq(Seq(Chars))
    <3>1. w \in Seq(Seq(Chars))
      BY <1>4, <2>2
    <3> QED BY <3>1, Zenon DEF WordsFrom
  <2>7. v \in Seq(Seq(Chars))
    BY <1>1, <1>4
  <2> HIDE DEF S
  <2>8. Ascending({p} \cup S) = <<p>> \o a
    BY <2>1, <2>2, <2>4, AscendingCons, Zenon
  <2>9. v = [n \in DOMAIN (<<p>> \o a) |-> WordAt(str, (<<p>> \o a)[n])]
    BY <2>1, <2>8, Zenon DEF WordsFrom
  <2> HIDE DEF a, w, v
  <2>10. /\ Len(a) \in Nat /\ Len(<<p>> \o a) = Len(a) + 1
         /\ (<<p>> \o a)[1] = p /\ \A n \in 1..Len(a) : (<<p>> \o a)[n + 1] = a[n]
         /\ DOMAIN (<<p>> \o a) = 1..(Len(a) + 1)
    <3>1. <<p>> \in Seq(Nat) /\ a \in Seq(Nat) /\ Len(<<p>>) = 1 /\ <<p>>[1] = p
      <4>1. \A n \in 1..Len(a) : a[n] \in S
        BY <2>5
      <4>2. a = [n \in 1..Len(a) |-> a[n]] /\ Len(a) \in Nat
        BY <2>5
      <4>3. a \in Seq(Nat)
        BY <2>4, <4>1, <4>2
      <4> QED BY <2>2, <4>3
    <3> DEFINE h == <<p>>
    <3> HIDE DEF h
    <3>2. /\ h \o a \in Seq(Nat) /\ Len(h \o a) = Len(h) + Len(a)
          /\ \A n \in 1..(Len(h) + Len(a)) :
                (h \o a)[n] = IF n <= Len(h) THEN h[n] ELSE a[n - Len(h)]
      <4>1. h \in Seq(Nat) /\ a \in Seq(Nat)
        BY <3>1 DEF h
      <4> QED BY <4>1, ConcatProperties, Zenon
    <3>3. Len(h) = 1 /\ h[1] = p /\ Len(a) \in Nat
      BY <3>1 DEF h
    <3>4. /\ Len(h \o a) = Len(a) + 1 /\ DOMAIN (h \o a) = 1..(Len(a) + 1)
          /\ (h \o a)[1] = p
      BY <3>2, <3>3
    <3>5. ASSUME NEW n \in 1..Len(a) PROVE (h \o a)[n + 1] = a[n]
      <4>1. n + 1 \in 1..(Len(h) + Len(a)) /\ ~ (n + 1 <= Len(h)) /\ (n + 1) - Len(h) = n
        BY <3>3
      <4> QED BY <3>2, <4>1
    <3> QED BY <3>3, <3>4, <3>5 DEF h
  <2> DEFINE pa == <<p>> \o a
  <2> HIDE DEF pa
  <2>11. /\ Len(v) = Len(a) + 1 /\ v[1] = WordAt(str, p)
         /\ \A n \in 1..Len(a) : v[n + 1] = WordAt(str, a[n])
    <3>1. /\ v = [n \in 1..(Len(a) + 1) |-> WordAt(str, pa[n])]
          /\ pa[1] = p /\ \A n \in 1..Len(a) : pa[n + 1] = a[n]
      BY <2>9, <2>10, Zenon DEF pa
    <3>2. 1 \in 1..(Len(a) + 1) /\ \A n \in 1..Len(a) : n + 1 \in 1..(Len(a) + 1)
      BY <2>10
    <3>3. Len(v) = Len(a) + 1
      BY <2>10, <3>1
    <3>4. \A n \in 1..(Len(a) + 1) : v[n] = WordAt(str, pa[n])
      BY <3>1, Zenon
    <3> QED BY <3>1, <3>2, <3>3, <3>4, Zenon
  <2>12. Len(w) = Len(a) /\ \A n \in 1..Len(a) : w[n] = WordAt(str, a[n])
    <3>1. DOMAIN a = 1..Len(a)
      BY <2>5
    <3> QED BY <2>6, <2>10, <3>1
  <2>13. x \in Seq(Seq(Chars)) /\ Len(x) = 1 /\ x[1] = WordAt(str, p)
    <3>1. p \in 1..Len(str) /\ str[p] # BLANK
      BY <1>7, <2>2
    <3>2. WordAt(str, p) \in Seq(Chars)
      BY <1>2, <3>1
    <3> QED BY <2>3, <3>2
  <2> HIDE DEF x
  <2>14. /\ x \o w \in Seq(Seq(Chars)) /\ Len(x \o w) = Len(x) + Len(w)
         /\ \A n \in 1..(Len(x) + Len(w)) :
               (x \o w)[n] = IF n <= Len(x) THEN x[n] ELSE w[n - Len(x)]
    BY <2>6, <2>13, ConcatProperties, Zenon
  <2>15. ASSUME NEW n \in 1..Len(v) PROVE v[n] = (x \o w)[n]
    <3>1. CASE n = 1
      BY <2>10, <2>11, <2>12, <2>13, <2>14, <3>1
    <3>2. CASE n # 1
      <4>1. n - 1 \in 1..Len(a) /\ (n - 1) + 1 = n
        BY <2>10, <2>11, <3>2
      <4>2. v[n] = WordAt(str, a[n - 1]) /\ w[n - 1] = WordAt(str, a[n - 1])
        BY <2>11, <2>12, <4>1
      <4>3. n \in 1..(Len(x) + Len(w)) /\ ~ (n <= Len(x)) /\ n - Len(x) = n - 1
        BY <2>10, <2>11, <2>12, <2>13, <3>2
      <4> QED BY <2>14, <4>2, <4>3
    <3> QED BY <3>1, <3>2
  <2>16. Len(v) = Len(x \o w)
    BY <2>10, <2>11, <2>12, <2>13, <2>14
  <2>17. v = x \o w
    BY <2>7, <2>14, <2>15, <2>16, SeqEqual
  <2> QED BY <2>17 DEF v, w, x, r
<1> QED BY <1>1, <1>4, <1>5, <1>6, <1>7

(* The splitting of the code and of the reference agree on every line. *)
LEMMA StrtokIsWords ==
  ASSUME NEW str \in Seq(Chars)
  PROVE  _strtok(str) = Words(str) /\ Words(str) \in Seq(Seq(Chars))
<1> DEFINE N == Len(str)
           L(p) == p + Cardinality(WordPart(str, p)) - 1
           body(f, p) == IF p > Len(str) THEN << >>
                         ELSE IF str[p] = BLANK THEN f[p + 1]
                         ELSE <<SubSeq(str, p, L(p))>> \o f[L(p) + 2]
           h == [p \in 1..(N + 2) |-> WordsFrom(str, p)]
<1>1. N \in Nat
  OBVIOUS
<1>2. ASSUME NEW p \in 1..N, str[p] # BLANK
      PROVE  /\ L(p) \in p..N
             /\ WordsFrom(str, p) = <<SubSeq(str, p, L(p))>> \o WordsFrom(str, L(p) + 2)
  <2>1. PICK e \in p..Len(str) : /\ \A j \in p..e : str[j] # BLANK
                                 /\ e = Len(str) \/ str[e + 1] = BLANK
    BY <1>2, WordHasEnd
  <2>2. L(p) = e
    BY <2>1, WordIs
  <2>3. p \in 1..(Len(str) + 2)
    BY <1>1
  <2> HIDE DEF L
  <2>4. WordsFrom(str, p) = <<SubSeq(str, p, e)>> \o WordsFrom(str, e + 2)
    BY <2>1, <2>3, WordsFromIs
  <2> QED BY <2>2, <2>4
<1>3. ASSUME NEW f, NEW p \in 1..(N + 2),
             \A q \in 1..(N + 2) : p < q => f[q] = WordsFrom(str, q)
      PROVE  body(f, p) = WordsFrom(str, p)
  <2> HIDE DEF L
  <2>1. CASE p > N
    <3>1. WordsFrom(str, p) = << >>
      BY <2>1, WordsFromIs
    <3> QED BY <2>1, <3>1
  <2>2. CASE p <= N /\ str[p] = BLANK
    <3>1. WordsFrom(str, p) = WordsFrom(str, p + 1)
      BY <2>2, WordsFromIs
    <3>2. p + 1 \in 1..(N + 2) /\ p < p + 1 /\ ~ (p > N)
      BY <1>1, <2>2
    <3>3. f[p + 1] = WordsFrom(str, p + 1)
      BY <1>3, <3>2
    <3> QED BY <2>2, <3>1, <3>2, <3>3
  <2>3. CASE p <= N /\ str[p] # BLANK
    <3>1. p \in 1..N /\ ~ (p > N)
      BY <1>1, <2>3
    <3>2. /\ L(p) \in p..N
          /\ WordsFrom(str, p) = <<SubSeq(str, p, L(p))>> \o WordsFrom(str, L(p) + 2)
      BY <1>2, <2>3, <3>1
    <3>3. L(p) + 2 \in 1..(N + 2) /\ p < L(p) + 2
      BY <1>1, <3>1, <3>2
    <3>4. f[L(p) + 2] = WordsFrom(str, L(p) + 2)
      BY <1>3, <3>3
    <3>5. body(f, p) = <<SubSeq(str, p, L(p))>> \o f[L(p) + 2]
      BY <2>3, <3>1, Zenon
    <3> HIDE DEF body
    <3> QED BY <3>2, <3>4, <3>5, Zenon
  <2>4. p > N \/ (p <= N /\ str[p] = BLANK) \/ (p <= N /\ str[p] # BLANK)
    BY <1>1
  <2> HIDE DEF body
  <2> QED BY <2>1, <2>2, <2>3, <2>4, Zenon
<1>4. \A f : TokensAre(str, f) <=> f = [p \in 1..(N + 2) |-> body(f, p)]
  BY Zenon DEF TokensAre
<1>5. TokensAre(str, h)
  <2>1. \A q \in 1..(N + 2) : h[q] = WordsFrom(str, q)
    BY Zenon
  <2>2. h = [p \in 1..(N + 2) |-> WordsFrom(str, p)]
    OBVIOUS
  <2> HIDE DEF h, body, N
  <2>3. \A p \in 1..(N + 2) : body(h, p) = WordsFrom(str, p)
    BY <1>3, <2>1, Zenon
  <2>4. h = [p \in 1..(N + 2) |-> body(h, p)]
    BY <2>2, <2>3, Zenon
  <2> QED BY <1>4, <2>4, Zenon
<1> DEFINE g == TokensOf(str)
<1>6. TokensAre(str, g)
  BY <1>5, Zenon DEF TokensOf
<1> HIDE DEF g, h, L
<1>7. \A p \in 1..(N + 2) : g[p] = body(g, p)
  <2>1. g = [p \in 1..(N + 2) |-> body(g, p)]
    BY <1>4, <1>6, Zenon
  <2> HIDE DEF body, N
  <2> QED BY <2>1, Zenon
<1> HIDE DEF body
<1> DEFINE T == {k \in 0..(N + 2) :
                    \A q \in 1..(N + 2) : q > N + 2 - k => g[q] = WordsFrom(str, q)}
           M == N + 2
<1>8. M \in T
  <2>1. 0 \in T
    BY <1>1
  <2>2. ASSUME NEW k \in 0..M, k \in T, k < M
        PROVE  k + 1 \in T
    <3>1. k + 1 \in 0..(N + 2) /\ N + 2 - k \in 1..(N + 2)
      BY <1>1, <2>2
    <3>2. g[N + 2 - k] = WordsFrom(str, N + 2 - k)
      <4>1. \A q \in 1..(N + 2) : N + 2 - k < q => g[q] = WordsFrom(str, q)
        BY <2>2
      <4>2. body(g, N + 2 - k) = WordsFrom(str, N + 2 - k)
        BY <1>3, <3>1, <4>1
      <4> QED BY <1>7, <3>1, <4>2
    <3>3. ASSUME NEW q \in 1..(N + 2), q > N + 2 - (k + 1)
          PROVE  g[q] = WordsFrom(str, q)
      <4>1. q > N + 2 - k \/ q = N + 2 - k
        BY <1>1, <3>3
      <4>2. CASE q > N + 2 - k
        BY <2>2, <4>2
      <4>3. CASE q = N + 2 - k
        BY <3>2, <4>3
      <4> QED BY <4>1, <4>2, <4>3
    <3> QED BY <3>1, <3>3
  <2>3. M \in Nat
    BY <1>1
  <2> HIDE DEF T, M
  <2> QED BY <2>1, <2>2, <2>3, UpTo, Zenon
<1>9. g[1] = WordsFrom(str, 1)
  <2>1. 1 \in 1..(N + 2) /\ 1 > N + 2 - M
    BY <1>1
  <2> QED BY <1>8, <2>1
<1>10. StartsFrom(str, 1) = Starts(str)
  <2>1. DOMAIN str = 1..Len(str)
    OBVIOUS
  <2> QED BY <2>1, Zenon DEF StartsFrom, Starts
<1>11. WordsFrom(str, 1) = Words(str)
  BY <1>10, Zenon DEF WordsFrom, Words
<1>12. WordsFrom(str, 1) \in Seq(Seq(Chars))
  <2>1. 1 \in 1..(Len(str) + 2)
    BY <1>1
  <2> QED BY <2>1, WordsFromIs
<1> QED BY <1>9, <1>11, <1>12, StrtokIs DEF g

-----------------------------------------------------------------------------
(* The history of what was taken, and the calls and the line it makes *)
Calls == [command : DOMAIN Commands, args : Seq(Seq(Chars))]
Rest(s) == SubSeq(s, Begin(s, Len(EndsOf(s)) + 1), Len(s))
LineOf(s) == FoldLeft(Edited, << >>, Rest(s))
CallsIn(s) == FlattenSeq([k \in DOMAIN EndsOf(s) |-> CallsOf(Typed(s, k))])
FoundIn(words) ==
    IF Len(words) \in 1..(SHELL_MAX_ARGUMENTS + 1) THEN findCommand(words[1]) ELSE {}

(* The first match, and none but it, is found. *)
LEMMA FindIs ==
  ASSUME NEW word
  PROVE  LET known == {k \in DOMAIN Commands : Matches(word, k)}
         IN  /\ known = {} => findCommand(word) = {}
             /\ known # {} => \E k \in known :
                   /\ findCommand(word) = {k}
                   /\ k = CHOOSE i \in known : \A j \in known : i <= j
<1> DEFINE known == {k \in DOMAIN Commands : Matches(word, k)}
           IsFirst(k) == \A j \in known : k <= j
<1>1. DOMAIN Commands = 1..Len(Commands) /\ Len(Commands) \in Nat
  BY ShellAssumption
<1>2. CASE known = {}
  <2>1. findCommand(word) = {}
    BY <1>2 DEF findCommand
  <2> QED BY <1>2, <2>1
<1>3. CASE known # {}
  <2>1. known \subseteq Nat
    BY <1>1
  <2>2. PICK k \in known : IsFirst(k)
    <3> HIDE DEF known
    <3> QED BY <1>3, <2>1, LeastExists
  <2>3. \A i \in known : IsFirst(i) => i = k
    <3> HIDE DEF known
    <3> QED BY <2>1, <2>2
  <2>4. k = CHOOSE i \in known : IsFirst(i)
    <3> HIDE DEF known, IsFirst
    <3> QED BY <2>2, <2>3
  <2>5. \A i \in findCommand(word) : i = k
    <3> SUFFICES ASSUME NEW i \in findCommand(word), i # k PROVE FALSE
      OBVIOUS
    <3>1. /\ i \in DOMAIN Commands /\ Matches(word, i)
          /\ \A j \in 1..(i - 1) : ~ Matches(word, j)
      BY DEF findCommand
    <3>2. i \in known /\ k <= i /\ Matches(word, k) /\ k \in 1..Len(Commands)
      BY <1>1, <2>2, <3>1
    <3>3. k \in 1..(i - 1)
      BY <1>1, <3>1, <3>2
    <3> QED BY <3>1, <3>2, <3>3
  <2>6. k \in findCommand(word)
    <3>1. k \in DOMAIN Commands /\ Matches(word, k)
      BY <2>2
    <3>2. ASSUME NEW j \in 1..(k - 1), Matches(word, j) PROVE FALSE
      <4>1. j \in DOMAIN Commands /\ ~ (k <= j)
        BY <1>1, <3>1
      <4>2. j \in known
        BY <3>2, <4>1
      <4> QED BY <2>2, <4>1, <4>2
    <3> QED BY <3>1, <3>2 DEF findCommand
  <2>7. findCommand(word) = {k}
    BY <2>5, <2>6
  <2> HIDE DEF known
  <2> QED BY <1>3, <2>2, <2>4, <2>7 DEF known
<1> QED BY <1>2, <1>3

CallsFrom(words) ==
    LET known == IF words = << >> THEN {}
                 ELSE {k \in DOMAIN Commands : Matches(words[1], k)}
    IN  IF known = {} \/ Len(words) > SHELL_MAX_ARGUMENTS + 1 THEN << >>
        ELSE <<[command |-> CHOOSE k \in known : \A j \in known : k <= j,
                args |-> Tail(words)]>>

LEMMA CallsOfIs ==
  ASSUME NEW str \in Seq(Chars)
  PROVE  /\ CallsOf(str) \in Seq(Calls)
         /\ \/ FoundIn(_strtok(str)) = {} /\ CallsOf(str) = << >>
            \/ \E k \in DOMAIN Commands :
                  /\ FoundIn(_strtok(str)) = {k}
                  /\ [command |-> k, args |-> Tail(_strtok(str))] \in Calls
                  /\ CallsOf(str) = <<[command |-> k, args |-> Tail(_strtok(str))]>>
<1> DEFINE words == _strtok(str)
           known == IF words = << >> THEN {}
                    ELSE {k \in DOMAIN Commands : Matches(words[1], k)}
           first == CHOOSE k \in known : \A j \in known : k <= j
<1>1. words \in Seq(Seq(Chars)) /\ words = Words(str)
  BY StrtokIsWords
<1>2. CallsOf(str) = IF known = {} \/ Len(words) > SHELL_MAX_ARGUMENTS + 1 THEN << >>
                     ELSE <<[command |-> first, args |-> Tail(words)]>>
  <2>1. CallsOf(str) = CallsFrom(Words(str))
    BY Zenon DEF CallsOf, CallsFrom
  <2> HIDE DEF words
  <2>2. CallsOf(str) = CallsFrom(words)
    BY <1>1, <2>1, Zenon
  <2> QED BY <2>2, Zenon DEF CallsFrom
<1> HIDE DEF words
<1>3. Len(words) \in Nat /\ SHELL_MAX_ARGUMENTS \in Nat
  BY <1>1, ShellAssumption
<1>4. CASE words = << >>
  <2>1. FoundIn(words) = {}
    BY <1>4 DEF FoundIn
  <2>2. CallsOf(str) = << >>
    BY <1>2, <1>4
  <2> QED BY <2>1, <2>2 DEF words
<1>5. CASE words # << >>
  <2>1. Len(words) >= 1 /\ Tail(words) \in Seq(Seq(Chars))
    BY <1>1, <1>5
  <2>2. CASE Len(words) > SHELL_MAX_ARGUMENTS + 1
    <3>1. FoundIn(words) = {}
      BY <1>3, <2>2 DEF FoundIn
    <3>2. CallsOf(str) = << >>
      BY <1>2, <2>2
    <3> QED BY <3>1, <3>2 DEF words
  <2>3. CASE ~ (Len(words) > SHELL_MAX_ARGUMENTS + 1)
    <3>1. FoundIn(words) = findCommand(words[1])
      BY <1>3, <2>1, <2>3 DEF FoundIn
    <3>2. known = {k \in DOMAIN Commands : Matches(words[1], k)}
      BY <1>5
    <3>3. /\ known = {} => findCommand(words[1]) = {}
          /\ known # {} => \E k \in known : findCommand(words[1]) = {k} /\ k = first
      <4> HIDE DEF known
      <4> QED BY <3>2, FindIs, Zenon
    <3> HIDE DEF known, first
    <3>4. CASE known = {}
      <4>1. CallsOf(str) = << >>
        BY <1>2, <3>4
      <4> QED BY <3>1, <3>3, <3>4, <4>1 DEF words
    <3>5. CASE known # {}
      <4>1. PICK k \in known : findCommand(words[1]) = {k} /\ k = first
        BY <3>3, <3>5
      <4>2. k \in DOMAIN Commands
        BY <3>2, <4>1
      <4>3. CallsOf(str) = <<[command |-> k, args |-> Tail(words)]>>
        BY <1>2, <2>3, <3>5, <4>1, Zenon
      <4>4. [command |-> k, args |-> Tail(words)] \in Calls
        BY <2>1, <4>2 DEF Calls
      <4>5. CallsOf(str) \in Seq(Calls)
        BY <4>3, <4>4
      <4> QED BY <3>1, <4>1, <4>2, <4>3, <4>4, <4>5, Zenon DEF words
    <3> QED BY <3>4, <3>5
  <2> QED BY <2>2, <2>3
<1> QED BY <1>4, <1>5

(* A line of what was typed is a string that fits. *)
LEMMA FoldFits ==
  ASSUME NEW q \in Seq(Chars)
  PROVE  FoldLeft(Edited, << >>, q) \in Seq(Chars)
<1> DEFINE n == Len(q)
           F(k) == FoldLeft(Edited, << >>, SubSeq(q, 1, k))
           T == {k \in 0..n : F(k) \in Seq(Chars) /\ Len(F(k)) < SHELL_MAX_LINE_LEN}
<1>1. n \in Nat
  OBVIOUS
<1>2. 0 \in T
  <2>1. SubSeq(q, 1, 0) = << >>
    OBVIOUS
  <2>2. F(0) = << >>
    BY <2>1, FoldEmpty, Zenon
  <2>3. << >> \in Seq(Chars) /\ Len(<< >>) = 0 /\ 0 < SHELL_MAX_LINE_LEN
    BY ShellAssumption
  <2>4. 0 \in 0..n
    BY <1>1
  <2> HIDE DEF F
  <2>5. F(0) \in Seq(Chars) /\ Len(F(0)) < SHELL_MAX_LINE_LEN
    BY <2>2, <2>3
  <2> QED BY <2>4, <2>5, Zenon
<1>3. ASSUME NEW k \in 0..n, k \in T, k < n
      PROVE  k + 1 \in T
  <2>1. q[k + 1] \in Chars /\ k + 1 \in 0..n
    BY <1>3
  <2>2. SubSeq(q, 1, k) \in Seq(Chars)
    BY <1>3
  <2>3. SubSeq(q, 1, k + 1) = Append(SubSeq(q, 1, k), q[k + 1])
    BY <1>3
  <2>4. F(k + 1) = Edited(F(k), q[k + 1])
    BY <2>1, <2>2, <2>3, FoldAppend, Zenon
  <2> HIDE DEF F
  <2>5. F(k) \in Seq(Chars) /\ Len(F(k)) < SHELL_MAX_LINE_LEN
    BY <1>3
  <2>6. /\ Edited(F(k), q[k + 1]) \in Seq(Chars)
        /\ Len(Edited(F(k), q[k + 1])) < SHELL_MAX_LINE_LEN
    BY <2>1, <2>5, EditedFits, Zenon
  <2> QED BY <2>1, <2>4, <2>6
<1>4. n \in T
  <2> HIDE DEF T, n
  <2> QED BY <1>1, <1>2, <1>3, UpTo, Zenon
<1>5. SubSeq(q, 1, n) = q
  OBVIOUS
<1>6. F(n) \in Seq(Chars)
  <2> HIDE DEF F
  <2> QED BY <1>4
<1> QED BY <1>5, <1>6, Zenon

LEMMA EndsOfIs ==
  ASSUME NEW s \in Seq(Chars)
  PROVE  /\ EndsOf(s) \in Seq(1..Len(s))
         /\ Len(EndsOf(s)) \in Nat /\ DOMAIN EndsOf(s) = 1..Len(EndsOf(s))
         /\ \A k \in 1..Len(EndsOf(s)) : EndsOf(s)[k] \in 1..Len(s)
         /\ \A k \in 1..(Len(EndsOf(s)) + 1) : Begin(s, k) \in 1..(Len(s) + 1)
<1> DEFINE E == {i \in DOMAIN s : Ends(s[i])}
<1>1. Len(s) \in Nat /\ DOMAIN s = 1..Len(s)
  OBVIOUS
<1>2. E \subseteq Nat /\ IsFiniteSet(E) /\ E \subseteq 1..Len(s)
  <2>1. E \in SUBSET (1..Len(s)) /\ 1..Len(s) \subseteq Nat
    BY <1>1
  <2>2. IsFiniteSet(1..Len(s))
    BY <1>1, SegmentSize
  <2> HIDE DEF E
  <2> QED BY <2>1, <2>2, FS_Subset, Zenon
<1>3. EndsOf(s) = Ascending(E)
  BY Zenon DEF EndsOf
<1> HIDE DEF E
<1>4. EndsOf(s) \in Seq(E)
  <2>1. Ascending(E) \in Seq(E)
    BY <1>2, AscendingIs, Zenon
  <2> QED BY <1>3, <2>1
<1>5. /\ Len(EndsOf(s)) \in Nat /\ DOMAIN EndsOf(s) = 1..Len(EndsOf(s))
      /\ \A k \in 1..Len(EndsOf(s)) : EndsOf(s)[k] \in 1..Len(s)
  <2> DEFINE e == EndsOf(s)
  <2>1. e \in Seq(E)
    BY <1>4
  <2> HIDE DEF e
  <2>2. Len(e) \in Nat /\ DOMAIN e = 1..Len(e) /\ \A k \in 1..Len(e) : e[k] \in E
    BY <2>1
  <2>3. \A k \in 1..Len(e) : e[k] \in 1..Len(s)
    BY <1>2, <2>2, Zenon
  <2> QED BY <2>2, <2>3 DEF e
<1>6. EndsOf(s) = [k \in 1..Len(EndsOf(s)) |-> EndsOf(s)[k]]
  BY <1>4
<1>7. EndsOf(s) \in Seq(1..Len(s))
  BY <1>5, <1>6
<1>8. ASSUME NEW k \in 1..(Len(EndsOf(s)) + 1)
      PROVE  Begin(s, k) \in 1..(Len(s) + 1)
  <2>1. CASE k = 1
    BY <1>1, <2>1 DEF Begin
  <2>2. CASE k # 1
    <3>1. k - 1 \in 1..Len(EndsOf(s))
      BY <1>5, <2>2
    <3>2. EndsOf(s)[k - 1] + 1 \in 1..(Len(s) + 1)
      BY <1>1, <1>5, <3>1
    <3> QED BY <2>2, <3>2 DEF Begin
  <2> QED BY <2>1, <2>2
<1> QED BY <1>5, <1>7, <1>8

LEMMA EndsOfAppend ==
  ASSUME NEW s \in Seq(Chars), NEW c \in Chars
  PROVE  EndsOf(Append(s, c)) = IF Ends(c) THEN Append(EndsOf(s), Len(s) + 1)
                                ELSE EndsOf(s)
<1> DEFINE E == {i \in DOMAIN s : Ends(s[i])}
           t == Append(s, c)
           n == Len(s)
<1>1. /\ n \in Nat /\ DOMAIN s = 1..n /\ DOMAIN t = 1..(n + 1)
      /\ t[n + 1] = c /\ \A i \in 1..n : t[i] = s[i]
  BY AppendProperties
<1>2. E \subseteq Nat /\ IsFiniteSet(E) /\ \A i \in E : i < n + 1
  <2>1. E \in SUBSET (1..n) /\ 1..n \subseteq Nat /\ \A i \in 1..n : i < n + 1
    BY <1>1
  <2> HIDE DEF E, n
  <2>2. IsFiniteSet(1..n)
    BY <1>1, SegmentSize
  <2> QED BY <2>1, <2>2, FS_Subset, Zenon
<1>3. {i \in DOMAIN t : Ends(t[i])} = IF Ends(c) THEN E \cup {n + 1} ELSE E
  <2>1. \A i : i \in 1..(n + 1) <=> i \in 1..n \/ i = n + 1
    BY <1>1
  <2>2. n + 1 \notin 1..n
    BY <1>1
  <2> HIDE DEF n, t
  <2>3. ASSUME Ends(c) PROVE {i \in DOMAIN t : Ends(t[i])} = E \cup {n + 1}
    <3>1. \A i : i \in DOMAIN t /\ Ends(t[i]) <=> i \in E \/ i = n + 1
      BY <1>1, <2>1, <2>2, <2>3, Zenon
    <3> HIDE DEF E
    <3> QED BY <3>1, Zenon
  <2>4. ASSUME ~ Ends(c) PROVE {i \in DOMAIN t : Ends(t[i])} = E
    <3>1. \A i : i \in DOMAIN t /\ Ends(t[i]) <=> i \in E
      BY <1>1, <2>1, <2>2, <2>4, Zenon
    <3> HIDE DEF E
    <3> QED BY <3>1, Zenon
  <2> QED BY <2>3, <2>4, Zenon
<1>4. EndsOf(s) = Ascending(E)
  BY Zenon DEF EndsOf
<1>5. EndsOf(t) = Ascending(IF Ends(c) THEN E \cup {n + 1} ELSE E)
  <2> HIDE DEF E, n, t
  <2> QED BY <1>3, Zenon DEF EndsOf
<1>6. n + 1 \in Nat
  BY <1>1
<1> HIDE DEF E
<1>7. Ascending(E \cup {n + 1}) = Append(Ascending(E), n + 1)
  <2> HIDE DEF n
  <2> QED BY <1>2, <1>6, AscendingAppend, Zenon
<1> HIDE DEF n, t
<1>8. EndsOf(t) = IF Ends(c) THEN Append(EndsOf(s), n + 1) ELSE EndsOf(s)
  BY <1>4, <1>5, <1>7, Zenon
<1> QED BY <1>8 DEF t, n

(* A line that has ended stays what it is. *)
LEMMA TypedStays ==
  ASSUME NEW s \in Seq(Chars), NEW c \in Chars, NEW k \in 1..Len(EndsOf(s))
  PROVE  Typed(Append(s, c), k) = Typed(s, k) /\ Typed(s, k) \in Seq(Chars)
<1> DEFINE t == Append(s, c)
           K == Len(EndsOf(s))
           end == EndsOf(s)[k]
           b == Begin(s, k)
<1>1. /\ K \in Nat /\ EndsOf(s) \in Seq(1..Len(s)) /\ \A i \in 1..K : EndsOf(s)[i] \in 1..Len(s)
      /\ b \in 1..(Len(s) + 1)
  <2>1. k \in 1..(K + 1)
    BY EndsOfIs
  <2> QED BY <2>1, EndsOfIs
<1>2. end \in 1..Len(s) /\ Len(s) \in Nat
  BY <1>1
<1>3. \A i \in 1..K : EndsOf(t)[i] = EndsOf(s)[i]
  <2>1. CASE Ends(c)
    <3>1. EndsOf(t) = Append(EndsOf(s), Len(s) + 1)
      BY <2>1, EndsOfAppend
    <3>2. EndsOf(s) \in Seq(Nat)
      <4>1. EndsOf(s) = [i \in 1..K |-> EndsOf(s)[i]]
        BY <1>1
      <4> QED BY <1>1, <1>2, <4>1
    <3> QED BY <1>1, <1>2, <3>1, <3>2, AppendProperties
  <2>2. CASE ~ Ends(c)
    BY <2>2, EndsOfAppend
  <2> QED BY <2>1, <2>2
<1>4. EndsOf(t)[k] = end
  BY <1>3
<1>5. Begin(t, k) = b
  <2>1. k # 1 => k - 1 \in 1..K
    BY <1>1
  <2> HIDE DEF t
  <2> QED BY <1>3, <2>1 DEF Begin
<1>6. t[end] = s[end]
  BY <1>2
<1>7. SubSeq(t, b, end - 1) = SubSeq(s, b, end - 1) /\ SubSeq(s, b, end - 1) \in Seq(Chars)
  <2>1. /\ b \in Nat /\ end - 1 \in Nat /\ b >= 1
        /\ \A i \in b..(end - 1) : i \in 1..Len(s) /\ t[i] = s[i] /\ s[i] \in Chars
    BY <1>1, <1>2
  <2> DEFINE e == end - 1
  <2> HIDE DEF t, b, end, e
  <2>2. b \in Nat /\ e \in Nat /\ b >= 1 /\ \A i \in b..e : t[i] = s[i] /\ s[i] \in Chars
    BY <2>1 DEF e
  <2>3. b \in Int /\ e \in Int /\ (\A i \in b..e : s[i] \in Chars) /\ \A i \in b..e : t[i] \in Chars
    BY <2>2
  <2> DEFINE p == SubSeq(t, b, e)
             r == SubSeq(s, b, e)
             l == IF b <= e THEN e - b + 1 ELSE 0
  <2>4. p \in Seq(Chars) /\ Len(p) = l /\ \A i \in 1..(e - b + 1) : p[i] = t[b + i - 1]
    <3>1. b \in Int /\ e \in Int /\ \A i \in b..e : t[i] \in Chars
      BY <2>3
    <3>2. p \in Seq(Chars)
      BY ONLY <3>1, SubSeqProperties
    <3>3. Len(p) = l
      BY ONLY <3>1, SubSeqProperties
    <3>4. \A i \in 1..(e - b + 1) : p[i] = t[b + i - 1]
      BY ONLY <3>1, SubSeqProperties
    <3> QED BY <3>2, <3>3, <3>4
  <2>5. r \in Seq(Chars) /\ Len(r) = l /\ \A i \in 1..(e - b + 1) : r[i] = s[b + i - 1]
    <3>1. b \in Int /\ e \in Int /\ \A i \in b..e : s[i] \in Chars
      BY <2>3
    <3>2. r \in Seq(Chars)
      BY ONLY <3>1, SubSeqProperties
    <3>3. Len(r) = l
      BY ONLY <3>1, SubSeqProperties
    <3>4. \A i \in 1..(e - b + 1) : r[i] = s[b + i - 1]
      BY ONLY <3>1, SubSeqProperties
    <3> QED BY <3>2, <3>3, <3>4
  <2> HIDE DEF p, r
  <2>6. \A i \in 1..l : i \in 1..(e - b + 1) /\ b + i - 1 \in b..e
    BY <2>2
  <2> HIDE DEF l
  <2>7. \A i \in 1..Len(p) : p[i] = r[i]
    BY <2>2, <2>4, <2>5, <2>6, Zenon
  <2>8. p = r
    BY <2>4, <2>5, <2>7, SeqEqual
  <2> QED BY <2>5, <2>8 DEF e, p, r
<1> DEFINE q == SubSeq(s, b, end - 1)
           F(z) == FoldLeft(Edited, << >>, z)
<1>8. F(q) \in Seq(Chars)
  <2> HIDE DEF q
  <2> QED BY <1>7, FoldFits DEF q
<1>9. Typed(s, k) = IF s[end] = EOT THEN << >> ELSE F(q)
  BY Zenon DEF Typed
<1>10. Typed(t, k) = IF t[EndsOf(t)[k]] = EOT THEN << >>
                     ELSE F(SubSeq(t, Begin(t, k), EndsOf(t)[k] - 1))
  <2> HIDE DEF t
  <2> QED BY Zenon DEF Typed
<1>11. SubSeq(t, Begin(t, k), EndsOf(t)[k] - 1) = q
  <2> HIDE DEF t, b, end
  <2> QED BY <1>4, <1>5, <1>7, Zenon
<1>12. t[EndsOf(t)[k]] = s[end]
  <2> HIDE DEF t, end
  <2> QED BY <1>4, <1>6, Zenon
<1>13. << >> \in Seq(Chars)
  OBVIOUS
<1> HIDE DEF t, q, end, F
<1>14. Typed(t, k) = Typed(s, k)
  <2>1. CASE s[end] = EOT
    BY <1>9, <1>10, <1>12, <2>1, Zenon
  <2>2. CASE s[end] # EOT
    <3>1. Typed(t, k) = F(SubSeq(t, Begin(t, k), EndsOf(t)[k] - 1))
      BY <1>10, <1>12, <2>2, Zenon
    <3>2. Typed(s, k) = F(q)
      BY <1>9, <2>2, Zenon
    <3> QED BY <1>11, <3>1, <3>2, Zenon
  <2> QED BY <2>1, <2>2
<1>15. Typed(s, k) \in Seq(Chars)
  BY <1>8, <1>9, <1>13, Zenon
<1> QED BY <1>14, <1>15 DEF t

LEMMA RestIs ==
  ASSUME NEW s \in Seq(Chars)
  PROVE  Rest(s) \in Seq(Chars) /\ LineOf(s) \in Seq(Chars)
<1> DEFINE b == Begin(s, Len(EndsOf(s)) + 1)
           n == Len(s)
<1>1. n \in Nat /\ b \in 1..(n + 1)
  <2>1. Len(EndsOf(s)) + 1 \in 1..(Len(EndsOf(s)) + 1)
    BY EndsOfIs
  <2> QED BY <2>1, EndsOfIs
<1>2. Rest(s) = SubSeq(s, b, n)
  BY Zenon DEF Rest
<1>3. \A i \in b..n : s[i] \in Chars
  BY <1>1
<1> HIDE DEF b, n
<1>4. b \in Int /\ n \in Int
  BY <1>1
<1>5. SubSeq(s, b, n) \in Seq(Chars)
  BY <1>3, <1>4, SubSeqProperties
<1>6. Rest(s) \in Seq(Chars)
  BY <1>2, <1>5
<1>7. LineOf(s) \in Seq(Chars)
  BY <1>6, FoldFits DEF LineOf
<1> QED BY <1>6, <1>7

(* A key that ends no line is edited into the line, and calls nothing. *)
LEMMA KeyIsEdited ==
  ASSUME NEW s \in Seq(Chars), NEW c \in Chars, ~ Ends(c)
  PROVE  /\ LineOf(Append(s, c)) = Edited(LineOf(s), c)
         /\ CallsIn(Append(s, c)) = CallsIn(s)
<1> DEFINE t == Append(s, c)
           n == Len(s)
           b == Begin(s, Len(EndsOf(s)) + 1)
<1>1. EndsOf(t) = EndsOf(s)
  BY EndsOfAppend
<1>2. /\ n \in Nat /\ Len(t) = n + 1 /\ t[n + 1] = c /\ \A i \in 1..n : t[i] = s[i]
      /\ t \in Seq(Chars) /\ \A i \in 1..(n + 1) : t[i] \in Chars
  BY AppendProperties
<1>3. b \in 1..(n + 1) /\ b \in Int /\ n \in Int /\ n + 1 \in Int
  <2>1. Len(EndsOf(s)) + 1 \in 1..(Len(EndsOf(s)) + 1)
    BY EndsOfIs
  <2> QED BY <1>2, <2>1, EndsOfIs
<1>4. Begin(t, Len(EndsOf(t)) + 1) = b
  <2> HIDE DEF t
  <2> QED BY <1>1, Zenon DEF Begin
<1> DEFINE p == SubSeq(t, b, n + 1)
           q == SubSeq(s, b, n)
<1>5. Rest(t) = p /\ Rest(s) = q
  <2>1. Rest(t) = SubSeq(t, Begin(t, Len(EndsOf(t)) + 1), Len(t))
    <3> HIDE DEF t
    <3> QED BY Zenon DEF Rest
  <2>2. Rest(s) = q
    BY Zenon DEF Rest
  <2> HIDE DEF t, b, n, q
  <2> QED BY <1>2, <1>4, <2>1, <2>2, Zenon
<1> HIDE DEF t, b, n
<1>6. p = Append(q, c)
  <2>1. /\ p \in Seq(Chars) /\ Len(p) = IF b <= n + 1 THEN ((n + 1) - b) + 1 ELSE 0
        /\ \A i \in 1..(((n + 1) - b) + 1) : p[i] = t[b + i - 1]
    <3> DEFINE m == n + 1
    <3>1. b \in Int /\ m \in Int /\ \A i \in b..m : t[i] \in Chars
      BY <1>2, <1>3
    <3> HIDE DEF m
    <3>2. SubSeq(t, b, m) \in Seq(Chars)
      BY ONLY <3>1, SubSeqProperties
    <3>3. Len(SubSeq(t, b, m)) = IF b <= m THEN m - b + 1 ELSE 0
      BY ONLY <3>1, SubSeqProperties
    <3>4. \A i \in 1..(m - b + 1) : SubSeq(t, b, m)[i] = t[b + i - 1]
      BY ONLY <3>1, SubSeqProperties
    <3> QED BY <3>2, <3>3, <3>4 DEF m
  <2>2. /\ q \in Seq(Chars) /\ Len(q) = IF b <= n THEN n - b + 1 ELSE 0
        /\ \A i \in 1..(n - b + 1) : q[i] = s[b + i - 1]
    <3>1. b \in Int /\ n \in Int /\ \A i \in b..n : s[i] \in Chars
      <4>1. \A i \in b..n : i \in 1..n /\ i \in 1..(n + 1)
        BY <1>2, <1>3
      <4>2. \A i \in b..n : s[i] \in Chars
        BY <1>2, <4>1
      <4> QED BY <1>3, <4>2
    <3>2. SubSeq(s, b, n) \in Seq(Chars)
      BY ONLY <3>1, SubSeqProperties
    <3>3. Len(SubSeq(s, b, n)) = IF b <= n THEN n - b + 1 ELSE 0
      BY ONLY <3>1, SubSeqProperties
    <3>4. \A i \in 1..(n - b + 1) : SubSeq(s, b, n)[i] = s[b + i - 1]
      BY ONLY <3>1, SubSeqProperties
    <3> QED BY <3>2, <3>3, <3>4, Zenon
  <2> HIDE DEF p, q
  <2>3. Len(q) = n + 1 - b /\ Len(p) = Len(q) + 1 /\ Len(q) \in Nat
    BY <1>2, <1>3, <2>1, <2>2
  <2>4. /\ Append(q, c) \in Seq(Chars) /\ Len(Append(q, c)) = Len(q) + 1
        /\ \A i \in 1..Len(q) : Append(q, c)[i] = q[i]
        /\ Append(q, c)[Len(q) + 1] = c
    BY <2>2, AppendProperties
  <2>5. ASSUME NEW i \in 1..Len(p) PROVE p[i] = Append(q, c)[i]
    <3>1. CASE i = Len(q) + 1
      <4>1. i \in 1..(((n + 1) - b) + 1) /\ b + i - 1 = n + 1
        BY <1>2, <1>3, <2>3, <3>1
      <4> QED BY <1>2, <2>1, <2>4, <3>1, <4>1, Zenon
    <3>2. CASE i # Len(q) + 1
      <4>1. /\ i \in 1..Len(q) /\ i \in 1..(n - b + 1) /\ i \in 1..(((n + 1) - b) + 1)
            /\ b + i - 1 \in 1..n
        BY <1>2, <1>3, <2>3, <3>2
      <4> QED BY <1>2, <2>1, <2>2, <2>4, <4>1, Zenon
    <3> QED BY <3>1, <3>2
  <2> QED BY <2>1, <2>3, <2>4, <2>5, SeqEqual
<1>7. q \in Seq(Chars)
  BY <1>5, RestIs
<1> HIDE DEF p, q
<1>8. LineOf(t) = Edited(LineOf(s), c)
  <2>1. FoldLeft(Edited, << >>, Append(q, c)) = Edited(FoldLeft(Edited, << >>, q), c)
    BY <1>7, FoldAppend, Zenon
  <2>2. Rest(t) = Append(q, c)
    BY <1>5, <1>6
  <2>3. LineOf(t) = FoldLeft(Edited, << >>, Append(q, c))
    BY <2>2, Zenon DEF LineOf
  <2>4. LineOf(s) = FoldLeft(Edited, << >>, q)
    BY <1>5, Zenon DEF LineOf
  <2> QED BY <2>1, <2>3, <2>4, Zenon
<1>9. CallsIn(t) = CallsIn(s)
  <2>1. \A k \in DOMAIN EndsOf(s) : Typed(t, k) = Typed(s, k)
    BY TypedStays, EndsOfIs DEF t
  <2>2. [k \in DOMAIN EndsOf(t) |-> CallsOf(Typed(t, k))]
        = [k \in DOMAIN EndsOf(s) |-> CallsOf(Typed(s, k))]
    BY <1>1, <2>1, Zenon
  <2> QED BY <2>2, Zenon DEF CallsIn
<1> QED BY <1>8, <1>9 DEF t

(* A key that ends a line empties it, and its calls come behind the others. *)
LEMMA EndIsCalled ==
  ASSUME NEW s \in Seq(Chars), NEW c \in Chars, Ends(c)
  PROVE  /\ LineOf(Append(s, c)) = << >>
         /\ CallsIn(Append(s, c)) = CallsIn(s) \o CallsOf(Ended(LineOf(s), c))
<1> DEFINE t == Append(s, c)
           n == Len(s)
           K == Len(EndsOf(s))
<1>1. /\ n \in Nat /\ Len(t) = n + 1 /\ t[n + 1] = c /\ \A i \in 1..n : t[i] = s[i]
      /\ t \in Seq(Chars) /\ \A i \in 1..n : s[i] \in Chars
  BY AppendProperties
<1>2. /\ EndsOf(s) \in Seq(1..n) /\ K \in Nat /\ DOMAIN EndsOf(s) = 1..K
      /\ \A k \in 1..(K + 1) : Begin(s, k) \in 1..(n + 1)
  BY EndsOfIs
<1>3. EndsOf(t) = Append(EndsOf(s), n + 1)
  BY EndsOfAppend
<1>4. /\ Len(EndsOf(t)) = K + 1 /\ DOMAIN EndsOf(t) = 1..(K + 1)
      /\ EndsOf(t)[K + 1] = n + 1 /\ \A k \in 1..K : EndsOf(t)[k] = EndsOf(s)[k]
  <2>1. EndsOf(s) \in Seq(Nat) /\ n + 1 \in Nat
    <3> DEFINE e == EndsOf(s)
    <3>1. e \in Seq(1..n)
      BY <1>2
    <3> HIDE DEF e
    <3>2. Len(e) \in Nat /\ e = [k \in 1..Len(e) |-> e[k]] /\ \A k \in 1..Len(e) : e[k] \in 1..n
      BY <3>1
    <3>3. \A k \in 1..Len(e) : e[k] \in Nat
      BY <1>1, <3>2
    <3>4. e \in Seq(Nat)
      BY <3>2, <3>3
    <3> QED BY <1>1, <3>4 DEF e
  <2> QED BY <1>2, <1>3, <2>1, AppendProperties
<1>5. LineOf(t) = << >>
  <2>1. Begin(t, Len(EndsOf(t)) + 1) = n + 2
    <3>1. K + 1 + 1 # 1 /\ K + 1 + 1 - 1 = K + 1 /\ n + 1 + 1 = n + 2
      BY <1>1, <1>2
    <3> DEFINE j == Len(EndsOf(t)) + 1
    <3>2. j # 1 /\ j - 1 = K + 1
      BY <1>4, <3>1
    <3> HIDE DEF t, n, K, j
    <3>3. Begin(t, j) = EndsOf(t)[j - 1] + 1
      BY <3>2, Zenon DEF Begin
    <3>4. EndsOf(t)[j - 1] = n + 1
      BY <1>4, <3>2, Zenon
    <3> QED BY <3>1, <3>3, <3>4 DEF j
  <2>2. Rest(t) = SubSeq(t, n + 2, n + 1)
    <3> HIDE DEF t, n
    <3> QED BY <1>1, <2>1, Zenon DEF Rest
  <2>3. SubSeq(t, n + 2, n + 1) = << >>
    <3>1. n + 2 \in Int /\ n + 1 \in Int /\ n + 1 < n + 2
      BY <1>1
    <3> HIDE DEF t, n
    <3> QED BY <3>1, SubSeqEmpty
  <2> HIDE DEF t, n
  <2>4. Rest(t) = << >>
    BY <2>2, <2>3
  <2> QED BY <2>4, FoldEmpty, Zenon DEF LineOf
<1>6. Typed(t, K + 1) = Ended(LineOf(s), c)
  <2> DEFINE b == Begin(s, K + 1)
  <2>1. Begin(t, K + 1) = b /\ b \in 1..(n + 1)
    <3>1. K + 1 \in 1..(K + 1) /\ (K + 1 # 1 => (K + 1) - 1 \in 1..K)
      BY <1>2
    <3>2. b \in 1..(n + 1)
      BY <1>2, <3>1
    <3> DEFINE j == K + 1
    <3> HIDE DEF t, K
    <3>3. j # 1 => EndsOf(t)[j - 1] = EndsOf(s)[j - 1]
      BY <1>4, <3>1, Zenon DEF j
    <3> HIDE DEF j
    <3>4. Begin(t, j) = Begin(s, j)
      <4>1. /\ Begin(t, j) = IF j = 1 THEN 1 ELSE EndsOf(t)[j - 1] + 1
            /\ Begin(s, j) = IF j = 1 THEN 1 ELSE EndsOf(s)[j - 1] + 1
        BY Zenon DEF Begin
      <4>2. CASE j = 1
        BY <4>1, <4>2, Zenon
      <4>3. CASE j # 1
        <5>1. EndsOf(t)[j - 1] = EndsOf(s)[j - 1]
          BY <3>3, <4>3
        <5>2. Begin(t, j) = EndsOf(t)[j - 1] + 1
          BY <4>1, <4>3, Zenon
        <5>3. Begin(s, j) = EndsOf(s)[j - 1] + 1
          BY <4>1, <4>3, Zenon
        <5> QED BY <5>1, <5>2, <5>3, Zenon
      <4> QED BY <4>2, <4>3
    <3>5. Begin(t, K + 1) = Begin(s, K + 1)
      BY <3>4 DEF j
    <3> QED BY <3>2, <3>5
  <2>2. SubSeq(t, b, n) = SubSeq(s, b, n)
    <3> DEFINE p == SubSeq(t, b, n)
               r == SubSeq(s, b, n)
               l == IF b <= n THEN n - b + 1 ELSE 0
    <3>1. /\ b \in Int /\ n \in Int /\ b >= 1
          /\ (\A i \in b..n : t[i] = s[i]) /\ (\A i \in b..n : t[i] \in Chars)
          /\ \A i \in b..n : s[i] \in Chars
      <4>1. \A i \in b..n : i \in 1..n
        BY <1>1, <2>1
      <4> HIDE DEF t, n, b
      <4>2. b \in Int /\ n \in Int /\ b >= 1
        BY <1>1, <2>1
      <4>3. \A i \in b..n : t[i] = s[i] /\ s[i] \in Chars
        BY <1>1, <4>1, Zenon
      <4>4. \A i \in b..n : t[i] \in Chars
        BY <4>3
      <4> QED BY <4>2, <4>3, <4>4
    <3> HIDE DEF t, b, n
    <3>2. p \in Seq(Chars) /\ Len(p) = l /\ \A i \in 1..(n - b + 1) : p[i] = t[b + i - 1]
      <4>1. p \in Seq(Chars)
        BY ONLY <3>1, SubSeqProperties
      <4>2. Len(p) = l
        BY ONLY <3>1, SubSeqProperties
      <4>3. \A i \in 1..(n - b + 1) : p[i] = t[b + i - 1]
        BY ONLY <3>1, SubSeqProperties
      <4> QED BY <4>1, <4>2, <4>3
    <3>3. r \in Seq(Chars) /\ Len(r) = l /\ \A i \in 1..(n - b + 1) : r[i] = s[b + i - 1]
      <4>1. r \in Seq(Chars)
        BY ONLY <3>1, SubSeqProperties
      <4>2. Len(r) = l
        BY ONLY <3>1, SubSeqProperties
      <4>3. \A i \in 1..(n - b + 1) : r[i] = s[b + i - 1]
        BY ONLY <3>1, SubSeqProperties
      <4> QED BY <4>1, <4>2, <4>3
    <3> HIDE DEF p, r
    <3>4. \A i \in 1..l : i \in 1..(n - b + 1) /\ b + i - 1 \in b..n
      BY <3>1
    <3> HIDE DEF l
    <3>5. \A i \in 1..Len(p) : p[i] = r[i]
      BY <3>1, <3>2, <3>3, <3>4, Zenon
    <3>6. p = r
      BY <3>2, <3>3, <3>5, SeqEqual
    <3> QED BY <3>6 DEF p, r
  <2> DEFINE F(z) == FoldLeft(Edited, << >>, z)
  <2>3. LineOf(s) = F(SubSeq(s, b, n))
    BY Zenon DEF LineOf, Rest
  <2>4. Typed(t, K + 1) = IF t[EndsOf(t)[K + 1]] = EOT THEN << >>
                ELSE F(SubSeq(t, Begin(t, K + 1), EndsOf(t)[K + 1] - 1))
    <3> HIDE DEF t, K
    <3> QED BY Zenon DEF Typed
  <2>5. (n + 1) - 1 = n
    BY <1>1
  <2> HIDE DEF t, K, b, n, F
  <2>6. t[EndsOf(t)[K + 1]] = c
    BY <1>1, <1>4
  <2>7. EndsOf(t)[K + 1] - 1 = n
    BY <1>4, <2>5, Zenon
  <2>8. SubSeq(t, Begin(t, K + 1), EndsOf(t)[K + 1] - 1) = SubSeq(s, b, n)
    BY <2>1, <2>2, <2>7, Zenon
  <2>9. CASE c = EOT
    <3>1. Typed(t, K + 1) = << >>
      BY <2>4, <2>6, <2>9, Zenon
    <3> QED BY <2>9, <3>1, Zenon DEF Ended
  <2>10. CASE c # EOT
    <3>1. Typed(t, K + 1) = F(SubSeq(t, Begin(t, K + 1), EndsOf(t)[K + 1] - 1))
      BY <2>4, <2>6, <2>10, Zenon
    <3>2. Typed(t, K + 1) = LineOf(s)
      BY <2>3, <2>8, <3>1, Zenon
    <3> QED BY <2>10, <3>2, Zenon DEF Ended
  <2> QED BY <2>9, <2>10
<1> DEFINE g == [k \in 1..K |-> CallsOf(Typed(s, k))]
           h == [k \in 1..(K + 1) |-> CallsOf(Typed(t, k))]
<1>7. g \in [1..K -> Seq(Calls)] /\ h \in [1..(K + 1) -> Seq(Calls)]
  <2>1. \A k \in 1..K : Typed(s, k) \in Seq(Chars) /\ Typed(t, k) = Typed(s, k)
    BY TypedStays
  <2>2. Ended(LineOf(s), c) \in Seq(Chars)
    BY RestIs DEF Ended
  <2>3. \A k \in 1..(K + 1) : k \in 1..K \/ k = K + 1
    BY <1>2
  <2> HIDE DEF t, K
  <2>4. \A k \in 1..(K + 1) : Typed(t, k) \in Seq(Chars)
    BY <1>6, <2>1, <2>2, <2>3
  <2>5. \A k \in 1..(K + 1) : CallsOf(Typed(t, k)) \in Seq(Calls)
    BY <2>4, CallsOfIs
  <2>6. \A k \in 1..K : CallsOf(Typed(s, k)) \in Seq(Calls)
    BY <2>1, CallsOfIs
  <2> QED BY <2>5, <2>6
<1>8. \A k \in 1..K : h[k] = g[k]
  <2>1. \A k \in 1..K : Typed(t, k) = Typed(s, k) /\ k \in 1..(K + 1)
    BY <1>2, TypedStays
  <2> HIDE DEF t, K
  <2> QED BY <2>1, Zenon
<1>9. h[K + 1] = CallsOf(Ended(LineOf(s), c))
  <2>1. K + 1 \in 1..(K + 1)
    BY <1>2
  <2> HIDE DEF t, K
  <2> QED BY <1>6, <2>1, Zenon
<1>10. CallsIn(s) = FlattenSeq(g) /\ CallsIn(t) = FlattenSeq(h)
  <2> HIDE DEF t, K
  <2> QED BY <1>2, <1>4, Zenon DEF CallsIn
<1> HIDE DEF g, h, t, K
<1>11. FlattenSeq(h) = FlattenSeq(g) \o h[K + 1]
  <2>1. K \in Nat
    BY <1>2
  <2> QED BY ONLY <1>7, <1>8, <2>1, FlattenAppend, Zenon
<1> QED BY <1>5, <1>9, <1>10, <1>11 DEF t

(* What the thread has worked off makes the line and the calls. *)
LineInv ==
    /\ ShellIInv
    /\ line = LineOf(Consumed)
    /\ called = CallsIn(Consumed) /\ called \in Seq(Calls)

LEMMA LineInit == Init => LineInv
<1> SUFFICES ASSUME Init PROVE LineInv
  OBVIOUS
<1>1. Consumed = << >> /\ line = << >> /\ called = << >>
  BY DEF Init, MailboxInit, Consumed
<1>2. EndsOf(<< >>) = << >>
  <2>1. {i \in DOMAIN << >> : Ends(<< >>[i])} = {}
    <3>1. DOMAIN << >> = {}
      OBVIOUS
    <3> QED BY <3>1, Zenon
  <2> QED BY <2>1, AscendingEmpty, Zenon DEF EndsOf
<1>3. CallsIn(<< >>) = << >>
  <2> DEFINE g == [k \in DOMAIN EndsOf(<< >>) |-> CallsOf(Typed(<< >>, k))]
  <2>1. g = << >>
    <3> DEFINE h == [k \in 1..0 |-> CallsOf(Typed(<< >>, k))]
    <3>1. DOMAIN EndsOf(<< >>) = 1..0
      BY <1>2
    <3>2. g = h
      BY <3>1, Zenon
    <3>3. h = << >>
      OBVIOUS
    <3> QED BY <3>2, <3>3, Zenon
  <2>2. CallsIn(<< >>) = FlattenSeq(g)
    BY Zenon DEF CallsIn
  <2> HIDE DEF g
  <2>3. FlattenSeq(<< >>) = << >>
    <3>1. Len(<< >>) = 0
      OBVIOUS
    <3> QED BY <3>1, FlattenIs, Zenon
  <2> QED BY <2>1, <2>2, <2>3, Zenon
<1>4. LineOf(<< >>) = << >>
  <2>1. Rest(<< >>) = SubSeq(<< >>, Begin(<< >>, Len(EndsOf(<< >>)) + 1), Len(<< >>))
    BY Zenon DEF Rest
  <2>2. Len(EndsOf(<< >>)) + 1 = 1 /\ Len(<< >>) = 0
    BY <1>2
  <2>3. Begin(<< >>, 1) = 1
    BY Zenon DEF Begin
  <2>4. SubSeq(<< >>, 1, 0) = << >>
    OBVIOUS
  <2>5. Rest(<< >>) = << >>
    BY <2>1, <2>2, <2>3, <2>4, Zenon
  <2> QED BY <2>5, FoldEmpty, Zenon DEF LineOf
<1>5. << >> \in Seq(Calls)
  OBVIOUS
<1>6. ShellIInv
  BY InitFits
<1> QED BY <1>1, <1>3, <1>4, <1>5, <1>6 DEF LineInv

(* Only the thread that works on a character moves what is consumed. *)
LEMMA ConsumedStays ==
  ASSUME ShellIInv, [Next]_vars, ~ process
  PROVE  Consumed' = Consumed /\ line' = line /\ called' = called
<1>1. taken \in Seq(Chars)
  BY DEF ShellIInv, IInv, MailboxTypeOK
<1>2. ASSUME NEW c, c \in Chars, Returns(c), task # "received"
      PROVE  Consumed' = Consumed
  <2>1. Consumed = taken
    BY <1>2 DEF Consumed
  <2>2. Consumed' = Front(Append(taken, c))
    BY <1>2 DEF Consumed, Returns
  <2>3. Front(Append(taken, c)) = taken
    <3>1. /\ Append(taken, c) \in Seq(Chars) /\ Len(Append(taken, c)) = Len(taken) + 1
          /\ Len(taken) \in Nat /\ \A i \in 1..Len(taken) : Append(taken, c)[i] = taken[i]
      BY <1>1, <1>2, AppendProperties
    <3>2. Front(Append(taken, c)) = SubSeq(Append(taken, c), 1, Len(taken))
      BY <3>1 DEF Front
    <3>3. SubSeq(Append(taken, c), 1, Len(taken)) = taken
      BY <1>1, <3>1
    <3> QED BY <3>2, <3>3
  <2> QED BY <2>1, <2>2, <2>3
<1>3. ASSUME taken' = taken, (task' = "received") = (task = "received")
      PROVE  Consumed' = Consumed
  BY <1>3 DEF Consumed
<1>4. ASSUME Kernel
      PROVE  Consumed' = Consumed
  <2>1. Head(psq) \in Chars
    BY <1>4 DEF Kernel, PopReq, ShellIInv, IInv, MailboxTypeOK
  <2> QED BY <1>2, <1>3, <1>4, <2>1 DEF Kernel, PopReq
<1>5. ASSUME WaitForChar
      PROVE  Consumed' = Consumed
  <2>1. mbx.msg[mbx.last] \in Chars
    BY RingFacts DEF ShellIInv, IInv, MailboxTypeOK
  <2> QED BY <1>2, <1>3, <1>5, <2>1 DEF WaitForChar, Get
<1>6. ASSUME rxInterrupt \/ Return \/ UNCHANGED vars
      PROVE  Consumed' = Consumed
  BY <1>3, <1>6 DEF rxInterrupt, IsrPut, Return, mailboxVars, vars
<1>7. line' = line /\ called' = called
  BY DEF Next, rxInterrupt, Kernel, WaitForChar, Return, shellVars, vars
<1> QED BY <1>4, <1>5, <1>6, <1>7 DEF Next

LEMMA LineStep == LineInv /\ [Next]_vars => LineInv'
<1> SUFFICES ASSUME LineInv, [Next]_vars PROVE LineInv'
  OBVIOUS
<1>1. ShellIInv'
  BY StepFits DEF LineInv
<1>2. ASSUME ~ process PROVE LineInv'
  <2>1. Consumed' = Consumed /\ line' = line /\ called' = called
    BY <1>2, ConsumedStays DEF LineInv
  <2>2. line' = LineOf(Consumed') /\ called' = CallsIn(Consumed') /\ called' \in Seq(Calls)
    BY <2>1 DEF LineInv
  <2> QED BY <1>1, <2>2 DEF LineInv
<1>3. ASSUME process PROVE LineInv'
  <2> DEFINE s == Front(taken)
  <2>1. taken \in Seq(Chars) /\ taken # << >> /\ task = "received"
    BY <1>3 DEF process, Done, LineInv, ShellIInv, IInv, MailboxTypeOK
  <2>2. s \in Seq(Chars) /\ ch \in Chars /\ taken = Append(s, ch)
    <3> DEFINE n == Len(taken)
    <3>1. n \in Nat /\ n >= 1 /\ n - 1 \in Nat
      BY <2>1
    <3>2. ch \in Chars
      BY <2>1, <3>1 DEF ch
    <3>3. s = SubSeq(taken, 1, n - 1)
      BY Zenon DEF Front
    <3>4. s \in Seq(Chars) /\ Len(s) = n - 1 /\ \A i \in 1..(n - 1) : s[i] = taken[i]
      <4> DEFINE m == n - 1
      <4>1. m \in Nat /\ m \in Int /\ 1 \in Int /\ \A i \in 1..m : taken[i] \in Chars
        BY <2>1, <3>1
      <4> HIDE DEF m
      <4>2. SubSeq(taken, 1, m) \in Seq(Chars)
        BY ONLY <4>1, SubSeqProperties
      <4>3. Len(SubSeq(taken, 1, m)) = IF 1 <= m THEN m - 1 + 1 ELSE 0
        BY ONLY <4>1, SubSeqProperties
      <4>4. \A i \in 1..(m - 1 + 1) : SubSeq(taken, 1, m)[i] = taken[1 + i - 1]
        BY ONLY <4>1, SubSeqProperties
      <4>5. \A i \in 1..m : i \in 1..(m - 1 + 1) /\ 1 + i - 1 = i
        BY <4>1
      <4>6. \A i \in 1..m : SubSeq(taken, 1, m)[i] = taken[i]
        BY <4>4, <4>5
      <4>7. Len(SubSeq(taken, 1, m)) = m
        BY <4>1, <4>3
      <4>8. s = SubSeq(taken, 1, m)
        BY <3>3 DEF m
      <4> HIDE DEF s
      <4>9. s \in Seq(Chars) /\ Len(s) = m /\ \A i \in 1..m : s[i] = taken[i]
        BY <4>2, <4>6, <4>7, <4>8, Zenon
      <4> QED BY <4>9 DEF m
    <3> HIDE DEF s
    <3>5. /\ Append(s, ch) \in Seq(Chars) /\ Len(Append(s, ch)) = n
          /\ \A i \in 1..(n - 1) : Append(s, ch)[i] = taken[i]
          /\ Append(s, ch)[n] = ch
      BY <3>1, <3>2, <3>4, AppendProperties
    <3>6. ch = taken[n]
      BY DEF ch
    <3>7. \A i \in 1..n : taken[i] = Append(s, ch)[i]
      BY <3>1, <3>5, <3>6
    <3>8. taken = Append(s, ch)
      BY <2>1, <3>5, <3>7, SeqEqual
    <3> QED BY <3>2, <3>4, <3>8
  <2>3. Consumed = s /\ Consumed' = taken
    BY <1>3, <2>1 DEF Consumed, process, Done
  <2> HIDE DEF s
  <2>4. line = LineOf(s) /\ called = CallsIn(s) /\ called \in Seq(Calls)
    BY <2>3 DEF LineInv
  <2>5. LineOf(taken) = LineOf(Append(s, ch)) /\ CallsIn(taken) = CallsIn(Append(s, ch))
    BY <2>2
  <2>6. ASSUME Edit
        PROVE  line' = LineOf(taken) /\ called' = CallsIn(taken) /\ called' \in Seq(Calls)
    <3>1. ~ Ends(ch) /\ line' = Edited(line, ch) /\ called' = called
      BY <2>6 DEF Edit
    <3>2. LineOf(Append(s, ch)) = Edited(LineOf(s), ch) /\ CallsIn(Append(s, ch)) = CallsIn(s)
      BY <2>2, <3>1, KeyIsEdited
    <3> QED BY <2>4, <2>5, <3>1, <3>2
  <2>7. ASSUME Execute
        PROVE  line' = LineOf(taken) /\ called' = CallsIn(taken) /\ called' \in Seq(Calls)
    <3>1. Ends(ch) /\ line' = << >> /\ CallFound
      BY <2>7 DEF Execute
    <3>2. /\ LineOf(Append(s, ch)) = << >>
          /\ CallsIn(Append(s, ch)) = CallsIn(s) \o CallsOf(Ended(LineOf(s), ch))
      BY <2>2, <3>1, EndIsCalled
    <3> DEFINE str == Ended(line, ch)
    <3>3. str \in Seq(Chars)
      BY <2>4, <2>2, RestIs DEF Ended
    <3>4. Found = FoundIn(_strtok(str)) /\ Entered = _strtok(str)
      BY Zenon DEF Found, FoundIn, Entered
    <3> HIDE DEF str
    <3>5. CASE FoundIn(_strtok(str)) = {} /\ CallsOf(str) = << >>
      <4>1. called' = called
        BY <3>1, <3>4, <3>5 DEF CallFound
      <4>2. called = called \o CallsOf(str)
        BY <2>4, <3>5
      <4>3. called \o CallsOf(str) = CallsIn(s) \o CallsOf(Ended(LineOf(s), ch))
        BY <2>4 DEF str
      <4> QED BY <2>4, <2>5, <3>1, <3>2, <4>1, <4>2, <4>3, Zenon
    <3>6. ASSUME NEW k \in DOMAIN Commands, FoundIn(_strtok(str)) = {k},
                 [command |-> k, args |-> Tail(_strtok(str))] \in Calls,
                 CallsOf(str) = <<[command |-> k, args |-> Tail(_strtok(str))]>>
          PROVE  line' = LineOf(taken) /\ called' = CallsIn(taken) /\ called' \in Seq(Calls)
      <4> DEFINE r == [command |-> k, args |-> Tail(Entered)]
      <4>1. r \in Calls /\ CallsOf(str) = <<r>>
        BY <3>4, <3>6
      <4>2. Call(k, Tail(Entered))
        <5>1. Found = {k}
          BY <3>4, <3>6
        <5> QED BY <3>1, <5>1, Zenon DEF CallFound
      <4>3. called' = Append(called, r)
        BY <4>2, Zenon DEF Call
      <4> HIDE DEF r
      <4>4. Append(called, r) = called \o <<r>> /\ Append(called, r) \in Seq(Calls)
        BY <2>4, <4>1
      <4>5. called \o CallsOf(str) = CallsIn(s) \o CallsOf(Ended(LineOf(s), ch))
        BY <2>4 DEF str
      <4> QED BY <2>5, <3>1, <3>2, <4>1, <4>3, <4>4, <4>5
    <3> QED BY <3>3, <3>5, <3>6, CallsOfIs, Zenon
  <2>8. Edit \/ Execute
    BY <1>3 DEF process
  <2> QED BY <1>1, <2>3, <2>6, <2>7, <2>8 DEF LineInv
<1> QED BY <1>2, <1>3

(* The commands that were called are those of the lines in what the Queue
   gave, none twice, none made of two lines, whatever came while one ran. *)
THEOREM ShellRunsWhatWasTyped == Spec => []RunsWhatWasTyped
<1>1. LineInv => RunsWhatWasTyped
  BY DEF LineInv, RunsWhatWasTyped, CallsIn
<1> QED BY LineInit, LineStep, <1>1, PTL DEF Spec

=============================================================================
