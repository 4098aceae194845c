------------------------- MODULE EventPipelineProofs -------------------------
(***************************************************************************)
(* Proofs about EventPipeline for every number of events, every list at    *)
(* least as large, and every set of frame types without the free mark.     *)
(***************************************************************************)
EXTENDS EventPipeline, SequenceTheorems, FiniteSetTheorems, TLAPS

IInv == TypeOK /\ PoolMatchesList

Injective(s) == \A i, j \in DOMAIN s : s[i] = s[j] => i = j

-----------------------------------------------------------------------------
(* Lemmas *)

(* The size of an index set. *)
LEMMA IndexCardinality ==
  ASSUME NEW n \in Nat
  PROVE  IsFiniteSet(1..n) /\ Cardinality(1..n) = n
<1>1. 1 \in Int /\ n \in Int
  OBVIOUS
<1>2. /\ IsFiniteSet(1..n)
      /\ Cardinality(1..n) = IF 1 > n THEN 0 ELSE n - 1 + 1
  BY ONLY <1>1, FS_Interval
<1> QED BY <1>2

(* Events listed once each are at most EventNum, and exactly EventNum when no
   event is missing. *)
LEMMA ListedOnce ==
  ASSUME NEW s \in Seq(Events), Injective(s)
  PROVE  /\ Len(s) <= EventNum
         /\ (\A e \in Events : \E i \in DOMAIN s : s[i] = e) <=> Len(s) = EventNum
<1>1. /\ Len(s) \in Nat
      /\ DOMAIN s = 1..Len(s)
      /\ s \in [1..Len(s) -> Events]
  BY LenProperties
<1>2. s \in Injection(1..Len(s), Events)
  BY <1>1 DEF Injective, Injection, IsInjective
<1>3. /\ IsFiniteSet(Events)
      /\ Cardinality(Events) = EventNum
  BY SizeAssumption, IndexCardinality DEF Events
<1>4. Cardinality(1..Len(s)) = Len(s)
  BY <1>1, IndexCardinality
<1>5. /\ Len(s) <= EventNum
      /\ Len(s) = EventNum <=> s \in Surjection(1..Len(s), Events)
  BY <1>2, <1>3, <1>4, FS_Injection
<1> QED BY <1>1, <1>5 DEF Surjection

(* What the type invariant says of the list, in the form the steps use. *)
LEMMA StackFacts ==
  ASSUME IInv
  PROVE  /\ Len(eventStack) \in Nat
         /\ DOMAIN eventStack = 1..Len(eventStack)
         /\ \A i \in 1..Len(eventStack) : eventStack[i] \in Events
         /\ eventStack = << >> <=> Len(eventStack) = 0
         /\ \A i, j \in 1..Len(eventStack) : eventStack[i] = eventStack[j] => i = j
         /\ Len(eventStack) <= EventNum
<1>1. eventStack \in Seq(Events) /\ Injective(eventStack)
  BY DEF IInv, TypeOK, PoolMatchesList, Injective
<1>2. /\ Len(eventStack) \in Nat
      /\ DOMAIN eventStack = 1..Len(eventStack)
      /\ \A i \in 1..Len(eventStack) : eventStack[i] \in Events
  BY <1>1, LenProperties, ElementOfSeq
<1>3. eventStack = << >> <=> Len(eventStack) = 0
  BY <1>1, EmptySeq
<1> QED BY <1>1, <1>2, <1>3, ListedOnce DEF Injective

-----------------------------------------------------------------------------
(* The inductive invariant *)

(* Every event is free and none is listed. *)
LEMMA InitIInv == Init => IInv
<1> SUFFICES ASSUME Init PROVE IInv
  OBVIOUS
<1>1. TypeOK
  BY BodiesAssumption, EmptySeq DEF Init, TypeOK
<1>2. DOMAIN eventStack = {}
  BY <1>1, EmptySeq, LenProperties DEF Init
<1>3. PoolMatchesList
  BY <1>2 DEF Init, PoolMatchesList
<1> QED BY <1>1, <1>3 DEF IInv

(* An event that is taken was not listed, so the list has room for it. *)
LEMMA PushFacts ==
  ASSUME IInv, NEW m \in Messages, protocalPushEvent(m)
  PROVE  \E e \in Events :
           /\ cmdType[e] = FREE
           /\ cmdType' = [cmdType EXCEPT ![e] = m.type]
           /\ body' = [body EXCEPT ![e] = m.body]
           /\ eventStack' = Append(eventStack, e)
           /\ eventStack' \in Seq(Events)
           /\ Len(eventStack') = Len(eventStack) + 1
           /\ eventStack'[Len(eventStack) + 1] = e
           /\ \A i \in 1..Len(eventStack) :
                eventStack'[i] = eventStack[i] /\ eventStack[i] # e
           /\ Len(eventStack) < EventNum
<1>1. PICK e \in Events :
        /\ IsEmptyEvent(e)
        /\ cmdType' = [cmdType EXCEPT ![e] = m.type]
        /\ body' = [body EXCEPT ![e] = m.body]
        /\ eventStack' = IF Len(eventStack) < ListSize
                         THEN Append(eventStack, e) ELSE eventStack
  BY DEF protocalPushEvent
<1>2. cmdType[e] = FREE
  BY <1>1 DEF IsEmptyEvent
<1>3. \A i \in DOMAIN eventStack : eventStack[i] # e
  BY <1>2 DEF IInv, PoolMatchesList
<1>4. eventStack \in Seq(Events) /\ Injective(eventStack)
  BY DEF IInv, TypeOK, PoolMatchesList, Injective
<1>5. Len(eventStack) < EventNum
  BY <1>3, <1>4, ListedOnce, StackFacts, SizeAssumption
<1>6. Len(eventStack) < ListSize
  BY <1>5, StackFacts, SizeAssumption
<1>7. eventStack' = Append(eventStack, e)
  BY <1>1, <1>6
<1>8. /\ eventStack' \in Seq(Events)
      /\ Len(eventStack') = Len(eventStack) + 1
      /\ eventStack'[Len(eventStack) + 1] = e
      /\ \A i \in 1..Len(eventStack) : eventStack'[i] = eventStack[i]
  BY <1>4, <1>7, AppendProperties
<1> QED BY <1>1, <1>2, <1>3, <1>5, <1>7, <1>8, StackFacts

(* protocalPushEvent *)
LEMMA PushIInv ==
  ASSUME IInv, NEW m \in Messages, protocalPushEvent(m)
  PROVE  IInv'
<1>0. /\ Len(eventStack) \in Nat
      /\ DOMAIN eventStack = 1..Len(eventStack)
      /\ \A i, j \in 1..Len(eventStack) : eventStack[i] = eventStack[j] => i = j
  BY StackFacts
<1>1. PICK e \in Events :
        /\ cmdType[e] = FREE
        /\ cmdType' = [cmdType EXCEPT ![e] = m.type]
        /\ body' = [body EXCEPT ![e] = m.body]
        /\ eventStack' \in Seq(Events)
        /\ Len(eventStack') = Len(eventStack) + 1
        /\ eventStack'[Len(eventStack) + 1] = e
        /\ \A i \in 1..Len(eventStack) :
             eventStack'[i] = eventStack[i] /\ eventStack[i] # e
  BY PushFacts
<1>2. m.type \in Types /\ m.body \in Bodies /\ m.type # FREE
  BY TypesAssumption DEF Messages
<1>3. TypeOK'
  BY <1>1, <1>2 DEF IInv, TypeOK, protocalPushEvent
<1>4. DOMAIN eventStack' = 1..(Len(eventStack) + 1)
  BY <1>1, LenProperties
<1>5. \A i, j \in DOMAIN eventStack' : eventStack'[i] = eventStack'[j] => i = j
  BY <1>0, <1>1, <1>4
<1>6. ASSUME NEW f \in Events
      PROVE  cmdType'[f] # FREE <=> \E i \in DOMAIN eventStack' : eventStack'[i] = f
  <2>1. CASE f = e
    <3>1. cmdType'[e] = m.type
      BY <1>1 DEF IInv, TypeOK
    <3> QED BY <1>0, <1>1, <1>2, <1>4, <2>1, <3>1
  <2>2. CASE f # e
    <3>1. cmdType'[f] = cmdType[f]
      BY <1>1, <2>2 DEF IInv, TypeOK
    <3>2. cmdType[f] # FREE <=> \E i \in 1..Len(eventStack) : eventStack[i] = f
      BY <1>0 DEF IInv, PoolMatchesList
    <3>3. (\E i \in 1..Len(eventStack) : eventStack[i] = f)
            <=> \E i \in 1..(Len(eventStack) + 1) : eventStack'[i] = f
      BY <1>0, <1>1, <2>2
    <3> QED BY <1>4, <3>1, <3>2, <3>3
  <2> QED BY <2>1, <2>2
<1> QED BY <1>3, <1>5, <1>6 DEF IInv, PoolMatchesList

(* The first event is listed once, so listRemoveData takes only it. *)
LEMMA DispatchFacts ==
  ASSUME IInv, protocalDispatchEvents
  PROVE  /\ eventStack \in Seq(Events) /\ eventStack # << >>
         /\ Len(eventStack) >= 1
         /\ Head(eventStack) = eventStack[1]
         /\ eventStack' = Tail(eventStack)
         /\ eventStack' \in Seq(Events)
         /\ Len(eventStack') = Len(eventStack) - 1
         /\ \A i \in 1..(Len(eventStack) - 1) : eventStack'[i] = eventStack[i + 1]
<1>0. /\ Len(eventStack) \in Nat
      /\ eventStack = << >> <=> Len(eventStack) = 0
      /\ \A i, j \in 1..Len(eventStack) : eventStack[i] = eventStack[j] => i = j
  BY StackFacts
<1>1. eventStack \in Seq(Events) /\ eventStack # << >>
  BY DEF IInv, TypeOK, protocalDispatchEvents
<1>2. Head(eventStack) = eventStack[1]
  BY <1>1
<1>3. ~ \E i \in 2..Len(eventStack) : eventStack[i] = Head(eventStack)
  BY <1>0, <1>1, <1>2
<1>4. eventStack' = Tail(eventStack)
  BY <1>3 DEF protocalDispatchEvents, Dequeued
<1>5. /\ Tail(eventStack) \in Seq(Events)
      /\ Len(Tail(eventStack)) = Len(eventStack) - 1
      /\ \A i \in 1..Len(Tail(eventStack)) : Tail(eventStack)[i] = eventStack[i + 1]
  BY <1>1, HeadTailProperties
<1> QED BY <1>0, <1>1, <1>2, <1>4, <1>5

(* protocalDispatchEvents *)
LEMMA DispatchIInv ==
  ASSUME IInv, protocalDispatchEvents
  PROVE  IInv'
<1> DEFINE h == eventStack[1]
<1>0. /\ Len(eventStack) \in Nat
      /\ DOMAIN eventStack = 1..Len(eventStack)
      /\ \A i \in 1..Len(eventStack) : eventStack[i] \in Events
      /\ \A i, j \in 1..Len(eventStack) : eventStack[i] = eventStack[j] => i = j
  BY StackFacts
<1>1. /\ Len(eventStack) >= 1
      /\ Head(eventStack) = h
      /\ eventStack' \in Seq(Events)
      /\ Len(eventStack') = Len(eventStack) - 1
      /\ \A i \in 1..(Len(eventStack) - 1) : eventStack'[i] = eventStack[i + 1]
  BY DispatchFacts
<1>2. h \in Events
  BY <1>0, <1>1
<1>3. cmdType' = [cmdType EXCEPT ![h] = FREE] /\ UNCHANGED <<body, refused>>
  BY <1>1 DEF protocalDispatchEvents
<1>4. TypeOK'
  BY <1>1, <1>3 DEF IInv, TypeOK
<1>5. DOMAIN eventStack' = 1..(Len(eventStack) - 1)
  BY <1>1, LenProperties
<1>6. \A i, j \in DOMAIN eventStack' : eventStack'[i] = eventStack'[j] => i = j
  BY <1>0, <1>1, <1>5
<1>7. ASSUME NEW f \in Events
      PROVE  cmdType'[f] # FREE <=> \E i \in DOMAIN eventStack' : eventStack'[i] = f
  <2>1. CASE f = h
    <3>1. cmdType'[f] = FREE
      BY <1>3, <2>1 DEF IInv, TypeOK
    <3>2. \A i \in 1..(Len(eventStack) - 1) : eventStack'[i] # h
      BY <1>0, <1>1
    <3> QED BY <1>5, <2>1, <3>1, <3>2
  <2>2. CASE f # h
    <3>1. cmdType'[f] = cmdType[f]
      BY <1>3, <2>2 DEF IInv, TypeOK
    <3>2. cmdType[f] # FREE <=> \E i \in 1..Len(eventStack) : eventStack[i] = f
      BY <1>0 DEF IInv, PoolMatchesList
    <3>3. ASSUME NEW i \in 1..Len(eventStack), eventStack[i] = f
          PROVE  \E j \in 1..(Len(eventStack) - 1) : eventStack'[j] = f
      <4>1. i # 1
        BY <2>2, <3>3
      <4>2. i - 1 \in 1..(Len(eventStack) - 1) /\ (i - 1) + 1 = i
        BY <1>0, <4>1
      <4> QED BY <1>1, <3>3, <4>2
    <3>4. ASSUME NEW j \in 1..(Len(eventStack) - 1), eventStack'[j] = f
          PROVE  \E i \in 1..Len(eventStack) : eventStack[i] = f
      <4>1. j + 1 \in 1..Len(eventStack)
        BY <1>0
      <4> QED BY <1>1, <3>4, <4>1
    <3> QED BY <1>5, <3>1, <3>2, <3>3, <3>4
  <2> QED BY <2>1, <2>2
<1> QED BY <1>4, <1>6, <1>7 DEF IInv, PoolMatchesList

(* The invariant is inductive. *)
LEMMA StepIInv == IInv /\ [Next]_vars => IInv'
<1> SUFFICES ASSUME IInv, [Next]_vars PROVE IInv'
  OBVIOUS
<1>1. ASSUME NEW m \in Messages, protocalPushEvent(m) PROVE IInv'
  BY <1>1, PushIInv
<1>2. CASE protocalPushRefused
  BY <1>2 DEF protocalPushRefused, IInv, TypeOK, PoolMatchesList
<1>3. CASE protocalDispatchEvents
  BY <1>3, DispatchIInv
<1>4. CASE UNCHANGED vars
  BY <1>4 DEF vars, IInv, TypeOK, PoolMatchesList
<1> QED BY <1>1, <1>2, <1>3, <1>4 DEF Next

(* Every reachable state satisfies the inductive invariant. *)
THEOREM Invariance == Spec => []IInv
BY InitIInv, StepIInv, PTL DEF Spec

(* Type correctness of the pool and the list. *)
THEOREM TypeCorrect == Spec => []TypeOK
<1>1. IInv => TypeOK
  BY DEF IInv
<1> QED BY <1>1, Invariance, PTL

(* An event is listed once while it is in use and not at all while it is free:
   no sequence of calls loses an event or lists one twice. *)
THEOREM PoolAndListAgree == Spec => []PoolMatchesList
<1>1. IInv => PoolMatchesList
  BY DEF IInv
<1> QED BY <1>1, Invariance, PTL

-----------------------------------------------------------------------------
(* Refinement: the calls are a bounded queue of messages *)

(* The message an event holds. *)
MessageOf(e) == [type |-> cmdType[e], body |-> body[e]]

(* A listed event holds a message, and the queue is those messages. *)
LEMMA WaitingFacts ==
  ASSUME IInv
  PROVE  /\ Waiting \in Seq(Messages)
         /\ Len(Waiting) = Len(eventStack)
         /\ \A i \in 1..Len(eventStack) : Waiting[i] = MessageOf(eventStack[i])
<1>1. Len(eventStack) \in Nat /\ DOMAIN eventStack = 1..Len(eventStack)
  BY StackFacts
<1>2. \A i \in 1..Len(eventStack) : cmdType[eventStack[i]] # FREE
                                    /\ eventStack[i] \in Events
  BY <1>1, StackFacts DEF IInv, PoolMatchesList
<1>3. \A i \in 1..Len(eventStack) : MessageOf(eventStack[i]) \in Messages
  BY <1>2 DEF IInv, TypeOK, MessageOf, Messages
<1>4. Waiting = [i \in 1..Len(eventStack) |-> MessageOf(eventStack[i])]
  BY DEF Waiting, MessageOf
<1>5. Waiting \in [1..Len(eventStack) -> Messages]
  BY <1>3, <1>4
<1>6. Waiting \in Seq(Messages)
  BY <1>1, <1>5, SeqDef
<1>7. Len(Waiting) = Len(eventStack)
  BY <1>1, <1>5, <1>6, LenProperties
<1> QED BY <1>4, <1>6, <1>7

(* The same in the next state. *)
LEMMA WaitingNextFacts ==
  ASSUME IInv'
  PROVE  /\ Waiting' \in Seq(Messages)
         /\ Len(Waiting') = Len(eventStack')
         /\ \A i \in 1..Len(eventStack') : Waiting'[i] = MessageOf(eventStack[i])'
<1>1. /\ Len(eventStack') \in Nat /\ DOMAIN eventStack' = 1..Len(eventStack')
      /\ \A i \in 1..Len(eventStack') : eventStack'[i] \in Events
  BY LenProperties, ElementOfSeq DEF IInv, TypeOK
<1>2. \A i \in 1..Len(eventStack') : cmdType'[eventStack'[i]] # FREE
  BY <1>1 DEF IInv, PoolMatchesList
<1>3. \A i \in 1..Len(eventStack') : MessageOf(eventStack[i])' \in Messages
  BY <1>1, <1>2 DEF IInv, TypeOK, MessageOf, Messages
<1>4. Waiting' = [i \in 1..Len(eventStack') |-> MessageOf(eventStack[i])']
  BY DEF Waiting, MessageOf
<1>5. Waiting' \in [1..Len(eventStack') -> Messages]
  BY <1>3, <1>4
<1>6. Waiting' \in Seq(Messages)
  BY <1>1, <1>5, SeqDef
<1>7. Len(Waiting') = Len(eventStack')
  BY <1>1, <1>5, <1>6, LenProperties
<1> QED BY <1>4, <1>6, <1>7

(* protocalPushEvent appends the message it was given. *)
LEMMA PushIsPush ==
  ASSUME IInv, NEW m \in Messages, protocalPushEvent(m)
  PROVE  Queue!Push(m)
<1> DEFINE n == Len(eventStack)
<1>0. n \in Nat /\ \A i \in 1..n : eventStack[i] \in Events
  BY StackFacts
<1>1. PICK e \in Events :
        /\ cmdType' = [cmdType EXCEPT ![e] = m.type]
        /\ body' = [body EXCEPT ![e] = m.body]
        /\ Len(eventStack') = n + 1
        /\ eventStack'[n + 1] = e
        /\ \A i \in 1..n : eventStack'[i] = eventStack[i] /\ eventStack[i] # e
        /\ n < EventNum
  BY PushFacts
<1>2. /\ Waiting \in Seq(Messages)
      /\ Len(Waiting) = n
      /\ \A i \in 1..n : Waiting[i] = MessageOf(eventStack[i])
  BY WaitingFacts
<1>3. /\ Waiting' \in Seq(Messages)
      /\ Len(Waiting') = n + 1
      /\ \A i \in 1..(n + 1) : Waiting'[i] = MessageOf(eventStack[i])'
  BY <1>1, PushIInv, WaitingNextFacts
<1>4. /\ Append(Waiting, m) \in Seq(Messages)
      /\ Len(Append(Waiting, m)) = n + 1
      /\ Append(Waiting, m)[n + 1] = m
      /\ \A i \in 1..n : Append(Waiting, m)[i] = Waiting[i]
  BY <1>2, AppendProperties
<1>5. ASSUME NEW i \in 1..n
      PROVE  Waiting'[i] = Append(Waiting, m)[i]
  <2>1. Waiting'[i] = MessageOf(eventStack[i])'
    BY <1>0, <1>3
  <2>2. MessageOf(eventStack[i])' = MessageOf(eventStack[i])
    BY <1>0, <1>1 DEF MessageOf, IInv, TypeOK
  <2> QED BY <1>2, <1>4, <2>1, <2>2
<1>6. Waiting'[n + 1] = Append(Waiting, m)[n + 1]
  <2>1. cmdType'[e] = m.type /\ body'[e] = m.body
    BY <1>1 DEF IInv, TypeOK
  <2>2. ASSUME NEW i, i = n + 1
        PROVE  MessageOf(eventStack[i])' = [type |-> m.type, body |-> m.body]
    BY <1>1, <2>1, <2>2 DEF MessageOf
  <2>3. m = [type |-> m.type, body |-> m.body]
    BY DEF Messages
  <2>4. n + 1 \in 1..(n + 1)
    BY <1>0
  <2>5. ASSUME NEW i \in 1..(n + 1), i = n + 1
        PROVE  Waiting'[i] = m
    BY <1>3, <2>2, <2>3, <2>5
  <2> QED BY <1>4, <2>4, <2>5
<1>7. \A i \in 1..(n + 1) : Waiting'[i] = Append(Waiting, m)[i]
  <2>1. \A i \in 1..(n + 1) : i \in 1..n \/ i = n + 1
    <3>1. n \in Nat
      BY <1>0
    <3> HIDE DEF n
    <3> QED BY ONLY <3>1
  <2> QED BY <1>5, <1>6, <2>1
<1>8. Waiting' = Append(Waiting, m)
  BY <1>3, <1>4, <1>7, SeqEqual
<1>9. Len(Waiting) < EventNum
  BY <1>1, <1>2
<1> QED BY <1>8, <1>9 DEF Queue!Push, protocalPushEvent

(* A push is refused only when EventNum messages wait. *)
LEMMA RefusedIsRefuse ==
  ASSUME IInv, protocalPushRefused
  PROVE  Queue!Refuse
<1>1. eventStack \in Seq(Events) /\ Injective(eventStack)
  BY DEF IInv, TypeOK, PoolMatchesList, Injective
<1>2. \A e \in Events : \E i \in DOMAIN eventStack : eventStack[i] = e
  BY DEF IInv, PoolMatchesList, protocalPushRefused
<1>3. Len(Waiting) = EventNum
  BY <1>1, <1>2, ListedOnce, WaitingFacts
<1>4. UNCHANGED Waiting
  BY DEF protocalPushRefused, Waiting
<1> QED BY <1>3, <1>4 DEF Queue!Refuse, protocalPushRefused

(* protocalDispatchEvents handles the message that waits longest. *)
LEMMA DispatchIsPop ==
  ASSUME IInv, protocalDispatchEvents
  PROVE  Queue!Pop
<1> DEFINE n == Len(eventStack)
           h == eventStack[1]
<1>0. /\ n \in Nat /\ \A i \in 1..n : eventStack[i] \in Events
      /\ \A i, j \in 1..n : eventStack[i] = eventStack[j] => i = j
  BY StackFacts
<1>1. /\ n >= 1
      /\ Head(eventStack) = h
      /\ Len(eventStack') = n - 1
      /\ \A i \in 1..(n - 1) : eventStack'[i] = eventStack[i + 1]
  BY DispatchFacts
<1>2. cmdType' = [cmdType EXCEPT ![h] = FREE] /\ body' = body
      /\ handled' = <<MessageOf(h)>> /\ refused' = refused
  BY <1>1 DEF protocalDispatchEvents, MessageOf
<1>3. /\ Waiting \in Seq(Messages)
      /\ Len(Waiting) = n
      /\ \A i \in 1..n : Waiting[i] = MessageOf(eventStack[i])
  BY WaitingFacts
<1>4. /\ Waiting' \in Seq(Messages)
      /\ Len(Waiting') = n - 1
      /\ \A i \in 1..(n - 1) : Waiting'[i] = MessageOf(eventStack[i])'
  BY <1>1, DispatchIInv, WaitingNextFacts
<1>5. Waiting # << >> /\ Head(Waiting) = MessageOf(h)
  <2>1. Waiting # << >>
    BY <1>0, <1>1, <1>3, EmptySeq
  <2>2. Head(Waiting) = Waiting[1]
    BY <1>3, <2>1
  <2>3. 1 \in 1..n
    BY <1>0, <1>1
  <2> QED BY <1>3, <2>1, <2>2, <2>3
<1>6. /\ Tail(Waiting) \in Seq(Messages)
      /\ Len(Tail(Waiting)) = n - 1
      /\ \A i \in 1..(n - 1) : Tail(Waiting)[i] = Waiting[i + 1]
  BY <1>3, <1>5, HeadTailProperties
<1>7. ASSUME NEW i \in 1..(n - 1)
      PROVE  Waiting'[i] = Tail(Waiting)[i]
  <2>1. i + 1 \in 1..n /\ i + 1 # 1 /\ 1 \in 1..n
    BY <1>0, <1>1
  <2>2. eventStack[i + 1] \in Events /\ eventStack[i + 1] # h
    BY <1>0, <2>1
  <2>3. MessageOf(eventStack[i])' = MessageOf(eventStack[i + 1])
    BY <1>1, <1>2, <2>2 DEF MessageOf, IInv, TypeOK
  <2> QED BY <1>3, <1>4, <1>6, <2>1, <2>3
<1>8. Waiting' = Tail(Waiting)
  BY <1>4, <1>6, <1>7, SeqEqual
<1> QED BY <1>2, <1>5, <1>8 DEF Queue!Pop

(* eventPool, eventStack and the two calls on them implement EventQueue: a
   message is handled once, whole and in its turn, and refused only when
   EventNum messages wait. *)
THEOREM Refinement == Spec => ImplementsEventQueue
<1>1. Init => Queue!Init
  <2> SUFFICES ASSUME Init PROVE Queue!Init
    OBVIOUS
  <2>1. Len(eventStack) = 0
    BY EmptySeq DEF Init
  <2>2. Waiting \in Seq(Messages) /\ Len(Waiting) = 0
    BY <2>1, InitIInv, WaitingFacts
  <2>3. Waiting = << >>
    BY <2>2, EmptySeq
  <2> QED BY <2>3 DEF Init, Queue!Init
<1>2. IInv /\ [Next]_vars => [Queue!Next]_(Queue!vars)
  <2> SUFFICES ASSUME IInv, [Next]_vars PROVE Queue!Next \/ UNCHANGED Queue!vars
    OBVIOUS
  <2>1. ASSUME NEW m \in Messages, protocalPushEvent(m) PROVE Queue!Next
    BY <2>1, PushIsPush DEF Queue!Next
  <2>2. CASE protocalPushRefused
    BY <2>2, RefusedIsRefuse DEF Queue!Next
  <2>3. CASE protocalDispatchEvents
    BY <2>3, DispatchIsPop DEF Queue!Next
  <2>4. CASE UNCHANGED vars
    BY <2>4 DEF vars, Queue!vars, Waiting
  <2> QED BY <2>1, <2>2, <2>3, <2>4 DEF Next
<1> QED BY <1>1, <1>2, Invariance, PTL DEF Spec, ImplementsEventQueue, Queue!Spec
=============================================================================
