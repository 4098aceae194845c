---------------------------- MODULE EventPipeline ----------------------------
(***************************************************************************)
(* protocalPushEvent and protocalDispatchEvents of protocal/protocal.c on  *)
(* eventPool and eventStack, when no call is preempted by the other: the   *)
(* order of the statements inside a call does not show.  EventThreads      *)
(* splits both calls into their statements.  The list behind eventStack is *)
(* the queue EventFifo that list.c implements.                             *)
(***************************************************************************)
EXTENDS Naturals, Sequences, SequencesExt

CONSTANTS
    EventNum,   \* PROTOCAL_MAX_EVENT_NUM
    ListSize,   \* MAX_LIST_SIZE
    Types,      \* the frame types a peer sends
    Bodies,     \* command and data of a frame
    ZeroBody    \* what memset leaves in an event

ASSUME SizeAssumption ==
    /\ EventNum \in Nat \ {0}
    /\ ListSize \in Nat
    /\ EventNum <= ListSize

(* cmdType 0 marks a free event, and no peer sends it. *)
FREE == 0
ASSUME TypesAssumption == FREE \notin Types
ASSUME BodiesAssumption == ZeroBody \in Bodies

Events == 1..EventNum
Messages == [type : Types, body : Bodies]

VARIABLES
    cmdType,    \* eventPool[i].cmdType
    body,       \* the other fields of eventPool[i]
    eventStack, \* the events in the list, oldest first
    handled,    \* history: the message given to the handlers last
    refused     \* whether protocalPushEvent found no free event

vars == <<cmdType, body, eventStack, handled, refused>>

Init ==
    /\ cmdType = [e \in Events |-> FREE]
    /\ body = [e \in Events |-> ZeroBody]
    /\ eventStack = << >>
    /\ handled = << >>
    /\ refused = FALSE

-----------------------------------------------------------------------------

(* Mutant: the search ends one event early and takes the last one anyway. *)
IsEmptyEventOrLast(e) ==
    (cmdType[e] = FREE \/ e = EventNum) /\ \A f \in 1..(e - 1) : cmdType[f] # FREE

(* protocalAllocEmptyEventMemory: the first free event. *)
IsEmptyEvent(e) == cmdType[e] = FREE /\ \A f \in 1..(e - 1) : cmdType[f] # FREE

(* listAdd's result is not looked at. *)
protocalPushEvent(m) ==
    /\ \E e \in Events :
        /\ IsEmptyEvent(e)
        /\ cmdType' = [cmdType EXCEPT ![e] = m.type]
        /\ body' = [body EXCEPT ![e] = m.body]
        /\ eventStack' = IF Len(eventStack) < ListSize
                         THEN Append(eventStack, e) ELSE eventStack
    /\ refused' = FALSE
    /\ UNCHANGED handled

protocalPushRefused ==
    /\ \A e \in Events : cmdType[e] # FREE
    /\ refused' = TRUE
    /\ UNCHANGED <<cmdType, body, eventStack, handled>>

(* listRemoveData removes every occurrence of the first event. *)
Dequeued ==
    LET e == Head(eventStack)
    IN  IF \E i \in 2..Len(eventStack) : eventStack[i] = e
        THEN Remove(eventStack, e) ELSE Tail(eventStack)

(* Mutants: the event is not released, or with a mark that is not free. *)
DispatchKeepsEvent ==
    /\ eventStack # << >>
    /\ eventStack' = Dequeued
    /\ handled' = <<[type |-> cmdType[Head(eventStack)], body |-> body[Head(eventStack)]]>>
    /\ UNCHANGED <<cmdType, body, refused>>

DispatchMarksInvalid ==
    /\ eventStack # << >>
    /\ eventStack' = Dequeued
    /\ cmdType' = [cmdType EXCEPT ![Head(eventStack)] = 255]
    /\ handled' = <<[type |-> cmdType[Head(eventStack)], body |-> body[Head(eventStack)]]>>
    /\ UNCHANGED <<body, refused>>

protocalDispatchEvents ==
    /\ eventStack # << >>
    /\ eventStack' = Dequeued
    /\ cmdType' = [cmdType EXCEPT ![Head(eventStack)] = FREE]
    /\ handled' = <<[type |-> cmdType[Head(eventStack)],
                     body |-> body[Head(eventStack)]]>>
    /\ UNCHANGED <<body, refused>>

Next ==
    \/ \E m \in Messages : protocalPushEvent(m)
    \/ protocalPushRefused
    \/ protocalDispatchEvents

Spec == Init /\ [][Next]_vars

(* The timer thread calls protocalDispatchEvents every 10 ms. *)
FairSpec == Spec /\ WF_vars(protocalDispatchEvents)

-----------------------------------------------------------------------------
(* Properties *)

TypeOK ==
    /\ cmdType \in [Events -> Types \cup {FREE}]
    /\ body \in [Events -> Bodies]
    /\ eventStack \in Seq(Events)
    /\ refused \in BOOLEAN

(* The pool and the list agree: an event is listed exactly when it is not
   free, and listed once.  cmdType is the only thing the allocator looks at,
   and the list the only thing the dispatcher looks at. *)
PoolMatchesList ==
    /\ \A i, j \in DOMAIN eventStack : eventStack[i] = eventStack[j] => i = j
    /\ \A e \in Events :
        cmdType[e] # FREE <=> \E i \in DOMAIN eventStack : eventStack[i] = e

(* Together the calls are a bounded queue of whole messages: handled in the
   order they came, once, with the type, command and data they came with, and
   refused only when EventNum messages wait (see EventQueue). *)
Waiting == [i \in 1..Len(eventStack) |->
              [type |-> cmdType[eventStack[i]], body |-> body[eventStack[i]]]]
Queue == INSTANCE EventQueue WITH queue <- Waiting
ImplementsEventQueue == Queue!Spec

(* A full pool is emptied again: the receiver does not refuse for ever. *)
FullPoolDrains == (\A e \in Events : cmdType[e] # FREE) ~>
                    \E e \in Events : cmdType[e] = FREE
=============================================================================
