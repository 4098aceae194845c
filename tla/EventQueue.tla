----------------------------- MODULE EventQueue -----------------------------
(***************************************************************************)
(* What protocal.c promises between the thread that receives characters    *)
(* and the thread that runs the handlers: a first-in first-out queue of    *)
(* whole messages that refuses a message only when EventNum messages wait. *)
(* EventPipeline implements it; FrameReceiver relies on it.                *)
(***************************************************************************)
EXTENDS Naturals, Sequences

CONSTANTS Messages, EventNum

VARIABLES
    queue,      \* messages received and not handled, oldest first
    handled,    \* the message handled last, if any
    refused     \* whether the last message offered was refused

vars == <<queue, handled, refused>>

Init == queue = << >> /\ handled = << >> /\ refused = FALSE

Push(m) ==
    /\ Len(queue) < EventNum
    /\ queue' = Append(queue, m)
    /\ refused' = FALSE
    /\ UNCHANGED handled

Refuse ==
    /\ Len(queue) = EventNum
    /\ refused' = TRUE
    /\ UNCHANGED <<queue, handled>>

Pop ==
    /\ queue # << >>
    /\ handled' = <<Head(queue)>>
    /\ queue' = Tail(queue)
    /\ UNCHANGED refused

Next == (\E m \in Messages : Push(m)) \/ Refuse \/ Pop

Spec == Init /\ [][Next]_vars
=============================================================================
