----------------------------- MODULE SerialQueue -----------------------------
(***************************************************************************)
(* What a thread expects of the Queue between a receive interrupt and      *)
(* itself: the characters come out in the order they went in, once each,   *)
(* and one is lost only while as many wait as the queue was declared for.  *)
(***************************************************************************)
EXTENDS Naturals, Sequences

CONSTANTS Chars, Size

VARIABLES
    queue,      \* what has come and was not given to the thread
    taken,      \* what the thread was given, in order
    lost        \* how many characters were dropped

Init == queue = << >> /\ taken = << >> /\ lost = 0

Put(ch) ==
    /\ Len(queue) < Size
    /\ queue' = Append(queue, ch)
    /\ UNCHANGED <<taken, lost>>

Lose ==
    /\ Len(queue) = Size
    /\ lost' = lost + 1
    /\ UNCHANGED <<queue, taken>>

Take ==
    /\ queue # << >>
    /\ queue' = Tail(queue)
    /\ taken' = Append(taken, Head(queue))
    /\ UNCHANGED lost

Next == (\E ch \in Chars : Put(ch)) \/ Lose \/ Take

Spec == Init /\ [][Next]_<<queue, taken, lost>>
=============================================================================
