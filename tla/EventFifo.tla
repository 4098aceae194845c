------------------------------ MODULE EventFifo ------------------------------
(***************************************************************************)
(* What list/list.h promises to its callers, and nothing about links: a    *)
(* bounded queue of uint32 values.  A value is appended unless the queue   *)
(* is full, any stored occurrence may be deleted without disturbing the    *)
(* order of the others, and the whole queue may be cleared.                *)
(* EventList implements this specification.                                *)
(***************************************************************************)
EXTENDS Naturals, Sequences, SequencesExt

CONSTANTS
    Data,       \* the values that are stored
    Capacity    \* MAX_LIST_SIZE

VARIABLE contents   \* the stored values, oldest first

Init == contents = << >>

Enqueue(d) ==
    /\ Len(contents) < Capacity
    /\ contents' = Append(contents, d)

Delete(i) == contents' = RemoveAt(contents, i)

Clear == contents' = << >>

Next ==
    \/ \E d \in Data : Enqueue(d)
    \/ \E i \in 1..Len(contents) : Delete(i)
    \/ Clear

Spec == Init /\ [][Next]_contents
=============================================================================
