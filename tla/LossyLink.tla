------------------------------ MODULE LossyLink ------------------------------
(***************************************************************************)
(* What the frame format promises to the two ends of a serial line, without*)
(* a word about bytes: messages arrive in the order they were sent, none   *)
(* arrives twice, and none is skipped unless it was damaged on the way or  *)
(* the receiver had no room for it.  FrameLink implements this.            *)
(***************************************************************************)
EXTENDS Naturals, Sequences

CONSTANT Messages

VARIABLES
    sent,       \* every message the sender sent, in order
    damaged,    \* the positions in sent of those damaged on the way
    refused,    \* the positions in sent the receiver had no room for
    delivered   \* the positions in sent of those that arrived, in order

vars == <<sent, damaged, refused, delivered>>

Init == sent = << >> /\ damaged = {} /\ refused = {} /\ delivered = << >>

Last(s) == IF s = << >> THEN 0 ELSE s[Len(s)]

(* Some messages do not survive being framed: they are damaged at once. *)
Send(m) ==
    /\ sent' = Append(sent, m)
    /\ damaged' \in {damaged, damaged \cup {Len(sent) + 1}}
    /\ UNCHANGED <<refused, delivered>>

(* A damaged message may have been damaged long before its place is passed. *)
Damage(i) ==
    /\ i > Last(delivered)
    /\ damaged' = damaged \cup {i}
    /\ UNCHANGED <<sent, refused, delivered>>

(* Everything between two arrivals was damaged or refused. *)
Skipped(i) == (Last(delivered) + 1)..(i - 1) \subseteq damaged \cup refused

Refuse(i) ==
    /\ i > Last(delivered)
    /\ Skipped(i)
    /\ refused' = refused \cup {i}
    /\ UNCHANGED <<sent, damaged, delivered>>

Deliver(i) ==
    /\ i > Last(delivered)
    /\ Skipped(i)
    /\ i \notin damaged
    /\ delivered' = Append(delivered, i)
    /\ UNCHANGED <<sent, damaged, refused>>

Next ==
    \/ \E m \in Messages : Send(m)
    \/ \E i \in DOMAIN sent : Damage(i) \/ Refuse(i) \/ Deliver(i)

Spec == Init /\ [][Next]_vars
=============================================================================
