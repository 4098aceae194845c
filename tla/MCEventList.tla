----------------------------- MODULE MCEventList -----------------------------
(* EventList on a pool of four links and two stored values. *)
EXTENDS EventList
=============================================================================
