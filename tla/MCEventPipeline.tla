--------------------------- MODULE MCEventPipeline ---------------------------
(* EventPipeline with three events, and the list just large enough. *)
EXTENDS EventPipeline
=============================================================================
