----------------------------- MODULE MCSendPath -----------------------------
(***************************************************************************)
(* SendPath with a setting of two bytes and a query of the shell thread,   *)
(* an answer of one byte, three lengths of packages, and an event of one   *)
(* byte that is routed.                                                    *)
(***************************************************************************)
EXTENDS SendPath

SetMile == [type |-> CMD_TYPE_SET, cmd |-> 7, data |-> <<200, 90>>]
GetMile == [type |-> CMD_TYPE_QUERY, cmd |-> 7, data |-> << >>]
Speed == [type |-> CMD_TYPE_SET, cmd |-> 6, data |-> <<5>>]

TheSettings == {SetMile}
TheQueries == {GetMile}
TheAnswers == {Speed}
TheRouted == {[type |-> CMD_TYPE_ROUTER, cmd |-> 6, data |-> <<5>>]}
=============================================================================
