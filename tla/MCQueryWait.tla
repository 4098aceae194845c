---------------------------- MODULE MCQueryWait ----------------------------
(***************************************************************************)
(* QueryWait with a peer that acknowledges, with success or an error, and  *)
(* sends the mileage that was asked for, the speed nobody asked for, and a *)
(* query of its own.                                                       *)
(***************************************************************************)
EXTENDS QueryWait

CMD_ID_SPEED == 6
CMD_ID_MILE == 7

Ack(err) == [type |-> "ack", cmd |-> CMD_ID_MILE, data |-> <<err>>]
Mile == [type |-> "set", cmd |-> CMD_ID_MILE, data |-> <<7, 8>>]
Speed == [type |-> "set", cmd |-> CMD_ID_SPEED, data |-> <<9>>]
Query == [type |-> "query", cmd |-> CMD_ID_SPEED, data |-> << >>]

AnyFrames == {Ack(0), Ack(1), Mile, Speed, Query}
=============================================================================
