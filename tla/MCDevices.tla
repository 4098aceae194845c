----------------------------- MODULE MCDevices -----------------------------
(***************************************************************************)
(* A vehicle that runs this code and a phone that acknowledges queries.    *)
(* The users set the speed, which no device handles, the connection and    *)
(* the reset, which both do, and query the mileage, the connection and the *)
(* greatest speed, which is never answered.                                *)
(***************************************************************************)
EXTENDS Devices

CONSTANTS vehicle, phone

CMD_ID_SPEED == 6
CMD_ID_MILE == 7
CMD_ID_MAX_SPEED == 8

Both == {vehicle, phone}
Phone == {phone}
Settings == {CMD_ID_SPEED, CMD_ID_RESET_TARGET, CMD_ID_DEVICE_CONNECTION}
Queries == {CMD_ID_MILE, CMD_ID_MAX_SPEED, CMD_ID_DEVICE_CONNECTION}
=============================================================================
