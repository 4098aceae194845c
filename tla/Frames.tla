------------------------------- MODULE Frames -------------------------------
(***************************************************************************)
(* The frame format of protocal/protocal.h and protocal/protocal.c: four   *)
(* header bytes, type, length, command, data and a checksum.               *)
(***************************************************************************)
EXTENDS Naturals, Sequences, SequencesExt

headerMagic == <<203, 102, 124, 114>>

CMD_TYPE_QUERY == 1
CMD_TYPE_SET == 2
CMD_TYPE_ACK == 3
CMD_TYPE_ROUTER == 4
CMD_TYPE_MULTI == 5
CMD_TYPES == 1..5

CMD_ID_RESET_TARGET == 100
CMD_ID_DEVICE_CONNECTION == 101
CMD_ID_INTERNAL_START == 100
CMD_ID_INVALID == 255

PROTOCAL_MAX_PACKAGE_LENGTH == 32
PROTOCAL_MAX_DATA_LENGTH == PROTOCAL_MAX_PACKAGE_LENGTH - 8

Byte == 0..255

(* What a peer asks to be sent, and what the other side should get. *)
Message == [type : Byte, cmd : Byte, data : Seq(Byte)]

(* The uint8_t sum that is sent as the last byte of a frame. *)
CheckSum(bytes) ==
    LET sum[i \in 0..Len(bytes)] == IF i = 0 THEN 0 ELSE (sum[i - 1] + bytes[i]) % 256
    IN  sum[Len(bytes)]

(* The bytes protocalMakePackage leaves in package[0 .. packageSize - 1]. *)
Package(m) ==
    LET body == <<m.type, Len(m.data) + 2, m.cmd>> \o m.data
    IN  headerMagic \o body \o <<CheckSum(body)>>

(* A frame that holds the header pattern behind its own header. *)
HoldsHeader(m) ==
    LET bytes == Package(m)
    IN  \E i \in 2..(Len(bytes) - 3) : SubSeq(bytes, i, i + 3) = headerMagic
=============================================================================
