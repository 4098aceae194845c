----------------------------- MODULE MCFrameLink -----------------------------
(***************************************************************************)
(* FrameLink with a few messages: a query without data, a setting with a   *)
(* zero byte, one whose data repeats the frame header, an acknowledgement, *)
(* and settings with as much data as protocalApiSetStr sends.              *)
(***************************************************************************)
EXTENDS FrameLink

Query == [type |-> CMD_TYPE_QUERY, cmd |-> 3, data |-> << >>]
SetSpeed == [type |-> CMD_TYPE_SET, cmd |-> 2, data |-> <<7, 0>>]
SetHeader == [type |-> CMD_TYPE_SET, cmd |-> 1, data |-> headerMagic]
Ack == [type |-> CMD_TYPE_ACK, cmd |-> 2, data |-> <<1>>]
SetLong == [type |-> CMD_TYPE_SET, cmd |-> 103,
            data |-> [i \in 1..PROTOCAL_MAX_DATA_LENGTH |-> i]]

(* A frame in a frame, and one that claims more data than the buffer holds *)
SetFrame == [type |-> CMD_TYPE_SET, cmd |-> 103,
             data |-> [i \in 1..PROTOCAL_MAX_DATA_LENGTH |->
                        IF i <= 4 THEN headerMagic[i] ELSE IF i = 6 THEN 203 ELSE i]]

ShortMessages == {Query, SetSpeed, SetHeader, Ack}
ShortStreams == [1..3 -> ShortMessages]
LongStreams == {<<SetLong, Query, SetLong>>, <<Query, SetLong, Ack>>,
                <<SetLong, SetLong, Query>>, <<SetFrame, SetLong, Query>>}
AllStreams == ShortStreams \cup LongStreams

(* A byte of the frame header, a length and a zero *)
SomeNoise == {0, 3, 203}
=============================================================================
