--------------------------- MODULE MCEventThreads ---------------------------
(***************************************************************************)
(* EventThreads with two messages that differ in every field.              *)
(***************************************************************************)
EXTENDS EventThreads

Query == [type |-> 1, cmd |-> 1, buff |-> 1]
Set == [type |-> 2, cmd |-> 2, buff |-> 2]
TwoMessages == {Query, Set}
OneMessage == {Query}

OutsideWindows == AllPoints \ (ListWindows \cup EventWindow)
OutsideListWindows == AllPoints \ ListWindows
OutsideEventWindow == AllPoints \ EventWindow
=============================================================================
