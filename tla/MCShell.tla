------------------------------- MODULE MCShell -------------------------------
(***************************************************************************)
(* Shell with four commands, of which one is found by the beginning of     *)
(* another's name, every input of four keys, and longer inputs with two    *)
(* commands, too many arguments, and a line that is too long.              *)
(***************************************************************************)
EXTENDS Shell

Keys == {"a", "b", "blank", "erase", "cr", "eot"}

Table == << [name |-> <<"a", "a">>, does |-> "echo"], [name |-> <<"b", "b">>, does |-> "exit"],
            [name |-> <<"a">>, does |-> "mile"], [name |-> <<"b", "a">>, does |-> "getmile"] >>

OnWord == <<"a">>
OffWord == <<"b">>

LongInputs ==
    { <<"a", "cr", "b", "a", "cr", "a", "cr">>,
      <<"a", "a", "blank", "b", "cr", "a", "a", "cr">>,
      <<"a", "blank", "b", "blank", "blank", "a", "cr">>,
      <<"blank", "a", "b", "a", "a", "b", "erase", "erase", "cr">>,
      <<"b", "erase", "erase", "a", "blank", "cr", "a", "eot", "cr">>,
      <<"a", "cr", "b", "b", "cr", "a", "cr", "a">> }
AllInputs == [1..4 -> Keys] \cup LongInputs
=============================================================================
