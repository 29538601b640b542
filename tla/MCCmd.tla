------------------------------- MODULE MCCmd -------------------------------
(* An instance of Cmd.  The callbacks of one life are a number that needs   *)
(* escaping; the table has a place for one callback besides wifiCb.         *)
EXTENDS Cmd
MCValues == [l \in 0..Troubles |-> <<"v", "END", "ESC", "w">>[l + 1]]
=============================================================================
