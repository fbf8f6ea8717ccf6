------------------------------ MODULE MCTelnet ------------------------------
(* The instance of Telnet that TLC checks; "xx" is the exit command.       *)
EXTENDS Telnet
xx == <<"x", "x">>
=============================================================================
