------------------------------- MODULE MCUart -------------------------------
(* uart0 with the one process that opens it in this system, term_proc,     *)
(* which reads and writes in turn.                                         *)
EXTENDS Uart

CONSTANT term
=============================================================================
