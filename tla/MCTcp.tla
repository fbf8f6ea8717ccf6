------------------------------- MODULE MCTcp -------------------------------
(* Instances of Tcp for TLC.                                               *)
EXTENDS Tcp

\* The first number wraps within its connection.
IssOne == <<SeqWrap - 1>>
IssTwo == <<SeqWrap - 1, 3>>
=============================================================================
