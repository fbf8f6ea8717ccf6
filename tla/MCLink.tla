------------------------------- MODULE MCLink -------------------------------
(* The instance of Link that TLC checks.                                   *)
EXTENDS Link
=============================================================================
