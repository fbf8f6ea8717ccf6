-------------------------------- MODULE MCNet --------------------------------
(* The instance of Net that TLC checks.                                    *)
EXTENDS Net
=============================================================================
