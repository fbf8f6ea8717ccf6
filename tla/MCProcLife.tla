----------------------------- MODULE MCProcLife -----------------------------
(* main and two rows for the processes it spawns, on a heap of ten         *)
(* granules that holds their stacks and runs out; main is the system's one *)
(* spawner once the tick runs.                                             *)
EXTENDS ProcLife
=============================================================================
