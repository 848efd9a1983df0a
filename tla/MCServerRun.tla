------------------------------ MODULE MCServerRun ------------------------------
(* Instances of ServerRun for TLC. *)
EXTENDS ServerRun

CONSTANTS h1, j1, j2, b1

==============================================================================
