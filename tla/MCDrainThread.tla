---------------------------- MODULE MCDrainThread ----------------------------
(* Instances of DrainThread for TLC. *)
EXTENDS DrainThread, TLC

CONSTANTS c1, c2

TwoCallers == {c1, c2}
=============================================================================
