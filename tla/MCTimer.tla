------------------------------- MODULE MCTimer -------------------------------
(* Constants of Timer for TLC. *)
EXTENDS Timer
MCDelays == {0}
MCPeriods == {2}
=============================================================================
