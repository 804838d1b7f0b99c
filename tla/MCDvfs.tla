------------------------------- MODULE MCDvfs -------------------------------
(* Constants of Dvfs for TLC. *)
EXTENDS Dvfs
MCVoltage == <<1, 2, 3>>
MCSameVoltage == <<1, 1, 2>>      \* as in product/rcar/scp_ramfw/config_dvfs.c
MCBootVoltages == {1, 3, 4}
MCTimers == BOOLEAN
=============================================================================
