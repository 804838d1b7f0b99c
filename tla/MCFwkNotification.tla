-------------------------- MODULE MCFwkNotification --------------------------
(* Constants of FwkNotification for TLC. *)
EXTENDS FwkNotification
MCAnyRequest == BOOLEAN
=============================================================================
