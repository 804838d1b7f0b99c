----------------------------- MODULE MCFwkModule -----------------------------
(* Three modules: one element and no bind function, no element, and two.    *)
EXTENDS FwkModule
MCElementCount == [k \in 1..3 |-> IF k = 1 THEN 1 ELSE IF k = 2 THEN 0 ELSE 2]
=============================================================================
