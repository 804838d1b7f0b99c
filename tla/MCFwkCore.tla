----------------------------- MODULE MCFwkCore -----------------------------
(***************************************************************************)
(* Constants of FwkCore for TLC.  Entities and slots are interchangeable.  *)
(* The view forgets what no step can read again: the old contents of free  *)
(* slots, but for the cookie that a light event would inherit.             *)
(***************************************************************************)
EXTENDS FwkCore
MCNone == {}
MCNoRequest == {FALSE}
MCAnyRequest == BOOLEAN
MCSymmetry == Permutations(Entities) \cup Permutations(Slots)
MCView ==
    <<queues, [s \in Slots |->
                  IF s \notin Range(free_event_queue) THEN event[s]
                  ELSE [ZeroEvent EXCEPT !.cookie =
                           IF LightRequests = {} THEN 0 ELSE event[s].cookie]],
      current_event, event_cookie_counter, pc, put, event_register, deferred>>
=============================================================================
