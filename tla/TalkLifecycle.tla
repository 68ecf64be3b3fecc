---------------------------- MODULE TalkLifecycle ----------------------------
(***************************************************************************)
(* What app/states.py promises about a talk, without the machinery: its    *)
(* status moves along TRANSITIONS one edge at a time, an abort (or a       *)
(* claim that is given back) takes it to the start, and a room recording   *)
(* gives a talk that waits or is broken a new start.                       *)
(***************************************************************************)
EXTENDS TalkStates

VARIABLE status

Init == status = "waiting_for_files"

Advance == \E new \in TalkStatus : CanAdvance(status, new) /\ status' = new

Reset == status' = "waiting_for_files"

Revive ==
  /\ status \in {"waiting_for_files", "broken"}
  /\ status' = "detecting"

Next == Advance \/ Reset \/ Revive

Spec == Init /\ [][Next]_status
===============================================================================
