-------------------------- MODULE MCScheduleRunner --------------------------
(***************************************************************************)
(* The instance of ScheduleRunner for TLC: an agent turn and a system      *)
(* event of the first binding, a system event of the second.  For the      *)
(* change of binding one of each is enough.                                *)
(***************************************************************************)
EXTENDS ScheduleRunner

MCOwner == <<1, 1, 2>>
RebindOwner == <<1, 2>>
=============================================================================
