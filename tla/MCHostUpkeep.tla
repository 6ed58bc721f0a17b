---------------------------- MODULE MCHostUpkeep ----------------------------
(***************************************************************************)
(* The instance of HostUpkeep for TLC: one release, one transition, and    *)
(* one fault, a process that dies or a command that fails.                 *)
(***************************************************************************)
EXTENDS HostUpkeep
=============================================================================
