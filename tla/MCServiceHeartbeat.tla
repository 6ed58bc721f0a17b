------------------------ MODULE MCServiceHeartbeat -------------------------
(***************************************************************************)
(* The instance of ServiceHeartbeat for TLC; its constants are numbers.    *)
(***************************************************************************)
EXTENDS ServiceHeartbeat
=============================================================================
