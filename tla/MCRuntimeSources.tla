------------------------- MODULE MCRuntimeSources --------------------------
(***************************************************************************)
(* The instance of RuntimeSources for TLC.  The events are not symmetric   *)
(* for the liveness properties.                                            *)
(***************************************************************************)
EXTENDS RuntimeSources
=============================================================================
