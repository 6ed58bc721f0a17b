----------------------- MODULE MCDeviceAuthorization -----------------------
(***************************************************************************)
(* The instance of DeviceAuthorization for TLC: two requests, after an     *)
(* installation from before or after none.                                 *)
(***************************************************************************)
EXTENDS DeviceAuthorization
=============================================================================
