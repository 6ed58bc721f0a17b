---------------------------- MODULE MCWriterLock ----------------------------
(***************************************************************************)
(* The instance of WriterLock for TLC; its constants are model values and  *)
(* numbers.                                                                *)
(***************************************************************************)
EXTENDS WriterLock
=============================================================================
