---------------------------- MODULE MCReadTools ----------------------------
(***************************************************************************)
(* Small instances of ReadTools for TLC, with the commands of              *)
(* MCVigorSession.                                                         *)
(***************************************************************************)
EXTENDS ReadTools, MCVigorSession
=============================================================================
