------------------------------- MODULE MCCall -------------------------------
(***************************************************************************)
(* Instances of Call for TLC.  The bounds on calls, starts, redials and    *)
(* controller events are in the .cfg files; a run ends when they are used  *)
(* up, so deadlock is not an error.                                        *)
(***************************************************************************)
EXTENDS Call
=============================================================================
