------------------------------ MODULE MCUpdates ------------------------------
(* Model values for Updates. *)
EXTENDS Updates

CONSTANTS common, c1
=============================================================================
