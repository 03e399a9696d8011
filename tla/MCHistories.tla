----------------------------- MODULE MCHistories -----------------------------
(* Model values for Histories. *)
EXTENDS Histories

CONSTANTS h1, b1
=============================================================================
