---------------------------- MODULE MCSharedMedia ----------------------------
(* Instances of SharedMedia; the bounds are in the configurations.         *)
EXTENDS SharedMedia
=============================================================================
