--------------------------- MODULE MCMtpInstance ---------------------------
(* The instances of MtpInstance that TLC checks.                           *)
EXTENDS MtpInstance

Chain == [r \in Requests |-> r - 1]
=============================================================================
