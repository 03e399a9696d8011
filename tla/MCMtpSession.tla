---------------------------- MODULE MCMtpSession ----------------------------
(* The instances of MtpSession that TLC checks.                            *)
EXTENDS MtpSession
=============================================================================
