------------------------------ MODULE MCDcKeys ------------------------------
(* The instance of DcKeys that TLC checks: a session of the data center    *)
(* and one of its media cluster.                                           *)
EXTENDS DcKeys

CONSTANTS a, m

OneAndMedia == [s \in {a, m} |-> IF s = m THEN "MediaCluster" ELSE "Regular"]
=============================================================================
