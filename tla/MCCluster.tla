------------------------------ MODULE MCCluster ------------------------------
(* Instances of Cluster for TLC.                                           *)
EXTENDS Cluster, TLC

CONSTANTS b1, b2, s1, t1, t2

SharedIdentity == b1 :> s1 @@ b2 :> s1

SingleIdentity == b1 :> s1
=============================================================================
