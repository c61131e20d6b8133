--------------------------- MODULE MCRegistration ---------------------------
(* Instances of Registration for TLC.                                      *)
EXTENDS Registration, TLC

CONSTANTS b1, b2, s1, s2

\* Two replicas of one service behind one certificate.
SharedIdentity == b1 :> s1 @@ b2 :> s1

\* Two services.
OwnIdentity == b1 :> s1 @@ b2 :> s2

\* One backend.
SingleIdentity == b1 :> s1

\* Replicas that share an identity are interchangeable.
ReplicaSymmetry == Permutations({b1, b2})
=============================================================================
