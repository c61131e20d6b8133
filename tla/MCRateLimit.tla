---------------------------- MODULE MCRateLimit -----------------------------
(***************************************************************************)
(* Two gateway replicas with one request slot each.                        *)
(***************************************************************************)
EXTENDS RateLimit, TLC

CONSTANTS r1, r2, q1, q2, client

MCHome == (q1 :> r1) @@ (q2 :> r2)

MCMaxTime == (Memory :> 6) @@ (Dragonfly :> 2) @@ (NATS :> 3)

\* Exchanging the replicas together with their slots leaves Home unchanged.
Swap == {(r1 :> r2) @@ (r2 :> r1) @@ (q1 :> q2) @@ (q2 :> q1)}
=============================================================================
