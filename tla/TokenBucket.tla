---------------------------- MODULE TokenBucket ----------------------------
(***************************************************************************)
(* What an in-process limiter promises: one bucket per gateway replica and *)
(* limiter key that is never forgotten, refilled by Rate tokens per unit   *)
(* of time up to Burst and emptied by one token per allowed request.       *)
(***************************************************************************)
EXTENDS Integers

CONSTANTS Replicas, Keys, Rate, Burst

VARIABLE level      \* level[r][k]: tokens available to the requests of k at r

AllLevels == [Replicas -> [Keys -> 0 .. Burst]]

Init == level = [r \in Replicas |-> [k \in Keys |-> Burst]]

Refilled(n) == IF n + Rate > Burst THEN Burst ELSE n + Rate

\* One unit of time passes for every bucket at once.
Refill == level' = [r \in Replicas |-> [k \in Keys |-> Refilled(level[r][k])]]

\* A request of key k is allowed at replica r.
Take(r, k) ==
    /\ level[r][k] >= 1
    /\ level' = [level EXCEPT ![r][k] = @ - 1]

Next == Refill \/ \E r \in Replicas, k \in Keys : Take(r, k)

Spec == Init /\ [][Next]_level
=============================================================================
