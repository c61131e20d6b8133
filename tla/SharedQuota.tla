---------------------------- MODULE SharedQuota ----------------------------
(***************************************************************************)
(* What a limiter shared by the gateway replicas promises: one counter per *)
(* key, changed by one atomic step at a time.  A request is allowed only   *)
(* together with the step that counts it, a step may count a request whose *)
(* caller never learns of it, and the counter starts again from zero only  *)
(* when the store drops the key.                                           *)
(***************************************************************************)
EXTENDS Integers

CONSTANTS Keys, Burst

VARIABLES
    used,           \* used[k]: requests counted since the key was created
    granted         \* granted[k]: requests allowed by those counts

qvars == <<used, granted>>

Init ==
    /\ used = [k \in Keys |-> 0]
    /\ granted = [k \in Keys |-> 0]

\* Count one request and allow it, or count it and lose the answer.
Charge(k) ==
    /\ used[k] < Burst
    /\ used' = [used EXCEPT ![k] = @ + 1]
    /\ \/ granted' = [granted EXCEPT ![k] = @ + 1]
       \/ UNCHANGED granted

\* The store forgets the key.
Forget(k) ==
    /\ used' = [used EXCEPT ![k] = 0]
    /\ granted' = [granted EXCEPT ![k] = 0]

Next == \E k \in Keys : Charge(k) \/ Forget(k)

Spec == Init /\ [][Next]_qvars
=============================================================================
