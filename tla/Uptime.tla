------------------------------- MODULE Uptime ------------------------------
(***************************************************************************)
(* What a client can rely on of a gateway process: it listens or it does   *)
(* not, requests enter a handler only while it listens, a handler answers  *)
(* one request at a time, and a process that ends takes along every        *)
(* request that is still in a handler.  Lifecycle implements this.         *)
(***************************************************************************)
CONSTANT Callers   \* HTTP clients

VARIABLES
  up,       \* the gateway listens
  pending   \* the callers with a request in a handler

uvars == <<up, pending>>

UInit == up = FALSE /\ pending = {}

ComeUp == ~up /\ up' = TRUE /\ UNCHANGED pending

(* The listener is closed; handlers go on.                                 *)
GoDown == up /\ up' = FALSE /\ UNCHANGED pending

(* The process ends.                                                       *)
CutOff == ~up /\ pending # {} /\ pending' = {} /\ UNCHANGED up

Enter(c) == /\ up
            /\ c \notin pending
            /\ pending' = pending \cup {c}
            /\ UNCHANGED up

Leave(c) == /\ c \in pending
            /\ pending' = pending \ {c}
            /\ UNCHANGED up

UNext == \/ ComeUp \/ GoDown \/ CutOff
         \/ \E c \in Callers : Enter(c) \/ Leave(c)

USpec == UInit /\ [][UNext]_uvars
=============================================================================
