------------------------------ MODULE MCServe ------------------------------
(***************************************************************************)
(* Instances of Lifecycle and of StdioProxy for TLC.  The two share no     *)
(* variable: StdioProxy's gateway is Uptime, which Lifecycle implements.   *)
(* An initial state of MCInit starts one of them and leaves the other      *)
(* ended, so that one run explores both without their product.             *)
(***************************************************************************)
EXTENDS Lifecycle, StdioProxy

(* A deployment with everything switched on and given ...                  *)
FullEnvironment ==
  [malformed |-> "none", db |-> TRUE, cert |-> TRUE, key |-> TRUE, ca |-> TRUE,
   limits |-> TRUE, sizes |-> TRUE, shutdown |-> 1,
   cruvero |-> TRUE, natsURL |-> TRUE, natsTLS |-> "off", cors |-> "off",
   backend |-> "dragonfly", dragonflyURL |-> TRUE,
   mode |-> "standalone", token |-> TRUE,
   admin |-> TRUE, dev |-> FALSE, prod |-> FALSE, clientID |-> TRUE,
   issuer |-> TRUE, audience |-> TRUE, sessionKey |-> TRUE,
   engine |-> "known", device |-> "full"]

(* ... and all that differ from it in at most two variables.               *)
MCEnvironments ==
  UNION { { [FullEnvironment EXCEPT ![f] = v, ![g] = w] :
            v \in Domains[f], w \in Domains[g] } :
          f \in DOMAIN Domains, g \in DOMAIN Domains }

(* A process that has ended for good.                                      *)
EndedProcess ==
  /\ env = FullEnvironment
  /\ pc = "exited"
  /\ defers = <<>> /\ events = "none" /\ signalled = FALSE /\ watcher = "none"
  /\ http = "new" /\ scrape = FALSE /\ late = FALSE /\ flight = {} /\ cut = {}
  /\ sweep = "off" /\ why = NoError /\ boots = MaxBoots /\ faults = 0

(* Clients that have ended, and a gateway that does not come up.           *)
EndedClients ==
  /\ UInit
  /\ device = FALSE /\ ups = MaxUps /\ errs = 0
  /\ at = [c \in Clients |-> "done"]
  /\ IdleClients

MCInit == \/ Init /\ EndedClients
          \/ EndedProcess /\ PInit

MCNext == \/ Next /\ UNCHANGED pvars
          \/ PNext /\ UNCHANGED vars

MCSpec == MCInit /\ [][MCNext]_<<vars, pvars>>
          /\ Fairness /\ PFairness
=============================================================================
