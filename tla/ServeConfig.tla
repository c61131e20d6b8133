---------------------------- MODULE ServeConfig ----------------------------
(***************************************************************************)
(* The gateway's configuration: the MCPGW_* environment variables, what    *)
(* config.Load and Config.Validate accept (internal/config/config.go), and *)
(* what the steps of `mcpgw serve` later require of it (cmd/mcpgw/serve.go,*)
(* internal/server/server.go, internal/identity/tls.go).                   *)
(*                                                                         *)
(* A variable is abstracted to what some check tells apart: set or not,    *)
(* inside its range or not.  `malformed' names the group of variables that *)
(* holds a value its parser rejects, if any.                               *)
(***************************************************************************)
EXTENDS Naturals

(* The largest accepted MCPGW_SHUTDOWN_TIMEOUT, here one unit.             *)
MaxShutdown == 1

Domains ==
  [malformed |-> {"none", "durations", "integers", "booleans", "key", "providers"},
   db |-> BOOLEAN, cert |-> BOOLEAN, key |-> BOOLEAN, ca |-> BOOLEAN,
   limits |-> BOOLEAN, sizes |-> BOOLEAN, shutdown |-> 0..2,
   cruvero |-> BOOLEAN, natsURL |-> BOOLEAN, natsTLS |-> {"off", "part", "full"},
   cors |-> {"off", "empty", "listed"},
   backend |-> {"memory", "dragonfly", "nats", "other"}, dragonflyURL |-> BOOLEAN,
   mode |-> {"standalone", "integrated", "other"}, token |-> BOOLEAN,
   admin |-> BOOLEAN, dev |-> BOOLEAN, prod |-> BOOLEAN, clientID |-> BOOLEAN,
   issuer |-> BOOLEAN, audience |-> BOOLEAN, sessionKey |-> BOOLEAN,
   engine |-> {"known", "other"}, device |-> {"off", "part", "full"}]

-----------------------------------------------------------------------------
(* config.Load: every parser in turn, then Validate.                       *)
loadDurations(e) == e.malformed # "durations"
loadIntegers(e) == e.malformed # "integers"
loadBooleans(e) == e.malformed # "booleans"
loadAdminSessionKey(e) == e.malformed # "key"
loadLLMProviders(e) == e.malformed # "providers"

validateTLS(e) == e.cert = e.key

(* The rate, burst, circuit and retry numbers are positive.                *)
validateResilienceFields(e) == e.limits

validateNATS(e) == /\ e.cruvero => e.natsURL
                   /\ e.natsTLS # "part"

validateCORS(e) == e.cors # "empty"

(* The pool sizes, connection lifetime and retention are positive.         *)
validateDBAndAuditFields(e) == e.sizes

validateShutdown(e) == e.shutdown > 0 /\ e.shutdown <= MaxShutdown

(* Mutation: the nats backend is accepted without the event client.        *)
validateRateLimitAlone(e) ==
  /\ e.backend \in {"memory", "dragonfly", "nats"}
  /\ e.backend = "dragonfly" => e.dragonflyURL

validateRateLimitBackend(e) ==
  /\ e.backend \in {"memory", "dragonfly", "nats"}
  /\ e.backend = "dragonfly" => e.dragonflyURL
  /\ e.backend = "nats" => e.cruvero

validateAdminMode(e) == /\ e.mode \in {"standalone", "integrated"}
                        /\ e.mode = "integrated" => e.token

validateAdmin(e) ==
  e.mode # "integrated" =>
    /\ e.dev => e.admin /\ ~e.prod
    /\ e.admin /\ ~e.dev => e.clientID /\ e.issuer /\ e.sessionKey

validateSearchEngine(e) == e.engine = "known"

validateDeviceFlow(e) == e.device # "part"

Validate(e) ==
  /\ e.db
  /\ validateTLS(e)
  /\ validateResilienceFields(e)
  /\ validateNATS(e)
  /\ validateCORS(e)
  /\ validateDBAndAuditFields(e)
  /\ validateShutdown(e)
  /\ validateRateLimitBackend(e)
  /\ validateAdminMode(e)
  /\ validateAdmin(e)
  /\ validateSearchEngine(e)
  /\ validateDeviceFlow(e)

Load(e) ==
  /\ loadDurations(e)
  /\ loadIntegers(e)
  /\ loadBooleans(e)
  /\ loadAdminSessionKey(e)
  /\ loadLLMProviders(e)
  /\ Validate(e)

-----------------------------------------------------------------------------
(* What the later steps require.                                           *)

(* initNATS dials only with Cruvero on and a URL given.                    *)
DialsNATS(e) == e.cruvero /\ e.natsURL

(* redis.ParseURL rejects an empty URL.                                    *)
NewDragonflyBackend(e) == e.dragonflyURL

(* identity: a client needs a CA, and its certificate and key only in a    *)
(* pair; a server needs all three.  The files themselves are taken to load.*)
BuildClientTLSConfig(e) == e.ca /\ (e.cert = e.key)
BuildServerTLSConfig(e) == e.cert /\ e.key /\ e.ca

(* Without a CA there is no client TLS.                                    *)
buildProxyTLSConfig(e) == e.ca => BuildClientTLSConfig(e)

(* The validator is built, and the issuer contacted, when both are set.    *)
BuildsOIDCValidator(e) == e.issuer /\ e.audience

MountsAdmin(e) == e.admin \/ e.mode = "integrated"

(* Only a standalone dashboard outside dev mode has its own login.         *)
HasAdminAuth(e) == MountsAdmin(e) /\ e.mode # "integrated" /\ ~e.dev

(* Discovery needs an issuer.                                              *)
NewAdminAuth(e) == e.issuer

(* NewRouter panics over a dashboard that has no login outside dev mode.   *)
NewRouter(e) == e.mode = "integrated" \/ HasAdminAuth(e) \/ e.dev

mountAdmin(e) == (HasAdminAuth(e) => NewAdminAuth(e)) /\ NewRouter(e)

IsTLSConfigured(e) == e.cert /\ e.key

buildInboundTLSConfig(e) == IsTLSConfigured(e) => BuildServerTLSConfig(e)
=============================================================================
