----------------------------- MODULE Lifecycle -----------------------------
(***************************************************************************)
(* One `mcpgw serve' process, from start to exit: the steps of             *)
(* serveWithContext (cmd/mcpgw/serve.go), each of which may fail and unwind *)
(* the deferred closes registered so far; the HTTP server with its shutdown *)
(* watcher (internal/server/server.go, Start); the sweeper's loop           *)
(* (internal/registration/sweeper.go); the requests in the handlers; and    *)
(* the supervisor that starts the process again.                           *)
(*                                                                         *)
(* net/http is external: Shutdown makes ListenAndServe return at once and  *)
(* itself returns when the handlers have ended or its context expires.     *)
(***************************************************************************)
EXTENDS ServeConfig, Sequences

CONSTANTS
  Environments,   \* the configurations a deployment may have
  Others,         \* HTTP clients of the gateway
  MaxBoots,       \* bound: how often the process is started
  MaxFaults       \* bound: how often something outside fails

ASSUME LifecycleAssumption ==
  MaxBoots \in Nat /\ MaxFaults \in Nat

VARIABLES
  env,        \* the configuration of this deployment
  pc,         \* where serveWithContext is
  defers,     \* the resources with a registered deferred close, oldest first
  events,     \* the NATS client: none, open or closed
  signalled,  \* SIGTERM has cancelled the context
  watcher,    \* the shutdown goroutine: none, waiting, metrics, http, done
  http,       \* the HTTP server: new, listening or draining
  scrape,     \* a connection of the metrics server is busy
  late,       \* the shutdown timeout has passed
  flight,     \* clients with a request in a handler
  cut,        \* clients whose request the last exit cut off
  sweep,      \* the sweeper's loop: off, idle or busy
  why,        \* the step that made serve return an error, and the reason
  boots, faults

vars == <<env, pc, defers, events, signalled, watcher, http, scrape, late,
          flight, cut, sweep, why, boots, faults>>

(* What no boot step touches.                                              *)
outside == <<env, signalled, scrape, late, flight, cut, boots>>

NoError == [at |-> "none", reason |-> "none"]

Init ==
  /\ env \in Environments
  /\ pc = "load"
  /\ defers = <<>>
  /\ events = "none"
  /\ signalled = FALSE
  /\ watcher = "none"
  /\ http = "new"
  /\ scrape = FALSE
  /\ late = FALSE
  /\ flight = {}
  /\ cut = {}
  /\ sweep = "off"
  /\ why = NoError
  /\ boots = 1
  /\ faults = 0

-----------------------------------------------------------------------------
(* The ways a step ends.                                                   *)

Reach(next) == pc' = next /\ UNCHANGED <<why, faults>>

Fail(reason) == /\ pc' = "returning"
                /\ why' = [at |-> pc, reason |-> reason]
                /\ UNCHANGED defers

(* Something outside the process is not there: the database, the identity  *)
(* provider, Dragonfly, a file, the listen address.                        *)
Outage == /\ faults < MaxFaults
          /\ faults' = faults + 1
          /\ Fail("outage")

Refused == Fail("config") /\ UNCHANGED faults

Cancelled == Fail("signal") /\ UNCHANGED faults

Open(r) == defers' = Append(defers, r)

Holds(r) == \E i \in 1 .. Len(defers) : defers[i] = r

(* The deferred call that runs next, and its removal once it has run.      *)
LastDeferred == defers[Len(defers)]
RunLast == defers' = SubSeq(defers, 1, Len(defers) - 1)

-----------------------------------------------------------------------------
(* The steps of serveWithContext.                                          *)

LoadConfig ==
  /\ pc = "load"
  /\ IF Load(env) THEN Reach("tracing") /\ UNCHANGED defers ELSE Refused
  /\ UNCHANGED <<events, watcher, http, sweep, outside>>

InitTracing ==
  /\ pc = "tracing"
  /\ \/ Open("tracing") /\ Reach("db")
     \/ Outage
  /\ UNCHANGED <<events, watcher, http, sweep, outside>>

(* openPostgresDB pings under the signal's context.                        *)
OpenDB ==
  /\ pc = "db"
  /\ IF signalled THEN Cancelled
     ELSE \/ Open("db") /\ Reach("list")
          \/ Outage
  /\ UNCHANGED <<events, watcher, http, sweep, outside>>

ListActiveServers ==
  /\ pc = "list"
  /\ IF signalled THEN Cancelled
     ELSE \/ Reach("new") /\ UNCHANGED defers
          \/ Outage
  /\ UNCHANGED <<events, watcher, http, sweep, outside>>

(* server.New: a NATS server that cannot be reached is only logged.        *)
NewServer ==
  /\ pc = "new"
  /\ \/ /\ DialsNATS(env)
        /\ events' = "open"
        /\ Reach("limiter")
     \/ /\ DialsNATS(env) => faults < MaxFaults
        /\ pc' = "limiter"
        /\ faults' = IF DialsNATS(env) THEN faults + 1 ELSE faults
        /\ UNCHANGED <<events, why>>
  /\ UNCHANGED <<defers, watcher, http, sweep, outside>>

(* initRateLimitBackend.                                                   *)
InitRateLimitBackend ==
  /\ pc = "limiter"
  /\ CASE env.backend = "dragonfly" ->
            IF NewDragonflyBackend(env)
            THEN \/ Open("dragonfly") /\ Reach("bind")
                 \/ Outage
            ELSE Refused
       [] env.backend = "nats" ->
            IF events = "open"
            THEN \/ Reach("bind") /\ UNCHANGED defers
                 \/ Outage
            ELSE Fail(IF DialsNATS(env) THEN "outage" ELSE "config")
                   /\ UNCHANGED faults
       [] OTHER -> Reach("bind") /\ UNCHANGED defers
  /\ UNCHANGED <<events, watcher, http, sweep, outside>>

(* The classifications are synchronised, the registrations replayed and    *)
(* the registration service bound; every error is logged and passed over.  *)
BindServices ==
  /\ pc = "bind"
  /\ Reach("broadcast")
  /\ UNCHANGED <<defers, events, watcher, http, sweep, outside>>

(* selectBroadcaster and startSyncSubscribers.                             *)
SelectBroadcaster ==
  /\ pc = "broadcast"
  /\ Open("broadcaster")
  /\ Reach("sweeper")
  /\ UNCHANGED <<events, watcher, http, sweep, outside>>

StartSweeper ==
  /\ pc = "sweeper"
  /\ sweep' = "idle"
  /\ Open("sweeper")
  /\ Reach("proxy")
  /\ UNCHANGED <<events, watcher, http, outside>>

(* initProxyServer: the outbound TLS files, then the OIDC discovery, which *)
(* runs under the signal's context.                                        *)
InitProxyServer ==
  /\ pc = "proxy"
  /\ IF ~buildProxyTLSConfig(env) THEN Refused
     ELSE IF BuildsOIDCValidator(env) /\ signalled THEN Cancelled
     ELSE \/ Open("search") /\ Reach("routes")
          \/ (env.ca \/ BuildsOIDCValidator(env)) /\ Outage
  /\ UNCHANGED <<events, watcher, http, sweep, outside>>

(* The routes, the per-server ones with the TLS files read again, and the  *)
(* optional ones: the dashboard's login discovers its provider, without    *)
(* the signal's context.                                                   *)
MountRoutes ==
  /\ pc = "routes"
  /\ IF ~buildProxyTLSConfig(env) \/ (MountsAdmin(env) /\ ~mountAdmin(env))
     THEN Refused
     ELSE \/ Reach("start") /\ UNCHANGED defers
          \/ (env.ca \/ HasAdminAuth(env)) /\ Outage
  /\ UNCHANGED <<events, watcher, http, sweep, outside>>

(* Server.Start up to listenAndServe: the watcher waits for the signal.    *)
StartServer ==
  /\ pc = "start"
  /\ watcher' = "waiting"
  /\ Reach("listen")
  /\ UNCHANGED <<defers, events, http, sweep, outside>>

(* listenAndServe.  When Shutdown came first the listener never opens.     *)
(* Start's own deferred close ends the NATS connection on every return.    *)
ListenAndServe ==
  /\ pc = "listen"
  /\ IF ~buildInboundTLSConfig(env)
     THEN Refused /\ events' = "closed" /\ UNCHANGED http
     ELSE \/ /\ http' = IF http = "new" THEN "listening" ELSE http
             /\ Reach("serving")
             /\ UNCHANGED <<defers, events>>
          \/ http = "new" /\ Outage /\ events' = "closed" /\ UNCHANGED http
  /\ UNCHANGED <<watcher, sweep, outside>>

Boot == \/ LoadConfig \/ InitTracing \/ OpenDB \/ ListActiveServers
        \/ NewServer \/ InitRateLimitBackend \/ BindServices
        \/ SelectBroadcaster \/ StartSweeper \/ InitProxyServer
        \/ MountRoutes \/ StartServer \/ ListenAndServe
-----------------------------------------------------------------------------
(* The signal and the watcher.                                             *)

inside == <<env, defers, why, boots, faults>>

(* SIGTERM or SIGINT.                                                      *)
Signal ==
  /\ pc # "exited"
  /\ ~signalled
  /\ signalled' = TRUE
  /\ UNCHANGED <<inside, pc, events, watcher, http, scrape, late, flight, cut, sweep>>

(* Shutdown of the metrics server begins the timeout ...                   *)
ShutdownMetrics ==
  /\ watcher = "waiting"
  /\ signalled
  /\ watcher' = "metrics"
  /\ UNCHANGED <<inside, pc, events, signalled, http, scrape, late, flight, cut, sweep>>

(* Mutation: the HTTP server is closed instead of shut down.               *)
CloseHTTP ==
  /\ watcher = "metrics"
  /\ ~scrape \/ late
  /\ watcher' = "http"
  /\ http' = "draining"
  /\ flight' = {}
  /\ cut' = flight
  /\ UNCHANGED <<inside, pc, events, signalled, scrape, late, sweep>>

(* ... and, when it returns, Shutdown of the HTTP server runs under what   *)
(* is left of it.                                                          *)
ShutdownHTTP ==
  /\ watcher = "metrics"
  /\ ~scrape \/ late
  /\ watcher' = "http"
  /\ http' = "draining"
  /\ UNCHANGED <<inside, pc, events, signalled, scrape, late, flight, cut, sweep>>

Drained ==
  /\ watcher = "http"
  /\ flight = {} \/ late
  /\ watcher' = "done"
  /\ UNCHANGED <<inside, pc, events, signalled, http, scrape, late, flight, cut, sweep>>

(* Mutation: the shutdown context has no deadline.                         *)
NoDeadline == FALSE /\ UNCHANGED vars

(* context.WithTimeout of the watcher.                                     *)
ShutdownTimeout ==
  /\ watcher \in {"metrics", "http"}
  /\ ~late
  /\ late' = TRUE
  /\ UNCHANGED <<inside, pc, events, signalled, watcher, http, scrape, flight, cut, sweep>>

-----------------------------------------------------------------------------
(* The main goroutine after the listener.                                  *)

(* ListenAndServe returns ErrServerClosed as soon as Shutdown is called;   *)
(* Start takes the watcher's result if it is there, waits for nothing, and *)
(* closes the subscriber and the NATS client.                              *)
ServeReturns ==
  /\ pc = "serving"
  /\ http = "draining"
  /\ pc' = "returning"
  /\ why' = IF watcher = "done" /\ late
            THEN [at |-> pc, reason |-> "timeout"] ELSE why
  /\ events' = IF events = "open" THEN "closed" ELSE events
  /\ UNCHANGED <<env, defers, signalled, watcher, http, scrape, late, flight, cut,
                 sweep, boots, faults>>

(* The deferred closes, last first.                                        *)
CloseResource ==
  /\ pc = "returning"
  /\ defers # <<>>
  /\ LastDeferred # "sweeper"
  /\ RunLast
  /\ UNCHANGED <<env, pc, events, signalled, watcher, http, scrape, late, flight, cut,
                 sweep, why, boots, faults>>

StoppingSweeper == pc = "returning" /\ defers # <<>> /\ LastDeferred = "sweeper"

(* Mutation: Stop does not wait for the loop to end.                       *)
StopSweeperNow ==
  /\ StoppingSweeper
  /\ RunLast
  /\ UNCHANGED <<env, pc, events, signalled, watcher, http, scrape, late, flight, cut,
                 sweep, why, boots, faults>>

(* Sweeper.Stop waits for the loop to end.                                 *)
StopSweeper ==
  /\ StoppingSweeper
  /\ sweep = "off"
  /\ RunLast
  /\ UNCHANGED <<env, pc, events, signalled, watcher, http, scrape, late, flight, cut,
                 sweep, why, boots, faults>>

(* main returns; what still runs in the process ends with it.              *)
Exit ==
  /\ pc = "returning"
  /\ defers = <<>>
  /\ pc' = "exited"
  /\ cut' = flight
  /\ flight' = {}
  /\ http' = "draining"
  /\ UNCHANGED <<env, defers, events, signalled, watcher, scrape, late, sweep, why,
                 boots, faults>>

(* The supervisor starts the process again.                                *)
Restart ==
  /\ pc = "exited"
  /\ boots < MaxBoots
  /\ boots' = boots + 1
  /\ pc' = "load"
  /\ events' = "none"
  /\ signalled' = FALSE
  /\ watcher' = "none"
  /\ http' = "new"
  /\ scrape' = FALSE
  /\ late' = FALSE
  /\ cut' = {}
  /\ sweep' = "off"
  /\ why' = NoError
  /\ UNCHANGED <<env, defers, flight, faults>>

-----------------------------------------------------------------------------
(* The goroutines beside it.                                               *)

SweepLoop(from, to) ==
  /\ pc # "exited"
  /\ sweep = from
  /\ sweep' = to
  /\ UNCHANGED <<inside, pc, events, signalled, watcher, http, scrape, late, flight, cut>>

SweepTick == SweepLoop("idle", "busy")
SweepDone == SweepLoop("busy", "idle")
SweepEnds == (signalled \/ StoppingSweeper) /\ SweepLoop("idle", "off")

(* A request reaches a handler, or is answered.                            *)
Arrive(c) ==
  /\ http = "listening"
  /\ c \notin flight
  /\ flight' = flight \cup {c}
  /\ UNCHANGED <<inside, pc, events, signalled, watcher, http, scrape, late, cut, sweep>>

Answer(c) ==
  /\ c \in flight
  /\ flight' = flight \ {c}
  /\ UNCHANGED <<inside, pc, events, signalled, watcher, http, scrape, late, cut, sweep>>

(* Prometheus reads the metrics, at its own pace.                          *)
Scrape ==
  /\ watcher = "waiting"
  /\ scrape' = ~scrape
  /\ UNCHANGED <<inside, pc, events, signalled, watcher, http, late, flight, cut, sweep>>

Watch == ShutdownMetrics \/ ShutdownHTTP \/ Drained

Main == Boot \/ ServeReturns \/ CloseResource \/ StopSweeper \/ Exit

(* Everything but the requests.                                            *)
Process == \/ Main \/ Watch \/ ShutdownTimeout \/ Signal \/ Restart
           \/ SweepTick \/ SweepDone \/ SweepEnds \/ Scrape

Next == Process \/ \E c \in Others : Arrive(c) \/ Answer(c)

Spec == Init /\ [][Next]_vars

(* The process's own goroutines run and its timer fires.  Nothing is said  *)
(* of handlers, scrapes or signals.  The sweeper's select chooses among    *)
(* ready cases at random, hence the strong fairness.                       *)
Fairness ==
  /\ WF_vars(Main)
  /\ WF_vars(Watch)
  /\ WF_vars(ShutdownTimeout)
  /\ WF_vars(SweepDone)
  /\ SF_vars(SweepEnds)

FairSpec == Spec /\ Fairness

-----------------------------------------------------------------------------
(* What is required.                                                       *)

(* A configuration that config.Load accepts makes a later step of serve    *)
(* fail only for something outside the process; the one exception is       *)
(* listenAndServe, where a certificate and key without MCPGW_TLS_CA pass   *)
(* Validate and are refused after everything else has been started.        *)
LoadFindsMisconfiguration ==
  why.reason = "config" /\ why.at # "load" =>
    why.at = "listen" /\ IsTLSConfigured(env) /\ ~env.ca

(* The sweeper, which works on the database from its own goroutine, never  *)
(* has a sweep running once serveWithContext has closed the database,      *)
(* whichever step failed and whenever the signal came.                     *)
DatabaseOutlivesSweeps == sweep = "busy" /\ pc # "exited" => Holds("db")

(* A signal ends the process, from any step of the boot and even if a      *)
(* request or a scrape never ends: every wait of the shutdown is bounded.  *)
SignalEndsServe == signalled ~> pc = "exited"

(* To a client the process is what Uptime promises: requests enter only    *)
(* while the listener is open, leave one by one, and are cut off together  *)
(* only when the process ends, whatever step the boot or shutdown is at.   *)
U == INSTANCE Uptime WITH Callers <- Others, up <- http = "listening",
                          pending <- flight
ImplementsUptime == U!USpec

(* server.go: "shuts it down gracefully when the context is cancelled",    *)
(* under MCPGW_SHUTDOWN_TIMEOUT: a request that is in a handler when the   *)
(* signal comes is cut off only when the timeout has passed.               *)
ShutdownIsGraceful == cut # {} => late
=============================================================================
