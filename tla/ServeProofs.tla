----------------------------- MODULE ServeProofs ----------------------------
(***************************************************************************)
(* Proofs about Lifecycle, for any set of configurations, any number of    *)
(* clients and any number of restarts and faults, and about StdioProxy,    *)
(* whose gateway is the abstraction that Lifecycle implements.             *)
(*                                                                         *)
(* The inductive invariant says what has been established where            *)
(* serveWithContext is: that Load accepted the configuration (Accepted),   *)
(* that the database's close was deferred before anything that uses it,    *)
(* the sweeper's Stop in particular (Nested), and that the listener is     *)
(* open only while Start waits for it (Listening).                         *)
(***************************************************************************)
EXTENDS Lifecycle, StdioProxy, TLAPS

Loaded == {"tracing", "db", "list", "new", "limiter", "bind", "broadcast", "sweeper",
           "proxy", "routes", "start", "listen", "serving"}

Resources == {"tracing", "db", "dragonfly", "broadcaster", "sweeper", "search"}

Accepted == pc \in Loaded => Load(env)

WithDB == {"list", "new", "limiter", "bind", "broadcast", "sweeper"}

Nested ==
    /\ pc \in WithDB => \E i \in 1 .. Len(defers) : defers[i] = "db"
    /\ sweep # "off" /\ pc # "exited" =>
          \E i, j \in 1 .. Len(defers) : i < j /\ defers[i] = "db" /\ defers[j] = "sweeper"

Listening == http = "listening" => pc = "serving"

Inv ==
    /\ defers \in Seq(Resources)
    /\ Accepted
    /\ Nested
    /\ Listening
    /\ LoadFindsMisconfiguration

-----------------------------------------------------------------------------
(* Configurations.                                                         *)

\* What config.Validate accepts is enough for every later step but the
\* inbound TLS of listenAndServe.
LEMMA ValidateSuffices ==
    ASSUME NEW e, Load(e)
    PROVE  /\ e.backend = "dragonfly" => NewDragonflyBackend(e)
           /\ e.backend = "nats" => DialsNATS(e)
           /\ buildProxyTLSConfig(e)
           /\ MountsAdmin(e) => mountAdmin(e)
           /\ buildInboundTLSConfig(e) \/ (IsTLSConfigured(e) /\ ~e.ca)
<1>1. /\ e.cert = e.key
      /\ e.backend = "dragonfly" => e.dragonflyURL
      /\ e.backend = "nats" => e.cruvero
      /\ e.cruvero => e.natsURL
      /\ e.mode \in {"standalone", "integrated"}
      /\ e.mode # "integrated" /\ e.admin /\ ~e.dev => e.issuer
  BY Zenon DEF Load, Validate, validateTLS, validateRateLimitBackend, validateNATS, validateAdminMode,
         validateAdmin
<1> QED
  BY <1>1, Zenon DEF NewDragonflyBackend, DialsNATS, buildProxyTLSConfig, BuildClientTLSConfig,
              MountsAdmin, mountAdmin, HasAdminAuth, NewAdminAuth, NewRouter,
              buildInboundTLSConfig, BuildServerTLSConfig, IsTLSConfigured

-----------------------------------------------------------------------------
(* Deferred closes.                                                        *)

\* Registering a close keeps the order of those registered before.
LEMMA OpenKeepsOrder ==
    ASSUME defers \in Seq(Resources), NEW r \in Resources, defers' = Append(defers, r)
    PROVE  /\ defers' \in Seq(Resources) /\ Len(defers') = Len(defers) + 1
           /\ \A i \in 1 .. Len(defers) : defers'[i] = defers[i]
           /\ defers'[Len(defers) + 1] = r
  OBVIOUS

\* Running the last one keeps the order of the others.
LEMMA RunLastKeepsOrder ==
    ASSUME defers \in Seq(Resources), defers # <<>>, RunLast
    PROVE  /\ defers' \in Seq(Resources) /\ Len(defers') = Len(defers) - 1
           /\ \A i \in 1 .. Len(defers') : defers'[i] = defers[i]
           /\ LastDeferred = defers[Len(defers)]
<1>1. Len(defers) \in Nat /\ Len(defers) > 0
  OBVIOUS
<1>2. defers' = SubSeq(defers, 1, Len(defers) - 1)
  BY DEF RunLast
<1>3. defers' = [i \in 1 .. Len(defers) - 1 |-> defers[i]]
  BY <1>1, <1>2
<1> QED  BY <1>1, <1>3 DEF LastDeferred

-----------------------------------------------------------------------------
\* The process as it is started satisfies the invariant.
LEMMA InitInv == Init => Inv
  BY DEF Init, Inv, Accepted, Nested, Listening, LoadFindsMisconfiguration, NoError, Loaded, WithDB

\* A step that fails makes serveWithContext return, with all it has deferred.
LEMMA FailKeeps ==
    ASSUME Inv, pc # "serving", pc # "exited", Fail(why'.reason), http' = http, sweep' = sweep, env' = env,
           why'.reason = "config" => pc = "load" \/ (pc = "listen" /\ IsTLSConfigured(env) /\ ~env.ca)
    PROVE  Inv'
  BY DEF Inv, Fail, Accepted, Nested, Listening, LoadFindsMisconfiguration, Loaded, WithDB

\* A step that is reached has what its predecessors established.
LEMMA ReachKeeps ==
    ASSUME Inv, NEW next \in Loaded, Reach(next), pc # "serving", pc # "exited", http' = http, env' = env, Load(env),
           \/ UNCHANGED defers
           \/ \E r \in Resources : Open(r),
           next \in WithDB => pc \in WithDB \/ Open("db"),
           sweep' = sweep
    PROVE  Inv'
<1>1. /\ defers' \in Seq(Resources) /\ Len(defers) <= Len(defers')
      /\ \A i \in 1 .. Len(defers) : defers'[i] = defers[i]
      /\ Len(defers) \in Nat /\ Len(defers') \in Nat
  BY OpenKeepsOrder DEF Inv, Open
<1>2. next \in WithDB => \E i \in 1 .. Len(defers') : defers'[i] = "db"
  <2>1. CASE pc \in WithDB
    BY <1>1, <2>1 DEF Inv, Nested
  <2>2. CASE Open("db")
    <3>1. "db" \in Resources
      BY Zenon DEF Resources
    <3>2. defers'[Len(defers) + 1] = "db" /\ Len(defers') = Len(defers) + 1
      BY <2>2, <3>1, OpenKeepsOrder, Zenon DEF Inv, Open
    <3> QED  BY <1>1, <3>2
  <2> QED  BY <2>1, <2>2
<1>3. sweep' # "off" => \E i, j \in 1 .. Len(defers') : i < j /\ defers'[i] = "db" /\ defers'[j] = "sweeper"
  BY <1>1 DEF Inv, Nested
<1> QED
  BY <1>1, <1>2, <1>3 DEF Inv, Reach, Accepted, Nested, Listening, LoadFindsMisconfiguration, Loaded

\* A step that fails for something outside, or for the signal, or over a
\* configuration that Load has not accepted or may not judge.
LEMMA FailuresKeep ==
    ASSUME Inv, pc # "serving", pc # "exited", http' = http, sweep' = sweep, env' = env,
           \/ Outage \/ Cancelled
           \/ Refused /\ pc = "load"
           \/ Refused /\ pc = "listen" /\ IsTLSConfigured(env) /\ ~env.ca
    PROVE  Inv'
<1>1. Fail(why'.reason)
  BY DEF Outage, Cancelled, Refused, Fail
<1>2. why'.reason = "config" => pc = "load" \/ (pc = "listen" /\ IsTLSConfigured(env) /\ ~env.ca)
  BY DEF Outage, Cancelled, Refused, Fail
<1> QED  BY <1>1, <1>2, FailKeeps, Zenon

\* Each step of serveWithContext keeps the invariant.
LEMMA BootInv == Inv /\ Boot => Inv'
<1> SUFFICES ASSUME Inv, Boot PROVE Inv'
  BY Zenon
<1>0. pc \in Loaded => Load(env)
  BY Zenon DEF Inv, Accepted
<1>1. CASE LoadConfig
  <2>1. CASE Load(env)
    BY <1>1, <2>1, ReachKeeps DEF LoadConfig, outside, Loaded, WithDB
  <2>2. CASE ~Load(env)
    BY <1>1, <2>2, FailuresKeep DEF LoadConfig, outside
  <2> QED  BY <2>1, <2>2
<1>2. CASE InitTracing
  BY <1>0, <1>2, ReachKeeps, FailuresKeep DEF InitTracing, outside, Loaded, WithDB, Resources
<1>3. CASE OpenDB
  BY <1>0, <1>3, ReachKeeps, FailuresKeep DEF OpenDB, outside, Loaded, Resources
<1>4. CASE ListActiveServers
  BY <1>0, <1>4, ReachKeeps, FailuresKeep DEF ListActiveServers, outside, Loaded, WithDB
<1>5. CASE NewServer
  BY <1>0, <1>5
  DEF NewServer, Reach, outside, Inv, Accepted, Nested, Listening, LoadFindsMisconfiguration, Loaded, WithDB
<1>6. CASE InitRateLimitBackend
  <2>1. Load(env)
    BY <1>0, <1>6 DEF InitRateLimitBackend, Loaded
  <2>2. /\ env.backend = "dragonfly" => NewDragonflyBackend(env)
        /\ env.backend = "nats" => DialsNATS(env)
    BY <2>1, ValidateSuffices
  <2>3. CASE \E r \in Resources : Open(r) /\ Reach("bind")
    BY <1>6, <2>1, <2>3, ReachKeeps DEF InitRateLimitBackend, outside, Loaded, WithDB
  <2>4. CASE Reach("bind") /\ UNCHANGED defers
    BY <1>6, <2>1, <2>4, ReachKeeps DEF InitRateLimitBackend, outside, Loaded, WithDB
  <2>5. CASE Outage
    BY <1>6, <2>5, FailuresKeep DEF InitRateLimitBackend, outside
  <2>6. CASE Fail("outage")
    <3>1. Fail(why'.reason) /\ why'.reason # "config"
      BY <2>6, Zenon DEF Fail
    <3> QED  BY <1>6, <3>1, FailKeeps DEF InitRateLimitBackend, outside
  <2> QED  BY <1>6, <2>2, <2>3, <2>4, <2>5, <2>6 DEF InitRateLimitBackend, Resources
<1>7. CASE BindServices
  BY <1>0, <1>7, ReachKeeps DEF BindServices, outside, Loaded, WithDB
<1>8. CASE SelectBroadcaster
  BY <1>0, <1>8, ReachKeeps DEF SelectBroadcaster, outside, Loaded, WithDB, Resources
<1>9. CASE StartSweeper
  <2>1. "sweeper" \in Resources /\ "proxy" \in Loaded /\ pc \in Loaded /\ pc \in WithDB /\ "proxy" \notin WithDB
    BY <1>9, Zenon DEF StartSweeper, Resources, Loaded, WithDB
  <2>2. /\ defers' \in Seq(Resources) /\ Len(defers') = Len(defers) + 1 /\ Len(defers) \in Nat
        /\ \A i \in 1 .. Len(defers) : defers'[i] = defers[i]
        /\ defers'[Len(defers) + 1] = "sweeper"
    BY <1>9, <2>1, OpenKeepsOrder DEF StartSweeper, Open, Inv
  <2>3. PICK i \in 1 .. Len(defers) : defers[i] = "db"
    BY <2>1, Zenon DEF Inv, Nested
  <2>4. \E a, b \in 1 .. Len(defers') : a < b /\ defers'[a] = "db" /\ defers'[b] = "sweeper"
    <3>1. i \in 1 .. Len(defers') /\ Len(defers') \in 1 .. Len(defers') /\ i < Len(defers')
      BY <2>2
    <3> QED  BY <2>2, <2>3, <3>1
  <2>5. pc' = "proxy" /\ env' = env /\ http' = http /\ why' = why
    BY <1>9, Zenon DEF StartSweeper, Reach, outside
  <2> QED
    BY <1>0, <1>9, <2>1, <2>2, <2>4, <2>5
    DEF StartSweeper, Inv, Accepted, Nested, Listening, LoadFindsMisconfiguration
<1>10. CASE InitProxyServer
  <2>1. Load(env) /\ buildProxyTLSConfig(env)
    BY <1>0, <1>10, ValidateSuffices DEF InitProxyServer, Loaded
  <2> QED  BY <1>10, <2>1, ReachKeeps, FailuresKeep DEF InitProxyServer, outside, Loaded, WithDB, Resources
<1>11. CASE MountRoutes
  <2>1. Load(env) /\ buildProxyTLSConfig(env) /\ (MountsAdmin(env) => mountAdmin(env))
    BY <1>0, <1>11, ValidateSuffices DEF MountRoutes, Loaded
  <2> QED  BY <1>11, <2>1, ReachKeeps, FailuresKeep DEF MountRoutes, outside, Loaded, WithDB
<1>12. CASE StartServer
  BY <1>0, <1>12, ReachKeeps DEF StartServer, outside, Loaded, WithDB
<1>13. CASE ListenAndServe
  <2>1. Load(env) /\ (buildInboundTLSConfig(env) \/ (IsTLSConfigured(env) /\ ~env.ca))
    BY <1>0, <1>13, ValidateSuffices DEF ListenAndServe, Loaded
  <2>2. CASE ~buildInboundTLSConfig(env)
    BY <1>13, <2>1, <2>2, FailuresKeep DEF ListenAndServe, outside
  <2>3. CASE Reach("serving")
    BY <1>13, <2>1, <2>3
    DEF ListenAndServe, Refused, Fail, Outage, Reach, outside, Inv, Accepted, Nested, Listening,
        LoadFindsMisconfiguration, Loaded, WithDB
  <2>4. CASE Outage /\ UNCHANGED http
    <3>1. pc = "listen" /\ UNCHANGED <<http, sweep, env>>
      BY <1>13, <2>4 DEF ListenAndServe, outside
    <3> QED  BY <2>4, <3>1, FailuresKeep
  <2> QED  BY <1>13, <2>2, <2>3, <2>4 DEF ListenAndServe
<1> QED
  BY <1>1, <1>2, <1>3, <1>4, <1>5, <1>6, <1>7, <1>8, <1>9, <1>10, <1>11, <1>12, <1>13, Zenon DEF Boot

\* So does every other step of the process, of its goroutines and of its
\* environment.
LEMMA StepInv == Inv /\ [Next]_vars => Inv'
<1> SUFFICES ASSUME Inv, [Next]_vars PROVE Inv'
  BY Zenon
<1> USE DEF Inv, Accepted, Nested, Listening, LoadFindsMisconfiguration
<1>1. CASE Boot
  BY <1>1, BootInv
<1>2. CASE Signal \/ ShutdownMetrics \/ ShutdownHTTP \/ Drained \/ ShutdownTimeout \/ Scrape
  BY <1>2 DEF Signal, ShutdownMetrics, ShutdownHTTP, Drained, ShutdownTimeout, Scrape, inside
<1>3. CASE ServeReturns
  BY <1>3, Zenon DEF ServeReturns, Loaded, WithDB
<1>4. CASE CloseResource \/ StopSweeper
  <2>1. /\ defers' \in Seq(Resources) /\ Len(defers') = Len(defers) - 1
        /\ \A i \in 1 .. Len(defers') : defers'[i] = defers[i]
        /\ LastDeferred = defers[Len(defers)] /\ Len(defers) \in Nat
    BY <1>4, RunLastKeepsOrder DEF CloseResource, StopSweeper, StoppingSweeper
  <2>2. pc = "returning" /\ pc' = pc /\ env' = env /\ http' = http /\ why' = why /\ sweep' = sweep
    BY <1>4, Zenon DEF CloseResource, StopSweeper, StoppingSweeper
  <2>3. ASSUME sweep # "off"
        PROVE  \E i, j \in 1 .. Len(defers') : i < j /\ defers'[i] = "db" /\ defers'[j] = "sweeper"
    <3>1. LastDeferred # "sweeper"
      BY <1>4, <2>3, Zenon DEF CloseResource, StopSweeper
    <3>2. PICK i, j \in 1 .. Len(defers) : i < j /\ defers[i] = "db" /\ defers[j] = "sweeper"
      BY <2>2, <2>3, Zenon
    <3>3. i \in 1 .. Len(defers') /\ j \in 1 .. Len(defers')
      BY <2>1, <3>1, <3>2
    <3> QED  BY <2>1, <3>2, <3>3, Zenon
  <2> QED  BY <2>1, <2>2, <2>3 DEF WithDB, Loaded
<1>5. CASE Exit
  BY <1>5, Zenon DEF Exit, Loaded, WithDB
<1>6. CASE Restart
  BY <1>6, Zenon DEF Restart, NoError, Loaded, WithDB
<1>7. CASE SweepTick \/ SweepDone \/ SweepEnds
  BY <1>7, Zenon DEF SweepTick, SweepDone, SweepEnds, SweepLoop, inside
<1>8. ASSUME NEW c \in Others, Arrive(c) \/ Answer(c) PROVE Inv'
  BY <1>8, Zenon DEF Arrive, Answer, inside
<1>9. CASE UNCHANGED vars
  BY <1>9 DEF vars
<1> QED
  BY <1>1, <1>2, <1>3, <1>4, <1>5, <1>6, <1>7, <1>8, <1>9, Zenon DEF Next, Process, Main, Watch

-----------------------------------------------------------------------------
\* config.Load is where a deployment's mistakes are found: whatever the
\* configuration, no later step of serve fails over it, but for the CA that
\* listenAndServe misses.
THEOREM MistakesAreFoundAtLoad == Spec => []LoadFindsMisconfiguration
<1>1. Inv => LoadFindsMisconfiguration
  BY DEF Inv
<1> QED  BY <1>1, InitInv, StepInv, PTL DEF Spec

\* The deferred closes of serveWithContext end the sweeper's loop before they
\* close the database it works on, from whichever step they unwind.
THEOREM SweepsHaveTheirDatabase == Spec => []DatabaseOutlivesSweeps
<1>1. Inv => DatabaseOutlivesSweeps
  BY DEF Inv, Nested, DatabaseOutlivesSweeps, Holds
<1> QED  BY <1>1, InitInv, StepInv, PTL DEF Spec

\* Through boots, failures, shutdowns and restarts the process is to its
\* clients what Uptime describes, which is what StdioProxy assumes of it.
THEOREM ServeIsUptime == Spec => ImplementsUptime
<1>1. Init => U!UInit
  BY Zenon DEF Init, U!UInit
<1>2. Inv /\ [Next]_vars => [U!UNext]_(U!uvars)
  <2> SUFFICES ASSUME Inv, [Next]_vars PROVE [U!UNext]_(U!uvars)
    BY Zenon
  <2>1. CASE Boot /\ ~ListenAndServe
    <3>1. http' = http /\ flight' = flight
      BY <2>1, Zenon DEF Boot, LoadConfig, InitTracing, OpenDB, ListActiveServers, NewServer,
                  InitRateLimitBackend, BindServices, SelectBroadcaster, StartSweeper,
                  InitProxyServer, MountRoutes, StartServer, outside
    <3> QED  BY <3>1, Zenon DEF U!uvars
  <2>2. CASE ListenAndServe
    <3>1. pc = "listen" /\ flight' = flight /\ (http' = http \/ (http = "new" /\ http' = "listening"))
      BY <2>2 DEF ListenAndServe, outside
    <3> QED  BY <3>1 DEF U!UNext, U!ComeUp, U!uvars
  <2>3. CASE ShutdownHTTP
    <3>1. flight' = flight /\ http' = "draining"
      BY <2>3 DEF ShutdownHTTP
    <3> QED  BY <3>1 DEF U!UNext, U!GoDown, U!uvars
  <2>4. CASE Exit
    <3>1. http # "listening" /\ http' = "draining" /\ flight' = {}
      BY <2>4 DEF Exit, Inv, Listening
    <3> QED  BY <3>1 DEF U!UNext, U!CutOff, U!uvars
  <2>5. CASE Restart
    <3>1. http # "listening" /\ http' = "new" /\ flight' = flight
      BY <2>5 DEF Restart, Inv, Listening
    <3> QED  BY <3>1 DEF U!uvars
  <2>6. ASSUME NEW c \in Others, Arrive(c) \/ Answer(c) PROVE [U!UNext]_(U!uvars)
    <3>1. Arrive(c) => U!Enter(c)
      BY Zenon DEF Arrive, U!Enter
    <3>2. Answer(c) => U!Leave(c)
      BY Zenon DEF Answer, U!Leave
    <3> QED  BY <2>6, <3>1, <3>2, Zenon DEF U!UNext
  <2>7. CASE \/ Signal \/ ShutdownMetrics \/ Drained \/ ShutdownTimeout \/ Scrape \/ ServeReturns
             \/ CloseResource \/ StopSweeper \/ SweepTick \/ SweepDone \/ SweepEnds \/ UNCHANGED vars
    <3>1. http' = http /\ flight' = flight
      BY <2>7, Zenon DEF Signal, ShutdownMetrics, Drained, ShutdownTimeout, Scrape, ServeReturns,
                  CloseResource, StopSweeper, SweepTick, SweepDone, SweepEnds, SweepLoop, vars
    <3> QED  BY <3>1 DEF U!uvars
  <2> QED  BY <2>1, <2>2, <2>3, <2>4, <2>5, <2>6, <2>7 DEF Next, Process, Main, Watch
<1> QED  BY <1>1, <1>2, InitInv, StepInv, PTL DEF Spec, ImplementsUptime, U!USpec

-----------------------------------------------------------------------------
(* The stdio proxy.  Between two attempts for a line the gateway has run   *)
(* it at most once for every answer that was lost; it may have run it once *)
(* more only when that attempt is the last, because the line is over or    *)
(* the answer that ends it has been written.                               *)

Places == {"idle", "load", "call", "wait", "sleep", "save", "write", "rename", "reload", "done"}
Ops == {"refresh", "code", "poll", "mcp"}
Statuses == {"none", "200", "401", "429", "error", "code", "granted", "pending"}

ClientTypes ==
    /\ at \in [Clients -> Places] /\ op \in [Clients -> Ops]
    /\ reply \in [Clients -> Statuses]
    /\ ran \in [Clients -> Nat] /\ lost \in [Clients -> Nat]

Final(c) ==
    \/ at[c] \in {"idle", "done"}
    \/ at[c] = "wait" /\ op[c] = "mcp" /\ reply[c] \in {"200", "error"}

Repeats(c) ==
    /\ c \in pending => at[c] = "wait"
    /\ ran[c] <= lost[c] + 1
    /\ ran[c] <= lost[c] \/ Final(c)

ClientInv == ClientTypes /\ \A c \in Clients : Repeats(c)

LEMMA ClientInit == PInit => ClientInv
<1> SUFFICES ASSUME PInit PROVE ClientInv
  BY Zenon
<1>1. ClientTypes
  BY Zenon DEF PInit, IdleClients, ClientTypes, Places, Ops, Statuses
<1>2. ASSUME NEW c \in Clients PROVE Repeats(c)
  BY DEF PInit, UInit, IdleClients, Repeats, Final
<1> QED
  BY <1>1, <1>2 DEF ClientInv

(* A step of one process leaves the others alone.                          *)
Apart(c) ==
    \A d \in Clients \ {c} :
        /\ d \in pending' => d \in pending
        /\ at'[d] = at[d] /\ op'[d] = op[d] /\ reply'[d] = reply[d]
        /\ ran'[d] = ran[d] /\ lost'[d] = lost[d]

LEMMA OthersRepeat ==
    ASSUME NEW c \in Clients, ClientInv, Apart(c), ClientTypes', Repeats(c)'
    PROVE  ClientInv'
<1> SUFFICES ASSUME NEW d \in Clients \ {c} PROVE Repeats(d)'
  BY Zenon DEF ClientInv
<1> QED
  BY DEF ClientInv, Apart, Repeats, Final

(* The steps that count nothing, from a place where the line is not over.  *)
LEMMA MovesKeep ==
    ASSUME NEW c \in Clients, ClientInv,
           at[c] \notin {"idle", "done", "wait"},
           at' \in [Clients -> Places], op' \in [Clients -> Ops],
           \A d \in Clients \ {c} : at'[d] = at[d] /\ op'[d] = op[d],
           ran' = ran, lost' = lost, reply' = reply, pending' = pending
    PROVE  ClientInv'
<1>1. ClientTypes' /\ Apart(c)
  BY Zenon DEF ClientInv, ClientTypes, Apart
<1>2. Repeats(c)'
  BY Zenon DEF ClientInv, ClientTypes, Repeats, Final
<1> QED
  BY <1>1, <1>2, OthersRepeat, Zenon

LEMMA ProceedsKeep ==
    ASSUME NEW c \in Clients, ClientInv,
           \/ LoadTokens(c) \/ ReloadTokens(c) \/ OpenTemp(c) \/ WriteTemp(c)
           \/ RenameTemp(c) \/ ConnectFails(c) \/ PollAgain(c)
    PROVE  ClientInv'
<1>1. at[c] \notin {"idle", "done", "wait"}
  BY Zenon DEF LoadTokens, ReloadTokens, OpenTemp, WriteTemp, RenameTemp, ConnectFails, PollAgain
<1>2. /\ ran' = ran /\ lost' = lost /\ reply' = reply /\ pending' = pending
  BY Zenon DEF LoadTokens, ReloadTokens, OpenTemp, WriteTemp, RenameTemp, ConnectFails, PollAgain,
         work, uvars
<1>3. /\ at' \in [Clients -> Places] /\ op' \in [Clients -> Ops]
      /\ \A d \in Clients \ {c} : at'[d] = at[d] /\ op'[d] = op[d]
  <2> at \in [Clients -> Places] /\ op \in [Clients -> Ops]
    BY Zenon DEF ClientInv, ClientTypes
  <2> USE DEF Call, Go, SendOrGiveUp, LoginFailed, SaveFailed, CallFailed, Places, Ops
  <2>1. CASE LoadTokens(c)
    BY <2>1, Zenon DEF LoadTokens
  <2>2. CASE ReloadTokens(c)
    BY <2>2, Zenon DEF ReloadTokens
  <2>3. CASE OpenTemp(c)
    BY <2>3, Zenon DEF OpenTemp
  <2>4. CASE WriteTemp(c)
    BY <2>4 DEF WriteTemp
  <2>5. CASE RenameTemp(c)
    BY <2>5 DEF RenameTemp
  <2>6. CASE ConnectFails(c)
    <3>1. CallFailed(c, Attempts(c))
      BY <2>6, Zenon DEF ConnectFails
    <3>2. CASE op[c] \in {"refresh", "code", "poll"}
      BY <3>1, <3>2
    <3>3. CASE op[c] \notin {"refresh", "code", "poll"}
      BY <3>1, <3>3
    <3> QED  BY <3>2, <3>3, Zenon
  <2>7. CASE PollAgain(c)
    BY <2>7 DEF PollAgain
  <2> QED
    BY <2>1, <2>2, <2>3, <2>4, <2>5, <2>6, <2>7
<1> QED
  BY <1>1, <1>2, <1>3, MovesKeep

(* A new line starts from nothing; a call that goes out has no answer yet. *)
LEMMA StartsKeep ==
    ASSUME NEW c \in Clients, ClientInv, ReadLine(c) \/ Connect(c)
    PROVE  ClientInv'
<1>1. ClientTypes' /\ Apart(c)
  BY DEF ClientInv, ClientTypes, Apart, ReadLine, Connect, Enter, Go, uvars, Places, Statuses
<1>2. Repeats(c)'
  <2>1. CASE ReadLine(c)
    BY <2>1 DEF ClientInv, ClientTypes, Repeats, Final, ReadLine, Go, uvars
  <2>2. CASE Connect(c)
    BY <2>2, Zenon DEF ClientInv, ClientTypes, Repeats, Final, Connect, Go
  <2> QED
    BY <2>1, <2>2, Zenon
<1> QED
  BY <1>1, <1>2, OthersRepeat

(* The handler runs the line at most once, and then writes an answer that  *)
(* ends it.                                                                *)
LEMMA HandlerKeeps ==
    ASSUME NEW c \in Clients, ClientInv, Handle(c)
    PROVE  ClientInv'
<1>1. at[c] = "wait" /\ reply[c] = "none" /\ ran[c] <= lost[c]
  BY Zenon DEF ClientInv, ClientTypes, Repeats, Final, Handle
<1>2. /\ at' = at /\ op' = op /\ lost' = lost /\ pending' = pending
      /\ ran' \in [Clients -> Nat] /\ reply' \in [Clients -> Statuses]
      /\ \A d \in Clients \ {c} : ran'[d] = ran[d] /\ reply'[d] = reply[d]
      /\ \/ ran'[c] = ran[c]
         \/ ran'[c] = ran[c] + 1 /\ op[c] = "mcp" /\ reply'[c] \in {"200", "error"}
  <2> ClientTypes
    BY Zenon DEF ClientInv
  <2>1. /\ at' = at /\ op' = op /\ lost' = lost /\ pending' = pending
    BY Zenon DEF Handle, uvars
  <2> USE DEF ClientTypes, Write, Statuses
  <2>2. CASE HandleMCP(c)
    BY <2>1, <2>2 DEF HandleMCP
  <2>3. CASE handleDeviceCode(c)
    BY <2>1, <2>3, Zenon DEF handleDeviceCode
  <2>4. CASE handleDeviceToken(c)
    BY <2>1, <2>4, Zenon DEF handleDeviceToken, Grant
  <2> QED
    BY <2>2, <2>3, <2>4 DEF Handle
<1>3. ClientTypes' /\ Apart(c)
  BY <1>2, Zenon DEF ClientInv, ClientTypes, Apart
<1>4. Repeats(c)'
  BY <1>1, <1>2 DEF ClientInv, ClientTypes, Repeats, Final
<1> QED
  BY <1>3, <1>4, OthersRepeat

(* An answer that came leads to another attempt only if it says that       *)
(* nothing was run; one that was lost is counted.                          *)
LEMMA AnswersKeep ==
    ASSUME NEW c \in Clients, ClientInv, Answered(c) \/ Broken(c)
    PROVE  ClientInv'
<1> ClientTypes /\ Repeats(c) /\ at[c] = "wait"
  BY Zenon DEF ClientInv, Answered, Broken
<1>1. /\ at' \in [Clients -> Places] /\ op' \in [Clients -> Ops]
      /\ \A d \in Clients \ {c} : at'[d] = at[d] /\ op'[d] = op[d]
  <2> USE DEF ClientTypes, Call, Go, SendOrGiveUp, LoginFailed, Places, Ops
  <2>1. CASE Answered(c)
    BY <2>1 DEF Answered, handleMCPResponse, RefreshAnswered, requestDeviceCode, pollTokenOnce
  <2>2. CASE Broken(c)
    BY <2>2 DEF Broken, CallFailed
  <2> QED
    BY <2>1, <2>2
<1>2. /\ ran' = ran /\ reply' = reply
      /\ lost' \in [Clients -> Nat]
      /\ \A d \in Clients \ {c} : lost'[d] = lost[d]
      /\ c \notin pending' /\ pending' \subseteq pending
  <2>1. CASE Answered(c)
    BY <2>1 DEF Answered, Leave, work, ClientTypes
  <2>2. CASE Broken(c)
    BY <2>2 DEF Broken, Leave, uvars, ClientTypes
  <2> QED
    BY <2>1, <2>2, Zenon
<1>3. \/ lost'[c] = lost[c] /\ ran[c] <= lost[c]
      \/ lost'[c] = lost[c] + 1
      \/ lost'[c] = lost[c] /\ at'[c] \in {"idle", "done"}
  <2>1. CASE Answered(c) /\ op[c] = "mcp"
    BY <2>1, Zenon DEF Answered, handleMCPResponse, Go, work, ClientTypes, Repeats, Final
  <2>2. CASE Answered(c) /\ op[c] # "mcp"
    BY <2>2, Zenon DEF Answered, work, ClientTypes, Repeats, Final
  <2>3. CASE Broken(c)
    BY <2>3, Zenon DEF Broken, ClientTypes, Repeats, Final
  <2> QED
    BY <2>1, <2>2, <2>3, Zenon
<1>4. ClientTypes' /\ Apart(c)
  BY <1>1, <1>2, Zenon DEF ClientTypes, Apart
<1>5. Repeats(c)'
  BY <1>2, <1>3 DEF ClientTypes, Repeats, Final
<1> QED
  BY <1>4, <1>5, OthersRepeat, Zenon

LEMMA ClientNext == ClientInv /\ [PNext]_pvars => ClientInv'
<1> SUFFICES ASSUME ClientInv, [PNext]_pvars PROVE ClientInv'
  BY Zenon
<1>1. ASSUME UNCHANGED <<at, op, reply, ran, lost>>, pending' \subseteq pending
      PROVE  ClientInv'
  BY <1>1, Zenon DEF ClientInv, ClientTypes, Repeats, Final
<1>2. CASE Gateway
  BY <1>1, <1>2, Zenon DEF Gateway, ComeUp, GoDown, CutOff, cvars
<1>3. CASE Logout \/ TokensAge
  BY <1>1, <1>3 DEF Logout, TokensAge, uvars, work
<1>4. CASE UNCHANGED pvars
  BY <1>1, <1>4 DEF pvars, uvars, cvars
<1>5. ASSUME NEW c \in Clients,
             ReadLine(c) \/ Proceeds(c) \/ Handle(c) \/ Broken(c) \/ CodeExpires(c)
      PROVE  ClientInv'
  <2>1. CASE CodeExpires(c)
    BY <1>1, <2>1 DEF CodeExpires, uvars, work
  <2> QED
    BY <1>5, <2>1, StartsKeep, ProceedsKeep, HandlerKeeps, AnswersKeep DEF Proceeds
<1> QED
  BY <1>2, <1>3, <1>4, <1>5, Zenon DEF PNext

\* The gateway executes a line of the stdio proxy again only after an attempt
\* whose answer was lost: sendMCPRequest never repeats what was answered, for
\* any number of processes, whatever gateway, disk and provider do.
THEOREM OnlyLostAnswersAreRepeated == PSpec => []RepeatsFollowLostAnswers
<1>1. ClientInv => RepeatsFollowLostAnswers
  BY DEF ClientInv, ClientTypes, Repeats, RepeatsFollowLostAnswers
<1> QED
  BY ClientInit, ClientNext, <1>1, PTL DEF PSpec
=============================================================================
