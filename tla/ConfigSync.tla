----------------------------- MODULE ConfigSync -----------------------------
(***************************************************************************)
(* Configuration pushed by the platform over NATS: the gateway's event     *)
(* client and subscriber (internal/events client.go, subscriber.go), the   *)
(* config handlers (handlers.go), the table config_cache (persistence.go), *)
(* the degradation manager (degradation.go), their wiring at start-up      *)
(* (internal/server server.go, cmd/mcpgw serve.go) and /readyz.            *)
(*                                                                         *)
(* A message is its version.  Each subject has a subscription of its own,  *)
(* whose goroutine handles one message after another, and NATS runs the    *)
(* connection callbacks one after another on yet another goroutine, all of *)
(* them beside the start-up.  The platform is external: it pushes new      *)
(* versions and answers a snapshot request with the versions it has read   *)
(* by then, which newer pushes may overtake.                               *)
(***************************************************************************)
EXTENDS Integers, Sequences, FiniteSetsExt

CONSTANTS
    Pods,          \* gateway pods; all use one gateway id, hence the same subjects
    MaxVersion,    \* bound: versions the platform publishes
    MaxFaults      \* bound: lost connections, failed saves and pod restarts

ASSUME BoundsAssumption == MaxVersion \in Nat /\ MaxFaults \in Nat

\* ConfigScope*.
Policy == "policy"
Servers == "servers"
Settings == "server_settings"
Auth == "auth"
Metadata == "tool_metadata"
Scopes == {Policy, Servers, Settings, Auth, Metadata}

None == 0                              \* no message: the start-up value
Versions == 0 .. MaxVersion

\* The start-up of a pod: "connected" a NATS client exists, "subscribed" the
\* subscriber was started, "managed" the degradation manager exists, "served"
\* server.New has returned, "bound" BindRegistrationService is done, "replay"
\* the metadata callback is installed, "up" serving.  "fallback" is the way
\* from a failed connection to "served".
Phases == {"down", "connected", "subscribed", "managed", "fallback", "served",
           "bound", "replay", "up"}

\* DegradationManager.
Connected == "connected"
Degraded == "degraded"
Disconnected == "disconnected"
Manager == [status: {Connected, Degraded, Disconnected}, ever: BOOLEAN,
            cached: BOOLEAN, sync: {"unknown", "cached", "resync_requested"}]
NoManager == [status |-> Disconnected, ever |-> FALSE, cached |-> FALSE,
              sync |-> "unknown"]

Callbacks == {"disconnected", "reconnected", "closed"}

\* A metadata message in its handler: about to be saved, buffered, passed on.
Handling == [at: {"none", "save", "buffer", "call"}, v: Versions]
NotHandling == [at |-> "none", v |-> None]

VARIABLES
    phase,         \* how far each pod has started
    conn,          \* its NATS connection: "none", "up", "lost" or "closed"
    connected,     \* Client.connected
    callbacks,     \* connection events whose callbacks have not run yet
    hooked,        \* the disconnect and reconnect handlers are set
    missed,        \* history: a callback ran before they were
    manager,       \* DegradationManager
    inbox,         \* messages received and not yet handled, per subject
    applied,       \* the version in force, per scope
    buffered,      \* ToolMetadataConfigHandler.lastMessage
    callback,      \* ToolMetadataConfigHandler.onUpdate is set
    replay,        \* the message SetOnUpdate is about to replay
    handling,      \* the metadata message in its handler
    cache,         \* config_cache: the saved metadata message
    latest,        \* the platform's current version of each scope
    requests,      \* snapshot requests the platform has not read
    answer,        \* the versions read for a request and not yet sent
    faults

link == <<conn, connected, callbacks, hooked, missed, manager>>
metadata == <<buffered, callback, replay, handling, cache>>
platform == <<latest, requests, answer>>
vars == <<phase, conn, connected, callbacks, hooked, missed, manager, inbox, applied,
          buffered, callback, replay, handling, cache, latest, requests, answer, faults>>

NoAnswer == [s \in Scopes |-> None]
Empty == [s \in Scopes |-> <<>>]

TypeOK ==
    /\ phase \in [Pods -> Phases]
    /\ conn \in [Pods -> {"none", "up", "lost", "closed"}]
    /\ connected \in [Pods -> BOOLEAN]
    /\ callbacks \in [Pods -> Seq(Callbacks)]
    /\ hooked \in [Pods -> BOOLEAN]
    /\ missed \in [Pods -> BOOLEAN]
    /\ manager \in [Pods -> Manager]
    /\ inbox \in [Pods -> [Scopes -> Seq(Versions)]]
    /\ applied \in [Pods -> [Scopes -> Versions]]
    /\ buffered \in [Pods -> Versions]
    /\ callback \in [Pods -> BOOLEAN]
    /\ replay \in [Pods -> Versions]
    /\ handling \in [Pods -> Handling]
    /\ cache \in Versions
    /\ latest \in [Scopes -> Versions]
    /\ requests \subseteq Pods
    /\ answer \in [Scopes -> Versions]
    /\ faults \in 0 .. MaxFaults

Init ==
    /\ phase = [p \in Pods |-> "down"]
    /\ conn = [p \in Pods |-> "none"]
    /\ connected = [p \in Pods |-> FALSE]
    /\ callbacks = [p \in Pods |-> <<>>]
    /\ hooked = [p \in Pods |-> FALSE]
    /\ missed = [p \in Pods |-> FALSE]
    /\ manager = [p \in Pods |-> NoManager]
    /\ inbox = [p \in Pods |-> Empty]
    /\ applied = [p \in Pods |-> NoAnswer]
    /\ buffered = [p \in Pods |-> None]
    /\ callback = [p \in Pods |-> FALSE]
    /\ replay = [p \in Pods |-> None]
    /\ handling = [p \in Pods |-> NotHandling]
    /\ cache = None
    /\ latest = NoAnswer
    /\ requests = {}
    /\ answer = NoAnswer
    /\ faults = 0

Fault == faults < MaxFaults /\ faults' = faults + 1

(***************************************************************************)
(* Start-up: server.New, then serve                                        *)
(***************************************************************************)

\* The event subscriber exists: its handlers are registered and receive.
Subscribed(p) == phase[p] \in {"subscribed", "managed", "served", "bound", "replay", "up"}
                 /\ conn[p] # "none"

\* BindRegistrationService has given the handlers their service.
Bound(p) == phase[p] \in {"bound", "replay", "up"} /\ conn[p] # "none"

\* initNATS connects, or gives up for good: nats.Connect does not retry.
Boot(p) ==
    /\ phase[p] = "down"
    /\ \/ /\ phase' = [phase EXCEPT ![p] = "connected"]
          /\ conn' = [conn EXCEPT ![p] = "up"]
          /\ connected' = [connected EXCEPT ![p] = TRUE]
          /\ UNCHANGED faults
       \/ /\ Fault
          /\ phase' = [phase EXCEPT ![p] = "fallback"]
          /\ UNCHANGED <<conn, connected>>
    /\ UNCHANGED <<callbacks, hooked, missed, manager, inbox, applied, metadata, platform>>

\* initEventSubscriber: subscriber.Start.
Subscribe(p) ==
    /\ phase[p] = "connected"
    /\ phase' = [phase EXCEPT ![p] = "subscribed"]
    /\ UNCHANGED <<link, inbox, applied, metadata, platform, faults>>

\* initDegradationHandlers: NewDegradationManager looks at the connection.
Manage(p) ==
    /\ phase[p] = "subscribed"
    /\ manager' = [manager EXCEPT ![p] =
          [NoManager EXCEPT !.status = IF connected[p] THEN Connected ELSE Disconnected,
                            !.ever = connected[p]]]
    /\ phase' = [phase EXCEPT ![p] = "managed"]
    /\ UNCHANGED <<conn, connected, callbacks, hooked, missed, inbox, applied, metadata,
                   platform, faults>>

\* ... and then sets the connection handlers.
Hook(p) ==
    /\ phase[p] = "managed"
    /\ hooked' = [hooked EXCEPT ![p] = TRUE]
    /\ phase' = [phase EXCEPT ![p] = "served"]
    /\ UNCHANGED <<conn, connected, callbacks, missed, manager, inbox, applied, metadata,
                   platform, faults>>

\* initDegradationFallback without a client: LoadCachedConfig reads the keys of
\* config_cache and, having no subscriber, applies none of them.
LoadCachedConfig(p) ==
    /\ phase[p] = "fallback"
    /\ manager' = [manager EXCEPT ![p] =
          IF cache # None
          THEN [NoManager EXCEPT !.cached = TRUE, !.sync = "cached", !.status = Degraded]
          ELSE NoManager]
    /\ phase' = [phase EXCEPT ![p] = "served"]
    /\ UNCHANGED <<conn, connected, callbacks, hooked, missed, inbox, applied, metadata,
                   platform, faults>>

Bind(p) ==
    /\ phase[p] = "served"
    /\ phase' = [phase EXCEPT ![p] = "bound"]
    /\ UNCHANGED <<link, inbox, applied, metadata, platform, faults>>

\* Mutation: what was received before the callback was set is not replayed.
SetOnUpdateOnly(p) ==
    /\ phase[p] = "bound"
    /\ callback' = [callback EXCEPT ![p] = conn[p] # "none"]
    /\ phase' = [phase EXCEPT ![p] = "replay"]
    /\ UNCHANGED <<link, inbox, applied, buffered, replay, handling, cache, platform,
                   faults>>

\* wireToolMetadataCallback: SetOnUpdate installs the callback and reads the
\* message buffered so far under the handler's lock ...
SetOnUpdate(p) ==
    /\ phase[p] = "bound"
    /\ callback' = [callback EXCEPT ![p] = conn[p] # "none"]
    /\ replay' = [replay EXCEPT ![p] = buffered[p]]
    /\ phase' = [phase EXCEPT ![p] = "replay"]
    /\ UNCHANGED <<link, inbox, applied, buffered, handling, cache, platform, faults>>

\* ... and calls the callback with that message after the unlock.
Replay(p) ==
    /\ phase[p] = "replay"
    /\ applied' = IF replay[p] # None
                  THEN [applied EXCEPT ![p][Metadata] = replay[p]] ELSE applied
    /\ replay' = [replay EXCEPT ![p] = None]
    /\ phase' = [phase EXCEPT ![p] = "up"]
    /\ UNCHANGED <<link, inbox, buffered, callback, handling, cache, platform, faults>>

\* The pod is stopped or killed and started again; the table remains.
Restart(p) ==
    /\ phase[p] # "down"
    /\ Fault
    /\ phase' = [phase EXCEPT ![p] = "down"]
    /\ conn' = [conn EXCEPT ![p] = "none"]
    /\ connected' = [connected EXCEPT ![p] = FALSE]
    /\ callbacks' = [callbacks EXCEPT ![p] = <<>>]
    /\ hooked' = [hooked EXCEPT ![p] = FALSE]
    /\ missed' = [missed EXCEPT ![p] = FALSE]
    /\ manager' = [manager EXCEPT ![p] = NoManager]
    /\ inbox' = [inbox EXCEPT ![p] = Empty]
    /\ applied' = [applied EXCEPT ![p] = NoAnswer]
    /\ buffered' = [buffered EXCEPT ![p] = None]
    /\ callback' = [callback EXCEPT ![p] = FALSE]
    /\ replay' = [replay EXCEPT ![p] = None]
    /\ handling' = [handling EXCEPT ![p] = NotHandling]
    /\ UNCHANGED <<cache, platform>>

(***************************************************************************)
(* The connection and its callbacks                                        *)
(***************************************************************************)

\* The connection breaks; NATS queues the callback.
Disconnect(p) ==
    /\ conn[p] = "up"
    /\ Fault
    /\ conn' = [conn EXCEPT ![p] = "lost"]
    /\ callbacks' = [callbacks EXCEPT ![p] = Append(@, "disconnected")]
    /\ UNCHANGED <<phase, connected, hooked, missed, manager, inbox, applied, metadata,
                   platform>>

\* The client reconnects and NATS resumes its subscriptions, or it gives up
\* after MaxReconnects attempts.
Reconnect(p) ==
    /\ conn[p] = "lost"
    /\ \/ /\ conn' = [conn EXCEPT ![p] = "up"]
          /\ callbacks' = [callbacks EXCEPT ![p] = Append(@, "reconnected")]
       \/ /\ conn' = [conn EXCEPT ![p] = "closed"]
          /\ callbacks' = [callbacks EXCEPT ![p] = Append(@, "closed")]
    /\ UNCHANGED <<phase, connected, hooked, missed, manager, inbox, applied, metadata,
                   platform, faults>>

\* Mutation: a disconnection forgets that there was a connection.
OnDisconnectForgets(m) == [m EXCEPT !.status = Degraded, !.ever = FALSE]

\* DegradationManager.OnDisconnect.
OnDisconnect(m) == [m EXCEPT !.status = Degraded]

\* DegradationManager.OnReconnect, up to the snapshot request.
OnReconnect(m) ==
    [m EXCEPT !.status = Connected, !.ever = TRUE, !.sync = "resync_requested"]

\* Mutation: OnReconnect asks for nothing and waits for the next push.
NoSnapshotRequest(p, e) == requests

\* After a reconnection the snapshot request goes out; one published while the
\* connection is lost again is followed by that of the next reconnection.
SnapshotRequest(p, e) ==
    IF hooked[p] /\ e = "reconnected" /\ conn[p] = "up" THEN requests \cup {p} ELSE requests

\* The callbacks set Client.connected and call the handler, if there is one.
RunCallback(p) ==
    LET e == Head(callbacks[p])
        h == hooked[p] /\ e # "closed"
    IN /\ callbacks[p] # <<>>
       /\ callbacks' = [callbacks EXCEPT ![p] = Tail(@)]
       /\ connected' = [connected EXCEPT ![p] = e = "reconnected"]
       /\ missed' = [missed EXCEPT ![p] = @ \/ ~hooked[p]]
       /\ manager' = [manager EXCEPT ![p] =
             IF ~h THEN @ ELSE IF e = "reconnected" THEN OnReconnect(@) ELSE OnDisconnect(@)]
       /\ requests' = SnapshotRequest(p, e)
       /\ UNCHANGED <<phase, conn, hooked, inbox, applied, metadata, latest, answer, faults>>

(***************************************************************************)
(* The platform (external)                                                 *)
(***************************************************************************)

\* NATS delivers to the subscriptions of connected pods and forgets the rest.
Received(p) == conn[p] = "up" /\ Subscribed(p)

\* The platform publishes a new version of one scope.
Publish(s) ==
    LET v == Max({latest[t] : t \in Scopes}) + 1
    IN /\ v <= MaxVersion
       /\ latest' = [latest EXCEPT ![s] = v]
       /\ inbox' = [p \in Pods |-> IF Received(p) THEN [inbox[p] EXCEPT ![s] = Append(@, v)]
                                   ELSE inbox[p]]
       /\ UNCHANGED <<phase, link, applied, metadata, requests, answer, faults>>

\* It reads its current versions for the requests it has ...
ReadSnapshot ==
    /\ requests # {}
    /\ answer = NoAnswer
    /\ answer' = latest
    /\ requests' = {}
    /\ UNCHANGED <<phase, link, inbox, applied, metadata, latest, faults>>

\* ... and publishes them to the gateway's subjects.
SendSnapshot ==
    /\ answer # NoAnswer
    /\ inbox' = [p \in Pods |-> IF Received(p)
                    THEN [s \in Scopes |-> IF answer[s] # None
                                           THEN Append(inbox[p][s], answer[s])
                                           ELSE inbox[p][s]]
                    ELSE inbox[p]]
    /\ answer' = NoAnswer
    /\ UNCHANGED <<phase, link, applied, metadata, latest, requests, faults>>

(***************************************************************************)
(* The handlers                                                            *)
(***************************************************************************)

\* routeMessage takes the next message of subject s.
Next1(p, s) == Head(inbox[p][s])
Taken(p, s) == [inbox EXCEPT ![p][s] = Tail(@)]

\* PolicyConfigHandler.Handle replaces the engine's profiles and the defaults
\* of the memory limiter; AuthConfigHandler.Handle only validates.  Neither
\* was given a config store.
HandlePolicy(p) ==
    /\ inbox[p][Policy] # <<>>
    /\ applied' = [applied EXCEPT ![p][Policy] = Next1(p, Policy)]
    /\ inbox' = Taken(p, Policy)
    /\ UNCHANGED <<phase, link, metadata, platform, faults>>

HandleAuth(p) ==
    /\ inbox[p][Auth] # <<>>
    /\ inbox' = Taken(p, Auth)
    /\ UNCHANGED <<phase, link, applied, metadata, platform, faults>>

\* ServerConfigHandler.Handle replaces the allow list, once it is bound to the
\* registration service.
HandleServers(p) ==
    /\ inbox[p][Servers] # <<>>
    /\ applied' = IF Bound(p) THEN [applied EXCEPT ![p][Servers] = Next1(p, Servers)]
                  ELSE applied
    /\ inbox' = Taken(p, Servers)
    /\ UNCHANGED <<phase, link, metadata, platform, faults>>

\* Mutation: UpdateEffectiveSettings takes whatever arrives.
NotStale(p, v) == TRUE

\* UpdateEffectiveSettings refuses a version older than the one in force.
Fresh(p, v) == v >= applied[p][Settings]

\* ServerSettingsConfigHandler.Handle.
HandleSettings(p) ==
    LET v == Next1(p, Settings)
    IN /\ inbox[p][Settings] # <<>>
       /\ applied' = IF Bound(p) /\ Fresh(p, v)
                     THEN [applied EXCEPT ![p][Settings] = v] ELSE applied
       /\ inbox' = Taken(p, Settings)
       /\ UNCHANGED <<phase, link, metadata, platform, faults>>

\* ToolMetadataConfigHandler.Handle takes a message,
TakeMetadata(p) ==
    /\ handling[p] = NotHandling
    /\ inbox[p][Metadata] # <<>>
    /\ handling' = [handling EXCEPT ![p] = [at |-> "save", v |-> Next1(p, Metadata)]]
    /\ inbox' = Taken(p, Metadata)
    /\ UNCHANGED <<phase, link, applied, buffered, callback, replay, cache, platform, faults>>

\* saves it, or logs that it could not,
SaveMetadata(p) ==
    /\ handling[p].at = "save"
    /\ \/ cache' = handling[p].v /\ UNCHANGED faults
       \/ Fault /\ UNCHANGED cache
    /\ handling' = [handling EXCEPT ![p].at = "buffer"]
    /\ UNCHANGED <<phase, link, inbox, applied, buffered, callback, replay, platform>>

\* keeps it and reads the callback under the lock,
BufferMetadata(p) ==
    /\ handling[p].at = "buffer"
    /\ buffered' = [buffered EXCEPT ![p] = handling[p].v]
    /\ handling' = [handling EXCEPT ![p] = IF callback[p] THEN [@ EXCEPT !.at = "call"]
                                           ELSE NotHandling]
    /\ UNCHANGED <<phase, link, inbox, applied, callback, replay, cache, platform, faults>>

\* and calls it: ApplyToolMetadata changes the discovery index.
ApplyMetadata(p) ==
    /\ handling[p].at = "call"
    /\ applied' = [applied EXCEPT ![p][Metadata] = handling[p].v]
    /\ handling' = [handling EXCEPT ![p] = NotHandling]
    /\ UNCHANGED <<phase, link, inbox, buffered, callback, replay, cache, platform, faults>>

StartUp(p) ==
    \/ Subscribe(p) \/ Manage(p) \/ Hook(p) \/ LoadCachedConfig(p)
    \/ Bind(p) \/ SetOnUpdate(p) \/ Replay(p)

Handle(p) ==
    \/ HandlePolicy(p) \/ HandleAuth(p) \/ HandleServers(p) \/ HandleSettings(p)
    \/ TakeMetadata(p) \/ SaveMetadata(p) \/ BufferMetadata(p) \/ ApplyMetadata(p)

Next ==
    \/ \E p \in Pods :
          \/ Boot(p) \/ StartUp(p) \/ Restart(p)
          \/ Disconnect(p) \/ Reconnect(p) \/ RunCallback(p)
          \/ Handle(p)
    \/ \E s \in Scopes : Publish(s)
    \/ ReadSnapshot
    \/ SendSnapshot

Spec == Init /\ [][Next]_vars

\* The start-up runs to its end, the goroutines of the subscriptions and of the
\* callbacks run, and the platform answers.  Nothing is assumed of
\* connections, restarts and pushes.
Fairness ==
    /\ \A p \in Pods : /\ WF_vars(StartUp(p))
                       /\ WF_vars(RunCallback(p))
                       /\ WF_vars(HandlePolicy(p))
                       /\ WF_vars(HandleSettings(p))
                       /\ WF_vars(HandleServers(p))
    /\ WF_vars(ReadSnapshot)
    /\ WF_vars(SendSnapshot)

FairSpec == Spec /\ Fairness

(***************************************************************************)
(* Properties                                                              *)
(***************************************************************************)

\* While a pod runs, the settings it hands to its backends never go back to an
\* older config_version, although a snapshot answer may arrive after a newer
\* push (UpdateEffectiveSettings).
SettingsNeverGoBack ==
    [][\A p \in Pods : phase'[p] # "down" =>
          applied'[p][Settings] >= applied[p][Settings]]_vars

\* handleReady: 503 until the pod serves, and until it has been connected once
\* or has cached config.
handleReady(p) ==
    [code |-> IF phase[p] = "up" /\ (manager[p].ever \/ manager[p].cached) THEN 200 ELSE 503,
     nats |-> IF manager[p].status = Connected THEN "connected" ELSE "disconnected"]

\* When the callbacks have run, /readyz of a pod that serves reports the state
\* of the connection and keeps the pod in service through its outages,
\* provided no callback ran before the handlers were set (a connection that
\* changes during server.New is reported wrongly).
ReadinessIsTrue ==
    \A p \in Pods :
        phase[p] = "up" /\ hooked[p] /\ ~missed[p] /\ callbacks[p] = <<>>
            => /\ handleReady(p).nats = "connected" <=> conn[p] = "up"
               /\ handleReady(p).code = 200

\* Tool metadata is not lost to the order in which the callback is installed
\* and the first messages arrive: once a pod serves and its handler is idle,
\* it has applied metadata if it has received any.
MetadataIsApplied ==
    \A p \in Pods :
        phase[p] = "up" /\ handling[p] = NotHandling /\ buffered[p] # None
            => applied[p][Metadata] # None

\* A reconnection brings a pod's settings up to date, whatever was pushed during
\* the outage (OnReconnect asks for a snapshot), unless the connection or the
\* pod is lost again.
ReconnectionBringsSettings ==
    \A p \in Pods :
        Bound(p) /\ callbacks[p] # <<>> /\ callbacks[p][Len(callbacks[p])] = "reconnected"
            ~> \/ applied[p][Settings] = latest[Settings]
               \/ conn[p] # "up"
               \/ phase[p] = "down"
=============================================================================
