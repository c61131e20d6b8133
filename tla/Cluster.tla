------------------------------- MODULE Cluster -------------------------------
(***************************************************************************)
(* Several gateway pods over one registry: each keeps a CapabilityIndex    *)
(* (internal/registration/index.go) that routes tool calls, updated by the *)
(* requests the pod serves (cmd/mcpgw indexedRegistrationService), by its  *)
(* sweeper and by broadcasts from the other pods (subscriber.go), and      *)
(* rebuilt from the database when the pod starts.                          *)
(*                                                                         *)
(* Every step of Registration is taken here with its effect on the indexes *)
(* and on the broadcast channel.  The platform's acknowledgements write    *)
(* only sync_state, which no index reads; they are left to Registration.   *)
(***************************************************************************)
EXTENDS Registration, Sequences

CONSTANTS
    Tools,        \* tool names; Caps is a set of sets of them
    MaxQueue,     \* bound: undelivered broadcasts per pod (0: the noop broadcaster)
    MaxRestarts   \* bound: pod restarts

ASSUME CapsAssumption == Caps \subseteq SUBSET Tools
ASSUME QueueAssumption == MaxQueue \in Nat /\ MaxRestarts \in Nat

VARIABLES
    index,      \* the tool index of each pod: a set of [tool, id, host]
    queue,      \* the broadcasts each pod has yet to handle, in order
    fetched,    \* the record a pod's subscriber has read and not yet applied
    phase,      \* "off", "listed" (servers read, not subscribed) or "on"
    boot,       \* the servers a starting pod has listed
    at,         \* the pod that serves each backend's current request
    restarts,   \* restarts so far
    routable    \* history: every route that was ever stored as active

cluster == <<index, queue, fetched, phase, boot, at, restarts>>
cvars == <<vars, cluster, routable>>

Route == [tool: Tools, id: Nat \ {0}, host: Backends]
Message == [type: {"refresh", "remove"}, id: Nat \ {0}]

CTypeOK ==
    /\ TypeOK
    /\ index \in [Pods -> SUBSET Route]
    /\ queue \in [Pods -> Seq(Message)]
    /\ fetched \in [Pods -> Held \cup {NoRow}]
    /\ phase \in [Pods -> {"off", "listed", "on"}]
    /\ boot \in [Pods -> SUBSET Route]
    /\ at \in [Backends -> Pods]
    /\ restarts \in Nat
    /\ routable \in SUBSET Route

-----------------------------------------------------------------------------
(* CapabilityIndex, whose operations run under its lock.  Resources are    *)
(* indexed like tools.                                                     *)

\* addLocked: one entry per declared tool; an entry is a copy of the record.
Routes(r) == {[tool |-> t, id |-> r.id, host |-> r.host] : t \in r.caps}

\* removeLocked.
Without(x, i) == {e \in x : e.id # i}

\* Add: replaces the copies under the record's tools, and only those.
Add(x, r) ==
    IF r.status = Active
    THEN {e \in x : ~(e.id = r.id /\ e.tool \in r.caps)} \cup Routes(r)
    ELSE x

\* RefreshServer once the record has been read.
Refresh(x, r) ==
    IF r.status = Active THEN Without(x, r.id) \cup Routes(r) ELSE Without(x, r.id)

\* Rebuild and listActiveServers: the routes of all active rows.
ActiveRoutes(d) ==
    UNION {Routes(d[s]) : s \in {u \in Spiffes : d[u] # NoRow /\ d[u].status = Active}}

CInit ==
    /\ Init
    /\ index = [p \in Pods |-> {}]
    /\ queue = [p \in Pods |-> <<>>]
    /\ fetched = [p \in Pods |-> NoRow]
    /\ phase = [p \in Pods |-> "on"]
    /\ boot = [p \in Pods |-> {}]
    /\ at \in [Backends -> Pods]
    /\ restarts = 0
    /\ routable = {}

Seen == routable' = routable \cup ActiveRoutes(db')

-----------------------------------------------------------------------------
(* Broadcasts: at most once, in order, to the pods that are subscribed,    *)
(* the sender included; any of them may miss one.                          *)

Broadcast(m) ==
    \E got \in SUBSET {p \in Pods : phase[p] = "on" /\ Len(queue[p]) < MaxQueue} :
        queue' = [p \in Pods |-> IF p \in got THEN Append(queue[p], m) ELSE queue[p]]

refresh(i) == [type |-> "refresh", id |-> i]   \* "registered", "status_changed"
remove(i) == [type |-> "remove", id |-> i]     \* "deregistered"

-----------------------------------------------------------------------------
(* The requests a pod serves.                                              *)

\* A load balancer sends a new request to any pod that is up.
Begin(b) ==
    /\ \E p \in Pods : phase[p] = "on" /\ at' = [at EXCEPT ![b] = p]
    /\ \/ RegisterLookup(b) \/ DeregisterLookup(b)
       \/ HeartbeatMismatch(b) \/ HeartbeatLookup(b) \/ HeartbeatRefused(b)
    /\ UNCHANGED <<index, queue, fetched, phase, boot, restarts>>
    /\ Seen

\* The database calls in the middle of a request.
Work(b) ==
    /\ \/ RegisterUpdate(b) \/ RegisterCreate(b) \/ RegisterDuplicate(b)
       \/ HeartbeatStatus(b) \/ HeartbeatTouch(b) \/ DeregisterDelete(b)
       \/ SyncGet(b) \/ SyncGetFails(b)
    /\ UNCHANGED cluster
    /\ Seen

Halt(b) ==
    /\ RequestFails(b) \/ Crash(b) \/ Boot(b)
    /\ UNCHANGED cluster
    /\ Seen

Publish(b) ==
    /\ RegisterPublish(b) \/ HeartbeatPublish(b)
    /\ Broadcast(refresh(snap[b].id))
    /\ UNCHANGED <<index, fetched, phase, boot, at, restarts>>
    /\ Seen

\* Deregister: the broadcast, then index.Remove in the serving pod.
PublishRemoval(b) ==
    /\ DeregisterPublish(b)
    /\ Broadcast(remove(snap[b].id))
    /\ index' = [index EXCEPT ![at[b]] = Without(@, snap[b].id)]
    /\ UNCHANGED <<fetched, phase, boot, at, restarts>>
    /\ Seen

\* Mutation: a request does not put its server into the index.
FinishNoSync(b) ==
    /\ Reply(b)
    /\ index' = [index EXCEPT ![at[b]] =
                    IF pc[b] = "drop" THEN Without(@, snap[b].id) ELSE @]
    /\ UNCHANGED <<queue, fetched, phase, boot, at, restarts>>
    /\ Seen

\* The end of Register and Heartbeat: syncServer adds the record it has read
\* (nothing when it read none); a heartbeat answered with a status that is
\* not routable removes the server.
Finish(b) ==
    /\ Reply(b)
    /\ index' = [index EXCEPT ![at[b]] =
                    IF snap[b] = NoRow THEN @
                    ELSE IF pc[b] = "drop" THEN Without(@, snap[b].id)
                    ELSE Add(@, snap[b])]
    /\ UNCHANGED <<queue, fetched, phase, boot, at, restarts>>
    /\ Seen

\* deregisterServer of the admin dashboard broadcasts; the CLI does not.
Remove(s) ==
    /\ AdminDelete(s)
    /\ Broadcast(remove(db[s].id))
    /\ UNCHANGED <<index, fetched, phase, boot, at, restarts>>
    /\ Seen

-----------------------------------------------------------------------------
(* The sweeper and the subscriber of a pod.                                *)

PodSweep(p) ==
    /\ phase[p] = "on"
    /\ SweepStale(p) \/ MarkStale(p) \/ SweepExpired(p) \/ MarkExpired(p)
       \/ SweepDone(p) \/ SweepFails(p)
    /\ UNCHANGED cluster
    /\ Seen

PodUnindex(p) ==
    /\ Unindex(p)
    /\ index' = [index EXCEPT ![p] = Without(@, victim[p])]
    /\ UNCHANGED <<queue, fetched, phase, boot, at, restarts>>
    /\ Seen

\* RefreshServer reads the row before it takes the index's lock; when the row
\* is gone it returns an error and leaves the index alone.
RefreshGet(p) ==
    /\ queue[p] # <<>> /\ Head(queue[p]).type = "refresh"
    /\ \/ \E s \in Spiffes :
            /\ Holds(s, Head(queue[p]).id)
            /\ fetched' = [fetched EXCEPT ![p] =
                 [id |-> db[s].id, host |-> db[s].host, caps |-> db[s].caps,
                  status |-> db[s].status, epoch |-> db[s].epoch]]
       \/ (\A s \in Spiffes : ~Holds(s, Head(queue[p]).id)) /\ UNCHANGED fetched
    /\ fetched[p] = NoRow
    /\ queue' = [queue EXCEPT ![p] = Tail(@)]
    /\ UNCHANGED <<vars, index, phase, boot, at, restarts>>
    /\ Seen

RefreshApply(p) ==
    /\ fetched[p] # NoRow
    /\ index' = [index EXCEPT ![p] = Refresh(@, fetched[p])]
    /\ fetched' = [fetched EXCEPT ![p] = NoRow]
    /\ UNCHANGED <<vars, queue, phase, boot, at, restarts>>
    /\ Seen

HandleRemoval(p) ==
    /\ fetched[p] = NoRow
    /\ queue[p] # <<>> /\ Head(queue[p]).type = "remove"
    /\ index' = [index EXCEPT ![p] = Without(@, Head(queue[p]).id)]
    /\ queue' = [queue EXCEPT ![p] = Tail(@)]
    /\ UNCHANGED <<vars, fetched, phase, boot, at, restarts>>
    /\ Seen

-----------------------------------------------------------------------------
(* Pods stop and start (serveWithContext).                                 *)

\* Shutdown drains the requests and stops the sweeper.
PodStops(p) ==
    /\ phase[p] = "on" /\ restarts < MaxRestarts
    /\ sweep[p] = "idle"
    /\ \A b \in Backends : at[b] = p => pc[b] \in {"down", "start", "up"}
    /\ phase' = [phase EXCEPT ![p] = "off"]
    /\ index' = [index EXCEPT ![p] = {}]
    /\ queue' = [queue EXCEPT ![p] = <<>>]
    /\ fetched' = [fetched EXCEPT ![p] = NoRow]
    /\ restarts' = restarts + 1
    /\ UNCHANGED <<vars, boot, at>>
    /\ Seen

\* listActiveServers and replayActiveServerRegistrations.
PodLists(p) ==
    /\ phase[p] = "off"
    /\ Replay
    /\ phase' = [phase EXCEPT ![p] = "listed"]
    /\ boot' = [boot EXCEPT ![p] = ActiveRoutes(db)]
    /\ UNCHANGED <<index, queue, fetched, at, restarts>>
    /\ Seen

\* Rebuild from that list, then subscribe and serve.
PodServes(p) ==
    /\ phase[p] = "listed"
    /\ phase' = [phase EXCEPT ![p] = "on"]
    /\ index' = [index EXCEPT ![p] = boot[p]]
    /\ boot' = [boot EXCEPT ![p] = {}]
    /\ UNCHANGED <<vars, queue, fetched, at, restarts>>
    /\ Seen

TimePasses ==
    /\ Tick
    /\ UNCHANGED cluster
    /\ Seen

-----------------------------------------------------------------------------
CNext ==
    \/ \E b \in Backends : Begin(b) \/ Work(b) \/ Publish(b)
                           \/ PublishRemoval(b) \/ Finish(b) \/ Halt(b)
    \/ \E s \in Spiffes : Remove(s)
    \/ \E p \in Pods : PodSweep(p) \/ PodUnindex(p) \/ RefreshGet(p)
                       \/ RefreshApply(p) \/ HandleRemoval(p)
                       \/ PodStops(p) \/ PodLists(p) \/ PodServes(p)
    \/ TimePasses

CSpec == CInit /\ [][CNext]_cvars

-----------------------------------------------------------------------------
(* Fairness: as in Registration; a pod's subscriber handles its messages,  *)
(* a restarting pod comes up, and the load balancer, which spreads         *)
(* requests, sends every pod some heartbeats of a running backend.         *)

HeartbeatAt(b, p) == Begin(b) /\ pc[b] = "up" /\ at'[b] = p

CFairness ==
    /\ WF_cvars(TimePasses)
    /\ \A p \in Pods :
        /\ WF_cvars((PodSweep(p) /\ Sweep(p)) \/ PodUnindex(p))
        /\ WF_cvars(RefreshGet(p) \/ RefreshApply(p) \/ HandleRemoval(p))
        /\ WF_cvars(PodLists(p) \/ PodServes(p))
    /\ \A b \in Backends :
        /\ WF_cvars(Begin(b) /\ pc[b] = "start")
        /\ \A p \in Pods : SF_cvars(HeartbeatAt(b, p) /\ ~DeregisterLookup(b))
        /\ WF_cvars(Work(b) \/ Publish(b) \/ PublishRemoval(b) \/ Finish(b))

CFairSpec == CSpec /\ CFairness

-----------------------------------------------------------------------------
(* Properties.                                                             *)

\* No index, and nothing on its way into one, ever names a route that was not
\* at some time stored in the registry as that active server's: not the id
\* Register made up, not another server's address, not a tool under an id
\* that never declared it.  Copies may be old; they are never invented.
RoutesWereRegistered ==
    \A p \in Pods : index[p] \cup boot[p] \subseteq routable

Stored(b, s) == db[s] # NoRow /\ db[s].host = b /\ db[s].status = Active /\ lease[b].id = db[s].id

\* Heartbeats repair routing: once a running backend's registration is stable
\* and active, every pod ends up routing every declared tool to it, whatever
\* broadcasts were lost and whatever old copies requests in flight wrote back.
HeartbeatsRestoreRoutes ==
    \A b \in Backends, p \in Pods : \A k \in Caps :
        (/\ <>[](Stored(b, Identity[b]) /\ db[Identity[b]].caps = k)
         /\ <>[][~RequestFails(b) /\ ~SyncGetFails(b)]_cvars)
        => <>[](\A t \in k : [tool |-> t, id |-> lease[b].id, host |-> b] \in index[p])
=============================================================================
