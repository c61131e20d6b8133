---------------------------- MODULE Registration ----------------------------
(***************************************************************************)
(* The server registry: the mcp_servers table (internal/store,             *)
(* migrations/0001), the registration service run by every gateway pod     *)
(* (internal/registration service.go, heartbeat.go), its HTTP clients, the *)
(* per-pod sweeper (sweeper.go) and the platform's acknowledgements.       *)
(*                                                                         *)
(* A handler is cut at its database calls: each call is one atomic SQL     *)
(* statement and nothing holds a transaction or a lock across two of them. *)
(* The rows of different SPIFFE IDs are distinct (spiffe_id is UNIQUE), so *)
(* the table is a function of the SPIFFE ID.  Names, ports, versions and   *)
(* policy profiles are data no step depends on and are left out.           *)
(***************************************************************************)
EXTENDS Integers, FiniteSets

CONSTANTS
    Backends,      \* backend processes; a backend stands for its own address too
    Spiffes,       \* SPIFFE IDs
    Identity,      \* the SPIFFE ID in each backend's certificate
    Wellformed,    \* the backends whose heartbeat body the gateway can decode
    Caps,          \* what a backend may declare (Capability); hashes are injective
    Pods,          \* gateway pods, each with a sweeper
    NoRow,         \* no record
    HeartbeatTTL,  \* MCPGW_HEARTBEAT_TTL, in units of time
    TickStep,      \* how much time one tick takes
    MaxId,         \* bound: ids ever generated
    MaxEpoch       \* bound: lease epochs

\* heartbeatIntervalSeconds and Sweeper.interval replace a TTL that is not
\* positive by 30 seconds.
ASSUME TTLAssumption == HeartbeatTTL \in Nat \ {0}
ASSUME TickAssumption == TickStep \in Nat \ {0}
ASSUME IdentityAssumption == Identity \in [Backends -> Spiffes]
ASSUME BoundsAssumption == MaxId \in Nat /\ MaxEpoch \in Nat

Active == "active"
Stale == "stale"
Expired == "expired"
Statuses == {Active, Stale, Expired}   \* Register never writes pending or approved

\* Transition, for the statuses and events that occur; every other pair of
\* them is an error.
Transitions ==
    {<<Active, "heartbeat", Active>>, <<Stale, "heartbeat", Active>>,
     <<Active, "missed", Stale>>, <<Stale, "missed", Expired>>, <<Expired, "missed", Expired>>}
    \cup {<<st, "expired", Expired>> : st \in Statuses}

Unacked == "unacked"
Acked == "acked"

\* Sweeper.sweep passes 3 * interval to ListExpired, which multiplies its
\* argument by 3 again.
StaleAfter == HeartbeatTTL
ExpireAfter == 3 * (3 * HeartbeatTTL)

Null == -1                             \* last_heartbeat is NULL
MaxAge == ExpireAfter + 1              \* ages are not counted beyond this
Ages == Null..MaxAge                   \* now() - last_heartbeat

\* types.ServerRecord.
Row == [id: Nat \ {0}, host: Backends, caps: Caps, status: Statuses,
        epoch: Nat \ {0}, age: Ages, sync: {Unacked, Acked}]

\* What a request uses of a record it has read.
Held == [id: Nat \ {0}, host: Backends, caps: Caps, status: Statuses, epoch: Nat \ {0}]

ASSUME NoRowAssumption == NoRow \notin Row \cup Held

VARIABLES
    db,         \* mcp_servers: SPIFFE ID -> row or NoRow
    nextId,     \* ids below this one have been generated (UUIDs never repeat)
    pc,         \* where each backend's sequential client, or its request, stands
    snap,       \* the record a request holds in memory
    lease,      \* the registration id and lease epoch each backend was given
    sweep,      \* what each pod's sweeper does
    todo,       \* the records each sweeper has listed and not yet handled
    victim,     \* the id each sweeper has just expired (0: none)
    published,  \* server.registered events the platform may acknowledge
    deleted     \* history: ids of rows that were deleted

service == <<pc, snap, lease>>
sweeper == <<sweep, todo, victim>>
vars == <<db, nextId, pc, snap, lease, sweep, todo, victim, published, deleted>>

NoLease == [id |-> 0, epoch |-> 0]
Lease == [id: Nat, epoch: Nat]
Listed == [id: Nat \ {0}, status: Statuses]
Event == [id: Nat \ {0}, epoch: Nat \ {0}, caps: Caps]

\* Of a backend: "down" not running, "start" about to register, "up" registered
\* and between heartbeats.  Of its request, the call it is about to make:
\* "regWrite" "regPublish" (Register), "hbStatus" "hbPublish" "hbTouch"
\* (Heartbeat), "deregDelete" "deregPublish" (Deregister), "sync" and "apply"
\* (syncServer), "drop" (index.Remove after a heartbeat).
Steps == {"down", "start", "up", "regWrite", "regPublish", "hbStatus", "hbPublish",
          "hbTouch", "deregDelete", "deregPublish", "sync", "apply", "drop"}

TypeOK ==
    /\ db \in [Spiffes -> Row \cup {NoRow}]
    /\ nextId \in Nat \ {0}
    /\ pc \in [Backends -> Steps]
    /\ snap \in [Backends -> Held \cup {NoRow}]
    /\ lease \in [Backends -> Lease]
    /\ sweep \in [Pods -> {"idle", "stale", "expired"}]
    /\ todo \in [Pods -> SUBSET Listed]
    /\ victim \in [Pods -> Nat]
    /\ published \in SUBSET Event
    /\ deleted \in SUBSET (Nat \ {0})

Init ==
    /\ db = [s \in Spiffes |-> NoRow]
    /\ nextId = 1
    /\ pc = [b \in Backends |-> "start"]
    /\ snap = [b \in Backends |-> NoRow]
    /\ lease = [b \in Backends |-> NoLease]
    /\ sweep = [p \in Pods |-> "idle"]
    /\ todo = [p \in Pods |-> {}]
    /\ victim = [p \in Pods |-> 0]
    /\ published = {}
    /\ deleted = {}

-----------------------------------------------------------------------------
(* The SQL statements (internal/store/server_store.go).                    *)

\* The row of SPIFFE ID s satisfies WHERE id = i.
Holds(s, i) == db[s] # NoRow /\ db[s].id = i

\* Mutation: the update inserts the row when there is none.
UpdateUpserts(r) == db' = [db EXCEPT ![Identity[r.host]] = r]

\* Update: every mutable column of the row with the record's id, if there is
\* one; no error when there is none.
Update(r) == db' = [s \in Spiffes |-> IF Holds(s, r.id) THEN r ELSE db[s]]

\* UpdateStatus: unconditional on the status the caller has read.
UpdateStatus(i, st) ==
    db' = [s \in Spiffes |-> IF Holds(s, i) THEN [db[s] EXCEPT !.status = st] ELSE db[s]]

\* UpdateHeartbeat: last_heartbeat = now().
UpdateHeartbeat(i) ==
    db' = [s \in Spiffes |-> IF Holds(s, i) THEN [db[s] EXCEPT !.age = 0] ELSE db[s]]

\* Delete.
Delete(i) ==
    /\ db' = [s \in Spiffes |-> IF Holds(s, i) THEN NoRow ELSE db[s]]
    /\ deleted' = deleted \cup {j \in {i} : \E s \in Spiffes : Holds(s, j)}

SilentFor(r, t) == r # NoRow /\ r.age > t

\* ListStale and ListExpired, as far as the sweeper uses the records; a NULL
\* last_heartbeat satisfies neither comparison.
ListStale == {[id |-> db[s].id, status |-> db[s].status] :
                s \in {u \in Spiffes : SilentFor(db[u], StaleAfter) /\ db[u].status = Active}}

\* Mutation: only active servers expire.
ListExpiredActive == {[id |-> db[s].id, status |-> db[s].status] :
                s \in {u \in Spiffes : SilentFor(db[u], ExpireAfter) /\ db[u].status = Active}}

ListExpired == {[id |-> db[s].id, status |-> db[s].status] :
                s \in {u \in Spiffes : SilentFor(db[u], ExpireAfter)
                                       /\ db[u].status \in {Active, Stale}}}

\* List, by status.
List(st) == {db[s] : s \in {u \in Spiffes : db[u] # NoRow /\ db[u].status = st}}

\* Mutation: the lease epoch is not compared.
AcknowledgeAnyEpoch(e, withHash) ==
    db' = [s \in Spiffes |-> IF Holds(s, e.id) THEN [db[s] EXCEPT !.sync = Acked] ELSE db[s]]

\* AcknowledgeRegistration: the row of this id, lease epoch and, if one is
\* given, capability hash.
AcknowledgeRegistration(e, withHash) ==
    db' = [s \in Spiffes |->
             IF Holds(s, e.id) /\ db[s].epoch = e.epoch /\ (withHash => db[s].caps = e.caps)
             THEN [db[s] EXCEPT !.sync = Acked] ELSE db[s]]

-----------------------------------------------------------------------------
(* The client of each backend (internal/mockbackend keepRegistered) and    *)
(* its requests.                                                           *)

goto(b, step) == pc' = [pc EXCEPT ![b] = step]
keep(b, h) == snap' = [snap EXCEPT ![b] = h]
hold(b, r) == keep(b, [id |-> r.id, host |-> r.host, caps |-> r.caps,
                       status |-> r.status, epoch |-> r.epoch])
forget(b) == keep(b, NoRow)

\* A request ends without a usable answer: the client starts over.
Restart(b) == /\ goto(b, "start")
              /\ forget(b)
              /\ lease' = [lease EXCEPT ![b] = NoLease]

\* The record Register builds from the request for id i.
NewRecord(b, i, k, e) ==
    [id |-> i, host |-> b, caps |-> k, status |-> Active,
     age |-> Null, epoch |-> e, sync |-> Unacked]

\* Mutation: the lookup finds any service's row.
RegisterLookupAny(b) ==
    /\ pc[b] = "start"
    /\ goto(b, "regWrite")
    /\ \/ db[Identity[b]] = NoRow /\ forget(b)
       \/ \E s \in Spiffes : db[s] # NoRow /\ db[s].epoch < MaxEpoch /\ hold(b, db[s])
    /\ UNCHANGED <<db, nextId, lease, sweeper, published, deleted>>

\* Register up to GetBySPIFFEID.
RegisterLookup(b) ==
    /\ pc[b] = "start"
    /\ db[Identity[b]] # NoRow => db[Identity[b]].epoch < MaxEpoch
    /\ goto(b, "regWrite")
    /\ IF db[Identity[b]] = NoRow THEN forget(b) ELSE hold(b, db[Identity[b]])
    /\ UNCHANGED <<db, nextId, lease, sweeper, published, deleted>>

\* Register, existing registration: the record takes its id and the next
\* lease epoch, and Update writes it.  Capabilities are those of the request.
RegisterUpdate(b) ==
    /\ pc[b] = "regWrite" /\ snap[b] # NoRow
    /\ \E k \in Caps :
        LET r == NewRecord(b, snap[b].id, k, snap[b].epoch + 1)
        IN Update(r) /\ hold(b, r)
    /\ goto(b, "regPublish")
    /\ UNCHANGED <<nextId, lease, sweeper, published, deleted>>

\* Register, no registration: the record keeps the id newUUID gave it, but
\* Create does not insert the id and the row gets one from its column default.
RegisterCreate(b) ==
    /\ pc[b] = "regWrite" /\ snap[b] = NoRow
    /\ db[Identity[b]] = NoRow
    /\ nextId + 2 <= MaxId + 1
    /\ \E k \in Caps :
        /\ hold(b, NewRecord(b, nextId, k, 1))
        /\ db' = [db EXCEPT ![Identity[b]] = NewRecord(b, nextId + 1, k, 1)]
    /\ nextId' = nextId + 2
    /\ goto(b, "regPublish")
    /\ UNCHANGED <<lease, sweeper, published, deleted>>

\* Create fails: another request inserted the SPIFFE ID first.
RegisterDuplicate(b) ==
    /\ pc[b] = "regWrite" /\ snap[b] = NoRow
    /\ db[Identity[b]] # NoRow
    /\ Restart(b)
    /\ UNCHANGED <<db, nextId, sweeper, published, deleted>>

\* What an acknowledgement can refer to: id, lease epoch, capability hash.
EventOf(r) == [id |-> r.id, epoch |-> r.epoch, caps |-> r.caps]

\* postRegister: the lifecycle event and the broadcast.  The answer is fixed
\* here; it is sent after syncServer.
RegisterPublish(b) ==
    /\ pc[b] = "regPublish"
    /\ published' = published \cup {EventOf(snap[b])}
    /\ lease' = [lease EXCEPT ![b] = [id |-> snap[b].id, epoch |-> snap[b].epoch]]
    /\ goto(b, "sync")
    /\ UNCHANGED <<db, nextId, snap, sweeper, deleted>>

\* Mutation: when there is no row the record in memory is used.
SyncGetFallback(b) ==
    /\ pc[b] = "sync"
    /\ \/ \E s \in Spiffes : Holds(s, snap[b].id) /\ hold(b, db[s])
       \/ (\A s \in Spiffes : ~Holds(s, snap[b].id)) /\ UNCHANGED snap
    /\ goto(b, "apply")
    /\ UNCHANGED <<db, nextId, lease, sweeper, published, deleted>>

\* syncServer reads the row again; a missing row is logged and ignored.
SyncGet(b) ==
    /\ pc[b] = "sync"
    /\ \/ \E s \in Spiffes : Holds(s, snap[b].id) /\ hold(b, db[s])
       \/ (\A s \in Spiffes : ~Holds(s, snap[b].id)) /\ forget(b)
    /\ goto(b, "apply")
    /\ UNCHANGED <<db, nextId, lease, sweeper, published, deleted>>

\* syncServer cannot read the row: logged, and the request still succeeds.
SyncGetFails(b) ==
    /\ pc[b] = "sync"
    /\ \E s \in Spiffes : Holds(s, snap[b].id)
    /\ forget(b)
    /\ goto(b, "apply")
    /\ UNCHANGED <<db, nextId, lease, sweeper, published, deleted>>

\* The request returns: to a client that now has a lease, or to one that was
\* told to re-register.
Reply(b) ==
    /\ pc[b] \in {"apply", "drop"}
    /\ goto(b, IF lease[b] = NoLease THEN "start" ELSE "up")
    /\ forget(b)
    /\ UNCHANGED <<db, nextId, lease, sweeper, published, deleted>>

Mismatched(b, r) == lease[b].epoch # r.epoch

\* Heartbeat from a client that sends its lease epoch, which is not the row's:
\* re_register, without touching the row.
HeartbeatMismatch(b) ==
    /\ pc[b] = "up" /\ b \in Wellformed
    /\ \E s \in Spiffes :
        /\ Holds(s, lease[b].id) /\ s = Identity[b]
        /\ Mismatched(b, db[s])
        /\ hold(b, db[s])
        /\ goto(b, IF db[s].status = Active THEN "sync" ELSE "drop")
    /\ lease' = [lease EXCEPT ![b] = NoLease]
    /\ UNCHANGED <<db, nextId, sweeper, published, deleted>>

\* Heartbeat that finds its row: the transition's next status is Active, and
\* is written only when it differs from the status read.  The lease epoch is
\* optional in the request, so a mismatch may go unnoticed.
HeartbeatLookup(b) ==
    /\ pc[b] = "up" /\ b \in Wellformed
    /\ \E s \in Spiffes :
        /\ Holds(s, lease[b].id) /\ s = Identity[b]
        /\ <<db[s].status, "heartbeat", Active>> \in Transitions
        /\ hold(b, db[s])
        /\ goto(b, IF db[s].status = Active THEN "hbTouch" ELSE "hbStatus")
    /\ UNCHANGED <<db, nextId, lease, sweeper, published, deleted>>

\* Mutation: the client keeps using the id that was refused.
HeartbeatRefusedKept(b) ==
    /\ pc[b] = "up"
    /\ UNCHANGED vars

\* Heartbeat refused: the body does not decode, there is no such row, it is
\* another identity's, or it is expired (no such transition).
HeartbeatRefused(b) ==
    /\ pc[b] = "up"
    /\ b \in Wellformed => \A s \in Spiffes :
            Holds(s, lease[b].id) /\ s = Identity[b]
                => <<db[s].status, "heartbeat", Active>> \notin Transitions
    /\ Restart(b)
    /\ UNCHANGED <<db, nextId, sweeper, published, deleted>>

\* applyHeartbeatTransition: UpdateStatus, then the broadcast.
HeartbeatStatus(b) ==
    /\ pc[b] = "hbStatus"
    /\ UpdateStatus(snap[b].id, Active)
    /\ goto(b, "hbPublish")
    /\ UNCHANGED <<nextId, snap, lease, sweeper, published, deleted>>

HeartbeatPublish(b) ==
    /\ pc[b] = "hbPublish"
    /\ goto(b, "hbTouch")
    /\ UNCHANGED <<db, nextId, snap, lease, sweeper, published, deleted>>

HeartbeatTouch(b) ==
    /\ pc[b] = "hbTouch"
    /\ UpdateHeartbeat(snap[b].id)
    /\ goto(b, "sync")
    /\ UNCHANGED <<nextId, snap, lease, sweeper, published, deleted>>

\* Deregister on shutdown: Get, then Delete of the id whatever has become of
\* the row in between.
DeregisterLookup(b) ==
    /\ pc[b] = "up"
    /\ \/ \E s \in Spiffes : /\ Holds(s, lease[b].id) /\ s = Identity[b]
                             /\ hold(b, db[s]) /\ goto(b, "deregDelete")
       \/ /\ \A s \in Spiffes : ~(Holds(s, lease[b].id) /\ s = Identity[b])
          /\ goto(b, "down") /\ UNCHANGED snap
    /\ lease' = [lease EXCEPT ![b] = NoLease]
    /\ UNCHANGED <<db, nextId, sweeper, published, deleted>>

DeregisterDelete(b) ==
    /\ pc[b] = "deregDelete"
    /\ Delete(snap[b].id)
    /\ goto(b, "deregPublish")
    /\ UNCHANGED <<nextId, snap, lease, sweeper, published>>

DeregisterPublish(b) ==
    /\ pc[b] = "deregPublish"
    /\ goto(b, "down")
    /\ forget(b)
    /\ UNCHANGED <<db, nextId, lease, sweeper, published, deleted>>

\* The request fails where it stands: a database error, an expired deadline, a
\* lost answer, or the death of the pod that serves it.
RequestFails(b) ==
    /\ pc[b] \notin {"down", "start", "up"}
    /\ IF pc[b] \in {"deregDelete", "deregPublish"}
       THEN goto(b, "down") /\ forget(b) /\ UNCHANGED lease
       ELSE Restart(b)
    /\ UNCHANGED <<db, nextId, sweeper, published, deleted>>

\* The backend process dies between requests, or comes back.
Crash(b) ==
    /\ pc[b] \in {"start", "up"}
    /\ goto(b, "down")
    /\ lease' = [lease EXCEPT ![b] = NoLease]
    /\ UNCHANGED <<db, nextId, snap, sweeper, published, deleted>>

Boot(b) ==
    /\ pc[b] = "down"
    /\ goto(b, "start")
    /\ UNCHANGED <<db, nextId, snap, lease, sweeper, published, deleted>>

-----------------------------------------------------------------------------
(* The sweeper of pod p (sweeper.go): list, then one UpdateStatus per      *)
(* record from the status that was listed.                                 *)

SweepStale(p) ==
    /\ sweep[p] = "idle"
    /\ sweep' = [sweep EXCEPT ![p] = "stale"]
    /\ todo' = [todo EXCEPT ![p] = ListStale]
    /\ UNCHANGED <<db, nextId, service, victim, published, deleted>>

\* transitionServer with EventHeartbeatMissed.
MarkStale(p) ==
    /\ sweep[p] = "stale"
    /\ \E r \in todo[p] :
        /\ <<r.status, "missed", Stale>> \in Transitions
        /\ UpdateStatus(r.id, Stale)
        /\ todo' = [todo EXCEPT ![p] = @ \ {r}]
    /\ UNCHANGED <<nextId, service, sweep, victim, published, deleted>>

SweepExpired(p) ==
    /\ sweep[p] = "stale" /\ todo[p] = {}
    /\ sweep' = [sweep EXCEPT ![p] = "expired"]
    /\ todo' = [todo EXCEPT ![p] = ListExpired]
    /\ UNCHANGED <<db, nextId, service, victim, published, deleted>>

\* transitionServer with EventExpired.
MarkExpired(p) ==
    /\ sweep[p] = "expired" /\ victim[p] = 0
    /\ \E r \in todo[p] :
        /\ <<r.status, "expired", Expired>> \in Transitions
        /\ UpdateStatus(r.id, Expired)
        /\ todo' = [todo EXCEPT ![p] = @ \ {r}]
        /\ victim' = [victim EXCEPT ![p] = r.id]
    /\ UNCHANGED <<nextId, service, sweep, published, deleted>>

\* index.Remove of the expired server, in this pod's index only.
Unindex(p) ==
    /\ victim[p] # 0
    /\ victim' = [victim EXCEPT ![p] = 0]
    /\ UNCHANGED <<db, nextId, service, sweep, todo, published, deleted>>

SweepDone(p) ==
    /\ sweep[p] = "expired" /\ todo[p] = {} /\ victim[p] = 0
    /\ sweep' = [sweep EXCEPT ![p] = "idle"]
    /\ UNCHANGED <<db, nextId, service, todo, victim, published, deleted>>

\* UpdateStatus fails and the record is skipped until the next sweep.
SweepFails(p) ==
    /\ \E r \in todo[p] : todo' = [todo EXCEPT ![p] = @ \ {r}]
    /\ UNCHANGED <<db, nextId, service, sweep, victim, published, deleted>>

-----------------------------------------------------------------------------
(* The platform, operators and time.                                       *)

\* The service acknowledges, with or without the hash, what the handler of
\* the event took from the platform's message.
AcknowledgeServerRegistration(e) ==
    /\ \E withHash \in BOOLEAN : AcknowledgeRegistration(e, withHash)
    /\ UNCHANGED <<nextId, service, sweeper, published, deleted>>

\* ServerRegisteredAckHandler: acknowledgements come late and repeatedly.
Acknowledge(e) == e \in published /\ AcknowledgeServerRegistration(e)

\* A booting pod publishes the active servers again
\* (replayActiveServerRegistrations).
Replay ==
    /\ published' = published \cup {EventOf(r) : r \in List(Active)}
    /\ UNCHANGED <<db, nextId, service, sweeper, deleted>>

\* The CLI, or the admin dashboard, deletes a row without asking the service.
AdminDelete(s) ==
    /\ db[s] # NoRow
    /\ Delete(db[s].id)
    /\ UNCHANGED <<nextId, service, sweeper, published>>

Later(a) == IF a = Null THEN Null ELSE IF a + TickStep > MaxAge THEN MaxAge ELSE a + TickStep

Tick ==
    /\ \E s \in Spiffes : db[s] # NoRow /\ db[s].age # Later(db[s].age)
    /\ db' = [s \in Spiffes |-> IF db[s] = NoRow THEN NoRow
                                ELSE [db[s] EXCEPT !.age = Later(@)]]
    /\ UNCHANGED <<nextId, service, sweeper, published, deleted>>

-----------------------------------------------------------------------------
Register(b) == RegisterLookup(b) \/ RegisterUpdate(b) \/ RegisterCreate(b)
               \/ RegisterDuplicate(b) \/ RegisterPublish(b)
Heartbeat(b) == HeartbeatMismatch(b) \/ HeartbeatLookup(b) \/ HeartbeatRefused(b)
                \/ HeartbeatStatus(b) \/ HeartbeatPublish(b) \/ HeartbeatTouch(b)
Deregister(b) == DeregisterLookup(b) \/ DeregisterDelete(b) \/ DeregisterPublish(b)
Sweep(p) == SweepStale(p) \/ MarkStale(p) \/ SweepExpired(p) \/ MarkExpired(p)
            \/ Unindex(p) \/ SweepDone(p)

Next ==
    \/ \E b \in Backends : Register(b) \/ Heartbeat(b) \/ Deregister(b)
                           \/ SyncGet(b) \/ SyncGetFails(b) \/ Reply(b)
                           \/ RequestFails(b) \/ Crash(b) \/ Boot(b)
    \/ \E p \in Pods : Sweep(p) \/ SweepFails(p)
    \/ \E e \in published : Acknowledge(e)
    \/ \E s \in Spiffes : AdminDelete(s)
    \/ Replay
    \/ Tick

Spec == Init /\ [][Next]_vars

-----------------------------------------------------------------------------
(* Fairness: a running backend keeps registering and heartbeating and its  *)
(* requests are served; the sweeper's ticker fires; time passes.           *)

Fairness ==
    /\ WF_vars(Tick)
    /\ \A p \in Pods : WF_vars(Sweep(p))
    /\ \A b \in Backends :
        /\ WF_vars(Register(b))
        /\ WF_vars(Heartbeat(b))
        /\ WF_vars(SyncGet(b))
        /\ WF_vars(Reply(b))
        /\ WF_vars(DeregisterDelete(b) \/ DeregisterPublish(b))

FairSpec == Spec /\ Fairness

-----------------------------------------------------------------------------
(* Properties.                                                             *)

\* A deleted registration never comes back: a Register, Heartbeat, sweep or
\* acknowledgement that read the row before its deletion updates WHERE id and
\* finds nothing; a new row always has a new id.
DeletedStaysDeleted == \A s \in Spiffes : db[s] # NoRow => db[s].id \notin deleted

\* A row is acknowledged only if the platform was told of its current lease:
\* AcknowledgeRegistration matches id and epoch, and Register clears the state.
AckedLeaseWasPublished ==
    \A s \in Spiffes : db[s] # NoRow /\ db[s].sync = Acked =>
        \E e \in published : e.id = db[s].id /\ e.epoch = db[s].epoch

\* No request ever addresses another identity's row: ids name at most one row,
\* and the id a backend was given, or that its request has read, is no other
\* SPIFFE ID's (the ErrForbidden branches are never taken by a real client).
OwnRowOnly ==
    \A b \in Backends, s \in Spiffes :
        db[s] # NoRow /\ (lease[b].id = db[s].id \/ (snap[b] # NoRow /\ snap[b].id = db[s].id))
            => s = Identity[b]

Exhausted == nextId > MaxId - 1 \/ \E s \in Spiffes : db[s] # NoRow /\ db[s].epoch = MaxEpoch

\* A backend that keeps running is, again and again, active under the id it
\* was given, whatever was deleted, expired or failed before, once requests
\* stop failing and nobody deletes rows (or the model's bounds are reached).
RunningBackendIsActive ==
    \A b \in Backends :
        (/\ <>[](pc[b] # "down")
         /\ <>[][~RequestFails(b) /\ ~\E s \in Spiffes : AdminDelete(s)]_vars)
        => []<>(Exhausted \/ \E s \in Spiffes : Holds(s, lease[b].id) /\ db[s].status = Active)

\* The registration of a backend that died is not active for ever, provided
\* it was ever seen alive and the sweeper's updates stop failing.
DeadServerExpires ==
    \A s \in Spiffes :
        (/\ <>[](\A b \in Backends : Identity[b] = s => pc[b] = "down")
         /\ <>[][~\E p \in Pods : SweepFails(p)]_vars)
        => <>[](db[s] = NoRow \/ db[s].status = Expired \/ db[s].age = Null)
=============================================================================
