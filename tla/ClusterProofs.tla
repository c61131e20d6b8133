---------------------------- MODULE ClusterProofs ----------------------------
(***************************************************************************)
(* Proofs about Registration and about Cluster, which composes it with the *)
(* indexes, for any number of pods, backends, identities, tools and lost   *)
(* broadcasts and any bounds.                                              *)
(*                                                                         *)
(* The registry.  Its inductive invariant adds three facts to the          *)
(* properties: ids that are in use were generated (IdsGenerated), no two   *)
(* rows share one (IdsUnique), and a request that is about to use its      *)
(* record has one (RecordHeld).                                            *)
(*                                                                         *)
(* The indexes.  Every index entry was once a stored, active registration. *)
(* This is not inductive: an entry comes from a record that a request or a *)
(* subscriber read some steps earlier.  The invariant says the same of     *)
(* those records and of the active rows (Sources), and rests on the types  *)
(* of the registry.                                                        *)
(***************************************************************************)
EXTENDS Cluster, TLAPS

IdsGenerated ==
    /\ \A s \in Spiffes : db[s] # NoRow => db[s].id < nextId
    /\ \A b \in Backends : snap[b] # NoRow => snap[b].id < nextId
    /\ \A b \in Backends : lease[b].id < nextId
    /\ \A i \in deleted : i < nextId

IdsUnique ==
    \A s, t \in Spiffes :
        db[s] # NoRow /\ db[t] # NoRow /\ db[s].id = db[t].id => s = t

RecordHeld ==
    \A b \in Backends :
        pc[b] \in {"regPublish", "hbStatus", "hbPublish", "hbTouch", "deregDelete",
                   "deregPublish", "sync", "drop"} => snap[b] # NoRow

Inv ==
    /\ TypeOK
    /\ IdsGenerated
    /\ IdsUnique
    /\ RecordHeld
    /\ DeletedStaysDeleted
    /\ AckedLeaseWasPublished
    /\ OwnRowOnly

\* The initial state, an empty table, satisfies the invariant.
LEMMA InitInv == Init => Inv
  BY TTLAssumption
  DEF Init, Inv, TypeOK, IdsGenerated, IdsUnique, RecordHeld, DeletedStaysDeleted,
      AckedLeaseWasPublished, OwnRowOnly, Steps, Lease, NoLease

-----------------------------------------------------------------------------
(* What a statement may do to a row: leave it, delete it, or replace it by *)
(* one with the same id that is acknowledged only if its lease was         *)
(* published.                                                              *)

Told(r) == \E e \in published : e.id = r.id /\ e.epoch = r.epoch

Kept(s) ==
    \/ db'[s] = db[s]
    \/ db'[s] = NoRow
    \/ /\ db[s] # NoRow /\ db'[s] # NoRow /\ db'[s].id = db[s].id
       /\ db'[s].sync = Acked => Told(db'[s])

\* Where a record or a lease that a client holds after a step comes from: it
\* held the id before, or read it in its own row.
Inherited(b, i) ==
    \/ i = 0
    \/ snap[b] # NoRow /\ i = snap[b].id
    \/ i = lease[b].id
    \/ db[Identity[b]] # NoRow /\ i = db[Identity[b]].id

\* Statements that keep rows and clients that inherit ids preserve everything
\* but the types.
LEMMA KeptStep ==
  ASSUME Inv, TypeOK',
         \A s \in Spiffes : Kept(s),
         \A b \in Backends : snap'[b] # NoRow => Inherited(b, snap'[b].id),
         \A b \in Backends : Inherited(b, lease'[b].id),
         nextId' = nextId,
         published \subseteq published',
         \A i \in deleted' : i \in deleted \/ (i < nextId /\ \A s \in Spiffes : db'[s] # NoRow => db'[s].id # i)
  PROVE  /\ IdsGenerated' /\ IdsUnique' /\ DeletedStaysDeleted'
         /\ AckedLeaseWasPublished' /\ OwnRowOnly'
<1> USE DEF Inv
<1>1. \A s \in Spiffes : db'[s] # NoRow => db[s] # NoRow /\ db'[s].id = db[s].id
  BY Zenon DEF Kept
<1>2. IdsUnique'
  BY <1>1 DEF IdsUnique
<1>3. DeletedStaysDeleted'
  BY <1>1, Zenon DEF DeletedStaysDeleted
<1>4. AckedLeaseWasPublished'
  <2> SUFFICES ASSUME NEW s \in Spiffes, db'[s] # NoRow, db'[s].sync = Acked
               PROVE  \E e \in published' : e.id = db'[s].id /\ e.epoch = db'[s].epoch
    BY Zenon DEF AckedLeaseWasPublished
  <2>1. Told(db'[s])
    BY <1>1 DEF Kept, AckedLeaseWasPublished, Told
  <2> QED BY <2>1, Zenon DEF Told
<1>5. OwnRowOnly'
  <2> SUFFICES ASSUME NEW b \in Backends, NEW s \in Spiffes, db'[s] # NoRow,
                      lease'[b].id = db'[s].id \/ (snap'[b] # NoRow /\ snap'[b].id = db'[s].id)
               PROVE  s = Identity[b]
    BY Zenon DEF OwnRowOnly
  <2>1. Inherited(b, db[s].id) /\ db[s] # NoRow
    BY <1>1, Zenon
  <2>2. db[s].id # 0 /\ Identity[b] \in Spiffes
    BY <2>1, IdentityAssumption, Zenon DEF TypeOK, Row
  <2> QED BY <2>1, <2>2, Zenon DEF Inherited, OwnRowOnly, IdsUnique
<1>6. IdsGenerated'
  <2>1. \A b \in Backends : Inherited(b, lease'[b].id) => lease'[b].id < nextId
    BY IdentityAssumption DEF Inherited, IdsGenerated, TypeOK
  <2>2. \A b \in Backends : snap'[b] # NoRow /\ Inherited(b, snap'[b].id) => snap'[b].id < nextId
    BY IdentityAssumption DEF Inherited, IdsGenerated, TypeOK
  <2> QED BY <1>1, <2>1, <2>2, Zenon DEF IdsGenerated
<1> QED BY <1>2, <1>3, <1>4, <1>5, <1>6, Zenon

-----------------------------------------------------------------------------
(* Types of the values the steps build.                                    *)

\* Ages stay in their range when time passes.
LEMMA AgesClosed == Null \in Ages /\ 0 \in Ages /\ \A a \in Ages : Later(a) \in Ages
  BY TTLAssumption, TickAssumption DEF Null, Ages, Later, MaxAge, ExpireAfter

\* Register builds well-typed, unacknowledged records.
LEMMA NewRecordType ==
  ASSUME NEW b \in Backends, NEW i \in Nat \ {0}, NEW k \in Caps, NEW e \in Nat \ {0}
  PROVE  /\ NewRecord(b, i, k, e) \in Row
         /\ NewRecord(b, i, k, e) # NoRow
         /\ NewRecord(b, i, k, e).id = i
         /\ NewRecord(b, i, k, e).epoch = e
         /\ NewRecord(b, i, k, e).sync # Acked
  BY AgesClosed, NoRowAssumption DEF NewRecord, Row, Statuses, Active, Unacked, Acked

\* What hold keeps of a record.
View(r) == [id |-> r.id, host |-> r.host, caps |-> r.caps,
            status |-> r.status, epoch |-> r.epoch]

\* The view a request keeps of a row is well-typed and has its id.
LEMMA ViewType ==
  ASSUME NEW r \in Row
  PROVE  View(r) \in Held /\ View(r) # NoRow /\ View(r).id = r.id
  BY NoRowAssumption DEF View, Row, Held

\* Every record, stored or held, makes a well-typed event.
LEMMA EventType ==
  ASSUME NEW r \in Row \cup Held
  PROVE  EventOf(r) \in Event
  BY Zenon DEF EventOf, Event, Row, Held

\* UpdateStatus keeps rows, their ids and leases, and their types.
LEMMA UpdateStatusKeeps ==
  ASSUME TypeOK, AckedLeaseWasPublished, NEW i, NEW st \in Statuses, UpdateStatus(i, st)
  PROVE  db' \in [Spiffes -> Row \cup {NoRow}] /\ \A s \in Spiffes : Kept(s)
<1>1. \A s \in Spiffes : db[s] # NoRow =>
         /\ [db[s] EXCEPT !.status = st] \in Row
         /\ [db[s] EXCEPT !.status = st] # NoRow
         /\ [db[s] EXCEPT !.status = st].id = db[s].id
         /\ [db[s] EXCEPT !.status = st].epoch = db[s].epoch
         /\ [db[s] EXCEPT !.status = st].sync = db[s].sync
  BY NoRowAssumption DEF TypeOK, Row
<1> QED BY <1>1 DEF UpdateStatus, Holds, TypeOK, Kept, Told, AckedLeaseWasPublished

\* So does UpdateHeartbeat.
LEMMA UpdateHeartbeatKeeps ==
  ASSUME TypeOK, AckedLeaseWasPublished, NEW i, UpdateHeartbeat(i)
  PROVE  db' \in [Spiffes -> Row \cup {NoRow}] /\ \A s \in Spiffes : Kept(s)
<1>1. \A s \in Spiffes : db[s] # NoRow =>
         /\ [db[s] EXCEPT !.age = 0] \in Row
         /\ [db[s] EXCEPT !.age = 0] # NoRow
         /\ [db[s] EXCEPT !.age = 0].id = db[s].id
         /\ [db[s] EXCEPT !.age = 0].epoch = db[s].epoch
         /\ [db[s] EXCEPT !.age = 0].sync = db[s].sync
  BY AgesClosed, NoRowAssumption DEF TypeOK, Row
<1> QED BY <1>1 DEF UpdateHeartbeat, Holds, TypeOK, Kept, Told, AckedLeaseWasPublished

\* Delete only removes a row, whose id was generated and is then nowhere.
LEMMA DeleteKeeps ==
  ASSUME TypeOK, IdsGenerated, NEW i, Delete(i)
  PROVE  /\ db' \in [Spiffes -> Row \cup {NoRow}]
         /\ \A s \in Spiffes : Kept(s)
         /\ deleted' \in SUBSET (Nat \ {0})
         /\ \A j \in deleted' : j \in deleted \/ (j < nextId /\ \A s \in Spiffes : db'[s] # NoRow => db'[s].id # j)
<1>1. db' \in [Spiffes -> Row \cup {NoRow}] /\ \A s \in Spiffes : Kept(s)
  BY Zenon DEF Delete, TypeOK, Kept
<1>2. \A s \in Spiffes : Holds(s, i) => i \in Nat \ {0} /\ i < nextId
  BY Zenon DEF Holds, TypeOK, Row, IdsGenerated
<1>3. \A s \in Spiffes : db'[s] # NoRow => db'[s].id # i
  BY Zenon DEF Delete, Holds
<1>4. \A j \in deleted' : j \in deleted \/ (j = i /\ \E s \in Spiffes : Holds(s, i))
  BY Zenon DEF Delete
<1>5. \A j \in deleted' : j \in deleted \/ (j \in Nat \ {0} /\ j < nextId /\ j = i)
  BY <1>2, <1>4, Zenon
<1> QED BY <1>1, <1>3, <1>5, Zenon DEF TypeOK

-----------------------------------------------------------------------------
(* Each step preserves the invariant.                                      *)

\* Steps of a request, and of a backend's life, that leave the table alone:
\* they end at a step whose record is there, and hold nothing but an id that
\* the client had or read in its own row.
LEMMA ClientStep ==
  ASSUME Inv, NEW b \in Backends, NEW step \in Steps,
         NEW h \in Held \cup {NoRow}, NEW l \in Lease,
         pc' = [pc EXCEPT ![b] = step],
         snap' = [snap EXCEPT ![b] = h],
         lease' = [lease EXCEPT ![b] = l],
         step \in {"regPublish", "hbStatus", "hbPublish", "hbTouch", "deregDelete",
                   "deregPublish", "sync", "drop"} => h # NoRow,
         h # NoRow => Inherited(b, h.id),
         Inherited(b, l.id),
         published' \in SUBSET Event, published \subseteq published',
         UNCHANGED <<db, nextId, sweeper, deleted>>
  PROVE  Inv'
<1> USE DEF Inv
<1>1. TypeOK'
  BY Zenon DEF TypeOK, sweeper
<1>2. RecordHeld'
  BY Zenon DEF RecordHeld, TypeOK
<1>3. \A s \in Spiffes : Kept(s)
  BY Zenon DEF Kept
<1>4. \A c \in Backends : snap'[c] # NoRow => Inherited(c, snap'[c].id)
  BY Zenon DEF Inherited, TypeOK
<1>5. \A c \in Backends : Inherited(c, lease'[c].id)
  BY Zenon DEF Inherited, TypeOK
<1>6. \A i \in deleted' : i \in deleted
  BY Zenon
<1> QED BY <1>1, <1>2, <1>3, <1>4, <1>5, <1>6, KeptStep, Zenon DEF sweeper

\* Steps of a request that write the table and keep what the client holds.
LEMMA WriteStep ==
  ASSUME Inv, NEW b \in Backends, NEW step \in Steps,
         pc' = [pc EXCEPT ![b] = step],
         snap[b] # NoRow,
         UNCHANGED <<snap, lease, nextId, sweeper, published>>,
         db' \in [Spiffes -> Row \cup {NoRow}],
         \A s \in Spiffes : Kept(s),
         deleted' \in SUBSET (Nat \ {0}),
         \A i \in deleted' : i \in deleted \/ (i < nextId /\ \A s \in Spiffes : db'[s] # NoRow => db'[s].id # i)
  PROVE  Inv'
<1> USE DEF Inv
<1>1. TypeOK'
  BY Zenon DEF TypeOK, sweeper
<1>2. RecordHeld'
  BY Zenon DEF RecordHeld, TypeOK
<1>3. \A c \in Backends : snap'[c] # NoRow => Inherited(c, snap'[c].id)
  BY Zenon DEF Inherited
<1>4. \A c \in Backends : Inherited(c, lease'[c].id)
  BY Zenon DEF Inherited
<1> QED BY <1>1, <1>2, <1>3, <1>4, KeptStep, Zenon DEF sweeper

\* Steps outside the requests.
LEMMA OtherStep ==
  ASSUME Inv, UNCHANGED <<service, nextId>>,
         db' \in [Spiffes -> Row \cup {NoRow}],
         \A s \in Spiffes : Kept(s),
         sweep' \in [Pods -> {"idle", "stale", "expired"}],
         todo' \in [Pods -> SUBSET Listed],
         victim' \in [Pods -> Nat],
         published' \in SUBSET Event, published \subseteq published',
         deleted' \in SUBSET (Nat \ {0}),
         \A i \in deleted' : i \in deleted \/ (i < nextId /\ \A s \in Spiffes : db'[s] # NoRow => db'[s].id # i)
  PROVE  Inv'
<1> USE DEF Inv
<1>1. TypeOK'
  BY Zenon DEF TypeOK, service
<1>2. RecordHeld'
  BY Zenon DEF RecordHeld, service
<1>3. \A c \in Backends : snap'[c] # NoRow => Inherited(c, snap'[c].id)
  BY Zenon DEF Inherited, service
<1>4. \A c \in Backends : Inherited(c, lease'[c].id)
  BY Zenon DEF Inherited, service
<1> QED BY <1>1, <1>2, <1>3, <1>4, KeptStep, Zenon DEF service

\* The steps of a registration.
LEMMA RegisterInv ==
  ASSUME Inv, NEW b \in Backends, Register(b)
  PROVE  Inv'
<1> USE DEF Inv, goto, keep, hold, forget, Steps
<1>0. /\ Identity[b] \in Spiffes
      /\ lease[b] \in Lease /\ snap[b] \in Held \cup {NoRow}
      /\ NoLease \in Lease /\ NoLease.id = 0
      /\ lease = [lease EXCEPT ![b] = lease[b]]
      /\ snap = [snap EXCEPT ![b] = snap[b]]
  BY IdentityAssumption, Zenon DEF TypeOK, NoLease, Lease
<1>1. CASE RegisterLookup(b)
  <2>0. /\ pc' = [pc EXCEPT ![b] = "regWrite"]
        /\ lease' = [lease EXCEPT ![b] = lease[b]]
        /\ Inherited(b, lease[b].id)
        /\ published' \in SUBSET Event /\ published \subseteq published'
        /\ UNCHANGED <<db, nextId, sweeper, deleted>>
    BY <1>0, <1>1, Zenon DEF RegisterLookup, Inherited, TypeOK
  <2>1. CASE db[Identity[b]] = NoRow
    <3>1. snap' = [snap EXCEPT ![b] = NoRow]
      BY <1>1, <2>1, Zenon DEF RegisterLookup
    <3> QED BY <1>0, <2>0, <3>1, ClientStep, Zenon
  <2>2. CASE db[Identity[b]] # NoRow
    <3>1. db[Identity[b]] \in Row
      BY <1>0, <2>2 DEF TypeOK
    <3>2. /\ View(db[Identity[b]]) \in Held /\ View(db[Identity[b]]) # NoRow
          /\ Inherited(b, View(db[Identity[b]]).id)
      BY <3>1, <2>2, ViewType, Zenon DEF Inherited
    <3>3. snap' = [snap EXCEPT ![b] = View(db[Identity[b]])]
      BY <1>1, <2>2, Zenon DEF RegisterLookup, View
    <3> QED BY <1>0, <2>0, <3>2, <3>3, ClientStep, Zenon
  <2> QED BY <2>1, <2>2, Zenon
<1>2. CASE RegisterUpdate(b)
  <2>1. PICK k \in Caps :
           /\ Update(NewRecord(b, snap[b].id, k, snap[b].epoch + 1))
           /\ hold(b, NewRecord(b, snap[b].id, k, snap[b].epoch + 1))
    BY <1>2, Zenon DEF RegisterUpdate
  <2> DEFINE r == NewRecord(b, snap[b].id, k, snap[b].epoch + 1)
  <2>2. snap[b].id \in Nat \ {0} /\ snap[b].epoch + 1 \in Nat \ {0} /\ snap[b] # NoRow
    BY <1>0, <1>2 DEF RegisterUpdate, Held
  <2>3. r \in Row /\ r # NoRow /\ r.id = snap[b].id /\ r.sync # Acked
    BY <2>2, NewRecordType
  <2>4. View(r) \in Held /\ View(r).id = snap[b].id
    BY <2>3, ViewType, Zenon
  <2> HIDE DEF r
  <2>5. /\ db' = [s \in Spiffes |-> IF Holds(s, r.id) THEN r ELSE db[s]]
        /\ snap' = [snap EXCEPT ![b] = View(r)]
    BY <2>1, Zenon DEF r, Update, View
  <2>6. \A s \in Spiffes : Kept(s)
    BY <2>3, <2>5, Zenon DEF Kept, Holds
  <2>7. TypeOK'
    BY <1>2, <2>3, <2>4, <2>5, Zenon DEF RegisterUpdate, TypeOK, sweeper
  <2>8. RecordHeld'
    BY <1>2, <2>3, <2>5, ViewType, Zenon DEF RegisterUpdate, RecordHeld, TypeOK
  <2>9. \A c \in Backends : snap'[c] # NoRow => Inherited(c, snap'[c].id)
    BY <2>2, <2>4, <2>5, Zenon DEF Inherited, TypeOK
  <2>10. \A c \in Backends : Inherited(c, lease'[c].id)
    BY <1>2, Zenon DEF RegisterUpdate, Inherited
  <2> QED BY <1>2, <2>6, <2>7, <2>8, <2>9, <2>10, KeptStep, Zenon DEF RegisterUpdate
<1>3. CASE RegisterDuplicate(b)
  BY <1>0, <1>3, ClientStep, Zenon DEF RegisterDuplicate, Restart, Inherited, TypeOK
<1>4. CASE RegisterPublish(b)
  <2>1. snap[b] \in Held /\ snap[b] # NoRow
    BY <1>0, <1>4, Zenon DEF RegisterPublish, RecordHeld
  <2>2. [id |-> snap[b].id, epoch |-> snap[b].epoch] \in Lease
    BY <2>1, Zenon DEF Held, Lease
  <2>3. published' \in SUBSET Event /\ published \subseteq published'
    BY <1>4, <2>1, EventType, Zenon DEF RegisterPublish, TypeOK
  <2>4. Inherited(b, [id |-> snap[b].id, epoch |-> snap[b].epoch].id) /\ Inherited(b, snap[b].id)
    BY <2>1, Zenon DEF Inherited
  <2> QED BY <1>0, <1>4, <2>1, <2>2, <2>3, <2>4, ClientStep, Zenon DEF RegisterPublish
<1>5. CASE RegisterCreate(b)
  <2>1. PICK k \in Caps :
           /\ hold(b, NewRecord(b, nextId, k, 1))
           /\ db' = [db EXCEPT ![Identity[b]] = NewRecord(b, nextId + 1, k, 1)]
    BY <1>5, Zenon DEF RegisterCreate
  <2> DEFINE m == NewRecord(b, nextId, k, 1)
             r == NewRecord(b, nextId + 1, k, 1)
  <2>2. /\ m \in Row /\ m.id = nextId
        /\ r \in Row /\ r # NoRow /\ r.id = nextId + 1 /\ r.sync # Acked
    BY NewRecordType DEF TypeOK
  <2>3. View(m) \in Held /\ View(m) # NoRow /\ View(m).id = nextId
    BY <2>2, ViewType, Zenon
  <2> HIDE DEF m, r
  <2>4. /\ db' = [db EXCEPT ![Identity[b]] = r]
        /\ snap' = [snap EXCEPT ![b] = View(m)]
        /\ nextId' = nextId + 2 /\ nextId \in Nat
        /\ UNCHANGED <<lease, sweep, todo, victim, published, deleted>>
    BY <1>5, <2>1, Zenon DEF RegisterCreate, m, r, View, sweeper, TypeOK
  <2>5. /\ db'[Identity[b]] = r
        /\ \A s \in Spiffes : s # Identity[b] => db'[s] = db[s]
        /\ snap'[b] = View(m)
        /\ \A c \in Backends : c # b => snap'[c] = snap[c]
    BY <1>0, <2>4, Zenon DEF TypeOK
  <2>6. TypeOK'
    <3>1. pc' \in [Backends -> Steps] /\ nextId' \in Nat \ {0}
      BY <1>5, <2>4 DEF RegisterCreate, TypeOK
    <3>2. db' \in [Spiffes -> Row \cup {NoRow}] /\ snap' \in [Backends -> Held \cup {NoRow}]
      BY <2>2, <2>3, <2>4, Zenon DEF TypeOK
    <3> QED BY <2>4, <3>1, <3>2, Zenon DEF TypeOK
  <2>7. RecordHeld'
    BY <1>5, <2>3, <2>4, Zenon DEF RegisterCreate, RecordHeld, TypeOK
  <2>8. IdsGenerated'
    BY <2>2, <2>3, <2>4, <2>5, SMTT(30) DEF IdsGenerated, TypeOK, Row, Held, Lease
  <2>9. IdsUnique'
    BY <2>2, <2>4, <2>5, SMTT(30) DEF IdsUnique, IdsGenerated, TypeOK, Row
  <2>10. DeletedStaysDeleted'
    BY <2>2, <2>4, <2>5 DEF DeletedStaysDeleted, IdsGenerated, TypeOK
  <2>11. AckedLeaseWasPublished'
    BY <2>2, <2>4, <2>5 DEF AckedLeaseWasPublished
  <2>12. OwnRowOnly'
    BY <2>2, <2>3, <2>4, <2>5, SMTT(30) DEF OwnRowOnly, IdsGenerated, TypeOK, Row, Held, Lease
  <2> QED BY <2>6, <2>7, <2>8, <2>9, <2>10, <2>11, <2>12, Zenon
<1> QED BY <1>1, <1>2, <1>3, <1>4, <1>5, Zenon DEF Register

\* The steps of a heartbeat.
LEMMA HeartbeatInv ==
  ASSUME Inv, NEW b \in Backends, Heartbeat(b)
  PROVE  Inv'
<1> USE DEF Inv, goto, keep, hold, forget, Steps
<1>0. /\ lease[b] \in Lease
      /\ NoLease \in Lease /\ Inherited(b, NoLease.id) /\ Inherited(b, lease[b].id)
      /\ lease = [lease EXCEPT ![b] = lease[b]]
      /\ published \in SUBSET Event
  BY Zenon DEF TypeOK, NoLease, Lease, Inherited
<1>1. \A s \in Spiffes : Holds(s, lease[b].id) =>
         View(db[s]) \in Held /\ View(db[s]) # NoRow /\ Inherited(b, View(db[s]).id)
  BY ViewType, Zenon DEF Holds, TypeOK, Inherited
<1>2. CASE HeartbeatMismatch(b)
  <2>1. PICK s \in Spiffes :
           /\ Holds(s, lease[b].id)
           /\ hold(b, db[s])
           /\ goto(b, IF db[s].status = Active THEN "sync" ELSE "drop")
    BY <1>2, Zenon DEF HeartbeatMismatch
  <2> DEFINE step == IF db[s].status = Active THEN "sync" ELSE "drop"
  <2>2. /\ step \in Steps
        /\ pc' = [pc EXCEPT ![b] = step]
        /\ snap' = [snap EXCEPT ![b] = View(db[s])]
        /\ lease' = [lease EXCEPT ![b] = NoLease]
        /\ UNCHANGED <<db, nextId, sweeper, deleted, published>>
    BY <1>2, <2>1, Zenon DEF HeartbeatMismatch, View
  <2> HIDE DEF step
  <2> QED BY <1>0, <1>1, <2>1, <2>2, ClientStep, Zenon
<1>3. CASE HeartbeatLookup(b)
  <2>1. PICK s \in Spiffes :
           /\ Holds(s, lease[b].id)
           /\ hold(b, db[s])
           /\ goto(b, IF db[s].status = Active THEN "hbTouch" ELSE "hbStatus")
    BY <1>3, Zenon DEF HeartbeatLookup
  <2> DEFINE step == IF db[s].status = Active THEN "hbTouch" ELSE "hbStatus"
  <2>2. /\ step \in Steps
        /\ pc' = [pc EXCEPT ![b] = step]
        /\ snap' = [snap EXCEPT ![b] = View(db[s])]
        /\ lease' = [lease EXCEPT ![b] = lease[b]]
        /\ UNCHANGED <<db, nextId, sweeper, deleted, published>>
    BY <1>0, <1>3, <2>1, Zenon DEF HeartbeatLookup, View
  <2> HIDE DEF step
  <2> QED BY <1>0, <1>1, <2>1, <2>2, ClientStep, Zenon
<1>4. CASE HeartbeatRefused(b)
  BY <1>0, <1>4, ClientStep, Zenon DEF HeartbeatRefused, Restart
<1>5. CASE HeartbeatStatus(b)
  <2>1. db' \in [Spiffes -> Row \cup {NoRow}] /\ \A s \in Spiffes : Kept(s)
    BY <1>5, UpdateStatusKeeps, Zenon DEF HeartbeatStatus, Statuses
  <2>2. snap[b] # NoRow
    BY <1>5, Zenon DEF HeartbeatStatus, RecordHeld
  <2>3. deleted' = deleted /\ deleted \in SUBSET (Nat \ {0})
    BY <1>5, Zenon DEF HeartbeatStatus, TypeOK
  <2> QED BY <1>5, <2>1, <2>2, <2>3, WriteStep, Zenon DEF HeartbeatStatus
<1>6. CASE HeartbeatPublish(b)
  <2>1. snap[b] \in Held /\ snap[b] # NoRow /\ Inherited(b, snap[b].id)
    BY <1>6, Zenon DEF HeartbeatPublish, RecordHeld, TypeOK, Inherited
  <2>2. snap' = [snap EXCEPT ![b] = snap[b]] /\ lease' = [lease EXCEPT ![b] = lease[b]]
    BY <1>0, <1>6, Zenon DEF HeartbeatPublish, TypeOK
  <2> QED BY <1>0, <1>6, <2>1, <2>2, ClientStep, Zenon DEF HeartbeatPublish
<1>7. CASE HeartbeatTouch(b)
  <2>1. db' \in [Spiffes -> Row \cup {NoRow}] /\ \A s \in Spiffes : Kept(s)
    BY <1>7, UpdateHeartbeatKeeps, Zenon DEF HeartbeatTouch
  <2>2. snap[b] # NoRow
    BY <1>7, Zenon DEF HeartbeatTouch, RecordHeld
  <2>3. deleted' = deleted /\ deleted \in SUBSET (Nat \ {0})
    BY <1>7, Zenon DEF HeartbeatTouch, TypeOK
  <2> QED BY <1>7, <2>1, <2>2, <2>3, WriteStep, Zenon DEF HeartbeatTouch
<1> QED BY <1>2, <1>3, <1>4, <1>5, <1>6, <1>7, Zenon DEF Heartbeat

\* The steps of a deregistration.
LEMMA DeregisterInv ==
  ASSUME Inv, NEW b \in Backends, Deregister(b)
  PROVE  Inv'
<1> USE DEF Inv, goto, keep, hold, forget, Steps
<1>0. /\ lease[b] \in Lease
      /\ NoLease \in Lease /\ Inherited(b, NoLease.id) /\ Inherited(b, lease[b].id)
      /\ lease = [lease EXCEPT ![b] = lease[b]]
      /\ snap = [snap EXCEPT ![b] = snap[b]]
      /\ snap[b] \in Held \cup {NoRow}
      /\ snap[b] # NoRow => Inherited(b, snap[b].id)
      /\ published \in SUBSET Event
  BY Zenon DEF TypeOK, NoLease, Lease, Inherited
<1>1. CASE DeregisterLookup(b)
  <2>0. lease' = [lease EXCEPT ![b] = NoLease] /\ UNCHANGED <<db, nextId, sweeper, deleted, published>>
    BY <1>1, Zenon DEF DeregisterLookup
  <2>1. CASE \E s \in Spiffes : /\ Holds(s, lease[b].id) /\ s = Identity[b]
                                /\ hold(b, db[s]) /\ goto(b, "deregDelete")
    <3>1. PICK s \in Spiffes : Holds(s, lease[b].id) /\ hold(b, db[s]) /\ goto(b, "deregDelete")
      BY <2>1, Zenon
    <3>2. View(db[s]) \in Held /\ View(db[s]) # NoRow /\ Inherited(b, View(db[s]).id)
      BY <3>1, ViewType, Zenon DEF Holds, TypeOK, Inherited
    <3>3. snap' = [snap EXCEPT ![b] = View(db[s])] /\ pc' = [pc EXCEPT ![b] = "deregDelete"]
      BY <3>1, Zenon DEF View
    <3> QED BY <1>0, <2>0, <3>2, <3>3, ClientStep, Zenon
  <2>2. CASE goto(b, "down") /\ UNCHANGED snap
    <3>1. snap' = [snap EXCEPT ![b] = snap[b]] /\ pc' = [pc EXCEPT ![b] = "down"]
      BY <1>0, <2>2, Zenon
    <3> QED BY <1>0, <2>0, <3>1, ClientStep, Zenon
  <2> QED BY <1>1, <2>1, <2>2, Zenon DEF DeregisterLookup
<1>2. CASE DeregisterDelete(b)
  <2>1. /\ db' \in [Spiffes -> Row \cup {NoRow}]
        /\ \A s \in Spiffes : Kept(s)
        /\ deleted' \in SUBSET (Nat \ {0})
        /\ \A j \in deleted' : j \in deleted \/ (j < nextId /\ \A s \in Spiffes : db'[s] # NoRow => db'[s].id # j)
    BY <1>2, DeleteKeeps, Zenon DEF DeregisterDelete
  <2>2. snap[b] # NoRow
    BY <1>2, Zenon DEF DeregisterDelete, RecordHeld
  <2> QED BY <1>2, <2>1, <2>2, WriteStep, Zenon DEF DeregisterDelete
<1>3. CASE DeregisterPublish(b)
  <2>1. lease' = [lease EXCEPT ![b] = lease[b]]
    BY <1>0, <1>3, Zenon DEF DeregisterPublish
  <2> QED BY <1>0, <1>3, <2>1, ClientStep, Zenon DEF DeregisterPublish
<1> QED BY <1>1, <1>2, <1>3, Zenon DEF Deregister

\* The ends of a request, its failure, and the life of a backend process.
LEMMA ClientInv ==
  ASSUME Inv, NEW b \in Backends,
         \/ SyncGet(b) \/ SyncGetFails(b) \/ Reply(b)
         \/ RequestFails(b) \/ Crash(b) \/ Boot(b)
  PROVE  Inv'
<1> USE DEF Inv, goto, keep, hold, forget, Steps
<1>0. /\ lease[b] \in Lease
      /\ NoLease \in Lease /\ Inherited(b, NoLease.id) /\ Inherited(b, lease[b].id)
      /\ lease = [lease EXCEPT ![b] = lease[b]]
      /\ snap = [snap EXCEPT ![b] = snap[b]]
      /\ snap[b] \in Held \cup {NoRow}
      /\ snap[b] # NoRow => Inherited(b, snap[b].id)
      /\ published \in SUBSET Event
  BY Zenon DEF TypeOK, NoLease, Lease, Inherited
<1>1. CASE SyncGet(b)
  <2>0. /\ pc' = [pc EXCEPT ![b] = "apply"]
        /\ lease' = [lease EXCEPT ![b] = lease[b]]
        /\ UNCHANGED <<db, nextId, sweeper, deleted, published>>
        /\ snap[b] # NoRow
    BY <1>0, <1>1, Zenon DEF SyncGet, RecordHeld
  <2>1. CASE \E s \in Spiffes : Holds(s, snap[b].id) /\ hold(b, db[s])
    <3>1. PICK s \in Spiffes : Holds(s, snap[b].id) /\ hold(b, db[s])
      BY <2>1, Zenon
    <3>2. View(db[s]) \in Held /\ View(db[s]) # NoRow /\ Inherited(b, View(db[s]).id)
      BY <2>0, <3>1, ViewType, Zenon DEF Holds, TypeOK, Inherited
    <3>3. snap' = [snap EXCEPT ![b] = View(db[s])]
      BY <3>1, Zenon DEF View
    <3> QED BY <1>0, <2>0, <3>2, <3>3, ClientStep, Zenon
  <2>2. CASE forget(b)
    BY <1>0, <2>0, <2>2, ClientStep, Zenon
  <2> QED BY <1>1, <2>1, <2>2, Zenon DEF SyncGet
<1>2. CASE Reply(b)
  <2> DEFINE step == IF lease[b] = NoLease THEN "start" ELSE "up"
  <2>1. /\ step \in {"start", "up"}
        /\ pc' = [pc EXCEPT ![b] = step]
        /\ snap' = [snap EXCEPT ![b] = NoRow]
        /\ lease' = [lease EXCEPT ![b] = lease[b]]
        /\ UNCHANGED <<db, nextId, sweeper, deleted, published>>
    BY <1>0, <1>2, Zenon DEF Reply
  <2> HIDE DEF step
  <2> QED BY <1>0, <2>1, ClientStep, Zenon
<1>3. CASE RequestFails(b)
  <2>0. snap' = [snap EXCEPT ![b] = NoRow] /\ UNCHANGED <<db, nextId, sweeper, deleted, published>>
    BY <1>3, Zenon DEF RequestFails, Restart
  <2>1. \/ pc' = [pc EXCEPT ![b] = "down"] /\ lease' = [lease EXCEPT ![b] = lease[b]]
        \/ pc' = [pc EXCEPT ![b] = "start"] /\ lease' = [lease EXCEPT ![b] = NoLease]
    BY <1>0, <1>3, Zenon DEF RequestFails, Restart
  <2> QED BY <1>0, <2>0, <2>1, ClientStep, Zenon
<1>4. CASE Crash(b)
  <2>1. snap' = [snap EXCEPT ![b] = snap[b]]
    BY <1>0, <1>4, Zenon DEF Crash
  <2> QED BY <1>0, <1>4, <2>1, ClientStep, ZenonT(60) DEF Crash
<1>5. CASE Boot(b)
  <2>1. snap' = [snap EXCEPT ![b] = snap[b]] /\ lease' = [lease EXCEPT ![b] = lease[b]]
    BY <1>0, <1>5, Zenon DEF Boot
  <2> QED BY <1>0, <1>5, <2>1, ClientStep, Zenon DEF Boot
<1>6. CASE SyncGetFails(b)
  <2>1. lease' = [lease EXCEPT ![b] = lease[b]]
    BY <1>0, <1>6, Zenon DEF SyncGetFails
  <2> QED BY <1>0, <1>6, <2>1, ClientStep, Zenon DEF SyncGetFails
<1> QED BY <1>1, <1>2, <1>3, <1>4, <1>5, <1>6, Zenon

\* The sweeper.
LEMMA SweepInv ==
  ASSUME Inv, NEW p \in Pods, Sweep(p) \/ SweepFails(p)
  PROVE  Inv'
<1> USE DEF Inv
<1>0. /\ published \in SUBSET Event /\ deleted \in SUBSET (Nat \ {0})
      /\ db \in [Spiffes -> Row \cup {NoRow}]
      /\ sweep \in [Pods -> {"idle", "stale", "expired"}]
      /\ todo \in [Pods -> SUBSET Listed]
      /\ victim \in [Pods -> Nat]
  BY Zenon DEF TypeOK
<1>1. ListStale \in SUBSET Listed /\ ListExpired \in SUBSET Listed
  BY <1>0 DEF ListStale, ListExpired, SilentFor, Listed, Row
<1>2. UNCHANGED db => \A s \in Spiffes : Kept(s)
  BY Zenon DEF Kept
<1>3. CASE SweepStale(p)
  BY <1>0, <1>1, <1>2, <1>3, OtherStep, Zenon DEF SweepStale
<1>4. CASE MarkStale(p)
  <2>1. PICK r \in todo[p] : UpdateStatus(r.id, Stale) /\ todo' = [todo EXCEPT ![p] = @ \ {r}]
    BY <1>4, Zenon DEF MarkStale
  <2>2. db' \in [Spiffes -> Row \cup {NoRow}] /\ \A s \in Spiffes : Kept(s)
    BY <2>1, UpdateStatusKeeps, Zenon DEF Statuses
  <2>3. todo' \in [Pods -> SUBSET Listed]
    BY <1>0, <2>1, Zenon
  <2> QED BY <1>0, <1>4, <2>2, <2>3, OtherStep, Zenon DEF MarkStale
<1>5. CASE SweepExpired(p)
  BY <1>0, <1>1, <1>2, <1>5, OtherStep, Zenon DEF SweepExpired
<1>6. CASE MarkExpired(p)
  <2>1. PICK r \in todo[p] : /\ UpdateStatus(r.id, Expired)
                             /\ todo' = [todo EXCEPT ![p] = @ \ {r}]
                             /\ victim' = [victim EXCEPT ![p] = r.id]
    BY <1>6, Zenon DEF MarkExpired
  <2>2. db' \in [Spiffes -> Row \cup {NoRow}] /\ \A s \in Spiffes : Kept(s)
    BY <2>1, UpdateStatusKeeps, Zenon DEF Statuses
  <2>3. todo' \in [Pods -> SUBSET Listed] /\ victim' \in [Pods -> Nat]
    BY <1>0, <2>1 DEF Listed
  <2> QED BY <1>0, <1>6, <2>2, <2>3, OtherStep, Zenon DEF MarkExpired
<1>7. CASE Unindex(p)
  BY <1>0, <1>2, <1>7, OtherStep, Zenon DEF Unindex
<1>8. CASE SweepDone(p)
  BY <1>0, <1>2, <1>8, OtherStep, Zenon DEF SweepDone
<1>9. CASE SweepFails(p)
  <2>1. todo' \in [Pods -> SUBSET Listed]
    BY <1>0, <1>9, Zenon DEF SweepFails
  <2> QED BY <1>0, <1>2, <1>9, <2>1, OtherStep, Zenon DEF SweepFails
<1> QED BY <1>3, <1>4, <1>5, <1>6, <1>7, <1>8, <1>9, Zenon DEF Sweep

\* Acknowledgements, replays, deletions and time.
LEMMA EnvironmentInv ==
  ASSUME Inv,
         \/ \E e \in published : Acknowledge(e)
         \/ \E s \in Spiffes : AdminDelete(s)
         \/ Replay
         \/ Tick
  PROVE  Inv'
<1> USE DEF Inv
<1>0. /\ published \in SUBSET Event /\ deleted \in SUBSET (Nat \ {0})
      /\ db \in [Spiffes -> Row \cup {NoRow}]
      /\ sweep \in [Pods -> {"idle", "stale", "expired"}]
      /\ todo \in [Pods -> SUBSET Listed]
      /\ victim \in [Pods -> Nat]
  BY Zenon DEF TypeOK
<1>1. ASSUME NEW e \in published, Acknowledge(e) PROVE Inv'
  <2>1. \A s \in Spiffes : db[s] # NoRow =>
           /\ [db[s] EXCEPT !.sync = Acked] \in Row
           /\ [db[s] EXCEPT !.sync = Acked] # NoRow
           /\ [db[s] EXCEPT !.sync = Acked].id = db[s].id
           /\ [db[s] EXCEPT !.sync = Acked].epoch = db[s].epoch
    BY <1>0, NoRowAssumption DEF Row
  <2>2. \A s \in Spiffes :
           \/ db'[s] = db[s]
           \/ Holds(s, e.id) /\ db[s].epoch = e.epoch /\ db'[s] = [db[s] EXCEPT !.sync = Acked]
    BY <1>1, Zenon DEF Acknowledge, AcknowledgeServerRegistration, AcknowledgeRegistration
  <2>3. \A s \in Spiffes : db'[s] \in Row \cup {NoRow}
    BY <1>0, <2>1, <2>2, Zenon DEF Holds
  <2>4. db' \in [Spiffes -> Row \cup {NoRow}]
    <3>1. db' = [s \in Spiffes |-> db'[s]]
      BY <1>1, Zenon DEF Acknowledge, AcknowledgeServerRegistration, AcknowledgeRegistration
    <3> QED BY <2>3, <3>1, Zenon
  <2>5. \A s \in Spiffes : Kept(s)
    BY <2>1, <2>2, ZenonT(60) DEF Kept, Holds, Told
  <2> QED BY <1>0, <1>1, <2>4, <2>5, OtherStep, Zenon DEF Acknowledge, AcknowledgeServerRegistration, sweeper
<1>2. ASSUME NEW s \in Spiffes, AdminDelete(s) PROVE Inv'
  <2>1. /\ db' \in [Spiffes -> Row \cup {NoRow}]
        /\ \A u \in Spiffes : Kept(u)
        /\ deleted' \in SUBSET (Nat \ {0})
        /\ \A j \in deleted' : j \in deleted \/ (j < nextId /\ \A u \in Spiffes : db'[u] # NoRow => db'[u].id # j)
    BY <1>2, DeleteKeeps, Zenon DEF AdminDelete
  <2> QED BY <1>0, <1>2, <2>1, OtherStep, Zenon DEF AdminDelete, sweeper
<1>3. CASE Replay
  <2>1. published' \in SUBSET Event /\ published \subseteq published'
    BY <1>0, <1>3, EventType DEF Replay, List
  <2>2. \A s \in Spiffes : Kept(s)
    BY <1>3, Zenon DEF Replay, Kept
  <2> QED BY <1>0, <1>3, <2>1, <2>2, OtherStep, Zenon DEF Replay, sweeper
<1>4. CASE Tick
  <2>1. \A s \in Spiffes : db[s] # NoRow =>
           /\ [db[s] EXCEPT !.age = Later(@)] \in Row
           /\ [db[s] EXCEPT !.age = Later(@)] # NoRow
           /\ [db[s] EXCEPT !.age = Later(@)].id = db[s].id
           /\ [db[s] EXCEPT !.age = Later(@)].epoch = db[s].epoch
           /\ [db[s] EXCEPT !.age = Later(@)].sync = db[s].sync
    BY <1>0, AgesClosed, NoRowAssumption DEF Row
  <2>2. db' = [s \in Spiffes |-> IF db[s] = NoRow THEN NoRow ELSE [db[s] EXCEPT !.age = Later(@)]]
    BY <1>4, Zenon DEF Tick
  <2>3. db' \in [Spiffes -> Row \cup {NoRow}]
    BY <2>1, <2>2, Zenon
  <2>4. \A s \in Spiffes : Kept(s)
    BY <2>1, <2>2 DEF Kept, Told, AckedLeaseWasPublished
  <2> QED BY <1>0, <1>4, <2>3, <2>4, OtherStep, Zenon DEF Tick, sweeper
<1> QED BY <1>1, <1>2, <1>3, <1>4, Zenon

\* Every step preserves the invariant.
LEMMA NextInv == Inv /\ [Next]_vars => Inv'
<1> SUFFICES ASSUME Inv, [Next]_vars PROVE Inv'
  BY Zenon
<1>1. CASE Next
  BY <1>1, RegisterInv, HeartbeatInv, DeregisterInv, ClientInv, SweepInv, EnvironmentInv, Zenon DEF Next
<1>2. CASE UNCHANGED vars
  BY <1>2 DEF vars, Inv, TypeOK, IdsGenerated, IdsUnique, RecordHeld, DeletedStaysDeleted,
              AckedLeaseWasPublished, OwnRowOnly
<1> QED BY <1>1, <1>2, Zenon

-----------------------------------------------------------------------------

\* The inductive invariant holds of every behaviour of the registry.
THEOREM Invariance == Spec => []Inv
  BY InitInv, NextInv, PTL DEF Spec

\* Every record, lease and listed entry keeps its type: in particular no
\* handler stores a status other than active, stale or expired.
THEOREM TypeCorrect == Spec => []TypeOK
<1>1. Inv => TypeOK
  BY Zenon DEF Inv
<1> QED BY <1>1, Invariance, PTL

\* No interleaving of Register, Heartbeat, Deregister, the sweepers, the admin
\* and late acknowledgements resurrects a deleted registration.
THEOREM NoResurrection == Spec => []DeletedStaysDeleted
<1>1. Inv => DeletedStaysDeleted
  BY Zenon DEF Inv
<1> QED BY <1>1, Invariance, PTL

\* However late, duplicated or reordered the acknowledgements, a row in state
\* acked has a lease epoch that was published.
THEOREM AcksAreForPublishedLeases == Spec => []AckedLeaseWasPublished
<1>1. Inv => AckedLeaseWasPublished
  BY Zenon DEF Inv
<1> QED BY <1>1, Invariance, PTL

\* A request only ever addresses the row of its own SPIFFE ID.
THEOREM RequestsOwnTheirRow == Spec => []OwnRowOnly
<1>1. Inv => OwnRowOnly
  BY Zenon DEF Inv
<1> QED BY <1>1, Invariance, PTL

-----------------------------------------------------------------------------
(* The composition with the indexes of the pods.                           *)

\* The routes a record would add to an index were stored.
Known(r) == r.status = Active => Routes(r) \subseteq routable

Sources ==
    /\ \A s \in Spiffes : db[s] # NoRow => Known(db[s])
    /\ \A b \in Backends : pc[b] = "apply" /\ snap[b] # NoRow => Known(snap[b])
    /\ \A p \in Pods : fetched[p] # NoRow => Known(fetched[p])

CInv ==
    /\ CTypeOK
    /\ Inv
    /\ Sources
    /\ RoutesWereRegistered

\* Initially there are no rows, records or routes.
LEMMA CInitInv == CInit => CInv
<1> SUFFICES ASSUME CInit PROVE CInv
  BY Zenon
<1>1. Inv
  BY InitInv, Zenon DEF CInit
<1>2. CTypeOK
  BY <1>1 DEF CInit, CTypeOK, Inv
<1>3. Sources
  BY Zenon DEF CInit, Init, Sources
<1>4. RoutesWereRegistered
  BY Zenon DEF CInit, RoutesWereRegistered
<1> QED BY <1>1, <1>2, <1>3, <1>4, Zenon DEF CInv

\* The routes of a record are well-typed.
LEMMA RoutesType ==
  ASSUME NEW r \in Row \cup Held
  PROVE  Routes(r) \in SUBSET Route
  BY CapsAssumption DEF Routes, Route, Row, Held

\* A view routes exactly what its row does.
LEMMA ViewKnown ==
  ASSUME NEW r \in Row, Known(r)
  PROVE  Known(View(r))
  BY Zenon DEF Known, View, Routes

\* The routes of all active rows are well-typed.
LEMMA ActiveRoutesType ==
  ASSUME NEW d \in [Spiffes -> Row \cup {NoRow}]
  PROVE  ActiveRoutes(d) \in SUBSET Route
<1>1. \A s \in Spiffes : d[s] # NoRow => Routes(d[s]) \subseteq Route
  BY RoutesType, Zenon
<1> QED BY <1>1, Zenon DEF ActiveRoutes

\* Recording the active rows of the new table makes them known and forgets
\* nothing.
LEMMA SeenKnown ==
  ASSUME TypeOK', routable \in SUBSET Route, Seen
  PROVE  /\ routable \subseteq routable' /\ routable' \in SUBSET Route
         /\ \A s \in Spiffes : db'[s] # NoRow => Known(db[s])'
         /\ ActiveRoutes(db') \subseteq routable'
<1>1. db' \in [Spiffes -> Row \cup {NoRow}]
  BY Zenon DEF TypeOK
<1>2. ActiveRoutes(db') \in SUBSET Route
  BY <1>1, ActiveRoutesType, Zenon
<1>3. \A s \in Spiffes : db'[s] # NoRow /\ db'[s].status = Active => Routes(db'[s]) \subseteq ActiveRoutes(db')
  BY Zenon DEF ActiveRoutes
<1> QED BY <1>2, <1>3, Zenon DEF Seen, Known, Routes

\* The index operations add nothing but the record's routes.
LEMMA IndexOps ==
  ASSUME NEW x, NEW r \in Held, NEW i
  PROVE  /\ Without(x, i) \subseteq x
         /\ r.status # Active => Add(x, r) \subseteq x /\ Refresh(x, r) \subseteq x
         /\ Add(x, r) \subseteq x \cup Routes(r)
         /\ Refresh(x, r) \subseteq x \cup Routes(r)
  BY Zenon DEF Without, Add, Refresh

-----------------------------------------------------------------------------
(* Each step preserves the invariant.                                      *)

\* What every step has in common: the registry takes one of its own steps, the
\* cluster's variables keep their types, and what enters an index, the boot
\* list or a record in flight was known or has just been stored.
LEMMA ClusterStep ==
  ASSUME CInv, [Next]_vars, Seen,
         index' \in [Pods -> SUBSET Route], queue' \in [Pods -> Seq(Message)],
         fetched' \in [Pods -> Held \cup {NoRow}],
         phase' \in [Pods -> {"off", "listed", "on"}],
         boot' \in [Pods -> SUBSET Route], at' \in [Backends -> Pods], restarts' \in Nat,
         \A p \in Pods : index'[p] \cup boot'[p] \subseteq routable \cup ActiveRoutes(db'),
         \A b \in Backends : pc'[b] = "apply" /\ snap'[b] # NoRow => Known(snap'[b]),
         \A p \in Pods : fetched'[p] # NoRow => Known(fetched'[p])
  PROVE  CInv'
<1> USE DEF CInv
<1>1. Inv' /\ TypeOK'
  BY NextInv, Zenon DEF Inv
<1>2. /\ routable \subseteq routable' /\ routable' \in SUBSET Route
      /\ \A s \in Spiffes : db'[s] # NoRow => Known(db[s])'
      /\ ActiveRoutes(db') \subseteq routable'
  BY <1>1, SeenKnown, Zenon DEF CTypeOK
<1>3. CTypeOK'
  BY <1>1, <1>2, Zenon DEF CTypeOK
<1>4. Sources'
  BY <1>2, Zenon DEF Sources, Known, Routes
<1>5. RoutesWereRegistered'
  BY <1>2, Zenon DEF RoutesWereRegistered
<1> QED BY <1>1, <1>3, <1>4, <1>5, Zenon

\* No request comes to hold a record for its index.
NoNewRecord == \A c \in Backends : pc'[c] = "apply" => pc[c] = "apply" /\ snap'[c] = snap[c]

\* Only syncServer's read gives a request the record it puts into an index.
LEMMA RequestRecords ==
  ASSUME TypeOK, NEW b \in Backends,
         \/ Register(b) \/ Heartbeat(b) \/ Deregister(b) \/ Reply(b)
         \/ RequestFails(b) \/ Crash(b) \/ Boot(b)
  PROVE  NoNewRecord
<1> SUFFICES /\ DOMAIN pc = Backends /\ DOMAIN snap = Backends
             /\ \E step \in Steps \ {"apply"} : pc' = [pc EXCEPT ![b] = step]
             /\ (\E h : snap' = [snap EXCEPT ![b] = h]) \/ snap' = snap
  BY Zenon DEF NoNewRecord
<1> USE DEF goto, keep, hold, forget, Steps
<1>0. DOMAIN pc = Backends /\ DOMAIN snap = Backends
  BY Zenon DEF TypeOK
<1>1. CASE Register(b)
  BY <1>0, <1>1, Zenon DEF Register, RegisterLookup, RegisterUpdate, RegisterCreate, RegisterDuplicate,
                    RegisterPublish, Restart
<1>2. CASE Heartbeat(b)
  BY <1>0, <1>2, Zenon DEF Heartbeat, HeartbeatMismatch, HeartbeatLookup, HeartbeatRefused,
                    HeartbeatStatus, HeartbeatPublish, HeartbeatTouch, Restart
<1>3. CASE Deregister(b)
  BY <1>0, <1>3, Zenon DEF Deregister, DeregisterLookup, DeregisterDelete, DeregisterPublish
<1>4. CASE Reply(b) \/ Crash(b) \/ Boot(b)
  BY <1>0, <1>4, Zenon DEF Reply, Crash, Boot
<1>5. CASE RequestFails(b)
  BY <1>0, <1>5, Zenon DEF RequestFails, Restart
<1> QED BY <1>1, <1>2, <1>3, <1>4, <1>5, Zenon

\* Steps that leave the subscribers alone, give no request a record for its
\* index and only take routes out of the indexes.
LEMMA QuietStep ==
  ASSUME CInv, [Next]_vars, Seen, NoNewRecord,
         UNCHANGED <<fetched, boot, restarts>>,
         phase' \in [Pods -> {"off", "listed", "on"}],
         index' \in [Pods -> SUBSET Route],
         \A p \in Pods : index'[p] \subseteq index[p],
         queue' \in [Pods -> Seq(Message)], at' \in [Backends -> Pods]
  PROVE  CInv'
<1>1. \A p \in Pods : index'[p] \cup boot'[p] \subseteq routable \cup ActiveRoutes(db')
  BY Zenon DEF CInv, RoutesWereRegistered
<1>2. \A b \in Backends : pc'[b] = "apply" /\ snap'[b] # NoRow => Known(snap'[b])
  BY Zenon DEF CInv, Sources, NoNewRecord
<1>3. \A p \in Pods : fetched'[p] # NoRow => Known(fetched'[p])
  BY Zenon DEF CInv, Sources
<1>4. /\ fetched' \in [Pods -> Held \cup {NoRow}]
      /\ boot' \in [Pods -> SUBSET Route] /\ restarts' \in Nat
  BY Zenon DEF CInv, CTypeOK
<1> QED BY <1>1, <1>2, <1>3, <1>4, ClusterStep, Zenon

\* A broadcast keeps the queues well-typed, whoever gets it.
LEMMA BroadcastType ==
  ASSUME CTypeOK, NEW m \in Message, Broadcast(m)
  PROVE  queue' \in [Pods -> Seq(Message)]
  BY DEF Broadcast, CTypeOK

\* What the steps below need of the types.
LEMMA ClusterTypes ==
  ASSUME CInv
  PROVE  /\ TypeOK /\ Inv /\ routable \in SUBSET Route /\ restarts \in Nat
         /\ index \in [Pods -> SUBSET Route] /\ queue \in [Pods -> Seq(Message)]
         /\ fetched \in [Pods -> Held \cup {NoRow}]
         /\ phase \in [Pods -> {"off", "listed", "on"}]
         /\ boot \in [Pods -> SUBSET Route] /\ at \in [Backends -> Pods]
         /\ snap \in [Backends -> Held \cup {NoRow}]
         /\ db \in [Spiffes -> Row \cup {NoRow}]
  BY Zenon DEF CInv, CTypeOK, TypeOK

\* The steps of a request.
LEMMA RequestCInv ==
  ASSUME CInv, NEW b \in Backends,
         Begin(b) \/ Work(b) \/ Publish(b) \/ PublishRemoval(b) \/ Finish(b) \/ Halt(b)
  PROVE  CInv'
<1> USE ClusterTypes
<1>1. CASE Begin(b)
  <2>1. Next /\ NoNewRecord
    BY <1>1, RequestRecords, Zenon DEF Begin, Next, Register, Heartbeat, Deregister
  <2>2. /\ at' \in [Backends -> Pods] /\ Seen
        /\ UNCHANGED <<index, queue, fetched, phase, boot, restarts>>
    BY <1>1, Zenon DEF Begin
  <2> QED BY <2>1, <2>2, QuietStep, Zenon
<1>2. CASE Work(b)
  <2>0. Seen /\ UNCHANGED <<index, queue, fetched, phase, boot, at, restarts>>
    BY <1>2, Zenon DEF Work, cluster
  <2>1. CASE \/ RegisterUpdate(b) \/ RegisterCreate(b) \/ RegisterDuplicate(b)
             \/ HeartbeatStatus(b) \/ HeartbeatTouch(b) \/ DeregisterDelete(b)
    <3>1. Next /\ NoNewRecord
      BY <2>1, RequestRecords, Zenon DEF Next, Register, Heartbeat, Deregister
    <3> QED BY <2>0, <3>1, QuietStep, Zenon
  <2>2. CASE SyncGet(b) \/ SyncGetFails(b)
    <3>1. Next
      BY <2>2, Zenon DEF Next
    <3>2. /\ \A c \in Backends : c # b => pc'[c] = pc[c] /\ snap'[c] = snap[c]
          /\ \/ snap'[b] = NoRow
             \/ \E s \in Spiffes : db[s] # NoRow /\ snap'[b] = View(db[s])
      BY <2>2, Zenon DEF SyncGet, SyncGetFails, goto, keep, hold, forget, View, Holds, TypeOK
    <3>3. \A s \in Spiffes : db[s] # NoRow => Known(View(db[s]))
      BY ViewKnown, Zenon DEF CInv, Sources
    <3>4. \A c \in Backends : pc'[c] = "apply" /\ snap'[c] # NoRow => Known(snap'[c])
      BY <3>2, <3>3, Zenon DEF CInv, Sources
    <3>5. \A p \in Pods : /\ index'[p] \cup boot'[p] \subseteq routable \cup ActiveRoutes(db')
                          /\ fetched'[p] # NoRow => Known(fetched'[p])
      BY <2>0, Zenon DEF CInv, Sources, RoutesWereRegistered
    <3> QED BY <2>0, <3>1, <3>4, <3>5, ClusterStep, Zenon
  <2> QED BY <1>2, <2>1, <2>2, Zenon DEF Work
<1>3. CASE Publish(b)
  <2>1. Next /\ NoNewRecord
    BY <1>3, RequestRecords, Zenon DEF Publish, Next, Register, Heartbeat
  <2>2. snap[b] \in Held
    BY <1>3, Zenon DEF Publish, RegisterPublish, HeartbeatPublish, Inv, RecordHeld
  <2>3. refresh(snap[b].id) \in Message
    BY <2>2, Zenon DEF refresh, Message, Held
  <2>4. queue' \in [Pods -> Seq(Message)]
    BY <1>3, <2>3, BroadcastType, Zenon DEF Publish, CInv
  <2> QED BY <1>3, <2>1, <2>4, QuietStep, Zenon DEF Publish
<1>4. CASE PublishRemoval(b)
  <2>1. Next /\ NoNewRecord
    BY <1>4, RequestRecords, Zenon DEF PublishRemoval, Next, Deregister
  <2>2. snap[b] \in Held
    BY <1>4, Zenon DEF PublishRemoval, DeregisterPublish, Inv, RecordHeld
  <2>3. remove(snap[b].id) \in Message
    BY <2>2, Zenon DEF remove, Message, Held
  <2>4. queue' \in [Pods -> Seq(Message)]
    BY <1>4, <2>3, BroadcastType, Zenon DEF PublishRemoval, CInv
  <2>5. index' \in [Pods -> SUBSET Route] /\ \A p \in Pods : index'[p] \subseteq index[p]
    BY <1>4, Zenon DEF PublishRemoval, Without
  <2> QED BY <1>4, <2>1, <2>4, <2>5, QuietStep, Zenon DEF PublishRemoval
<1>5. CASE Finish(b)
  <2>1. Next /\ NoNewRecord
    BY <1>5, RequestRecords, Zenon DEF Finish, Next
  <2>2. /\ pc[b] = "apply" /\ snap[b] # NoRow => Known(snap[b])
        /\ pc[b] \in {"apply", "drop"} /\ at[b] \in Pods
    BY <1>5, Zenon DEF CInv, Sources, Finish, Reply
  <2> DEFINE x == index[at[b]]
             y == IF snap[b] = NoRow THEN x
                  ELSE IF pc[b] = "drop" THEN Without(x, snap[b].id) ELSE Add(x, snap[b])
  <2>3. x \subseteq routable
    BY <2>2, Zenon DEF CInv, RoutesWereRegistered
  <2>4. y \subseteq routable
    <3>1. CASE snap[b] = NoRow
      BY <2>3, <3>1, Zenon
    <3>2. CASE snap[b] # NoRow /\ pc[b] = "drop"
      BY <2>3, <3>2, Zenon DEF Without
    <3>3. CASE snap[b] # NoRow /\ pc[b] = "apply"
      <4>1. snap[b] \in Held /\ Known(snap[b])
        BY <2>2, <3>3, Zenon
      <4>2. Add(x, snap[b]) \subseteq routable
        BY <2>3, <4>1, IndexOps, Zenon DEF Known
      <4> QED BY <3>3, <4>2, Zenon
    <3> QED BY <2>2, <3>1, <3>2, <3>3, Zenon
  <2>5. index' = [index EXCEPT ![at[b]] = y] /\ Seen /\ UNCHANGED <<queue, fetched, phase, boot, at, restarts>>
    BY <1>5, Zenon DEF Finish
  <2> HIDE DEF x, y
  <2>6. index' \in [Pods -> SUBSET Route] /\ \A p \in Pods : index'[p] \subseteq index[p] \cup y
    BY <2>4, <2>5, Zenon
  <2>7. \A p \in Pods : /\ index'[p] \cup boot'[p] \subseteq routable \cup ActiveRoutes(db')
                        /\ fetched'[p] # NoRow => Known(fetched'[p])
    BY <2>4, <2>5, <2>6, Zenon DEF CInv, Sources, RoutesWereRegistered
  <2>8. \A c \in Backends : pc'[c] = "apply" /\ snap'[c] # NoRow => Known(snap'[c])
    BY <2>1, Zenon DEF CInv, Sources, NoNewRecord
  <2> QED BY <2>1, <2>5, <2>6, <2>7, <2>8, ClusterStep, Zenon
<1>6. CASE Halt(b)
  <2>1. Next /\ NoNewRecord
    BY <1>6, RequestRecords, Zenon DEF Halt, Next
  <2> QED BY <1>6, <2>1, QuietStep, Zenon DEF Halt, cluster
<1> QED BY <1>1, <1>2, <1>3, <1>4, <1>5, <1>6, Zenon

\* Deletions by an operator and time.
LEMMA OutsideCInv ==
  ASSUME CInv, (\E s \in Spiffes : Remove(s)) \/ TimePasses
  PROVE  CInv'
<1> USE ClusterTypes
<1>1. ASSUME NEW s \in Spiffes, Remove(s) PROVE CInv'
  <2>1. Next /\ NoNewRecord
    BY <1>1, Zenon DEF Remove, AdminDelete, Next, NoNewRecord, service
  <2>2. remove(db[s].id) \in Message
    BY <1>1, Zenon DEF Remove, AdminDelete, remove, Message, Row
  <2>3. queue' \in [Pods -> Seq(Message)]
    BY <1>1, <2>2, BroadcastType, Zenon DEF Remove, CInv
  <2> QED BY <1>1, <2>1, <2>3, QuietStep, Zenon DEF Remove
<1>2. CASE TimePasses
  <2>1. Next /\ NoNewRecord
    BY <1>2, Zenon DEF TimePasses, Tick, Next, NoNewRecord, service
  <2> QED BY <1>2, <2>1, QuietStep, Zenon DEF TimePasses, cluster
<1> QED BY <1>1, <1>2, Zenon

\* The sweeper, the subscriber and the life of a pod.
LEMMA PodCInv ==
  ASSUME CInv, NEW p \in Pods,
         \/ PodSweep(p) \/ PodUnindex(p) \/ RefreshGet(p) \/ RefreshApply(p)
         \/ HandleRemoval(p) \/ PodStops(p) \/ PodLists(p) \/ PodServes(p)
  PROVE  CInv'
<1> USE ClusterTypes
<1>0. /\ UNCHANGED service => NoNewRecord
      /\ UNCHANGED vars => NoNewRecord
      /\ NoNewRecord => \A c \in Backends : pc'[c] = "apply" /\ snap'[c] # NoRow => Known(snap'[c])
  BY Zenon DEF service, vars, NoNewRecord, CInv, Sources
<1>00. \A q \in Pods : /\ index[q] \subseteq routable /\ boot[q] \subseteq routable
                       /\ fetched[q] # NoRow => Known(fetched[q])
  BY Zenon DEF CInv, Sources, RoutesWereRegistered
<1>1. CASE PodSweep(p)
  <2>1. Next /\ UNCHANGED service
    BY <1>1, Zenon DEF PodSweep, Next, Sweep, SweepStale, MarkStale, SweepExpired, MarkExpired, SweepDone,
                SweepFails, service
  <2> QED BY <1>0, <1>1, <2>1, QuietStep, Zenon DEF PodSweep, cluster
<1>2. CASE PodUnindex(p)
  <2>1. Next /\ UNCHANGED service
    BY <1>2, Zenon DEF PodUnindex, Unindex, Next, Sweep, service
  <2>2. index' \in [Pods -> SUBSET Route] /\ \A q \in Pods : index'[q] \subseteq index[q]
    BY <1>2, Zenon DEF PodUnindex, Without
  <2> QED BY <1>0, <1>2, <2>1, <2>2, QuietStep, Zenon DEF PodUnindex
<1>3. CASE RefreshGet(p)
  <2>1. queue[p] # <<>> /\ queue' = [queue EXCEPT ![p] = Tail(@)]
    BY <1>3, Zenon DEF RefreshGet
  <2>2. queue' \in [Pods -> Seq(Message)]
    BY <2>1
  <2>3. \/ UNCHANGED fetched
        \/ \E s \in Spiffes : db[s] # NoRow /\ fetched' = [fetched EXCEPT ![p] = View(db[s])]
    BY <1>3, Zenon DEF RefreshGet, Holds, View
  <2>4. \A s \in Spiffes : db[s] # NoRow => Known(View(db[s])) /\ View(db[s]) \in Held
    BY ViewKnown, ViewType, Zenon DEF CInv, Sources
  <2>5. /\ fetched' \in [Pods -> Held \cup {NoRow}]
        /\ \A q \in Pods : fetched'[q] # NoRow => Known(fetched'[q])
    <3>1. CASE UNCHANGED fetched
      BY <1>00, <3>1, Zenon
    <3>2. ASSUME NEW s \in Spiffes, db[s] # NoRow, fetched' = [fetched EXCEPT ![p] = View(db[s])]
          PROVE  /\ fetched' \in [Pods -> Held \cup {NoRow}]
                 /\ \A q \in Pods : fetched'[q] # NoRow => Known(fetched'[q])
      <4>1. View(db[s]) \in Held /\ Known(View(db[s]))
        BY <2>4, <3>2, Zenon
      <4>2. \A q \in Pods : fetched'[q] = IF q = p THEN View(db[s]) ELSE fetched[q]
        BY <3>2, Zenon
      <4>3. \A q \in Pods : fetched'[q] # NoRow => Known(fetched'[q])
        BY <1>00, <4>1, <4>2, Zenon
      <4> QED BY <3>2, <4>1, <4>3, Zenon
    <3> QED BY <2>3, <3>1, <3>2, Zenon
  <2> QED BY <1>0, <1>00, <1>3, <2>2, <2>5, ClusterStep, Zenon DEF RefreshGet
<1>4. CASE RefreshApply(p)
  <2>1. fetched[p] \in Held /\ Known(fetched[p])
    BY <1>00, <1>4, Zenon DEF RefreshApply
  <2>2. Refresh(index[p], fetched[p]) \subseteq routable
    BY <1>00, <2>1, IndexOps, Zenon DEF Known
  <2>3. index' = [index EXCEPT ![p] = Refresh(index[p], fetched[p])]
    BY <1>4, Zenon DEF RefreshApply
  <2>4. index' \in [Pods -> SUBSET Route] /\ \A q \in Pods : index'[q] \subseteq routable
    BY <1>00, <2>2, <2>3, Zenon
  <2>5. /\ fetched' \in [Pods -> Held \cup {NoRow}]
        /\ \A q \in Pods : fetched'[q] # NoRow => Known(fetched'[q])
    BY <1>00, <1>4, Zenon DEF RefreshApply
  <2> QED BY <1>0, <1>00, <1>4, <2>4, <2>5, ClusterStep, Zenon DEF RefreshApply
<1>5. CASE HandleRemoval(p)
  <2>1. queue[p] # <<>> /\ queue' = [queue EXCEPT ![p] = Tail(@)]
    BY <1>5, Zenon DEF HandleRemoval
  <2>2. queue' \in [Pods -> Seq(Message)]
    BY <2>1
  <2>3. index' \in [Pods -> SUBSET Route] /\ \A q \in Pods : index'[q] \subseteq index[q]
    BY <1>5, Zenon DEF HandleRemoval, Without
  <2> QED BY <1>0, <1>5, <2>2, <2>3, QuietStep, Zenon DEF HandleRemoval
<1>6. CASE PodStops(p)
  <2>a. /\ index' = [index EXCEPT ![p] = {}] /\ queue' = [queue EXCEPT ![p] = <<>>]
        /\ phase' = [phase EXCEPT ![p] = "off"] /\ restarts' = restarts + 1
    BY <1>6, Zenon DEF PodStops
  <2>b. index' \in [Pods -> SUBSET Route] /\ \A q \in Pods : index'[q] \subseteq index[q]
    BY <2>a, Zenon
  <2>c. <<>> \in Seq(Message)
    OBVIOUS
  <2>d. queue' \in [Pods -> Seq(Message)]
    BY <2>a, <2>c, Zenon
  <2>e. restarts' \in Nat /\ phase' \in [Pods -> {"off", "listed", "on"}]
    BY <2>a
  <2>1. /\ index' \in [Pods -> SUBSET Route] /\ \A q \in Pods : index'[q] \subseteq index[q]
        /\ queue' \in [Pods -> Seq(Message)] /\ restarts' \in Nat
        /\ phase' \in [Pods -> {"off", "listed", "on"}]
    BY <2>b, <2>d, <2>e, Zenon
  <2>2. /\ fetched' \in [Pods -> Held \cup {NoRow}]
        /\ \A q \in Pods : fetched'[q] # NoRow => Known(fetched'[q])
    BY <1>00, <1>6, Zenon DEF PodStops
  <2> QED BY <1>0, <1>00, <1>6, <2>1, <2>2, ClusterStep, Zenon DEF PodStops
<1>7. CASE PodLists(p)
  <2>1. Next /\ UNCHANGED service /\ db' = db
    BY <1>7, Zenon DEF PodLists, Replay, Next
  <2>2. /\ boot' \in [Pods -> SUBSET Route]
        /\ \A q \in Pods : boot'[q] \subseteq routable \cup ActiveRoutes(db')
    BY <1>00, <1>7, <2>1, ActiveRoutesType, Zenon DEF PodLists
  <2>3. phase' \in [Pods -> {"off", "listed", "on"}]
    BY <1>7, Zenon DEF PodLists
  <2> QED BY <1>0, <1>00, <1>7, <2>1, <2>2, <2>3, ClusterStep, Zenon DEF PodLists
<1>8. CASE PodServes(p)
  <2>1. /\ index' \in [Pods -> SUBSET Route] /\ boot' \in [Pods -> SUBSET Route]
        /\ \A q \in Pods : index'[q] \cup boot'[q] \subseteq routable
        /\ phase' \in [Pods -> {"off", "listed", "on"}]
    BY <1>00, <1>8, Zenon DEF PodServes
  <2> QED BY <1>0, <1>00, <1>8, <2>1, ClusterStep, Zenon DEF PodServes
<1> QED BY <1>1, <1>2, <1>3, <1>4, <1>5, <1>6, <1>7, <1>8, Zenon

\* Every step preserves the invariant.
LEMMA CNextInv == CInv /\ [CNext]_cvars => CInv'
<1> SUFFICES ASSUME CInv, [CNext]_cvars PROVE CInv'
  BY Zenon
<1>1. CASE CNext
  BY <1>1, RequestCInv, OutsideCInv, PodCInv, Zenon DEF CNext
<1>2. CASE UNCHANGED cvars
  <2>1. Inv' /\ TypeOK'
    BY <1>2, NextInv, Zenon DEF CInv, Inv, cvars
  <2>2. CTypeOK'
    BY <1>2, <2>1, Zenon DEF CInv, CTypeOK, cvars, cluster
  <2>3. Sources' /\ RoutesWereRegistered'
    BY <1>2 DEF CInv, Sources, Known, Routes, RoutesWereRegistered, cvars, vars, cluster
  <2> QED BY <2>1, <2>2, <2>3, Zenon DEF CInv
<1> QED BY <1>1, <1>2, Zenon

-----------------------------------------------------------------------------

\* The inductive invariant holds of every behaviour of the cluster.
THEOREM ClusterInvariance == CSpec => []CInv
  BY CInitInv, CNextInv, PTL DEF CSpec

\* The indexes, queues and records of every pod keep their types.
THEOREM ClusterTypeCorrect == CSpec => []CTypeOK
<1>1. CInv => CTypeOK
  BY Zenon DEF CInv
<1> QED BY <1>1, ClusterInvariance, PTL

\* However broadcasts are lost and requests, sweeps, refreshes and restarts
\* interleave, no pod's index ever holds a route that was not stored as active.
THEOREM IndexesAreGrounded == CSpec => []RoutesWereRegistered
<1>1. CInv => RoutesWereRegistered
  BY Zenon DEF CInv
<1> QED BY <1>1, ClusterInvariance, PTL

\* Serving several pods' requests does not weaken the registry: its own
\* properties hold of the composition.
THEOREM ClusterKeepsRegistry == CSpec => [](DeletedStaysDeleted /\ OwnRowOnly)
<1>1. CInv => DeletedStaysDeleted /\ OwnRowOnly
  BY Zenon DEF CInv, Inv
<1> QED BY <1>1, ClusterInvariance, PTL
=============================================================================
