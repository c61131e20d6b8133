---------------------------- MODULE RateLimit -------------------------------
(***************************************************************************)
(* The rate limiter backends (internal/ratelimit) behind the limiter       *)
(* middleware and the router's per-server limit, in several gateway        *)
(* replicas at once: the in-process token bucket (memory_backend.go), the  *)
(* sliding window kept by a script in DragonflyDB (dragonfly_backend.go,   *)
(* lua/sliding_window.lua) and the counter kept in a NATS key-value bucket *)
(* by optimistic updates (nats_backend.go), the last two falling back to   *)
(* the first.                                                              *)
(*                                                                         *)
(* A call of Allow is cut where another goroutine or replica can step in:  *)
(* at the calls to the backing service and between finding a bucket and    *)
(* taking from it.  Time is counted in units of 1 / Rate of a token's      *)
(* refill; a call to a backing service returns or fails within MaxDelay.   *)
(* Limits are those of one policy profile: every key has the same Rate     *)
(* and Burst.                                                              *)
(***************************************************************************)
EXTENDS Integers, FiniteSetsExt

CONSTANTS
    Replicas,      \* gateway pods
    Requests,      \* request slots: each handles one request after another
    Home,          \* the replica each slot belongs to
    Keys,          \* limiter keys: (client, route), or ("server:" id, "global")
    KVKeys,        \* the keys that are valid names of a NATS key-value entry
    Rate,          \* tokens per unit of time (profile.RateLimit)
    Burst,         \* profile.RateBurst
    MaxDelay,      \* bound: how long a call of Allow may take
    MaxIdle,       \* MemoryBackend.maxIdle
    KVTTL,         \* natsBucketTTL
    MaxRetries,    \* natsCASMaxRetries
    MaxTime,       \* bound: the clock, for each backend
    MaxFaults      \* bound: outages and lost replies

Memory == "memory"
Dragonfly == "dragonfly"
NATS == "nats"
Backends == {Memory, Dragonfly, NATS}

\* windowMicros: the time in which Burst requests arrive at the allowed rate.
Window == Burst \div Rate

ASSUME HomeAssumption == Home \in [Requests -> Replicas]
ASSUME KeysAssumption == Keys # {} /\ KVKeys \subseteq Keys
ASSUME LimitAssumption == Rate \in Nat \ {0} /\ Burst \in Nat \ {0} /\ Burst % Rate = 0
ASSUME RetryAssumption == MaxRetries \in Nat \ {0}
\* The constants of the code are far apart: 5 minutes against a window of
\* Burst / Rate seconds and calls that time out after seconds.
ASSUME IdleAssumption ==
    /\ MaxDelay \in Nat /\ MaxIdle \in Nat /\ KVTTL \in Nat
    /\ MaxTime \in [Backends -> Nat] /\ MaxFaults \in Nat
    /\ MaxIdle >= Window + 2 * MaxDelay
    /\ KVTTL > Window

Last == Max({MaxTime[b] : b \in Backends})
Times == 0 .. Last

\* natsWindowEntry with the revision and the time of its last write; revision
\* 0 stands for a key that does not exist.
Entry == [count: Nat, start: Nat, rev: Nat, at: Nat]
NoEntry == [count |-> 0, start |-> 0, rev |-> 0, at |-> 0]

\* memoryEntry: a rate.Limiter (tokens at time last) and lastUsed.
Bucket == [on: BOOLEAN, tokens: 0 .. Burst, last: Nat, used: Nat]
NoBucket == [on |-> FALSE, tokens |-> 0, last |-> 0, used |-> 0]

\* A request in Allow: "load", "cas" (NATSBackend), "script" (DragonflyBackend),
\* "find", "take" (MemoryBackend).  now is read once, on entry; count, start
\* and rev are what loadWindow returned.
Steps == {"idle", "load", "cas", "script", "find", "take"}
Call == [pc: Steps, key: Keys, now: Nat, count: Nat, start: Nat, rev: Nat,
         attempt: Nat]

VARIABLES
    backend,       \* MCPGW_RATE_LIMIT_BACKEND
    clock,         \* time.Now(), the same for all replicas
    reachable,     \* the backing service answers
    faults,        \* outages and lost replies so far
    call,          \* each slot's call of Allow
    kv, kvSeq,     \* the bucket "ratelimits" and its stream's last sequence
    zset, zttl,    \* the sorted set of a key (admissions per score), its expiry
    healthy,       \* DragonflyBackend.healthy of each replica
    mem,           \* MemoryBackend.limiters of each replica
    granted,       \* history: requests allowed by the counts of a kv entry
    passed         \* history: requests the script allowed, by time

natsVars == <<kv, kvSeq, granted>>
zsetVars == <<zset, zttl, passed>>
service == <<backend, reachable, faults>>
vars == <<backend, clock, reachable, faults, call, kv, kvSeq, zset, zttl, healthy, mem,
          granted, passed>>

Idle == [pc |-> "idle", key |-> CHOOSE k \in Keys : TRUE, now |-> 0, count |-> 0,
         start |-> 0, rev |-> 0, attempt |-> 0]

TypeOK ==
    /\ backend \in Backends
    /\ clock \in Nat
    /\ reachable \in BOOLEAN
    /\ faults \in Nat
    /\ call \in [Requests -> Call]
    /\ kv \in [Keys -> Entry]
    /\ kvSeq \in Nat
    /\ zset \in [Keys -> [Times -> Nat]]
    /\ zttl \in [Keys -> Nat]
    /\ healthy \in [Replicas -> BOOLEAN]
    /\ mem \in [Replicas -> [Keys -> Bucket]]
    /\ granted \in [Keys -> Nat]
    /\ passed \in [Keys -> [Times -> Nat]]

Nowhere == [k \in Keys |-> [t \in Times |-> 0]]

\* initRateLimitBackend picks the backend once; the distributed ones are
\* created only while their service answers, so it does at first.
Init ==
    /\ backend \in Backends
    /\ clock = 0
    /\ reachable = TRUE
    /\ faults = 0
    /\ call = [q \in Requests |-> Idle]
    /\ kv = [k \in Keys |-> NoEntry]
    /\ kvSeq = 0
    /\ zset = Nowhere
    /\ zttl = [k \in Keys |-> 0]
    /\ healthy = [r \in Replicas |-> TRUE]
    /\ mem = [r \in Replicas |-> [k \in Keys |-> NoBucket]]
    /\ granted = [k \in Keys |-> 0]
    /\ passed = Nowhere

(***************************************************************************)
(* Requests enter through the middleware or the router.                    *)
(***************************************************************************)

\* RateLimitMiddleware, or checkServerRateLimit for a server with a limit,
\* calls Allow, which reads the clock and, unless its health check found
\* DragonflyDB down, turns to the backing service.
Arrive(q, k) ==
    /\ call[q].pc = "idle"
    /\ call' = [call EXCEPT ![q] = [Idle EXCEPT !.key = k, !.now = clock,
                   !.pc = CASE backend = Memory -> "find"
                            [] backend = NATS -> "load"
                            [] backend = Dragonfly /\ healthy[Home[q]] -> "script"
                            [] backend = Dragonfly /\ ~healthy[Home[q]] -> "find"]]
    /\ UNCHANGED <<service, clock, healthy, mem, natsVars, zsetVars>>

\* An outage begins or a reply is lost.
Fault == faults < MaxFaults /\ faults' = faults + 1

\* The call returns; what it returned is in the history variables.
Done(q) == [call EXCEPT ![q] = Idle]

\* handleUnavailable: the fallback decides.
Fallback(q) == [call EXCEPT ![q] = [Idle EXCEPT !.key = call[q].key,
                                                !.now = clock, !.pc = "find"]]

(***************************************************************************)
(* MemoryBackend                                                           *)
(***************************************************************************)

\* Mutation: a bucket may hold more than its burst.
LevelUncapped(b) == b.tokens + (clock - b.last) * Rate

\* rate.Limiter: the tokens of bucket b now.
Level(b) ==
    LET n == b.tokens + (clock - b.last) * Rate IN IF n > Burst THEN Burst ELSE n

\* Mutation: lastUsed is not renewed.
NotRenewed(b, now) == b

\* lastUsed becomes the time read on entry, which may be earlier than the one
\* it replaces.
Renewed(b, now) == [b EXCEPT !.used = now]

\* Under the lock the bucket is found, or created full; the second look at the
\* map makes the two critical sections of a miss behave as one.
Find(q) ==
    LET r == Home[q]
        k == call[q].key
        now == call[q].now
    IN /\ call[q].pc = "find"
       /\ mem' = [mem EXCEPT ![r][k] =
                     IF @.on THEN Renewed(@, now)
                     ELSE [on |-> TRUE, tokens |-> Burst, last |-> clock, used |-> now]]
       /\ call' = [call EXCEPT ![q].pc = "take"]
       /\ UNCHANGED <<service, clock, healthy, natsVars, zsetVars>>

\* checkLimiter, after the unlock: the limiter takes a token or refuses.
CheckLimiter(q) ==
    LET r == Home[q]
        k == call[q].key
        n == Level(mem[r][k])
    IN /\ call[q].pc = "take"
       /\ IF n >= 1
          THEN mem' = [mem EXCEPT ![r][k] = [@ EXCEPT !.tokens = n - 1, !.last = clock]]
          ELSE UNCHANGED mem
       /\ call' = Done(q)
       /\ UNCHANGED <<service, clock, healthy, natsVars, zsetVars>>

IdleTooLong(b) == b.on /\ b.used < clock - MaxIdle

\* The cleanup goroutine drops every bucket not used for maxIdle.
Cleanup(r) ==
    /\ \E k \in Keys : IdleTooLong(mem[r][k])
    /\ mem' = [mem EXCEPT ![r] = [k \in Keys |->
                  IF IdleTooLong(mem[r][k]) THEN NoBucket ELSE mem[r][k]]]
    /\ UNCHANGED <<service, clock, call, healthy, natsVars, zsetVars>>

(***************************************************************************)
(* DragonflyBackend                                                        *)
(***************************************************************************)

\* What the script does to the set of key k when it runs with argument now:
\* a key past its expiry is empty, ZREMRANGEBYSCORE drops what left the
\* window, and the request is added if fewer than Burst remain.
Remaining(k, now) ==
    [t \in Times |-> IF clock >= zttl[k] \/ t <= now - Window THEN 0 ELSE zset[k][t]]

\* ZCARD: Count(s)[n] members of the set have scores below n.
Count(s) ==
    LET below[n \in 0 .. Last + 1] == IF n = 0 THEN 0 ELSE below[n - 1] + s[n - 1]
    IN below

Added(s, t) == [s EXCEPT ![t] = @ + 1]

\* PEXPIRE: ttlMs is the window, but at least one second.
TTL == IF Window < 1 THEN 1 ELSE Window

\* Mutation: the script admits when the set is full.
HasRoomOffByOne(s) == Count(s)[Last + 1] <= Burst

HasRoom(s) == Count(s)[Last + 1] < Burst

\* The script runs and its answer arrives.
Script(q) ==
    LET k == call[q].key
        s == Remaining(k, call[q].now)
    IN /\ call[q].pc = "script"
       /\ reachable
       /\ IF HasRoom(s)
          THEN /\ zset' = [zset EXCEPT ![k] = Added(s, call[q].now)]
               /\ zttl' = [zttl EXCEPT ![k] = clock + TTL]
               /\ passed' = [passed EXCEPT ![k][clock] = @ + 1]
          ELSE /\ zset' = [zset EXCEPT ![k] = s]
               /\ UNCHANGED <<zttl, passed>>
       /\ call' = Done(q)
       /\ UNCHANGED <<service, clock, healthy, mem, natsVars>>

\* The script cannot be run, or it ran and its answer was lost: the backend
\* is marked unhealthy and the fallback decides.
ScriptFails(q) ==
    LET k == call[q].key
        s == Remaining(k, call[q].now)
    IN /\ call[q].pc = "script"
       /\ \/ ~reachable /\ UNCHANGED <<zset, zttl, faults>>
          \/ /\ reachable
             /\ HasRoom(s)
             /\ Fault
             /\ zset' = [zset EXCEPT ![k] = Added(s, call[q].now)]
             /\ zttl' = [zttl EXCEPT ![k] = clock + TTL]
       /\ healthy' = [healthy EXCEPT ![Home[q]] = FALSE]
       /\ call' = Fallback(q)
       /\ UNCHANGED <<backend, reachable, clock, mem, passed, natsVars>>

\* healthCheck: a ping every ten seconds.
HealthCheck(r) ==
    /\ backend = Dragonfly
    /\ healthy[r] # reachable
    /\ healthy' = [healthy EXCEPT ![r] = reachable]
    /\ UNCHANGED <<service, clock, call, mem, natsVars, zsetVars>>

(***************************************************************************)
(* NATSBackend                                                             *)
(***************************************************************************)

\* loadWindow.  An expired window is returned empty and with revision 0, like
\* a key that does not exist.
LoadWindow(k, now) ==
    IF kv[k].rev = 0 \/ now - kv[k].start > Window
    THEN [count |-> 0, start |-> now, rev |-> 0]
    ELSE [count |-> kv[k].count, start |-> kv[k].start, rev |-> kv[k].rev]

\* Get fails: NATS is unreachable, or the key holds a character NATS refuses
\* in a key ("server:" and "spiffe://" contain colons).
LoadFails(q) ==
    /\ call[q].pc = "load"
    /\ ~reachable \/ call[q].key \notin KVKeys
    /\ call' = Fallback(q)
    /\ UNCHANGED <<service, clock, healthy, mem, natsVars, zsetVars>>

\* Mutation: a full window admits one more request.
OverLimitOffByOne(w) == w.count > Burst

OverLimit(w) == w.count >= Burst

\* Get answers; a full window rejects the request (overLimitResult).
Load(q) ==
    LET k == call[q].key
        w == LoadWindow(k, call[q].now)
    IN /\ call[q].pc = "load"
       /\ reachable
       /\ k \in KVKeys
       /\ call' = IF OverLimit(w) THEN Done(q)
                  ELSE [call EXCEPT ![q] = [@ EXCEPT !.pc = "cas", !.count = w.count + 1,
                                                     !.start = w.start, !.rev = w.rev]]
       /\ UNCHANGED <<service, clock, healthy, mem, natsVars, zsetVars>>

\* Mutation: Update ignores the revision it was given.
CASBlind(q) == call[q].rev = 0 => kv[call[q].key].rev = 0

\* Create wants a key that does not exist, Update the revision it was given.
CASMatches(q) == kv[call[q].key].rev = call[q].rev

Written(q) ==
    [kv EXCEPT ![call[q].key] = [count |-> call[q].count, start |-> call[q].start,
                                 rev |-> kvSeq + 1, at |-> clock]]

\* casWrite stores the window: the request is allowed.
CASSucceeds(q) ==
    /\ call[q].pc = "cas"
    /\ reachable
    /\ CASMatches(q)
    /\ kv' = Written(q)
    /\ kvSeq' = kvSeq + 1
    /\ granted' = [granted EXCEPT ![call[q].key] = @ + 1]
    /\ call' = Done(q)
    /\ UNCHANGED <<service, clock, healthy, mem, zsetVars>>

\* After a failed write the loop starts again, and after the last attempt the
\* fallback decides.
NextAttempt(q) ==
    IF call[q].attempt + 1 < MaxRetries
    THEN [call EXCEPT ![q] = [call[q] EXCEPT !.pc = "load", !.attempt = @ + 1]]
    ELSE Fallback(q)

\* casWrite reports failure: the revision is another one by now, NATS cannot
\* be reached, or the write happened and its reply was lost.
CASFails(q) ==
    /\ call[q].pc = "cas"
    /\ \/ ~reachable /\ UNCHANGED <<kv, kvSeq, faults>>
       \/ reachable /\ ~CASMatches(q) /\ UNCHANGED <<kv, kvSeq, faults>>
       \/ /\ reachable
          /\ CASMatches(q)
          /\ Fault
          /\ kv' = Written(q)
          /\ kvSeq' = kvSeq + 1
    /\ call' = NextAttempt(q)
    /\ UNCHANGED <<backend, reachable, clock, healthy, mem, granted, zsetVars>>

\* The bucket's TTL removes an entry that has not been written for KVTTL.
KVExpire(k) ==
    /\ kv[k].rev # 0
    /\ clock >= kv[k].at + KVTTL
    /\ kv' = [kv EXCEPT ![k] = NoEntry]
    /\ granted' = [granted EXCEPT ![k] = 0]
    /\ UNCHANGED <<service, clock, call, kvSeq, healthy, mem, zsetVars>>

(***************************************************************************)
(* The environment                                                         *)
(***************************************************************************)

\* Time passes, but not beyond the time-outs of the calls in progress.
Tick ==
    /\ clock < MaxTime[backend]
    /\ \A q \in Requests : call[q].pc # "idle" => clock - call[q].now < MaxDelay
    /\ clock' = clock + 1
    /\ passed' = [k \in Keys |-> [t \in Times |-> IF t <= clock - Window THEN 0
                                                  ELSE passed[k][t]]]
    /\ UNCHANGED <<service, call, healthy, mem, natsVars, zset, zttl>>

\* The backing service, or the network to it, goes away and comes back.
Outage ==
    /\ backend # Memory
    /\ reachable' = ~reachable
    /\ IF reachable THEN Fault ELSE UNCHANGED faults
    /\ UNCHANGED <<backend, clock, call, healthy, mem, natsVars, zsetVars>>

Next ==
    \/ \E q \in Requests, k \in Keys : Arrive(q, k)
    \/ \E q \in Requests :
          \/ Find(q) \/ CheckLimiter(q)
          \/ Script(q) \/ ScriptFails(q)
          \/ Load(q) \/ LoadFails(q) \/ CASSucceeds(q) \/ CASFails(q)
    \/ \E r \in Replicas : Cleanup(r) \/ HealthCheck(r)
    \/ \E k \in Keys : KVExpire(k)
    \/ Tick
    \/ Outage

Spec == Init /\ [][Next]_vars

(***************************************************************************)
(* Properties                                                              *)
(***************************************************************************)

\* A request that has found its bucket takes from the one in the map: however
\* it is delayed, cleanup does not drop the bucket in between, so no two
\* requests of one key take from different buckets at one replica.
NoOrphanBucket ==
    \A q \in Requests : call[q].pc = "take" => mem[Home[q]][call[q].key].on

\* The sliding window kept by concurrent scripts admits at most Burst requests
\* in any stretch of time shorter than the window by the delay between reading
\* the clock and running the script.
SlidingWindowBound ==
    \A k \in Keys, t \in Times, u \in Times :
        (t <= u /\ u < t + Window - MaxDelay)
            => Count(passed[k])[u + 1] - Count(passed[k])[t] <= Burst

\* The counter in the key-value bucket never exceeds Burst and counts at least
\* the requests it allowed, whatever replicas race for it and whichever
\* replies are lost.
CountsWhatItGrants ==
    \A k \in Keys : granted[k] <= kv[k].count /\ kv[k].count <= Burst

\* A lazily refilled, lazily created and periodically forgotten bucket behaves
\* like one that is refilled in every unit of time and never forgotten.
Bucketed == INSTANCE TokenBucket WITH
    level <- [r \in Replicas |-> [k \in Keys |->
                 IF mem[r][k].on THEN Level(mem[r][k]) ELSE Burst]]

MemoryImplementsTokenBucket == Bucketed!Spec

\* Reading a window, counting in memory and writing it back under the revision
\* read is one atomic step of a shared counter.
Quota == INSTANCE SharedQuota WITH
    used <- [k \in Keys |-> kv[k].count]

CASImplementsSharedQuota == Quota!Spec
=============================================================================
