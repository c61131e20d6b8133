--------------------------- MODULE RateLimitProofs --------------------------
(***************************************************************************)
(* Proofs about RateLimit, for any number of replicas, requests and keys,  *)
(* any rate and burst, and calls that are delayed for any time the code's  *)
(* constants allow (IdleAssumption).                                       *)
(*                                                                         *)
(* Three invariants are inductive, one for each way of keeping a count.    *)
(* Of the key-value entry: a request that is about to write the revision   *)
(* that is still there counted one more than the entry (Counted).  Of the  *)
(* buckets: how far lastUsed can fall behind the clock while a request     *)
(* holds a bucket, and behind the bucket's last withdrawal (Held, Fresh).  *)
(* Of the sliding window: while a stretch of time lasts, the sorted set    *)
(* holds a member for every admission since its beginning (Covered), and   *)
(* the set never holds more than Burst; the admissions are added up by a   *)
(* recursive function, whose facts are proved by induction over the score. *)
(***************************************************************************)
EXTENDS RateLimit, WellFoundedInduction, TLAPS

Types ==
    /\ backend \in Backends
    /\ clock \in Nat
    /\ call \in [Requests -> Call]
    /\ kv \in [Keys -> Entry]
    /\ kvSeq \in Nat
    /\ mem \in [Replicas -> [Keys -> Bucket]]
    /\ granted \in [Keys -> Nat]

\* A call has lasted at most MaxDelay.
Timely ==
    \A q \in Requests :
        call[q].pc # "idle" => call[q].now <= clock /\ clock <= call[q].now + MaxDelay

Revisions ==
    /\ \A k \in Keys : kv[k].rev <= kvSeq /\ (kv[k].rev = 0 => kv[k].count = 0)
    /\ \A q \in Requests : call[q].pc = "cas" => call[q].rev <= kvSeq

Counted ==
    \A q \in Requests : call[q].pc = "cas" =>
        /\ call[q].rev = 0 => call[q].count = 1
        /\ kv[call[q].key].rev = call[q].rev => call[q].count = kv[call[q].key].count + 1
        /\ call[q].count <= Burst

KVInv == Types /\ Revisions /\ Counted /\ CountsWhatItGrants

Held ==
    \A q \in Requests :
        call[q].pc = "take" =>
            /\ mem[Home[q]][call[q].key].on
            /\ call[q].now <= mem[Home[q]][call[q].key].used + MaxDelay

Fresh ==
    \A r \in Replicas, k \in Keys :
        mem[r][k].on => /\ mem[r][k].last <= clock /\ mem[r][k].used <= clock
                        /\ mem[r][k].last <= mem[r][k].used + 2 * MaxDelay

MemInv == Types /\ Timely /\ Held /\ Fresh

-----------------------------------------------------------------------------
(* Types.                                                                  *)

\* A slot that is not in use is well-formed.
LEMMA IdleType == Idle \in Call /\ Idle.pc = "idle"
  BY KeysAssumption, Zenon DEF Idle, Call, Steps

\* So is one that enters a step, whichever it comes from.
LEMMA Moves ==
    ASSUME NEW c \in Call, NEW k \in Keys, NEW t \in Nat, NEW p \in Steps
    PROVE  /\ [c EXCEPT !.key = k, !.now = t, !.pc = p] \in Call
           /\ [c EXCEPT !.pc = p] \in Call
  BY Zenon DEF Call

\* So is one that has read a window, and one that tries again.
LEMMA LoopMoves ==
    ASSUME NEW c \in Call, NEW w \in [count: Nat, start: Nat, rev: Nat]
    PROVE  /\ [c EXCEPT !.pc = "cas", !.count = w.count + 1, !.start = w.start, !.rev = w.rev] \in Call
           /\ [c EXCEPT !.pc = "load", !.attempt = @ + 1] \in Call
<1>1. "cas" \in Steps /\ "load" \in Steps /\ w.count + 1 \in Nat /\ w.start \in Nat /\ w.rev \in Nat
  BY DEF Steps
<1>2. c.attempt + 1 \in Nat
  BY DEF Call
<1> QED  BY <1>1, <1>2, Zenon DEF Call

\* handleUnavailable leads from a well-formed call to another.
LEMMA FallbackType ==
    ASSUME Types, NEW q \in Requests
    PROVE  Fallback(q) \in [Requests -> Call]
<1>1. call[q].key \in Keys /\ clock \in Nat /\ "find" \in Steps
  BY Zenon DEF Types, Call, Steps
<1>2. [Idle EXCEPT !.key = call[q].key, !.now = clock, !.pc = "find"] \in Call
  BY <1>1, IdleType, Moves, Zenon
<1> QED  BY <1>2, Zenon DEF Fallback, Types

\* A withdrawal keeps the bucket between none and Burst.
LEMMA WithdrawalType ==
    ASSUME clock \in Nat, NEW b \in Bucket, NEW n \in Int, 1 <= n, n <= Burst
    PROVE  [b EXCEPT !.tokens = n - 1, !.last = clock] \in Bucket
<1>1. n - 1 \in 0 .. Burst
  BY LimitAssumption
<1> QED  BY <1>1, Zenon DEF Bucket

\* A bucket holds between none and Burst tokens, however long it was left.
LEMMA LevelType ==
    ASSUME clock \in Nat, NEW b \in Bucket
    PROVE  Level(b) \in Int /\ Level(b) <= Burst
<1>1. (clock - b.last) * Rate \in Int
  BY LimitAssumption DEF Bucket
<1> QED  BY <1>1, LimitAssumption DEF Bucket, Level

\* Each slot, entry and bucket is well-formed in every reachable state.
LEMMA TypesInductive ==
    /\ Init => Types
    /\ Types /\ [Next]_vars => Types'
<1>1. Init => Types
  BY LimitAssumption, IdleType DEF Init, Types, Entry, NoEntry, Bucket, NoBucket
<1>2. ASSUME Types, [Next]_vars PROVE Types'
  <2> USE <1>2, LimitAssumption, HomeAssumption, IdleType
  <2>1. ASSUME NEW q \in Requests, NEW k \in Keys, Arrive(q, k) PROVE Types'
    <3> DEFINE p == CASE backend = Memory -> "find"
                      [] backend = NATS -> "load"
                      [] backend = Dragonfly /\ healthy[Home[q]] -> "script"
                      [] backend = Dragonfly /\ ~healthy[Home[q]] -> "find"
    <3>1. p \in Steps
      BY Zenon DEF Steps, Types, Backends, Memory, NATS, Dragonfly
    <3>2. [Idle EXCEPT !.key = k, !.now = clock, !.pc = p] \in Call
      BY <3>1, Moves, Zenon DEF Types
    <3>3. call' \in [Requests -> Call]
      BY <2>1, <3>2, Zenon DEF Arrive, Types
    <3> QED  BY <3>3, <2>1, Zenon DEF Arrive, Types, service, natsVars, zsetVars
  <2>2. ASSUME NEW q \in Requests, Find(q) PROVE Types'
    <3>1. call' \in [Requests -> Call]
      BY <2>2, Zenon DEF Find, Types, Call, Steps
    <3>2. Home[q] \in Replicas /\ call[q].key \in Keys /\ call[q].now \in Nat
      BY Zenon DEF Types, Call
    <3>3. \A b \in Bucket : Renewed(b, call[q].now) \in Bucket
      BY <3>2, Zenon DEF Bucket, Renewed
    <3>4. [on |-> TRUE, tokens |-> Burst, last |-> clock, used |-> call[q].now] \in Bucket
      BY <3>2 DEF Bucket, Types
    <3>5. mem' \in [Replicas -> [Keys -> Bucket]]
      BY <2>2, <3>2, <3>3, <3>4 DEF Find, Types
    <3> QED  BY <3>1, <3>5, <2>2, Zenon DEF Find, Types, service, natsVars, zsetVars
  <2>3. ASSUME NEW q \in Requests, CheckLimiter(q) PROVE Types'
    <3> DEFINE b == mem[Home[q]][call[q].key]
    <3>1. call' \in [Requests -> Call]
      BY <2>3, Zenon DEF CheckLimiter, Done, Types
    <3>2. Home[q] \in Replicas /\ call[q].key \in Keys /\ b \in Bucket
      BY DEF Types, Call
    <3>3. Level(b) \in Int /\ Level(b) <= Burst
      BY <3>2, LevelType, Zenon DEF Types
    <3>4. ASSUME Level(b) >= 1
          PROVE  [b EXCEPT !.tokens = Level(b) - 1, !.last = clock] \in Bucket
      BY <3>2, <3>3, <3>4, WithdrawalType, Zenon DEF Types
    <3>5. CASE Level(b) >= 1
      <4>1. mem' = [mem EXCEPT ![Home[q]] = [mem[Home[q]] EXCEPT ![call[q].key] =
                       [b EXCEPT !.tokens = Level(b) - 1, !.last = clock]]]
        BY <2>3, <3>2, <3>5, Zenon DEF CheckLimiter, Types
      <4>2. mem' \in [Replicas -> [Keys -> Bucket]]
        BY <4>1, <3>2, <3>4, <3>5, Zenon DEF Types
      <4> QED  BY <3>1, <4>2, <2>3, Zenon DEF CheckLimiter, Types, service, natsVars, zsetVars
    <3>6. CASE ~(Level(b) >= 1)
      BY <3>1, <3>6, <2>3, Zenon DEF CheckLimiter, Types, service, natsVars, zsetVars
    <3> QED  BY <3>5, <3>6, Zenon
  <2>4. ASSUME NEW q \in Requests, Script(q) \/ ScriptFails(q) PROVE Types'
    <3>1. call' \in [Requests -> Call]
      BY <2>4, FallbackType, SMTT(20) DEF Script, ScriptFails, Done, Types
    <3> QED  BY <3>1, <2>4, Zenon DEF Script, ScriptFails, Types, service, natsVars, zsetVars
  <2>5. ASSUME NEW q \in Requests, Load(q) \/ LoadFails(q) PROVE Types'
    <3>1. call[q].key \in Keys /\ call[q].now \in Nat
      BY Zenon DEF Types, Call
    <3>2. LoadWindow(call[q].key, call[q].now) \in [count: Nat, start: Nat, rev: Nat]
      BY <3>1, Zenon DEF LoadWindow, Types, Entry
    <3>3. call' \in [Requests -> Call]
      <4> DEFINE w == LoadWindow(call[q].key, call[q].now)
      <4>1. [call[q] EXCEPT !.pc = "cas", !.count = w.count + 1, !.start = w.start, !.rev = w.rev] \in Call
        BY <3>2, LoopMoves, Zenon DEF Types
      <4> QED  BY <2>5, <4>1, FallbackType, Zenon DEF Load, LoadFails, Done, Types
    <3> QED  BY <3>3, <2>5, Zenon DEF Load, LoadFails, Types, service, natsVars, zsetVars
  <2>6. ASSUME NEW q \in Requests, CASSucceeds(q) PROVE Types'
    <3>1. call' \in [Requests -> Call]
      BY <2>6, Zenon DEF CASSucceeds, Done, Types
    <3> QED  BY <3>1, <2>6 DEF CASSucceeds, Written, Types, Call, Entry, service, natsVars, zsetVars
  <2>7. ASSUME NEW q \in Requests, CASFails(q) PROVE Types'
    <3>1. call' \in [Requests -> Call]
      <4>1. [call[q] EXCEPT !.pc = "load", !.attempt = @ + 1] \in Call
        <5>1. [count |-> 0, start |-> 0, rev |-> 0] \in [count: Nat, start: Nat, rev: Nat]
          BY Zenon
        <5> QED  BY <5>1, LoopMoves, Zenon DEF Types
      <4>2. NextAttempt(q) \in [Requests -> Call]
        <5>1. [call EXCEPT ![q] = [call[q] EXCEPT !.pc = "load", !.attempt = @ + 1]] \in [Requests -> Call]
          BY <4>1, Zenon DEF Types
        <5>2. Fallback(q) \in [Requests -> Call]
          BY FallbackType, Zenon
        <5> QED  BY <5>1, <5>2, Zenon DEF NextAttempt
      <4> QED  BY <2>7, <4>2, Zenon DEF CASFails
    <3>2. kv' \in [Keys -> Entry] /\ kvSeq' \in Nat
      BY <2>7 DEF CASFails, Written, Types, Call, Entry
    <3> QED  BY <3>1, <3>2, <2>7, Zenon DEF CASFails, Types, zsetVars
  <2>8. ASSUME NEW r \in Replicas, Cleanup(r) \/ HealthCheck(r) PROVE Types'
    <3>1. mem' \in [Replicas -> [Keys -> Bucket]]
      <4>1. NoBucket \in Bucket
        BY DEF NoBucket, Bucket
      <4>2. \A k \in Keys : mem[r][k] \in Bucket
        BY Zenon DEF Types
      <4>3. CASE Cleanup(r)
        BY <4>1, <4>2, <4>3, Zenon DEF Cleanup, Types
      <4> QED  BY <4>3, <2>8, Zenon DEF HealthCheck, Types
    <3> QED  BY <3>1, <2>8, Zenon DEF Cleanup, HealthCheck, Types, service, natsVars, zsetVars
  <2>9. ASSUME NEW k \in Keys, KVExpire(k) PROVE Types'
    BY <2>9, Zenon DEF KVExpire, NoEntry, Types, Entry, service, natsVars, zsetVars
  <2>10. CASE Tick \/ Outage \/ UNCHANGED vars
    BY <2>10 DEF Tick, Outage, Types, vars, service, natsVars, zsetVars
  <2> QED  BY <2>1, <2>2, <2>3, <2>4, <2>5, <2>6, <2>7, <2>8, <2>9, <2>10, Zenon DEF Next
<1> QED  BY <1>1, <1>2, Zenon

-----------------------------------------------------------------------------
(* The counter in the key-value bucket.                                    *)

\* What one step does to the counter of a key: nothing, count one request
\* and perhaps allow it, or start again from zero.
Charged(k) ==
    /\ kv[k].count < Burst /\ kv'[k].count = kv[k].count + 1
    /\ granted'[k] \in {granted[k], granted[k] + 1}
    /\ \A j \in Keys \ {k} : kv'[j] = kv[j] /\ granted'[j] = granted[j]

Forgotten(k) ==
    /\ kv'[k] = NoEntry /\ granted'[k] = 0
    /\ \A j \in Keys \ {k} : kv'[j] = kv[j] /\ granted'[j] = granted[j]

\* casWrite counts the request on top of the entry that is there, whichever
\* entry the request had read: the revision is compared by the store.
LEMMA WriteCharges ==
    ASSUME KVInv, NEW q \in Requests, call[q].pc = "cas", CASMatches(q),
           kv' = Written(q), kvSeq' = kvSeq + 1,
           \/ granted' = [granted EXCEPT ![call[q].key] = @ + 1]
           \/ UNCHANGED granted
    PROVE  Charged(call[q].key)
<1>1. call[q].key \in Keys /\ call[q].count \in Nat
  BY Zenon DEF KVInv, Types, Call
<1>2. call[q].count = kv[call[q].key].count + 1 /\ call[q].count <= Burst
  BY Zenon DEF KVInv, Counted, CASMatches
<1>3. kv'[call[q].key].count = call[q].count /\ \A j \in Keys \ {call[q].key} : kv'[j] = kv[j]
  BY <1>1, Zenon DEF Written, KVInv, Types
<1>4. /\ granted'[call[q].key] \in {granted[call[q].key], granted[call[q].key] + 1}
      /\ \A j \in Keys \ {call[q].key} : granted'[j] = granted[j]
  BY <1>1, Zenon DEF KVInv, Types
<1>5. kv[call[q].key].count \in Nat
  BY <1>1, Zenon DEF KVInv, Types, Entry
<1> QED  BY <1>1, <1>2, <1>3, <1>4, <1>5, LimitAssumption DEF Charged

\* Every step of any replica charges one key, forgets one, or leaves the
\* counters alone.
LEMMA CounterSteps ==
    ASSUME KVInv, [Next]_vars
    PROVE  \/ \E k \in Keys : Charged(k) \/ Forgotten(k)
           \/ UNCHANGED <<kv, granted>>
<1>1. ASSUME NEW q \in Requests, CASSucceeds(q) PROVE \E k \in Keys : Charged(k)
  BY <1>1, WriteCharges, Zenon DEF CASSucceeds, KVInv, Types, Call
<1>2. ASSUME NEW q \in Requests, CASFails(q)
      PROVE  (\E k \in Keys : Charged(k)) \/ UNCHANGED <<kv, granted>>
  BY <1>2, WriteCharges, Zenon DEF CASFails, KVInv, Types, Call
<1>3. ASSUME NEW k \in Keys, KVExpire(k) PROVE Forgotten(k)
  BY <1>3, Zenon DEF KVExpire, Forgotten, KVInv, Types
<1>4. CASE ~(\E q \in Requests : CASSucceeds(q) \/ CASFails(q)) /\ ~(\E k \in Keys : KVExpire(k))
  BY <1>4, Zenon DEF Next, Arrive, Find, CheckLimiter, Script, ScriptFails, Load, LoadFails, Cleanup,
              HealthCheck, Tick, Outage, natsVars, vars
<1> QED  BY <1>1, <1>2, <1>3, <1>4, Zenon

\* No revision is used twice, so a write never meets an entry other than the
\* one its request counted.
LEMMA RevisionsStep == KVInv /\ [Next]_vars => Revisions' /\ Counted'
<1> SUFFICES ASSUME KVInv, [Next]_vars PROVE Revisions' /\ Counted'
  BY Zenon
<1> USE LimitAssumption
<1>0. Types'
  BY TypesInductive, Zenon DEF KVInv
<1>1. ASSUME NEW q \in Requests, call[q].pc = "cas", kv' = Written(q), kvSeq' = kvSeq + 1,
             \A p \in Requests : call'[p] = call[p] \/ call'[p].pc # "cas",
             call'[q].pc # "cas"
      PROVE  Revisions' /\ Counted'
  <2>1. call[q].key \in Keys
    BY Zenon DEF KVInv, Types, Call
  <2>2. kv'[call[q].key].rev = kvSeq + 1 /\ \A j \in Keys \ {call[q].key} : kv'[j] = kv[j]
    BY <1>1, <2>1, Zenon DEF Written, KVInv, Types
  <2>3. Revisions'
    <3>1. \A j \in Keys : kv'[j].rev <= kvSeq' /\ (kv'[j].rev = 0 => kv'[j].count = 0)
      BY <1>1, <2>2 DEF Revisions, KVInv, Types, Entry
    <3>2. \A p \in Requests : call'[p].pc = "cas" => call'[p].rev <= kvSeq'
      BY <1>1 DEF Revisions, KVInv, Types, Call
    <3> QED  BY <3>1, <3>2, Zenon DEF Revisions
  <2>4. ASSUME NEW p \in Requests, call'[p].pc = "cas"
        PROVE  /\ call'[p].rev = 0 => call'[p].count = 1
               /\ kv'[call'[p].key].rev = call'[p].rev => call'[p].count = kv'[call'[p].key].count + 1
               /\ call'[p].count <= Burst
    <3>1. call'[p] = call[p] /\ call[p].key \in Keys /\ call[p].rev \in Nat /\ call[p].rev <= kvSeq
      BY <1>1, <2>4, Zenon DEF KVInv, Types, Call, Revisions
    <3>2. CASE call[p].key = call[q].key
      BY <1>1, <2>4, <3>1, <3>2, <2>2 DEF KVInv, Types, Counted
    <3>3. CASE call[p].key # call[q].key
      BY <1>1, <2>4, <3>1, <3>3, <2>2 DEF KVInv, Counted
    <3> QED  BY <3>2, <3>3, Zenon
  <2> QED  BY <2>3, <2>4, Zenon DEF Counted
<1>2. ASSUME UNCHANGED <<kv, kvSeq>>,
             \A p \in Requests : call'[p] = call[p] \/ call'[p].pc # "cas"
      PROVE  Revisions' /\ Counted'
  BY <1>2, Zenon DEF KVInv, Revisions, Counted
<1>3. ASSUME NEW q \in Requests, Load(q) PROVE Revisions' /\ Counted'
  <2> DEFINE k == call[q].key
             w == LoadWindow(k, call[q].now)
  <2>1. k \in Keys /\ kv[k] \in Entry /\ call[q] \in Call
    BY Zenon DEF KVInv, Types, Call
  <2>2. /\ w.count \in Nat /\ w.rev \in Nat /\ w.rev <= kvSeq
        /\ w.rev = 0 => w.count = 0
        /\ kv[k].rev = w.rev => w.count = kv[k].count
    BY <2>1 DEF LoadWindow, KVInv, Revisions, Entry, Types
  <2>3. CASE OverLimit(w)
    <3>1. \A p \in Requests : call'[p] = call[p] \/ call'[p].pc # "cas"
      BY <1>3, <2>3, IdleType, Zenon DEF Load, Done, KVInv, Types
    <3> QED  BY <3>1, <1>2, <1>3, Zenon DEF Load, natsVars
  <2>4. CASE ~OverLimit(w)
    <3>1. call'[q] = [call[q] EXCEPT !.pc = "cas", !.count = w.count + 1, !.start = w.start, !.rev = w.rev]
      BY <1>3, <2>4, Zenon DEF Load, KVInv, Types
    <3>2. call'[q].key = k /\ call'[q].count = w.count + 1 /\ call'[q].rev = w.rev
      BY <3>1, <2>1, Zenon DEF Call
    <3>3. \A p \in Requests \ {q} : call'[p] = call[p]
      BY <1>3, <2>4, Zenon DEF Load, KVInv, Types
    <3>4. w.count + 1 <= Burst
      BY <2>2, <2>4 DEF OverLimit
    <3>5. kv' = kv /\ kvSeq' = kvSeq
      BY <1>3, Zenon DEF Load, natsVars
    <3> HIDE DEF w, k
    <3>6. Revisions'
      BY <3>2, <3>3, <3>5, <2>2, Zenon DEF KVInv, Revisions
    <3>7. Counted'
      BY <3>2, <3>3, <3>4, <3>5, <2>2 DEF KVInv, Counted
    <3> QED  BY <3>6, <3>7, Zenon
  <2> QED  BY <2>3, <2>4, Zenon
<1>4. ASSUME NEW q \in Requests, CASSucceeds(q) PROVE Revisions' /\ Counted'
  <2>1. call'[q].pc # "cas" /\ \A p \in Requests \ {q} : call'[p] = call[p]
    BY <1>4, IdleType, Zenon DEF CASSucceeds, Done, KVInv, Types
  <2> QED  BY <2>1, <1>1, <1>4, Zenon DEF CASSucceeds
<1>5. ASSUME NEW q \in Requests, CASFails(q) PROVE Revisions' /\ Counted'
  <2>1. call'[q].pc # "cas" /\ \A p \in Requests \ {q} : call'[p] = call[p]
    BY <1>5, IdleType, Zenon DEF CASFails, NextAttempt, Fallback, KVInv, Types, Call
  <2> QED  BY <2>1, <1>1, <1>2, <1>5, Zenon DEF CASFails
<1>6. ASSUME NEW k \in Keys, KVExpire(k) PROVE Revisions' /\ Counted'
  <2>1. kv'[k] = NoEntry /\ \A j \in Keys \ {k} : kv'[j] = kv[j]
    BY <1>6, Zenon DEF KVExpire, KVInv, Types
  <2>2. kvSeq' = kvSeq /\ call' = call
    BY <1>6, Zenon DEF KVExpire
  <2>3. \A p \in Requests : call[p].key \in Keys
    BY Zenon DEF KVInv, Types, Call
  <2>4. Revisions'
    BY <2>1, <2>2 DEF Revisions, NoEntry, KVInv, Types
  <2>5. Counted'
    BY <2>1, <2>2, <2>3 DEF Counted, NoEntry, KVInv
  <2> QED  BY <2>4, <2>5, Zenon
<1>7. ASSUME NEW q \in Requests,
             \/ \E k \in Keys : Arrive(q, k)
             \/ Find(q) \/ CheckLimiter(q) \/ Script(q) \/ ScriptFails(q) \/ LoadFails(q)
      PROVE  Revisions' /\ Counted'
  <2>1. CASE \E k \in Keys : Arrive(q, k)
    <3>1. call'[q].pc # "cas" /\ \A p \in Requests \ {q} : call'[p] = call[p]
      BY <2>1 DEF Arrive, Idle, KVInv, Types, Backends, Memory, NATS, Dragonfly
    <3> QED  BY <3>1, <2>1, <1>2, Zenon DEF Arrive, natsVars
  <2>2. CASE Find(q) \/ CheckLimiter(q)
    <3>1. call'[q].pc # "cas" /\ \A p \in Requests \ {q} : call'[p] = call[p]
      BY <2>2, IdleType DEF Find, CheckLimiter, Done, KVInv, Types, Call
    <3> QED  BY <3>1, <2>2, <1>2, Zenon DEF Find, CheckLimiter, natsVars
  <2>3. CASE Script(q) \/ ScriptFails(q) \/ LoadFails(q)
    <3>1. call'[q].pc # "cas" /\ \A p \in Requests \ {q} : call'[p] = call[p]
      BY <2>3, IdleType, ZenonT(20) DEF Script, ScriptFails, LoadFails, Done, Fallback, KVInv, Types, Call
    <3> QED  BY <3>1, <2>3, <1>2, Zenon DEF Script, ScriptFails, LoadFails, natsVars
  <2> QED  BY <2>1, <2>2, <2>3, <1>7, Zenon
<1>8. CASE (\E r \in Replicas : Cleanup(r) \/ HealthCheck(r)) \/ Tick \/ Outage \/ UNCHANGED vars
  BY <1>8, <1>2, Zenon DEF Cleanup, HealthCheck, Tick, Outage, natsVars, vars
<1> QED  BY <1>3, <1>4, <1>5, <1>6, <1>7, <1>8, Zenon DEF Next

\* The invariant of the counter is inductive.
LEMMA KVInductive ==
    /\ Init => KVInv
    /\ KVInv /\ [Next]_vars => KVInv'
<1>1. Init => KVInv
  BY TypesInductive, IdleType, LimitAssumption
  DEF Init, KVInv, Revisions, Counted, CountsWhatItGrants, NoEntry
<1>2. ASSUME KVInv, [Next]_vars PROVE KVInv'
  <2>1. Types' /\ Revisions' /\ Counted'
    BY <1>2, TypesInductive, RevisionsStep, Zenon DEF KVInv
  <2>2. CountsWhatItGrants'
    <3>1. \A k \in Keys : kv[k].count \in Nat /\ granted[k] \in Nat
      BY <1>2, Zenon DEF KVInv, Types, Entry
    <3>2. ASSUME NEW k \in Keys, Charged(k) PROVE CountsWhatItGrants'
      BY <1>2, <3>1, <3>2, LimitAssumption DEF Charged, KVInv, CountsWhatItGrants
    <3>3. ASSUME NEW k \in Keys, Forgotten(k) PROVE CountsWhatItGrants'
      BY <1>2, <3>1, <3>3, LimitAssumption DEF Forgotten, NoEntry, KVInv, CountsWhatItGrants
    <3> QED  BY <1>2, <3>2, <3>3, CounterSteps, Zenon DEF KVInv, CountsWhatItGrants
  <2> QED  BY <2>1, <2>2, Zenon DEF KVInv
<1> QED  BY <1>1, <1>2, Zenon

\* Whatever replicas race for an entry and whichever replies are lost, it
\* counts at least the requests it allowed and at most Burst (NATSBackend).
THEOREM CountersAreExact == Spec => []CountsWhatItGrants
<1>1. Init => KVInv
  BY KVInductive, Zenon
<1>2. KVInv /\ [Next]_vars => KVInv'
  BY KVInductive, Zenon
<1>3. KVInv => CountsWhatItGrants
  BY Zenon DEF KVInv
<1> QED  BY <1>1, <1>2, <1>3, PTL DEF Spec

\* The read, the count in memory and the conditional write of NATSBackend.Allow
\* are together one atomic step of a counter shared by all replicas.
THEOREM CountersAreAtomic == Spec => CASImplementsSharedQuota
<1>1. Init => Quota!Init
  BY DEF Init, Quota!Init, NoEntry
<1>2. KVInv /\ [Next]_vars => [Quota!Next]_(Quota!qvars)
  <2> SUFFICES ASSUME KVInv, [Next]_vars PROVE [Quota!Next]_(Quota!qvars)
    BY Zenon
  <2>1. granted \in [Keys -> Nat] /\ granted' \in [Keys -> Nat]
    BY TypesInductive, Zenon DEF KVInv, Types
  <2>2. ASSUME NEW k \in Keys, Charged(k) PROVE Quota!Charge(k)
    <3>1. [j \in Keys |-> kv'[j].count] = [[j \in Keys |-> kv[j].count] EXCEPT ![k] = @ + 1]
      BY <2>2, Zenon DEF Charged
    <3>2. granted' = [granted EXCEPT ![k] = @ + 1] \/ granted' = granted
      BY <2>1, <2>2 DEF Charged
    <3>3. [j \in Keys |-> kv[j].count][k] < Burst
      BY <2>2, Zenon DEF Charged
    <3> QED  BY <3>1, <3>2, <3>3, Zenon DEF Quota!Charge
  <2>3. ASSUME NEW k \in Keys, Forgotten(k) PROVE Quota!Forget(k)
    <3>1. [j \in Keys |-> kv'[j].count] = [[j \in Keys |-> kv[j].count] EXCEPT ![k] = 0]
      <4>1. kv'[k].count = 0 /\ \A j \in Keys \ {k} : kv'[j].count = kv[j].count
        BY <2>3 DEF Forgotten, NoEntry
      <4> QED  BY <4>1, Zenon
    <3>2. granted' = [granted EXCEPT ![k] = 0]
      BY <2>1, <2>3, Zenon DEF Forgotten
    <3> QED  BY <3>1, <3>2, Zenon DEF Quota!Forget
  <2>4. UNCHANGED <<kv, granted>> => UNCHANGED Quota!qvars
    BY Zenon DEF Quota!qvars
  <2> QED  BY <2>2, <2>3, <2>4, CounterSteps, Zenon DEF Quota!Next
<1>3. Init => KVInv
  BY KVInductive, Zenon
<1>4. KVInv /\ [Next]_vars => KVInv'
  BY KVInductive, Zenon
<1> QED  BY <1>1, <1>2, <1>3, <1>4, PTL DEF Spec, CASImplementsSharedQuota, Quota!Spec

-----------------------------------------------------------------------------
(* The buckets in memory.                                                  *)

\* A window is the time in which an empty bucket becomes full.
LEMMA WindowRefills ==
    /\ Window \in Nat
    /\ \A x \in Nat : x >= Window => x * Rate >= Burst
<1>1. Window \in Nat /\ Window * Rate = Burst
  BY LimitAssumption DEF Window
<1>2. \A a, b, c \in Nat : a >= b => a * c >= b * c
  OBVIOUS
<1> QED  BY <1>1, <1>2, LimitAssumption, Zenon

\* The refill of one unit of time.
LEMMA OneUnit ==
    ASSUME NEW x \in Int
    PROVE  x * Rate \in Int /\ (x + 1) * Rate = x * Rate + Rate /\ 0 * Rate = 0
  BY LimitAssumption

\* Only one slot moves in a step, and a call reads the clock only when it is
\* made, by the middleware or by handleUnavailable; only Find leads to "take".
LEMMA CallSteps ==
    ASSUME Types, [Next]_vars
    PROVE  \A q \in Requests :
              \/ call'[q] = call[q]
              \/ call'[q].pc = "idle"
              \/ call'[q].now = clock /\ clock' = clock /\ call'[q].pc # "take"
              \/ /\ call[q].pc # "idle" /\ call'[q].now = call[q].now /\ clock' = clock
                 /\ call'[q].pc = "take" => Find(q)
<1> SUFFICES ASSUME NEW q \in Requests
             PROVE  \/ call'[q] = call[q]
                    \/ call'[q].pc = "idle"
                    \/ call'[q].now = clock /\ clock' = clock /\ call'[q].pc # "take"
                    \/ /\ call[q].pc # "idle" /\ call'[q].now = call[q].now /\ clock' = clock
                       /\ call'[q].pc = "take" => Find(q)
  BY Zenon
<1>1. CASE \E k \in Keys : Arrive(q, k)
  BY <1>1 DEF Arrive, Idle, Types, Backends, Memory, NATS, Dragonfly
<1>2. CASE Find(q)
  BY <1>2, Zenon DEF Find, Types, Call
<1>3. CASE CheckLimiter(q) \/ Script(q) \/ CASSucceeds(q)
  BY <1>3, IdleType, Zenon DEF CheckLimiter, Script, CASSucceeds, Done, Types
<1>4. CASE ScriptFails(q) \/ LoadFails(q)
  BY <1>4, ZenonT(20) DEF ScriptFails, LoadFails, Fallback, Idle, Types, Call, service
<1>5. CASE Load(q)
  <2>1. CASE call' = Done(q)
    BY <2>1, IdleType, Zenon DEF Done, Types
  <2>2. CASE call' # Done(q)
    BY <1>5, <2>2, Zenon DEF Load, Types, Call
  <2> QED  BY <2>1, <2>2, Zenon
<1>6. CASE CASFails(q)
  BY <1>6, Zenon DEF CASFails, NextAttempt, Fallback, Idle, Types, Call
<1>7. ASSUME NEW p \in Requests, p # q,
             \/ \E k \in Keys : Arrive(p, k)
             \/ Find(p) \/ CheckLimiter(p) \/ Script(p) \/ ScriptFails(p)
             \/ Load(p) \/ LoadFails(p) \/ CASSucceeds(p) \/ CASFails(p)
      PROVE  call'[q] = call[q]
  BY <1>7, Zenon DEF Arrive, Find, CheckLimiter, Script, ScriptFails, Load, LoadFails, CASSucceeds,
              CASFails, NextAttempt, Fallback, Done, Types
<1>8. CASE \/ \E r \in Replicas : Cleanup(r) \/ HealthCheck(r)
           \/ \E k \in Keys : KVExpire(k)
           \/ Tick \/ Outage \/ UNCHANGED vars
  BY <1>8, Zenon DEF Cleanup, HealthCheck, KVExpire, Tick, Outage, vars
<1> QED  BY <1>1, <1>2, <1>3, <1>4, <1>5, <1>6, <1>7, <1>8, Zenon DEF Next

\* The clock moves only while no call has used up its time.
LEMMA ClockSteps ==
    ASSUME Types, [Next]_vars
    PROVE  clock' = clock \/ Tick
  BY Zenon DEF Next, Arrive, Find, CheckLimiter, Script, ScriptFails, Load, LoadFails, CASSucceeds,
         CASFails, Cleanup, HealthCheck, KVExpire, Outage, vars

\* What Find and checkLimiter leave in the map.
Found(b, now) ==
    IF b.on THEN [b EXCEPT !.used = now]
    ELSE [on |-> TRUE, tokens |-> Burst, last |-> clock, used |-> now]
Taken(b) == [b EXCEPT !.tokens = Level(b) - 1, !.last = clock]

\* A bucket changes when a request finds it or takes from it, and when it has
\* been idle.
LEMMA BucketSteps ==
    ASSUME Types, [Next]_vars, NEW r \in Replicas, NEW k \in Keys
    PROVE  \/ mem'[r][k] = mem[r][k]
           \/ \E q \in Requests :
                /\ Find(q) /\ r = Home[q] /\ k = call[q].key
                /\ mem'[r][k] = Found(mem[r][k], call[q].now)
           \/ \E q \in Requests :
                /\ CheckLimiter(q) /\ r = Home[q] /\ k = call[q].key
                /\ Level(mem[r][k]) >= 1 /\ mem'[r][k] = Taken(mem[r][k])
           \/ IdleTooLong(mem[r][k]) /\ mem'[r][k] = NoBucket /\ UNCHANGED <<clock, call>>
<1>1. ASSUME NEW q \in Requests, Find(q), ~(r = Home[q] /\ k = call[q].key)
      PROVE  mem'[r][k] = mem[r][k]
  BY <1>1, HomeAssumption, Zenon DEF Find, Types
<1>2. ASSUME NEW q \in Requests, Find(q), r = Home[q], k = call[q].key
      PROVE  mem'[r][k] = Found(mem[r][k], call[q].now)
  BY <1>2, Zenon DEF Find, Found, Renewed, Types
<1>3. ASSUME NEW q \in Requests, CheckLimiter(q), ~(r = Home[q] /\ k = call[q].key)
      PROVE  mem'[r][k] = mem[r][k]
  BY <1>3, HomeAssumption DEF CheckLimiter, Types
<1>4. ASSUME NEW q \in Requests, CheckLimiter(q), r = Home[q], k = call[q].key
      PROVE  \/ mem'[r][k] = mem[r][k]
             \/ Level(mem[r][k]) >= 1 /\ mem'[r][k] = Taken(mem[r][k])
  BY <1>4 DEF CheckLimiter, Taken, Types
<1>5. ASSUME NEW p \in Replicas, Cleanup(p)
      PROVE  \/ mem'[r][k] = mem[r][k]
             \/ IdleTooLong(mem[r][k]) /\ mem'[r][k] = NoBucket /\ UNCHANGED <<clock, call>>
  BY <1>5, Zenon DEF Cleanup, Types
<1>6. CASE ~ \/ \E q \in Requests : Find(q) \/ CheckLimiter(q)
             \/ \E p \in Replicas : Cleanup(p)
  BY <1>6, Zenon DEF Next, Arrive, Script, ScriptFails, Load, LoadFails, CASSucceeds, CASFails,
              HealthCheck, KVExpire, Tick, Outage, vars
<1> QED  BY <1>1, <1>2, <1>3, <1>4, <1>5, <1>6, Zenon

\* A bucket that a request has found cannot be idle for too long: lastUsed may
\* fall behind the request by MaxDelay, and the request behind the clock by
\* MaxDelay (the second conjunct is why IdleAssumption doubles it).
LEMMA MemInductive ==
    /\ Init => MemInv
    /\ MemInv /\ [Next]_vars => MemInv'
<1> USE IdleAssumption, WindowRefills
<1>1. Init => MemInv
  BY TypesInductive, IdleType DEF Init, MemInv, Timely, Held, Fresh, NoBucket
<1>2. ASSUME MemInv, [Next]_vars PROVE MemInv'
  <2>0. Types /\ Types'
    BY <1>2, TypesInductive, Zenon DEF MemInv
  <2>n. /\ clock \in Nat /\ clock' \in Nat
        /\ \A q \in Requests : call[q] \in Call /\ call'[q] \in Call
        /\ \A r \in Replicas, k \in Keys : mem[r][k] \in Bucket /\ mem'[r][k] \in Bucket
    BY <2>0, Zenon DEF Types
  <2>1. Timely'
    <3> SUFFICES ASSUME NEW q \in Requests, call'[q].pc # "idle"
                 PROVE  call'[q].now <= clock' /\ clock' <= call'[q].now + MaxDelay
      BY Zenon DEF Timely
    <3>1. CASE Tick
      BY <1>2, <2>n, <3>1 DEF Tick, MemInv, Timely, Call
    <3>2. CASE clock' = clock
      BY <1>2, <2>0, <2>n, <3>2, CallSteps DEF MemInv, Timely, Call
    <3> QED  BY <1>2, <2>0, <3>1, <3>2, ClockSteps, Zenon
  <2>2. Held'
    <3> SUFFICES ASSUME NEW q \in Requests, call'[q].pc = "take"
                 PROVE  /\ mem'[Home[q]][call'[q].key].on
                        /\ call'[q].now <= mem'[Home[q]][call'[q].key].used + MaxDelay
      BY Zenon DEF Held
    <3> DEFINE r == Home[q]
               k == call[q].key
    <3>1. r \in Replicas /\ k \in Keys /\ mem[r][k] \in Bucket /\ call[q].now \in Nat
      BY <2>n, HomeAssumption, ZenonT(20) DEF Call
    <3>2. CASE Find(q)
      <4>1. mem'[r][k] = Found(mem[r][k], call[q].now)
        BY <3>1, <3>2, <2>0, Zenon DEF Find, Found, Renewed, Types
      <4>2. call'[q].key = k /\ call'[q].now = call[q].now
        BY <3>2, <2>0 DEF Find, Types, Call
      <4> QED  BY <4>1, <4>2, <3>1 DEF Found, Bucket
    <3>3. CASE call'[q] = call[q]
      <4>1. mem[r][k].on /\ call[q].now <= mem[r][k].used + MaxDelay
        BY <1>2, <3>3, Zenon DEF MemInv, Held
      <4>2. call[q].now <= clock /\ clock <= call[q].now + MaxDelay
        BY <1>2, <3>3, ZenonT(20) DEF MemInv, Timely
      <4>3. ~IdleTooLong(mem[r][k])
        BY <4>1, <4>2, <3>1, <2>n, SMTT(20) DEF IdleTooLong, Bucket
      <4>4. ASSUME NEW p \in Requests, Find(p), mem'[r][k] = Found(mem[r][k], call[p].now)
            PROVE  mem'[r][k].on /\ call[q].now <= mem'[r][k].used + MaxDelay
        <5>1. clock <= call[p].now + MaxDelay /\ call[p].now \in Nat
          BY <1>2, <2>n, <4>4, Zenon DEF MemInv, Timely, Find, Call
        <5> QED  BY <4>1, <4>2, <4>4, <5>1, <3>1, <2>n DEF Found, Bucket
      <4>5. ASSUME mem'[r][k] = Taken(mem[r][k])
            PROVE  mem'[r][k].on /\ mem'[r][k].used = mem[r][k].used
        BY <4>1, <4>5, <3>1, Zenon DEF Taken, Bucket
      <4>6. mem'[r][k].on /\ call[q].now <= mem'[r][k].used + MaxDelay
        BY <1>2, <2>0, <3>1, <4>1, <4>3, <4>4, <4>5, BucketSteps, Zenon
      <4> QED  BY <3>3, <4>6, Zenon
    <3> QED  BY <1>2, <2>0, <3>2, <3>3, CallSteps, Zenon
  <2>3. Fresh'
    <3> SUFFICES ASSUME NEW r \in Replicas, NEW k \in Keys, mem'[r][k].on
                 PROVE  /\ mem'[r][k].last <= clock' /\ mem'[r][k].used <= clock'
                        /\ mem'[r][k].last <= mem'[r][k].used + 2 * MaxDelay
      BY Zenon DEF Fresh
    <3>1. clock <= clock'
      BY <1>2, <2>0, <2>n, ClockSteps DEF Tick
    <3>2. mem[r][k] \in Bucket
      BY <2>n, Zenon
    <3>3. mem[r][k].on => /\ mem[r][k].last <= clock /\ mem[r][k].used <= clock
                          /\ mem[r][k].last <= mem[r][k].used + 2 * MaxDelay
      BY <1>2, Zenon DEF MemInv, Fresh
    <3>4. CASE mem'[r][k] = mem[r][k]
      BY <2>n, <3>1, <3>2, <3>3, <3>4 DEF Bucket
    <3>5. ASSUME NEW q \in Requests, Find(q), mem'[r][k] = Found(mem[r][k], call[q].now)
          PROVE  /\ mem'[r][k].last <= clock' /\ mem'[r][k].used <= clock'
                 /\ mem'[r][k].last <= mem'[r][k].used + 2 * MaxDelay
      <4>1. call[q].now <= clock /\ clock <= call[q].now + MaxDelay /\ call[q].now \in Nat
        BY <1>2, <2>n, <3>5, Zenon DEF MemInv, Timely, Find, Call
      <4> QED  BY <2>n, <3>1, <3>2, <3>3, <3>5, <4>1 DEF Found, Bucket
    <3>6. ASSUME NEW q \in Requests, CheckLimiter(q), r = Home[q], k = call[q].key,
                 mem'[r][k] = Taken(mem[r][k])
          PROVE  /\ mem'[r][k].last <= clock' /\ mem'[r][k].used <= clock'
                 /\ mem'[r][k].last <= mem'[r][k].used + 2 * MaxDelay
      <4>1. /\ clock <= call[q].now + MaxDelay /\ call[q].now \in Nat
            /\ mem[r][k].on /\ call[q].now <= mem[r][k].used + MaxDelay
        BY <1>2, <2>n, <3>6, Zenon DEF MemInv, Timely, Held, CheckLimiter, Call
      <4>2. mem'[r][k].last = clock /\ mem'[r][k].used = mem[r][k].used
        BY <3>2, <3>6, Zenon DEF Taken, Bucket
      <4> QED  BY <2>n, <3>1, <3>2, <3>3, <4>1, <4>2 DEF Bucket
    <3>7. CASE mem'[r][k] = NoBucket
      BY <3>7 DEF NoBucket
    <3> QED  BY <1>2, <2>0, <3>4, <3>5, <3>6, <3>7, BucketSteps, Zenon
  <2> QED  BY <2>0, <2>1, <2>2, <2>3, Zenon DEF MemInv
<1> QED  BY <1>1, <1>2, Zenon

\* Cleanup never drops a bucket between a request's finding it and its taking
\* from it, so all requests of a key at a replica share one bucket
\* (MemoryBackend.Allow unlocks before checkLimiter).
THEOREM BucketsAreShared == Spec => []NoOrphanBucket
<1>1. MemInv => NoOrphanBucket
  BY Zenon DEF MemInv, Held, NoOrphanBucket
<1>2. Init => MemInv
  BY MemInductive, Zenon
<1>3. MemInv /\ [Next]_vars => MemInv'
  BY MemInductive, Zenon
<1> QED  BY <1>1, <1>2, <1>3, PTL DEF Spec

-----------------------------------------------------------------------------
(* What the buckets promise.                                               *)

Shown(b) == IF b.on THEN Level(b) ELSE Burst

\* A bucket that was never created, or that was dropped, is worth a full one.
LEMMA LevelSteps ==
    ASSUME MemInv, [Next]_vars, clock' = clock, NEW r \in Replicas, NEW k \in Keys
    PROVE  \/ Shown(mem[r][k])' = Shown(mem[r][k])
           \/ \E q \in Requests :
                /\ CheckLimiter(q) /\ r = Home[q] /\ k = call[q].key
                /\ Shown(mem[r][k]) >= 1 /\ Shown(mem[r][k])' = Shown(mem[r][k]) - 1
<1> USE LimitAssumption, IdleAssumption
<1> DEFINE b == mem[r][k]
<1>1. Types /\ b \in Bucket /\ clock \in Nat
  BY Zenon DEF MemInv, Types
<1>2. b.on => b.last <= clock /\ b.last <= b.used + 2 * MaxDelay
  BY Zenon DEF MemInv, Fresh
<1>3. CASE mem'[r][k] = mem[r][k]
  BY <1>3, Zenon DEF Shown, Level
<1>4. ASSUME NEW q \in Requests, Find(q), mem'[r][k] = Found(mem[r][k], call[q].now)
      PROVE  Shown(mem[r][k])' = Shown(mem[r][k])
  <2>1. CASE b.on
    BY <1>1, <1>4, <2>1 DEF Shown, Found, Level, Bucket
  <2>2. CASE ~b.on
    <3>1. mem'[r][k].on /\ mem'[r][k].tokens = Burst /\ mem'[r][k].last = clock
      BY <1>4, <2>2 DEF Found
    <3>2. clock' - mem'[r][k].last = 0 /\ 0 * Rate = 0
      BY <1>1, <3>1, OneUnit
    <3> QED  BY <2>2, <3>1, <3>2 DEF Shown, Level
  <2> QED  BY <2>1, <2>2, Zenon
<1>5. ASSUME NEW q \in Requests, CheckLimiter(q), r = Home[q], k = call[q].key,
             Level(b) >= 1, mem'[r][k] = Taken(b)
      PROVE  Shown(mem[r][k]) >= 1 /\ Shown(mem[r][k])' = Shown(mem[r][k]) - 1
  <2>1. b.on
    BY <1>5, Zenon DEF MemInv, Held, CheckLimiter
  <2>2. mem'[r][k].on /\ mem'[r][k].tokens = Level(b) - 1 /\ mem'[r][k].last = clock
    BY <1>1, <1>5, <2>1, Zenon DEF Taken, Bucket
  <2>3. clock' - mem'[r][k].last = 0 /\ 0 * Rate = 0
    BY <1>1, <2>2, OneUnit
  <2>4. Level(b) \in Int /\ Level(b) <= Burst
    BY <1>1, LevelType, Zenon
  <2>5. Level(mem[r][k])' = Level(b) - 1
    <3> HIDE DEF b
    <3>1. Level(mem[r][k])' =
            LET n == mem'[r][k].tokens + (clock' - mem'[r][k].last) * Rate
            IN IF n > Burst THEN Burst ELSE n
      BY Zenon DEF Level
    <3> QED  BY <2>2, <2>3, <2>4, <3>1
  <2> QED  BY <1>5, <2>1, <2>2, <2>5, Zenon DEF Shown
<1>6. ASSUME IdleTooLong(b), mem'[r][k] = NoBucket
      PROVE  Shown(mem[r][k])' = Shown(mem[r][k])
  <2>1. b.on /\ clock - b.last \in Nat /\ clock - b.last >= Window
    BY <1>1, <1>2, <1>6, WindowRefills DEF IdleTooLong, Bucket
  <2>2. (clock - b.last) * Rate >= Burst /\ (clock - b.last) * Rate \in Int
    <3>1. \A y \in Nat : y >= Window => y * Rate >= Burst /\ y * Rate \in Int
      BY WindowRefills, OneUnit
    <3> QED  BY <2>1, <3>1, Zenon
  <2>3. Level(b) = Burst
    BY <1>1, <2>2 DEF Level, Bucket
  <2> QED  BY <1>6, <2>1, <2>3 DEF Shown, NoBucket
<1> QED  BY <1>1, <1>3, <1>4, <1>5, <1>6, BucketSteps, Zenon DEF Shown

\* A unit of time refills every bucket, the dropped ones being full.
LEMMA TickRefills ==
    ASSUME MemInv, Tick, NEW r \in Replicas, NEW k \in Keys
    PROVE  Shown(mem[r][k])' = Bucketed!Refilled(Shown(mem[r][k]))
<1> USE LimitAssumption
<1> DEFINE b == mem[r][k]
           x == (clock - b.last) * Rate
<1>1. b \in Bucket /\ clock \in Nat /\ clock' = clock + 1 /\ mem' = mem
  BY Zenon DEF MemInv, Types, Tick
<1>2. x \in Int /\ (clock' - b.last) * Rate = x + Rate
  <2>1. clock - b.last \in Int /\ clock' - b.last = (clock - b.last) + 1
    BY <1>1 DEF Bucket
  <2> QED  BY <2>1, OneUnit, Zenon
<1>3. CASE b.on
  <2>1. Level(b) = IF b.tokens + x > Burst THEN Burst ELSE b.tokens + x
    BY Zenon DEF Level
  <2>2. Level(mem[r][k])' = IF b.tokens + (x + Rate) > Burst THEN Burst ELSE b.tokens + (x + Rate)
    BY <1>1, <1>2, Zenon DEF Level
  <2>3. b.tokens \in Int /\ b.tokens <= Burst
    BY <1>1 DEF Bucket
  <2> HIDE DEF x, b
  <2> QED  BY <1>1, <1>2, <1>3, <2>1, <2>2, <2>3 DEF Shown, Bucketed!Refilled, b
<1>4. CASE ~b.on
  BY <1>1, <1>4 DEF Shown, Bucketed!Refilled
<1> QED  BY <1>3, <1>4, Zenon

\* The buckets of MemoryBackend, created on demand, refilled when they are
\* asked and dropped when idle, are token buckets that are always there and
\* refilled all the time.
THEOREM BucketsAreTokenBuckets == Spec => MemoryImplementsTokenBucket
<1> DEFINE L == [r \in Replicas |-> [k \in Keys |-> Shown(mem[r][k])]]
<1>0. L = [r \in Replicas |-> [k \in Keys |-> IF mem[r][k].on THEN Level(mem[r][k]) ELSE Burst]]
  BY Zenon DEF Shown
<1>1. Init => Bucketed!Init
  BY DEF Init, Bucketed!Init, NoBucket
<1>2. MemInv /\ [Next]_vars => [Bucketed!Next]_L
  <2> SUFFICES ASSUME MemInv, [Next]_vars PROVE [Bucketed!Next]_L
    BY Zenon
  <2>0. Types
    BY Zenon DEF MemInv
  <2>1. CASE Tick
    <3>1. Bucketed!Refill
      BY <2>1, TickRefills, Zenon DEF Bucketed!Refill, Shown
    <3> QED  BY <3>1, Zenon DEF Bucketed!Next
  <2>2. ASSUME clock' = clock, NEW q \in Requests, CheckLimiter(q),
               NEW r \in Replicas, NEW k \in Keys, r = Home[q], k = call[q].key
        PROVE  [Bucketed!Next]_L
    <3>2. \A p \in Replicas, j \in Keys : ~(p = r /\ j = k) => mem'[p][j] = mem[p][j]
      BY <2>0, <2>2 DEF CheckLimiter, Types
    <3>3. \A p \in Replicas, j \in Keys : ~(p = r /\ j = k) => Shown(mem[p][j])' = Shown(mem[p][j])
      BY <2>2, <3>2 DEF Shown, Level
    <3>4. \/ Shown(mem[r][k])' = Shown(mem[r][k])
          \/ Shown(mem[r][k]) >= 1 /\ Shown(mem[r][k])' = Shown(mem[r][k]) - 1
      <4>1. \A p \in Replicas, j \in Keys :
               \/ Shown(mem[p][j])' = Shown(mem[p][j])
               \/ Shown(mem[p][j]) >= 1 /\ Shown(mem[p][j])' = Shown(mem[p][j]) - 1
        BY <2>2, LevelSteps, Zenon
      <4> QED  BY <4>1, Zenon
    <3>5. CASE Shown(mem[r][k])' = Shown(mem[r][k])
      <4>1. \A p \in Replicas, j \in Keys : Shown(mem[p][j])' = Shown(mem[p][j])
        BY <3>3, <3>5, Zenon
      <4>2. UNCHANGED L
        BY <4>1, Zenon
      <4> QED  BY <4>2, Zenon
    <3>6. CASE Shown(mem[r][k]) >= 1 /\ Shown(mem[r][k])' = Shown(mem[r][k]) - 1
      <4>1. L[r][k] >= 1 /\ L' = [L EXCEPT ![r][k] = @ - 1]
        <5>1. L[r][k] = Shown(mem[r][k])
          BY Zenon
        <5>2. \A p \in Replicas, j \in Keys :
                Shown(mem[p][j])' = IF p = r /\ j = k THEN Shown(mem[r][k]) - 1 ELSE Shown(mem[p][j])
          BY <3>3, <3>6, Zenon
        <5>3. [p \in Replicas |-> [j \in Keys |-> Shown(mem[p][j])']] = [L EXCEPT ![r][k] = @ - 1]
          BY <5>2, Zenon
        <5> QED  BY <3>6, <5>1, <5>3, Zenon
      <4>2. Bucketed!Take(r, k)
        BY <4>1, Zenon DEF Bucketed!Take, Shown
      <4>3. \E p \in Replicas, j \in Keys : Bucketed!Take(p, j)
        BY <4>2, Zenon
      <4>4. Bucketed!Next
        BY <4>3, Zenon DEF Bucketed!Next
      <4> QED  BY <4>4, Zenon
    <3> QED  BY <3>4, <3>5, <3>6, Zenon
  <2>3. ASSUME clock' = clock, ~\E q \in Requests : CheckLimiter(q) PROVE UNCHANGED L
    <3>1. \A r \in Replicas, k \in Keys : Shown(mem[r][k])' = Shown(mem[r][k])
      BY <2>3, LevelSteps, Zenon
    <3> QED  BY <3>1, Zenon
  <2>4. \A q \in Requests : Home[q] \in Replicas /\ call[q].key \in Keys
    BY <2>0, HomeAssumption, Zenon DEF Types, Call
  <2> QED  BY <2>0, <2>1, <2>2, <2>3, <2>4, ClockSteps, Zenon
<1>3. Init => MemInv
  BY MemInductive, Zenon
<1>4. MemInv /\ [Next]_vars => MemInv'
  BY MemInductive, Zenon
<1>5. MemInv /\ [Next]_vars
      => [Bucketed!Next]_[r \in Replicas |-> [k \in Keys |-> IF mem[r][k].on THEN Level(mem[r][k]) ELSE Burst]]
  BY <1>2, Zenon DEF Shown
<1> QED  BY <1>1, <1>3, <1>4, <1>5, PTL DEF Spec, MemoryImplementsTokenBucket, Bucketed!Spec

-----------------------------------------------------------------------------
(* Counting the members of a set by score.                                 *)

\* Induction over the natural numbers, for sets.
LEMMA Induction ==
    ASSUME NEW T, 0 \in T, \A n \in Nat : n \in T => n + 1 \in T
    PROVE  Nat \subseteq T
<1> SUFFICES ASSUME Nat \ T # {} PROVE FALSE
  BY Zenon
<1>1. IsWellFoundedOn({ss \in Nat \X Nat : ss[1] < ss[2]}, Nat)
  BY NatLessThanWellFounded, Zenon DEF OpToRel
<1>2. PICK x \in Nat \ T : \A y \in Nat \ T : ~ (<<y, x>> \in {ss \in Nat \X Nat : ss[1] < ss[2]})
  BY <1>1, WFMin, Zenon
<1>3. \A y \in Nat \ T : ~(y < x)
  BY <1>2, Zenon
<1>4. x # 0 /\ x - 1 \in Nat
  BY <1>2
<1>5. x - 1 \in T
  BY <1>3, <1>4
<1> QED
  BY <1>2, <1>4, <1>5

\* The same, from one score to the last.
LEMMA UpToLast ==
    ASSUME Last \in Nat, NEW a \in 0 .. Last + 1, NEW T, a \in T,
           \A n \in Times : a <= n /\ n \in T => n + 1 \in T
    PROVE  \A n \in a .. Last + 1 : n \in T
<1> DEFINE S == {m \in Nat : a + m <= Last + 1 => a + m \in T}
<1>1. 0 \in S
  OBVIOUS
<1>2. ASSUME NEW m \in Nat, m \in S PROVE m + 1 \in S
  <2> SUFFICES ASSUME a + (m + 1) <= Last + 1 PROVE a + (m + 1) \in T
    OBVIOUS
  <2>1. a + m \in Times /\ a <= a + m /\ a + m \in T /\ a + (m + 1) = (a + m) + 1
    BY <1>2 DEF Times
  <2> QED
    BY <2>1
<1> HIDE DEF S
<1>3. Nat \subseteq S
  BY <1>1, <1>2, Induction, Zenon
<1> SUFFICES ASSUME NEW n \in a .. Last + 1 PROVE n \in T
  BY Zenon
<1>4. n - a \in S /\ a + (n - a) = n
  BY <1>3
<1> QED
  BY <1>4 DEF S

\* The clock's bounds lie within Times.
LEMMA LastBounds == Last \in Nat /\ \A b \in Backends : MaxTime[b] <= Last
<1> DEFINE S == {MaxTime[b] : b \in Backends}
<1>1. MaxTime[Memory] \in Nat /\ MaxTime[Dragonfly] \in Nat /\ MaxTime[NATS] \in Nat
  BY IdleAssumption, Zenon DEF Backends
<1>2. S = {MaxTime[Memory], MaxTime[Dragonfly], MaxTime[NATS]}
  BY Zenon DEF Backends
<1>3. \E x \in S : \A y \in S : x >= y
  <2> DEFINE x == MaxTime[Memory]
             y == MaxTime[Dragonfly]
             z == MaxTime[NATS]
  <2>1. x \in Nat /\ y \in Nat /\ z \in Nat /\ S = {x, y, z}
    BY <1>1, <1>2, Zenon
  <2> HIDE DEF S, x, y, z
  <2>2. CASE x >= y /\ x >= z
    BY <2>1, <2>2
  <2>3. CASE y >= x /\ y >= z
    BY <2>1, <2>3
  <2>4. CASE z >= x /\ z >= y
    BY <2>1, <2>4
  <2> QED
    BY <2>1, <2>2, <2>3, <2>4
<1>4. Last \in S /\ \A y \in S : Last >= y
  BY <1>3, Zenon DEF Last, Max
<1> QED
  BY <1>1, <1>2, <1>4 DEF Backends

CountUpTo(f, s, n) == f = [i \in 0 .. n |-> IF i = 0 THEN 0 ELSE f[i - 1] + s[i - 1]]

\* The recursive function Count stands for exists.
LEMMA CountExists ==
    ASSUME NEW s, NEW n \in Nat
    PROVE  \E f : CountUpTo(f, s, n)
<1> DEFINE T == {m \in Nat : \E f : CountUpTo(f, s, m)}
<1>1. 0 \in T
  <2>1. CountUpTo([i \in 0 .. 0 |-> 0], s, 0)
    BY DEF CountUpTo
  <2> QED
    BY <2>1, Zenon
<1>2. ASSUME NEW m \in Nat, m \in T PROVE m + 1 \in T
  <2>1. PICK f : CountUpTo(f, s, m)
    BY <1>2, Zenon
  <2> DEFINE g == [i \in 0 .. (m + 1) |-> IF i <= m THEN f[i] ELSE f[m] + s[m]]
  <2>2. \A i \in 0 .. m : f[i] = IF i = 0 THEN 0 ELSE f[i - 1] + s[i - 1]
    BY <2>1, Zenon DEF CountUpTo
  <2>3. \A i \in 0 .. (m + 1) : g[i] = IF i = 0 THEN 0 ELSE g[i - 1] + s[i - 1]
    <3> SUFFICES ASSUME NEW i \in 0 .. (m + 1)
                 PROVE  g[i] = IF i = 0 THEN 0 ELSE g[i - 1] + s[i - 1]
      BY Zenon
    <3>1. CASE i = 0
      BY <2>2, <3>1
    <3>2. CASE i # 0 /\ i <= m
      <4>1. g[i] = f[i] /\ g[i - 1] = f[i - 1]
        BY <3>2
      <4> QED
        BY <2>2, <3>2, <4>1
    <3>3. CASE i = m + 1
      <4>1. g[i] = f[m] + s[m] /\ g[i - 1] = f[m] /\ i # 0 /\ i - 1 = m
        BY <3>3
      <4> QED
        BY <4>1, Zenon
    <3> QED
      BY <3>1, <3>2, <3>3
  <2>4. CountUpTo(g, s, m + 1)
    BY <2>3, Zenon DEF CountUpTo
  <2> HIDE DEF g
  <2> QED
    BY <2>4
<1> HIDE DEF T
<1>3. n \in T
  BY <1>1, <1>2, Induction, Zenon
<1> QED
  BY <1>3, Zenon DEF T

\* Count adds up the members, score by score.
LEMMA CountFacts ==
    ASSUME NEW s \in [Times -> Nat]
    PROVE  /\ Count(s)[0] = 0
           /\ \A n \in Times : Count(s)[n + 1] = Count(s)[n] + s[n]
           /\ \A n \in 0 .. Last + 1 : Count(s)[n] \in Nat
<1> DEFINE c == CHOOSE f : CountUpTo(f, s, Last + 1)
<1>0. Last \in Nat /\ Last + 1 \in Nat
  BY LastBounds
<1>1. Count(s) = c
  BY Zenon DEF Count, CountUpTo
<1>2. CountUpTo(c, s, Last + 1)
  BY <1>0, CountExists, Zenon
<1> HIDE DEF c
<1>3. \A i \in 0 .. Last + 1 : c[i] = IF i = 0 THEN 0 ELSE c[i - 1] + s[i - 1]
  BY <1>2, Zenon DEF CountUpTo
<1>4. c[0] = 0 /\ \A n \in Times : c[n + 1] = c[n] + s[n]
  BY <1>0, <1>3 DEF Times
<1> DEFINE T == {n \in 0 .. Last + 1 : c[n] \in Nat}
<1>5. 0 \in 0 .. Last + 1 /\ 0 \in T
  BY <1>0, <1>4
<1>6. \A n \in Times : 0 <= n /\ n \in T => n + 1 \in T
  BY <1>0, <1>4 DEF Times
<1> HIDE DEF T
<1>7. \A n \in 0 .. Last + 1 : n \in T
  BY <1>0, <1>5, <1>6, UpToLast, Zenon
<1> QED
  BY <1>1, <1>4, <1>7, Zenon DEF T

\* What is counted between two scores grows with the members there.
LEMMA CountMonotone ==
    ASSUME NEW s \in [Times -> Nat], NEW z \in [Times -> Nat],
           NEW a \in 0 .. Last + 1, NEW b \in a .. Last + 1,
           \A u \in Times : a <= u /\ u < b => s[u] <= z[u]
    PROVE  Count(s)[b] - Count(s)[a] <= Count(z)[b] - Count(z)[a]
<1> DEFINE T == {n \in 0 .. Last + 1 :
                   n <= b => Count(s)[n] - Count(s)[a] <= Count(z)[n] - Count(z)[a]}
<1>0. Last \in Nat
  BY LastBounds
<1>1. a \in T
  BY CountFacts
<1>2. ASSUME NEW n \in Times, a <= n, n \in T PROVE n + 1 \in T
  <2>1. n + 1 \in 0 .. Last + 1 /\ n \in 0 .. Last + 1 /\ n \in Nat /\ b \in Nat
    BY <1>0 DEF Times
  <2>2. s[n] \in Nat /\ z[n] \in Nat
    OBVIOUS
  <2>3. /\ Count(s)[n] \in Nat /\ Count(z)[n] \in Nat /\ Count(s)[a] \in Nat /\ Count(z)[a] \in Nat
        /\ Count(s)[n + 1] = Count(s)[n] + s[n] /\ Count(z)[n + 1] = Count(z)[n] + z[n]
    BY <2>1, CountFacts, Zenon
  <2> QED
    BY <1>2, <2>1, <2>2, <2>3
<1> HIDE DEF T
<1>3. b \in T
  BY <1>0, <1>1, <1>2, UpToLast, Zenon
<1> QED
  BY <1>0, <1>3 DEF T

\* Later scores count at least as many.
LEMMA CountGrows ==
    ASSUME NEW s \in [Times -> Nat], NEW a \in 0 .. Last + 1, NEW b \in a .. Last + 1
    PROVE  Count(s)[a] <= Count(s)[b]
<1> DEFINE T == {n \in 0 .. Last + 1 : Count(s)[a] <= Count(s)[n]}
<1>0. Last \in Nat
  BY LastBounds
<1>1. a \in T
  BY CountFacts
<1>2. ASSUME NEW n \in Times, a <= n, n \in T PROVE n + 1 \in T
  <2>1. n + 1 \in 0 .. Last + 1 /\ n \in 0 .. Last + 1 /\ s[n] \in Nat
    BY <1>0 DEF Times
  <2>2. Count(s)[n] \in Nat /\ Count(s)[a] \in Nat /\ Count(s)[n + 1] = Count(s)[n] + s[n]
    BY <2>1, CountFacts, Zenon
  <2> QED
    BY <1>2, <2>1, <2>2
<1> HIDE DEF T
<1>3. b \in T
  BY <1>0, <1>1, <1>2, UpToLast, Zenon
<1> QED
  BY <1>3, Zenon DEF T

\* Where there are no members there is nothing to count.
LEMMA CountNothing ==
    ASSUME NEW s \in [Times -> Nat], NEW a \in 0 .. Last + 1, NEW b \in a .. Last + 1,
           \A u \in Times : a <= u => s[u] = 0
    PROVE  Count(s)[b] = Count(s)[a]
<1> DEFINE T == {n \in 0 .. Last + 1 : Count(s)[n] = Count(s)[a]}
<1>0. Last \in Nat
  BY LastBounds
<1>1. a \in T
  BY Zenon
<1>2. ASSUME NEW n \in Times, a <= n, n \in T PROVE n + 1 \in T
  <2>1. n + 1 \in 0 .. Last + 1 /\ s[n] = 0
    BY <1>0, <1>2 DEF Times
  <2>2. Count(s)[a] \in Nat /\ Count(s)[n + 1] = Count(s)[n] + s[n]
    BY CountFacts, Zenon
  <2> QED
    BY <1>2, <2>1, <2>2
<1> HIDE DEF T
<1>3. b \in T
  BY <1>0, <1>1, <1>2, UpToLast, Zenon
<1> QED
  BY <1>3, Zenon DEF T

\* ZADD counts from its score on.
LEMMA CountAdded ==
    ASSUME NEW s \in [Times -> Nat], NEW u \in Times, NEW b \in 0 .. Last + 1
    PROVE  /\ Added(s, u) \in [Times -> Nat]
           /\ Count(Added(s, u))[b] = Count(s)[b] + IF u < b THEN 1 ELSE 0
<1> DEFINE z == Added(s, u)
           T == {n \in 0 .. Last + 1 : Count(z)[n] = Count(s)[n] + IF u < n THEN 1 ELSE 0}
<1>0. Last \in Nat
  BY LastBounds
<1>1. z \in [Times -> Nat] /\ z[u] = s[u] + 1 /\ \A n \in Times \ {u} : z[n] = s[n]
  BY DEF Added
<1> HIDE DEF z
<1>2. 0 \in 0 .. Last + 1 /\ 0 \in T
  <2>1. Count(z)[0] = 0 /\ Count(s)[0] = 0
    BY <1>1, CountFacts, Zenon
  <2> QED
    BY <1>0, <2>1 DEF Times
<1>3. ASSUME NEW n \in Times, 0 <= n, n \in T PROVE n + 1 \in T
  <2>1. n + 1 \in 0 .. Last + 1 /\ n \in 0 .. Last + 1 /\ n \in Nat /\ u \in Nat /\ s[n] \in Nat
    BY <1>0 DEF Times
  <2>2. Count(s)[n] \in Nat /\ Count(s)[n + 1] = Count(s)[n] + s[n] /\ Count(z)[n + 1] = Count(z)[n] + z[n]
    BY <1>1, <2>1, CountFacts, Zenon
  <2>3. z[n] = s[n] + IF u = n THEN 1 ELSE 0
    BY <1>1, <2>1
  <2> QED
    BY <1>3, <2>1, <2>2, <2>3
<1> HIDE DEF T
<1>4. b \in T
  BY <1>0, <1>2, <1>3, UpToLast, Zenon
<1> QED
  BY <1>1, <1>4, Zenon DEF T, z

-----------------------------------------------------------------------------
(* The sliding window.                                                     *)

\* The earliest score an admission at time t can have.
From(t) == IF t < MaxDelay THEN 0 ELSE t - MaxDelay

\* While a stretch that began at t lasts, the set still holds a member for
\* every admission since t.
Covered(p, z, now) ==
    \A t \in Times : now < t + Window - MaxDelay =>
        Count(p)[Last + 1] - Count(p)[t] <= Count(z)[Last + 1] - Count(z)[From(t)]

\* No admission is in the future, and none outlives the set's expiry early.
Kept(p, ttl, now) == \A u \in Times : p[u] > 0 => u <= now /\ u + TTL <= ttl

Bounded(p) ==
    \A t \in Times, u \in Times :
        (t <= u /\ u < t + Window - MaxDelay) => Count(p)[u + 1] - Count(p)[t] <= Burst

KeyInv(p, z, ttl, now) ==
    /\ p \in [Times -> Nat] /\ z \in [Times -> Nat] /\ ttl \in Nat
    /\ Count(z)[Last + 1] <= Burst
    /\ Kept(p, ttl, now) /\ Covered(p, z, now) /\ Bounded(p)

WindowInv ==
    /\ MemInv
    /\ clock <= MaxTime[backend]
    /\ zset = [k \in Keys |-> zset[k]] /\ zttl = [k \in Keys |-> zttl[k]]
    /\ passed = [k \in Keys |-> passed[k]]
    /\ \A k \in Keys : KeyInv(passed[k], zset[k], zttl[k], clock)

\* Numbers of the model.
LEMMA Numbers ==
    /\ Window \in Nat /\ TTL \in Nat /\ TTL >= Window /\ MaxDelay \in Nat /\ Last \in Nat
    /\ Burst \in Nat /\ Burst >= 1
    /\ \A t \in Times : t \in Nat /\ t <= Last /\ t \in 0 .. Last + 1 /\ t + 1 \in 0 .. Last + 1
    /\ \A t \in Times : From(t) \in Nat /\ From(t) <= t /\ From(t) \in 0 .. Last + 1
    /\ \A t \in Times : Last + 1 \in From(t) .. Last + 1 /\ Last + 1 \in t .. Last + 1
    /\ 0 \in 0 .. Last + 1 /\ Last + 1 \in 0 .. Last + 1
<1>1. Window \in Nat /\ TTL \in Nat /\ TTL >= Window /\ MaxDelay \in Nat /\ Last \in Nat
      /\ Burst \in Nat /\ Burst >= 1
  BY WindowRefills, LimitAssumption, IdleAssumption, LastBounds DEF TTL
<1>2. \A t \in Times : t \in Nat /\ t <= Last /\ t \in 0 .. Last + 1 /\ t + 1 \in 0 .. Last + 1
  BY <1>1 DEF Times
<1>3. \A t \in Times : From(t) \in Nat /\ From(t) <= t /\ From(t) \in 0 .. Last + 1
  BY <1>1, <1>2 DEF From
<1> QED
  BY <1>1, <1>2, <1>3

\* A bound on what the set holds is a bound on what passed in every stretch
\* that still lasts.
LEMMA CoveredIsBounded ==
    ASSUME NEW p \in [Times -> Nat], NEW z \in [Times -> Nat], NEW now \in Nat,
           Covered(p, z, now), Count(z)[Last + 1] <= Burst,
           NEW t \in Times, NEW u \in Times, t <= u, now < t + Window - MaxDelay
    PROVE  Count(p)[u + 1] - Count(p)[t] <= Burst
<1>1. Count(p)[Last + 1] - Count(p)[t] <= Count(z)[Last + 1] - Count(z)[From(t)]
  BY Zenon DEF Covered
<1>2. u + 1 \in 0 .. Last + 1 /\ Last + 1 \in (u + 1) .. Last + 1
  BY Numbers
<1>3. Count(p)[u + 1] <= Count(p)[Last + 1]
  BY <1>2, CountGrows, Zenon
<1>4. /\ Count(p)[u + 1] \in Nat /\ Count(p)[t] \in Nat /\ Count(p)[Last + 1] \in Nat
      /\ Count(z)[Last + 1] \in Nat /\ Count(z)[From(t)] \in Nat
  BY <1>2, Numbers, CountFacts, Zenon
<1> QED
  BY <1>1, <1>3, <1>4, Numbers

\* Neither the expiry of the key nor ZREMRANGEBYSCORE drops a member for an
\* admission of a stretch that still lasts: its score is later than what any
\* script running now considers the beginning of the window.
LEMMA TrimKeeps ==
    ASSUME NEW p, NEW z, NEW ttl, NEW clk \in Times, NEW now \in Times, now <= clk,
           KeyInv(p, z, ttl, clk), NEW s,
           s = [t \in Times |-> IF clk >= ttl \/ t <= now - Window THEN 0 ELSE z[t]]
    PROVE  KeyInv(p, s, ttl, clk)
<1>0. p \in [Times -> Nat] /\ z \in [Times -> Nat] /\ ttl \in Nat /\ clk \in Nat /\ now \in Nat
  BY Numbers, Zenon DEF KeyInv
<1>1. s \in [Times -> Nat]
  BY <1>0
<1>2. \A t \in Times : s[t] <= z[t]
  BY <1>0
<1>3. Count(s)[Last + 1] <= Burst
  <2>1. Count(s)[Last + 1] - Count(s)[0] <= Count(z)[Last + 1] - Count(z)[0]
    <3>1. \A t \in Times : 0 <= t /\ t < Last + 1 => s[t] <= z[t]
      BY <1>2, Zenon
    <3> QED
      BY <3>1, <1>0, <1>1, Numbers, CountMonotone, Zenon
  <2>2. Count(s)[0] = 0 /\ Count(z)[0] = 0 /\ Count(s)[Last + 1] \in Nat /\ Count(z)[Last + 1] \in Nat
    BY <1>0, <1>1, Numbers, CountFacts, Zenon
  <2>3. Count(z)[Last + 1] <= Burst
    BY Zenon DEF KeyInv
  <2> QED
    BY <2>1, <2>2, <2>3, Numbers
<1>4. Covered(p, s, clk)
  <2> SUFFICES ASSUME NEW t \in Times, clk < t + Window - MaxDelay
               PROVE  Count(p)[Last + 1] - Count(p)[t] <= Count(s)[Last + 1] - Count(s)[From(t)]
    BY Zenon DEF Covered
  <2>1. CASE clk >= ttl
    <3>1. \A u \in Times : t <= u => p[u] = 0
      <4> SUFFICES ASSUME NEW u \in Times, t <= u, p[u] > 0 PROVE FALSE
        BY <1>0
      <4>1. u + TTL <= ttl
        BY Zenon DEF KeyInv, Kept
      <4> QED
        BY <1>0, <2>1, <4>1, Numbers
    <3>2. Count(p)[Last + 1] = Count(p)[t]
      BY <1>0, <3>1, Numbers, CountNothing, Zenon
    <3>3. Count(s)[From(t)] <= Count(s)[Last + 1]
      BY <1>1, Numbers, CountGrows, Zenon
    <3>4. Count(s)[From(t)] \in Nat /\ Count(s)[Last + 1] \in Nat /\ Count(p)[t] \in Nat
      BY <1>0, <1>1, Numbers, CountFacts, Zenon
    <3> QED
      BY <3>2, <3>3, <3>4
  <2>2. CASE clk < ttl
    <3>1. \A v \in Times : From(t) <= v /\ v < Last + 1 => z[v] <= s[v]
      <4> SUFFICES ASSUME NEW v \in Times, From(t) <= v PROVE z[v] <= s[v]
        BY Zenon
      <4>1. ~(v <= now - Window) /\ ~(clk >= ttl)
        BY <1>0, <2>2, Numbers DEF From
      <4>2. s[v] = z[v] /\ z[v] \in Nat
        BY <1>0, <4>1, Zenon
      <4> QED
        BY <4>2
    <3>2. Count(z)[Last + 1] - Count(z)[From(t)] <= Count(s)[Last + 1] - Count(s)[From(t)]
      BY <1>0, <1>1, <3>1, Numbers, CountMonotone, Zenon
    <3>3. Count(p)[Last + 1] - Count(p)[t] <= Count(z)[Last + 1] - Count(z)[From(t)]
      BY Zenon DEF KeyInv, Covered
    <3>4. /\ Count(s)[From(t)] \in Nat /\ Count(s)[Last + 1] \in Nat /\ Count(p)[t] \in Nat
          /\ Count(z)[From(t)] \in Nat /\ Count(z)[Last + 1] \in Nat /\ Count(p)[Last + 1] \in Nat
      BY <1>0, <1>1, Numbers, CountFacts, Zenon
    <3> QED
      BY <3>2, <3>3, <3>4
  <2> QED
    BY <1>0, <2>1, <2>2
<1> QED
  BY <1>1, <1>3, <1>4, Zenon DEF KeyInv

\* ZADD and PEXPIRE: the member added covers the admission, if the caller ever
\* hears of it, because its score is at most MaxDelay behind the clock.
LEMMA AddKeeps ==
    ASSUME NEW p, NEW s, NEW ttl, NEW clk \in Times, NEW now \in Times,
           now <= clk, clk <= now + MaxDelay,
           KeyInv(p, s, ttl, clk), HasRoom(s), NEW r, r = p \/ r = Added(p, clk)
    PROVE  KeyInv(r, Added(s, now), clk + TTL, clk)
<1> DEFINE z == Added(s, now)
<1>0. p \in [Times -> Nat] /\ s \in [Times -> Nat] /\ clk \in Nat /\ now \in Nat
  BY Numbers, Zenon DEF KeyInv
<1>1. z \in [Times -> Nat] /\ \A b \in 0 .. Last + 1 : Count(z)[b] = Count(s)[b] + IF now < b THEN 1 ELSE 0
  BY <1>0, Numbers, CountAdded, Zenon
<1>2. r \in [Times -> Nat]
  <2>1. 0 \in 0 .. Last + 1
    BY Numbers, Zenon
  <2>2. Added(p, clk) \in [Times -> Nat]
    BY <1>0, <2>1, CountAdded, Zenon
  <2> QED
    BY <1>0, <2>2, Zenon
<1>3. \A b \in 0 .. Last + 1 :
         \/ Count(r)[b] = Count(p)[b]
         \/ clk < b /\ Count(r)[b] = Count(p)[b] + 1
  <2>1. CASE r = p
    BY <2>1, Zenon
  <2>2. CASE r = Added(p, clk)
    <3> SUFFICES ASSUME NEW b \in 0 .. Last + 1
                 PROVE  Count(r)[b] = Count(p)[b] \/ (clk < b /\ Count(r)[b] = Count(p)[b] + 1)
      BY Zenon
    <3>1. Count(r)[b] = Count(p)[b] + IF clk < b THEN 1 ELSE 0
      BY <1>0, <2>2, CountAdded, Zenon
    <3>2. Count(p)[b] \in Nat
      BY <1>0, CountFacts, Zenon
    <3> QED
      BY <3>1, <3>2
  <2> QED
    BY <2>1, <2>2, Zenon
<1>4. Count(z)[Last + 1] <= Burst
  <2>1. Count(s)[Last + 1] < Burst
    BY Zenon DEF HasRoom
  <2>2. Count(s)[Last + 1] \in Nat /\ Count(z)[Last + 1] = Count(s)[Last + 1] + 1
    <3>1. now < Last + 1
      BY <1>0, Numbers
    <3> QED
      BY <1>0, <1>1, <3>1, Numbers, CountFacts, Zenon
  <2> QED
    BY <2>1, <2>2, Numbers
<1> HIDE DEF z
<1>5. Kept(r, clk + TTL, clk)
  <2> SUFFICES ASSUME NEW u \in Times, r[u] > 0 PROVE u <= clk /\ u + TTL <= clk + TTL
    BY Zenon DEF Kept
  <2>1. u <= clk
    <3>1. CASE u = clk
      BY <1>0, <3>1
    <3>2. CASE u # clk
      <4>1. r[u] = p[u]
        BY <1>0, <3>2 DEF Added
      <4> QED
        BY <2>1, <4>1, Zenon DEF KeyInv, Kept
    <3> QED
      BY <3>1, <3>2, Zenon
  <2> QED
    BY <1>0, <2>1, Numbers
<1>6. Covered(r, z, clk)
  <2> SUFFICES ASSUME NEW t \in Times, clk < t + Window - MaxDelay
               PROVE  Count(r)[Last + 1] - Count(r)[t] <= Count(z)[Last + 1] - Count(z)[From(t)]
    BY Zenon DEF Covered
  <2>1. Count(p)[Last + 1] - Count(p)[t] <= Count(s)[Last + 1] - Count(s)[From(t)]
    BY Zenon DEF KeyInv, Covered
  <2>2. /\ Count(s)[From(t)] \in Nat /\ Count(s)[Last + 1] \in Nat
        /\ Count(p)[t] \in Nat /\ Count(p)[Last + 1] \in Nat
    BY <1>0, Numbers, CountFacts, Zenon
  <2>3. /\ Count(z)[Last + 1] = Count(s)[Last + 1] + 1
        /\ Count(z)[From(t)] = Count(s)[From(t)] + IF now < From(t) THEN 1 ELSE 0
    <3>1. now < Last + 1
      BY <1>0, Numbers
    <3> QED
      BY <1>1, <3>1, Numbers, Zenon
  <2>4. Count(r)[Last + 1] = Count(p)[Last + 1] \/ Count(r)[Last + 1] = Count(p)[Last + 1] + 1
    BY <1>3, Numbers, Zenon
  <2>5. Count(r)[t] = Count(p)[t] \/ (clk < t /\ Count(r)[t] = Count(p)[t] + 1)
    BY <1>3, Numbers, Zenon
  <2>6. CASE now < From(t)
    <3>1. clk < t
      BY <1>0, <2>6, Numbers DEF From
    <3>2. \A u \in Times : t <= u => r[u] = 0
      <4> SUFFICES ASSUME NEW u \in Times, t <= u, r[u] > 0 PROVE FALSE
        BY <1>2
      <4>1. u <= clk
        BY <1>5, Zenon DEF Kept
      <4> QED
        BY <1>0, <3>1, <4>1, Numbers
    <3>3. Count(r)[Last + 1] = Count(r)[t]
      BY <1>2, <3>2, Numbers, CountNothing, Zenon
    <3>4. Count(z)[From(t)] <= Count(z)[Last + 1]
      BY <1>1, Numbers, CountGrows, Zenon
    <3>5. Count(r)[t] \in Nat /\ Count(z)[From(t)] \in Nat /\ Count(z)[Last + 1] \in Nat
      BY <1>1, <1>2, Numbers, CountFacts, Zenon
    <3> QED
      BY <3>3, <3>4, <3>5
  <2>7. CASE ~(now < From(t))
    BY <2>1, <2>2, <2>3, <2>4, <2>5, <2>7
  <2> QED
    BY <2>6, <2>7, Zenon
<1>7. Bounded(r)
  <2> SUFFICES ASSUME NEW t \in Times, NEW u \in Times, t <= u, u < t + Window - MaxDelay
               PROVE  Count(r)[u + 1] - Count(r)[t] <= Burst
    BY Zenon DEF Bounded
  <2>1. CASE clk < t + Window - MaxDelay
    BY <1>0, <1>1, <1>2, <1>4, <1>6, <2>1, CoveredIsBounded, Zenon
  <2>2. CASE ~(clk < t + Window - MaxDelay)
    <3>1. ~(clk < u + 1) /\ ~(clk < t)
      BY <1>0, <2>2, Numbers
    <3>2. Count(r)[u + 1] = Count(p)[u + 1] /\ Count(r)[t] = Count(p)[t]
      BY <1>3, <3>1, Numbers, Zenon
    <3> QED
      BY <3>2, Zenon DEF KeyInv, Bounded
  <2> QED
    BY <2>1, <2>2, Zenon
<1>8. clk + TTL \in Nat
  BY <1>0, Numbers
<1> QED
  BY <1>1, <1>2, <1>4, <1>5, <1>6, <1>7, <1>8, Zenon DEF KeyInv, z

\* The passing of time ends stretches, and the history forgets what is older
\* than a window.
LEMMA TickKeeps ==
    ASSUME NEW p, NEW z, NEW ttl, NEW clk \in Nat, KeyInv(p, z, ttl, clk), NEW r,
           r = [t \in Times |-> IF t <= clk - Window THEN 0 ELSE p[t]]
    PROVE  KeyInv(r, z, ttl, clk + 1)
<1>0. p \in [Times -> Nat] /\ z \in [Times -> Nat] /\ r \in [Times -> Nat]
  BY DEF KeyInv
<1>1. \A t \in Times : r[t] <= p[t] /\ (r[t] > 0 => p[t] > 0)
  BY <1>0
<1>2. ASSUME NEW a \in 0 .. Last + 1, NEW b \in a .. Last + 1
      PROVE  Count(r)[b] - Count(r)[a] <= Count(p)[b] - Count(p)[a]
  BY <1>0, <1>1, CountMonotone, Zenon
<1>3. Kept(r, ttl, clk + 1)
  <2> SUFFICES ASSUME NEW u \in Times, r[u] > 0 PROVE u <= clk + 1 /\ u + TTL <= ttl
    BY Zenon DEF Kept
  <2>1. u <= clk /\ u + TTL <= ttl
    BY <1>1, Zenon DEF KeyInv, Kept
  <2> QED
    BY <2>1, Numbers
<1>4. Covered(r, z, clk + 1)
  <2> SUFFICES ASSUME NEW t \in Times, clk + 1 < t + Window - MaxDelay
               PROVE  Count(r)[Last + 1] - Count(r)[t] <= Count(z)[Last + 1] - Count(z)[From(t)]
    BY Zenon DEF Covered
  <2>0. clk < t + Window - MaxDelay
    BY Numbers
  <2>1. Count(p)[Last + 1] - Count(p)[t] <= Count(z)[Last + 1] - Count(z)[From(t)]
    BY <2>0, Zenon DEF KeyInv, Covered
  <2>2. Count(r)[Last + 1] - Count(r)[t] <= Count(p)[Last + 1] - Count(p)[t]
    BY <1>2, Numbers, Zenon
  <2>3. /\ Count(z)[From(t)] \in Nat /\ Count(z)[Last + 1] \in Nat
        /\ Count(p)[t] \in Nat /\ Count(p)[Last + 1] \in Nat
        /\ Count(r)[t] \in Nat /\ Count(r)[Last + 1] \in Nat
    BY <1>0, Numbers, CountFacts, Zenon
  <2> QED
    BY <2>1, <2>2, <2>3
<1>5. Bounded(r)
  <2> SUFFICES ASSUME NEW t \in Times, NEW u \in Times, t <= u, u < t + Window - MaxDelay
               PROVE  Count(r)[u + 1] - Count(r)[t] <= Burst
    BY Zenon DEF Bounded
  <2>1. Count(p)[u + 1] - Count(p)[t] <= Burst
    BY Zenon DEF KeyInv, Bounded
  <2>2. Count(r)[u + 1] - Count(r)[t] <= Count(p)[u + 1] - Count(p)[t]
    <3>1. u + 1 \in t .. Last + 1
      BY Numbers
    <3> QED
      BY <1>2, <3>1, Numbers, Zenon
  <2>3. /\ Count(p)[t] \in Nat /\ Count(p)[u + 1] \in Nat
        /\ Count(r)[t] \in Nat /\ Count(r)[u + 1] \in Nat
    BY <1>0, Numbers, CountFacts, Zenon
  <2> QED
    BY <2>1, <2>2, <2>3, Numbers
<1> QED
  BY <1>0, <1>3, <1>4, <1>5, Zenon DEF KeyInv

\* The steps that touch the set of a key, its expiry, its history or the clock.
LEMMA WindowSteps ==
    ASSUME WindowInv, [Next]_vars
    PROVE  \/ UNCHANGED <<clock, zsetVars>>
           \/ Tick
           \/ \E q \in Requests :
                LET k == call[q].key
                    s == Remaining(k, call[q].now)
                IN /\ call[q].pc = "script" /\ clock' = clock
                   /\ \/ /\ HasRoom(s)
                         /\ zset' = [zset EXCEPT ![k] = Added(s, call[q].now)]
                         /\ zttl' = [zttl EXCEPT ![k] = clock + TTL]
                         /\ \/ passed' = [passed EXCEPT ![k] = Added(passed[k], clock)]
                            \/ passed' = passed
                      \/ zset' = [zset EXCEPT ![k] = s] /\ UNCHANGED <<zttl, passed>>
<1>1. ASSUME NEW q \in Requests, Script(q)
      PROVE  LET k == call[q].key
                 s == Remaining(k, call[q].now)
             IN /\ call[q].pc = "script" /\ clock' = clock
                /\ \/ /\ HasRoom(s)
                      /\ zset' = [zset EXCEPT ![k] = Added(s, call[q].now)]
                      /\ zttl' = [zttl EXCEPT ![k] = clock + TTL]
                      /\ passed' = [passed EXCEPT ![k] = Added(passed[k], clock)]
                   \/ zset' = [zset EXCEPT ![k] = s] /\ UNCHANGED <<zttl, passed>>
  <2>1. call[q].key \in Keys
    BY Zenon DEF WindowInv, MemInv, Types, Call
  <2>2. passed' = [passed EXCEPT ![call[q].key][clock] = @ + 1]
        => passed' = [passed EXCEPT ![call[q].key] = Added(passed[call[q].key], clock)]
    BY <2>1, Zenon DEF Added, WindowInv
  <2> QED
    BY <1>1, <2>2, Zenon DEF Script
<1>2. ASSUME NEW q \in Requests, ScriptFails(q)
      PROVE  \/ UNCHANGED <<clock, zsetVars>>
             \/ LET k == call[q].key
                    s == Remaining(k, call[q].now)
                IN /\ call[q].pc = "script" /\ clock' = clock /\ HasRoom(s)
                   /\ zset' = [zset EXCEPT ![k] = Added(s, call[q].now)]
                   /\ zttl' = [zttl EXCEPT ![k] = clock + TTL]
                   /\ passed' = passed
  BY <1>2, Zenon DEF ScriptFails, zsetVars
<1>3. CASE ~(\E q \in Requests : Script(q) \/ ScriptFails(q)) /\ ~Tick
  BY <1>3, Zenon DEF Next, Arrive, Find, CheckLimiter, Load, LoadFails, CASSucceeds, CASFails,
              Cleanup, HealthCheck, KVExpire, Outage, zsetVars, vars
<1> QED
  BY <1>1, <1>2, <1>3, Zenon

\* One key's set changes as the lemmas above say, the others not at all.
LEMMA WindowInductive ==
    /\ Init => WindowInv
    /\ WindowInv /\ [Next]_vars => WindowInv'
<1>1. ASSUME Init PROVE WindowInv
  <2>1. MemInv
    BY <1>1, MemInductive, Zenon
  <2> DEFINE none == [t \in Times |-> 0]
  <2>2. none \in [Times -> Nat] /\ \A t \in Times : none[t] = 0
    OBVIOUS
  <2> HIDE DEF none
  <2>3. \A n \in 0 .. Last + 1 : Count(none)[n] = 0
    <3> SUFFICES ASSUME NEW n \in 0 .. Last + 1 PROVE Count(none)[n] = 0
      BY Zenon
    <3>1. 0 \in 0 .. Last + 1 /\ n \in 0 .. Last + 1
      BY Numbers, Zenon
    <3>2. Count(none)[n] = Count(none)[0]
      BY <2>2, <3>1, CountNothing, Zenon
    <3> QED
      BY <2>2, <3>2, CountFacts, Zenon
  <2>4. KeyInv(none, none, 0, 0)
    <3>1. Kept(none, 0, 0)
      BY <2>2 DEF Kept
    <3>2. Covered(none, none, 0)
      <4>1. \A t \in Times : /\ Count(none)[Last + 1] = 0 /\ Count(none)[t] = 0
                             /\ Count(none)[From(t)] = 0
        BY <2>3, Numbers, Zenon
      <4> QED
        BY <4>1 DEF Covered
    <3>3. Bounded(none)
      <4>1. \A t \in Times : Count(none)[t + 1] = 0 /\ Count(none)[t] = 0
        BY <2>3, Numbers, Zenon
      <4> QED
        BY <4>1, Numbers DEF Bounded
    <3> QED
      BY <2>2, <2>3, <3>1, <3>2, <3>3, Numbers DEF KeyInv
  <2>5. zset = [k \in Keys |-> none] /\ passed = [k \in Keys |-> none]
    BY <1>1, Zenon DEF Init, Nowhere, none
  <2>6. zttl = [k \in Keys |-> 0] /\ clock = 0 /\ backend \in Backends
    BY <1>1, Zenon DEF Init
  <2>7. clock <= MaxTime[backend]
    BY <2>6, IdleAssumption
  <2> QED
    BY <2>1, <2>4, <2>5, <2>6, <2>7, Zenon DEF WindowInv
<1>2. ASSUME WindowInv, [Next]_vars PROVE WindowInv'
  <2>1. MemInv /\ MemInv' /\ Types
    BY <1>2, MemInductive, Zenon DEF WindowInv, MemInv
  <2>2. backend' = backend
    BY <1>2, Zenon DEF Next, Arrive, Find, CheckLimiter, Script, ScriptFails, Load, LoadFails,
                CASSucceeds, CASFails, Cleanup, HealthCheck, KVExpire, Tick, Outage, service, vars
  <2>3. clock \in Nat /\ clock \in Times
    BY <1>2, <2>1, LastBounds, IdleAssumption DEF WindowInv, Types, Times
  <2>4. CASE UNCHANGED <<clock, zsetVars>>
    BY <1>2, <2>1, <2>2, <2>4, Zenon DEF WindowInv, zsetVars
  <2>5. CASE Tick
    <3>1. clock' = clock + 1 /\ zset' = zset /\ zttl' = zttl
          /\ passed' = [k \in Keys |-> [t \in Times |-> IF t <= clock - Window THEN 0 ELSE passed[k][t]]]
      BY <2>5, Zenon DEF Tick
    <3>2. clock' <= MaxTime[backend']
      BY <2>1, <2>2, <2>3, <2>5, IdleAssumption DEF Tick, Types
    <3>3. ASSUME NEW k \in Keys PROVE KeyInv(passed'[k], zset'[k], zttl'[k], clock')
      <4>1. KeyInv(passed[k], zset[k], zttl[k], clock)
        BY <1>2, Zenon DEF WindowInv
      <4>2. passed'[k] = [t \in Times |-> IF t <= clock - Window THEN 0 ELSE passed[k][t]]
        BY <3>1, Zenon
      <4>3. KeyInv(passed'[k], zset[k], zttl[k], clock + 1)
        BY <2>3, <4>1, <4>2, TickKeeps, Zenon
      <4> QED
        BY <3>1, <4>3, Zenon
    <3> QED
      BY <1>2, <2>1, <3>1, <3>2, <3>3, Zenon DEF WindowInv
  <2>6. ASSUME NEW q \in Requests, call[q].pc = "script", clock' = clock,
               LET k == call[q].key
                   s == Remaining(k, call[q].now)
               IN \/ /\ HasRoom(s)
                     /\ zset' = [zset EXCEPT ![k] = Added(s, call[q].now)]
                     /\ zttl' = [zttl EXCEPT ![k] = clock + TTL]
                     /\ \/ passed' = [passed EXCEPT ![k] = Added(passed[k], clock)]
                        \/ passed' = passed
                  \/ zset' = [zset EXCEPT ![k] = s] /\ UNCHANGED <<zttl, passed>>
        PROVE  WindowInv'
    <3> DEFINE k == call[q].key
               now == call[q].now
               s == Remaining(k, now)
    <3>1. k \in Keys /\ now \in Nat /\ now <= clock /\ clock <= now + MaxDelay
      BY <2>1, <2>6, Zenon DEF MemInv, Types, Timely, Call
    <3>2. now \in Times
      BY <2>3, <3>1, Numbers DEF Times
    <3>3. KeyInv(passed[k], s, zttl[k], clock)
      <4>1. KeyInv(passed[k], zset[k], zttl[k], clock)
        BY <1>2, <3>1, Zenon DEF WindowInv
      <4>2. s = [t \in Times |-> IF clock >= zttl[k] \/ t <= now - Window THEN 0 ELSE zset[k][t]]
        BY Zenon DEF Remaining
      <4> HIDE DEF s, k, now
      <4> QED
        BY <2>3, <3>1, <3>2, <4>1, <4>2, TrimKeeps, Zenon
    <3>4. KeyInv(passed'[k], zset'[k], zttl'[k], clock)
      <4>1. CASE zset' = [zset EXCEPT ![k] = s] /\ UNCHANGED <<zttl, passed>>
        BY <1>2, <3>1, <3>3, <4>1, Zenon DEF WindowInv
      <4>2. CASE /\ HasRoom(s)
                 /\ zset' = [zset EXCEPT ![k] = Added(s, now)]
                 /\ zttl' = [zttl EXCEPT ![k] = clock + TTL]
                 /\ \/ passed' = [passed EXCEPT ![k] = Added(passed[k], clock)]
                    \/ passed' = passed
        <5>1. zset'[k] = Added(s, now) /\ zttl'[k] = clock + TTL
          BY <1>2, <3>1, <4>2, Zenon DEF WindowInv
        <5>2. passed'[k] = passed[k] \/ passed'[k] = Added(passed[k], clock)
          BY <1>2, <3>1, <4>2, Zenon DEF WindowInv
        <5> HIDE DEF s, k, now
        <5>3. KeyInv(passed'[k], Added(s, now), clock + TTL, clock)
          BY <2>3, <3>1, <3>2, <3>3, <4>2, <5>2, AddKeeps, Zenon
        <5> QED
          BY <5>1, <5>3, Zenon
      <4> QED
        BY <2>6, <4>1, <4>2, Zenon
    <3>5. /\ zset' = [j \in Keys |-> zset'[j]] /\ zttl' = [j \in Keys |-> zttl'[j]]
          /\ passed' = [j \in Keys |-> passed'[j]]
      BY <1>2, <2>6, <3>1, Zenon DEF WindowInv
    <3>6. \A j \in Keys \ {k} : zset'[j] = zset[j] /\ zttl'[j] = zttl[j] /\ passed'[j] = passed[j]
      BY <1>2, <2>6, <3>1, Zenon DEF WindowInv
    <3> HIDE DEF s, k, now
    <3>7. \A j \in Keys : KeyInv(passed'[j], zset'[j], zttl'[j], clock')
      <4> SUFFICES ASSUME NEW j \in Keys PROVE KeyInv(passed'[j], zset'[j], zttl'[j], clock')
        BY Zenon
      <4>1. CASE j = k
        BY <2>6, <3>4, <4>1, Zenon
      <4>2. CASE j # k
        BY <1>2, <2>6, <3>6, <4>2, Zenon DEF WindowInv
      <4> QED
        BY <4>1, <4>2, Zenon
    <3> QED
      BY <1>2, <2>1, <2>2, <2>6, <3>5, <3>7, Zenon DEF WindowInv
  <2> QED
    BY <1>2, <2>4, <2>5, <2>6, WindowSteps, Zenon
<1> QED
  BY <1>1, <1>2, Zenon

\* However the scripts of several replicas are delayed, lose their answers or
\* find the key expired, no stretch of time shorter than the window by the
\* delay of a call sees more than Burst admissions (sliding_window.lua).
THEOREM WindowsAreBounded == Spec => []SlidingWindowBound
<1>1. Init => WindowInv
  BY WindowInductive, Zenon
<1>2. WindowInv /\ [Next]_vars => WindowInv'
  BY WindowInductive, Zenon
<1>3. WindowInv => SlidingWindowBound
  BY Zenon DEF WindowInv, KeyInv, Bounded, SlidingWindowBound
<1> QED  BY <1>1, <1>2, <1>3, PTL DEF Spec
=============================================================================
