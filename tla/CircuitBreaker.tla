--------------------------- MODULE CircuitBreaker ---------------------------
(***************************************************************************)
(* The circuit breaker of one backend (internal/resilience/circuit.go),    *)
(* called through the retry loop of ResilientClient.CallTool (client.go,   *)
(* retry.go) by concurrent requests.                                       *)
(*                                                                         *)
(* A call admitted while the breaker is closed runs without the mutex, so  *)
(* its result may arrive after other calls have opened, probed or reclosed *)
(* the breaker.  A probe runs with the mutex held.                         *)
(***************************************************************************)
EXTENDS Naturals

CONSTANTS
    Callers,      \* concurrent requests to this backend
    Nobody,       \* the mutex is free
    Threshold,    \* cb.threshold, MCPGW_CIRCUIT_THRESHOLD
    Timeout,      \* cb.timeout in clock ticks, MCPGW_CIRCUIT_TIMEOUT
    MaxAttempts   \* cfg.MaxAttempts of the retry loop, MCPGW_RETRY_MAX

\* NewCircuitBreaker replaces a threshold or a timeout that is not positive
\* by a positive default, and normalizeRetryConfig does so for MaxAttempts.
ASSUME ThresholdAssumption == Threshold \in Nat \ {0}
ASSUME TimeoutAssumption == Timeout \in Nat \ {0}
ASSUME MaxAttemptsAssumption == MaxAttempts \in Nat \ {0}
ASSUME NobodyAssumption == Nobody \notin Callers

VARIABLES
    state,      \* cb.state
    failures,   \* cb.failures
    elapsed,    \* time since cb.lastFailure, not counted beyond Timeout
    mu,         \* the holder of cb.mu across steps: a probing caller or Nobody
    pc,         \* where each request stands
    attempt,    \* the attempt number of each request
    cancelled,  \* is the context of each request cancelled?
    healthy,    \* does the backend answer calls? (the environment)
    streak      \* history: failed results since the last success, at most Threshold

breaker == <<state, failures, elapsed>>
vars == <<state, failures, elapsed, mu, pc, attempt, cancelled, healthy, streak>>

Closed == "closed"
Open == "open"
HalfOpen == "half_open"
States == {Closed, Open, HalfOpen}

\* "attempt": top of the retry loop;  "execute": waiting for cb.mu in Execute;
\* "gate": past the closed gate, mutex released;  "call": fn runs unlocked;
\* "probe": fn runs with cb.mu held;  "backoff": waiting between attempts.
Steps == {"idle", "attempt", "execute", "gate", "call", "probe", "backoff"}

TypeOK ==
    /\ state \in States
    /\ failures \in Nat
    /\ elapsed \in 0..Timeout
    /\ mu \in Callers \cup {Nobody}
    /\ pc \in [Callers -> Steps]
    /\ attempt \in [Callers -> 1..MaxAttempts]
    /\ cancelled \in [Callers -> BOOLEAN]
    /\ healthy \in BOOLEAN
    /\ streak \in 0..Threshold

\* NewCircuitBreaker: the zero lastFailure is further back than any timeout.
Init ==
    /\ state = Closed
    /\ failures = 0
    /\ elapsed = Timeout
    /\ mu = Nobody
    /\ pc = [c \in Callers |-> "idle"]
    /\ attempt = [c \in Callers |-> 1]
    /\ cancelled = [c \in Callers |-> FALSE]
    /\ healthy = TRUE
    /\ streak = 0

-----------------------------------------------------------------------------
(* Results of a call: "ok", "transient" (IsRetryable) or "fatal" (not).    *)

Results == {"ok", "transient", "fatal"}

\* What fn may return: a healthy backend fails a call only when the caller's
\* context is cancelled, which IsRetryable rejects.
MayReturn(c, r) ==
    \/ r = "ok"
    \/ r = "transient" /\ ~healthy
    \/ r = "fatal" /\ (~healthy \/ cancelled[c])

goto(c, step) == pc' = [pc EXCEPT ![c] = step]

\* Retry after fn returned r: stop on success, on an error that is not
\* retryable and on the last attempt; otherwise back off.
AfterResult(c, r) ==
    IF r = "transient" /\ attempt[c] < MaxAttempts
    THEN goto(c, "backoff") ELSE goto(c, "idle")

CountFailure == streak' = IF streak < Threshold THEN streak + 1 ELSE streak
CountSuccess == streak' = 0

-----------------------------------------------------------------------------
(* The breaker's own steps, each under cb.mu.                              *)

\* Mutation: closing keeps the old failure count.
ToClosedKeepsCount == /\ state' = Closed
                      /\ elapsed' = Timeout
                      /\ UNCHANGED failures

\* Mutation: a successful probe leaves the breaker half-open.
ToClosedStaysHalfOpen == /\ state' = HalfOpen
                         /\ failures' = 0
                         /\ elapsed' = Timeout

\* Execute, success of a probe, and Reset.
ToClosed == /\ state' = Closed
            /\ failures' = 0
            /\ elapsed' = Timeout

\* Execute, failure of a probe.
ProbeFailed == /\ state' = Open
               /\ failures' = Threshold
               /\ elapsed' = 0

\* executeClosed, failure: opens at the threshold whatever state the breaker
\* has reached since the call was admitted.
ClosedCallFailed ==
    /\ failures' = failures + 1
    /\ IF failures + 1 >= Threshold
       THEN state' = Open /\ elapsed' = 0
       ELSE UNCHANGED <<state, elapsed>>

\* Mutation: a success does not interrupt the count.
ClosedCallSucceededKeepsCount == UNCHANGED breaker

\* executeClosed, success: clears the counter and leaves the state alone.
ClosedCallSucceeded == /\ failures' = 0
                       /\ UNCHANGED <<state, elapsed>>

-----------------------------------------------------------------------------
(* The steps of a request.                                                 *)

\* ResilientClient.CallTool and the first pass of Retry.
Request(c) ==
    /\ pc[c] = "idle"
    /\ goto(c, "attempt")
    /\ attempt' = [attempt EXCEPT ![c] = 1]
    /\ cancelled' = [cancelled EXCEPT ![c] = FALSE]
    /\ UNCHANGED <<breaker, mu, healthy, streak>>

\* The client goes away or the request's deadline passes.
Cancel(c) ==
    /\ pc[c] # "idle"
    /\ ~cancelled[c]
    /\ cancelled' = [cancelled EXCEPT ![c] = TRUE]
    /\ UNCHANGED <<breaker, mu, pc, attempt, healthy, streak>>

\* The retry loop checks the context, then reads State(), which needs cb.mu.
BeginAttempt(c) ==
    /\ pc[c] = "attempt"
    /\ \/ cancelled[c] /\ goto(c, "idle")
       \/ ~cancelled[c] /\ mu = Nobody /\ goto(c, "execute")
    /\ UNCHANGED <<breaker, mu, attempt, cancelled, healthy, streak>>

\* Execute in the open state before the timeout: ErrCircuitOpen, which is not
\* retryable.
RejectOpen(c) ==
    /\ pc[c] = "execute" /\ mu = Nobody
    /\ state = Open /\ elapsed < Timeout
    /\ goto(c, "idle")
    /\ UNCHANGED <<breaker, mu, attempt, cancelled, healthy, streak>>

\* Execute in the closed state: the mutex is released before the call.
PassClosed(c) ==
    /\ pc[c] = "execute" /\ mu = Nobody
    /\ state = Closed
    /\ goto(c, "gate")
    /\ UNCHANGED <<breaker, mu, attempt, cancelled, healthy, streak>>

\* Mutation: an open breaker never becomes due.
ProbeDueHalfOpenOnly == state = HalfOpen

\* Execute lets a probe through: half-open, or open for the whole timeout.
ProbeDue == state = HalfOpen \/ (state = Open /\ elapsed >= Timeout)

\* Mutation: the mutex is released before the probe runs.
BeginProbeUnlocked(c) ==
    /\ pc[c] = "execute" /\ mu = Nobody
    /\ ProbeDue
    /\ state' = HalfOpen
    /\ IF cancelled[c] THEN goto(c, "idle") ELSE goto(c, "probe")
    /\ UNCHANGED <<failures, elapsed, mu, attempt, cancelled, healthy, streak>>

\* Execute after the timeout or in the half-open state: the probe keeps the
\* mutex; a cancelled caller leaves the breaker half-open and releases it.
BeginProbe(c) ==
    /\ pc[c] = "execute" /\ mu = Nobody
    /\ ProbeDue
    /\ state' = HalfOpen
    /\ IF cancelled[c]
       THEN goto(c, "idle") /\ UNCHANGED mu
       ELSE goto(c, "probe") /\ mu' = c
    /\ UNCHANGED <<failures, elapsed, attempt, cancelled, healthy, streak>>

\* Mutation: a failed probe returns without unlocking.
ProbeReturnsLocked(c) ==
    /\ pc[c] = "probe"
    /\ \E r \in Results :
        /\ MayReturn(c, r)
        /\ IF r = "ok" THEN ToClosed /\ CountSuccess /\ mu' = Nobody
                       ELSE ProbeFailed /\ CountFailure /\ UNCHANGED mu
        /\ AfterResult(c, r)
    /\ UNCHANGED <<attempt, cancelled, healthy>>

\* The probe's fn returns; Execute records the result and unlocks.
ProbeReturns(c) ==
    /\ pc[c] = "probe"
    /\ \E r \in Results :
        /\ MayReturn(c, r)
        /\ IF r = "ok" THEN ToClosed /\ CountSuccess
                       ELSE ProbeFailed /\ CountFailure
        /\ AfterResult(c, r)
    /\ mu' = Nobody
    /\ UNCHANGED <<attempt, cancelled, healthy>>

\* executeClosed checks the context and calls fn without the mutex.
StartCall(c) ==
    /\ pc[c] = "gate"
    /\ IF cancelled[c] THEN goto(c, "idle") ELSE goto(c, "call")
    /\ UNCHANGED <<breaker, mu, attempt, cancelled, healthy, streak>>

\* fn returns and executeClosed takes the mutex to record the result.
CallReturns(c) ==
    /\ pc[c] = "call" /\ mu = Nobody
    /\ \E r \in Results :
        /\ MayReturn(c, r)
        /\ IF r = "ok" THEN ClosedCallSucceeded /\ CountSuccess
                       ELSE ClosedCallFailed /\ CountFailure
        /\ AfterResult(c, r)
    /\ UNCHANGED <<mu, attempt, cancelled, healthy>>

\* waitBackoff: the timer fires, or the context ends the wait.
Backoff(c) ==
    /\ pc[c] = "backoff"
    /\ \/ cancelled[c] /\ goto(c, "idle") /\ UNCHANGED attempt
       \/ goto(c, "attempt") /\ attempt' = [attempt EXCEPT ![c] = @ + 1]
    /\ UNCHANGED <<breaker, mu, cancelled, healthy, streak>>

\* CircuitBreaker.Reset.
Reset ==
    /\ mu = Nobody
    /\ ToClosed
    /\ CountSuccess
    /\ UNCHANGED <<mu, pc, attempt, cancelled, healthy>>

\* Time passes.
Tick ==
    /\ elapsed < Timeout
    /\ elapsed' = elapsed + 1
    /\ UNCHANGED <<state, failures, mu, pc, attempt, cancelled, healthy, streak>>

\* The backend goes down or comes back.
BackendFlips ==
    /\ healthy' = ~healthy
    /\ UNCHANGED <<breaker, mu, pc, attempt, cancelled, streak>>

CallerStep(c) ==
    \/ Request(c) \/ Cancel(c) \/ BeginAttempt(c)
    \/ RejectOpen(c) \/ PassClosed(c) \/ BeginProbe(c) \/ ProbeReturns(c)
    \/ StartCall(c) \/ CallReturns(c) \/ Backoff(c)

Next == (\E c \in Callers : CallerStep(c)) \/ Reset \/ Tick \/ BackendFlips

Spec == Init /\ [][Next]_vars

-----------------------------------------------------------------------------
(* Fairness.  A Go mutex hands itself to a waiter that has waited long     *)
(* enough (starvation mode), so a step that needs cb.mu is strongly fair.  *)
(* A backend call ends because the HTTP client has a timeout.  Requests    *)
(* keep arriving, so that there is someone to probe.                       *)

Execute(c) == RejectOpen(c) \/ PassClosed(c) \/ BeginProbe(c)

Fairness ==
    /\ WF_vars(Tick)
    /\ \A c \in Callers :
        /\ WF_vars(Request(c))
        /\ SF_vars(BeginAttempt(c))
        /\ SF_vars(Execute(c))
        /\ WF_vars(ProbeReturns(c))
        /\ WF_vars(StartCall(c))
        /\ SF_vars(CallReturns(c))
        /\ WF_vars(Backoff(c))

FairSpec == Spec /\ Fairness

-----------------------------------------------------------------------------
(* Properties.                                                             *)

\* A running probe holds the mutex and sees the half-open state until it
\* returns: circuit.go keeps cb.mu "so only one probe request can run", and
\* late results of calls admitted earlier cannot move the breaker under it.
ProbeExclusive ==
    \A c \in Callers : pc[c] = "probe" => mu = c /\ state = HalfOpen

\* The mutex is held across steps by nobody but a probe, so no return path of
\* Execute leaves the breaker locked.
NoLockLeak == mu # Nobody => pc[mu] = "probe"

\* While the breaker is closed its counter is exactly the number of results
\* that failed since the last success, and is below the threshold: neither a
\* probe nor a late result of the previous closed period leaves a remainder.
ClosedCountsStreak ==
    state = Closed => failures = streak /\ failures < Threshold

\* A closed breaker opens on Threshold consecutive failed results, never
\* sooner, whatever order the results of concurrent calls arrive in.
OpensAfterConsecutiveFailures ==
    [][state = Closed /\ state' = Open => streak' = Threshold]_vars

NoCancellations == \A c \in Callers : ~cancelled[c]

\* An open breaker does not stay open while requests arrive that their
\* clients wait for: late failures of calls admitted before it opened restart
\* the timeout, but there are finitely many of them.
OpenIsProbed == <>[]NoCancellations => []<>(state # Open)

\* Every request returns, also those queued on cb.mu behind a probe.
RequestsReturn == \A c \in Callers : pc[c] # "idle" ~> pc[c] = "idle"

\* Once the backend stays healthy and no request is cancelled any more, the
\* breaker closes and stays closed.
RecoversWithBackend ==
    <>[](healthy /\ NoCancellations) => <>[](state = Closed)
=============================================================================
