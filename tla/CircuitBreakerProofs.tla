------------------------ MODULE CircuitBreakerProofs ------------------------
(***************************************************************************)
(* Safety of CircuitBreaker for every set of callers, threshold, timeout   *)
(* and retry bound.  The inductive invariant is the conjunction of the     *)
(* type invariant with the three safety invariants and AttemptLeft, which  *)
(* keeps the attempt number within its type across a backoff.              *)
(***************************************************************************)
EXTENDS CircuitBreaker, TLAPS

\* A request backs off only while it has an attempt left.
AttemptLeft == \A c \in Callers : pc[c] = "backoff" => attempt[c] < MaxAttempts

Inv == /\ TypeOK
       /\ ProbeExclusive
       /\ NoLockLeak
       /\ ClosedCountsStreak
       /\ AttemptLeft

USE ThresholdAssumption, TimeoutAssumption, MaxAttemptsAssumption, NobodyAssumption

\* A new breaker satisfies the invariant.
LEMMA InitInv == Init => Inv
  BY DEF Init, Inv, TypeOK, ProbeExclusive, NoLockLeak, ClosedCountsStreak,
         AttemptLeft, States, Steps, Closed, Open, HalfOpen

\* Steps of a request that touch neither the breaker nor the mutex and start
\* or end no call: they only have to keep probes where they are.
LEMMA LocalStepInv ==
  ASSUME Inv, NEW c \in Callers, NEW s \in Steps \ {"probe", "backoff"}, pc[c] # "probe",
         goto(c, s), UNCHANGED <<breaker, mu, healthy, streak>>,
         attempt' \in [Callers -> 1..MaxAttempts],
         \A d \in Callers \ {c} : attempt'[d] = attempt[d],
         cancelled' \in [Callers -> BOOLEAN]
  PROVE  Inv'
  BY DEF Inv, TypeOK, ProbeExclusive, NoLockLeak, ClosedCountsStreak, AttemptLeft, goto, breaker

\* The step the retry loop takes on a result is one of its program points.
LEMMA AfterResultStep ==
  ASSUME NEW c \in Callers, NEW r \in Results, TypeOK, AfterResult(c, r)
  PROVE  /\ pc' \in [Callers -> Steps]
         /\ \A d \in Callers \ {c} : pc'[d] = pc[d]
         /\ pc'[c] = "idle" \/ (pc'[c] = "backoff" /\ attempt[c] < MaxAttempts)
  BY DEF AfterResult, goto, TypeOK, Steps

\* Every step of the breaker, its callers and their environment preserves it.
LEMMA NextInv == Inv /\ [Next]_vars => Inv'
<1> SUFFICES ASSUME Inv, [Next]_vars PROVE Inv'
  OBVIOUS
<1> USE DEF Inv
<1>1. ASSUME NEW c \in Callers, Request(c) PROVE Inv'
  <2>1. /\ attempt' \in [Callers -> 1..MaxAttempts]
        /\ \A d \in Callers \ {c} : attempt'[d] = attempt[d]
        /\ cancelled' \in [Callers -> BOOLEAN]
    BY <1>1 DEF Request, TypeOK
  <2>. QED
    BY <1>1, <2>1, LocalStepInv DEF Request, Steps
<1>2. ASSUME NEW c \in Callers, Cancel(c) PROVE Inv'
  BY <1>2 DEF Cancel, TypeOK, ProbeExclusive, NoLockLeak, ClosedCountsStreak,
              AttemptLeft, breaker
<1>3. ASSUME NEW c \in Callers, BeginAttempt(c) PROVE Inv'
  BY <1>3, LocalStepInv DEF BeginAttempt, Steps, TypeOK
<1>4. ASSUME NEW c \in Callers, RejectOpen(c) PROVE Inv'
  BY <1>4, LocalStepInv DEF RejectOpen, Steps, TypeOK
<1>5. ASSUME NEW c \in Callers, PassClosed(c) PROVE Inv'
  BY <1>5, LocalStepInv DEF PassClosed, Steps, TypeOK
<1>6. ASSUME NEW c \in Callers, BeginProbe(c) PROVE Inv'
  <2>1. TypeOK'
    BY <1>6 DEF BeginProbe, TypeOK, goto, Steps, States
  <2>2. ProbeExclusive' /\ NoLockLeak' /\ AttemptLeft'
    BY <1>6 DEF BeginProbe, TypeOK, ProbeExclusive, NoLockLeak, AttemptLeft, goto
  <2>3. ClosedCountsStreak'
    BY <1>6 DEF BeginProbe, ClosedCountsStreak, Closed, HalfOpen
  <2>. QED
    BY <2>1, <2>2, <2>3
<1>7. ASSUME NEW c \in Callers, ProbeReturns(c) PROVE Inv'
  <2>1. PICK r \in Results :
          /\ IF r = "ok" THEN ToClosed /\ CountSuccess ELSE ProbeFailed /\ CountFailure
          /\ AfterResult(c, r)
    BY <1>7 DEF ProbeReturns
  <2>2. /\ pc' \in [Callers -> Steps]
        /\ \A d \in Callers \ {c} : pc'[d] = pc[d]
        /\ pc'[c] = "idle" \/ (pc'[c] = "backoff" /\ attempt[c] < MaxAttempts)
    BY <2>1, AfterResultStep
  <2>3. mu' = Nobody /\ mu = c /\ UNCHANGED <<attempt, cancelled, healthy>>
    BY <1>7 DEF ProbeReturns, ProbeExclusive
  <2>4. TypeOK'
    BY <2>1, <2>2, <2>3 DEF TypeOK, ToClosed, ProbeFailed, CountSuccess, CountFailure, States
  <2>5. ProbeExclusive' /\ NoLockLeak' /\ AttemptLeft'
    <3>1. \A d \in Callers : pc[d] = "probe" => d = c
      BY <2>3 DEF ProbeExclusive
    <3>2. \A d \in Callers : pc'[d] # "probe"
      BY <2>2, <3>1 DEF TypeOK
    <3>3. AttemptLeft'
      BY <2>2, <2>3 DEF TypeOK, AttemptLeft
    <3>. QED
      BY <2>3, <3>2, <3>3 DEF ProbeExclusive, NoLockLeak
  <2>6. ClosedCountsStreak'
    BY <2>1 DEF ClosedCountsStreak, ToClosed, ProbeFailed, CountSuccess, Closed, Open
  <2>. QED
    BY <2>4, <2>5, <2>6
<1>8. ASSUME NEW c \in Callers, StartCall(c) PROVE Inv'
  BY <1>8, LocalStepInv DEF StartCall, Steps, TypeOK
<1>9. ASSUME NEW c \in Callers, CallReturns(c) PROVE Inv'
  <2>1. PICK r \in Results :
          /\ IF r = "ok" THEN ClosedCallSucceeded /\ CountSuccess
                         ELSE ClosedCallFailed /\ CountFailure
          /\ AfterResult(c, r)
    BY <1>9 DEF CallReturns
  <2>2. /\ pc' \in [Callers -> Steps]
        /\ \A d \in Callers \ {c} : pc'[d] = pc[d]
        /\ pc'[c] = "idle" \/ (pc'[c] = "backoff" /\ attempt[c] < MaxAttempts)
    BY <2>1, AfterResultStep
  <2>3. mu' = Nobody /\ mu = Nobody /\ UNCHANGED <<attempt, cancelled, healthy>>
    BY <1>9 DEF CallReturns
  <2>4. TypeOK'
    BY <2>1, <2>2, <2>3
    DEF TypeOK, ClosedCallSucceeded, ClosedCallFailed, CountSuccess, CountFailure, States
  <2>5. ProbeExclusive' /\ NoLockLeak' /\ AttemptLeft'
    <3>1. \A d \in Callers : pc[d] = "probe" => d = c
      BY <2>3 DEF ProbeExclusive
    <3>2. \A d \in Callers : pc'[d] # "probe"
      BY <2>2, <3>1 DEF TypeOK
    <3>3. AttemptLeft'
      BY <2>2, <2>3 DEF TypeOK, AttemptLeft
    <3>. QED
      BY <2>3, <3>2, <3>3 DEF ProbeExclusive, NoLockLeak
  <2>6. ClosedCountsStreak'
    BY <2>1 DEF TypeOK, ClosedCountsStreak, ClosedCallSucceeded, ClosedCallFailed,
                CountSuccess, CountFailure, Closed, Open
  <2>. QED
    BY <2>4, <2>5, <2>6
<1>10. ASSUME NEW c \in Callers, Backoff(c) PROVE Inv'
  <2>1. /\ attempt' \in [Callers -> 1..MaxAttempts]
        /\ \A d \in Callers \ {c} : attempt'[d] = attempt[d]
    BY <1>10 DEF Backoff, TypeOK, AttemptLeft
  <2>. QED
    BY <1>10, <2>1, LocalStepInv DEF Backoff, Steps, TypeOK
<1>11. ASSUME Reset PROVE Inv'
  BY <1>11 DEF Reset, ToClosed, CountSuccess, TypeOK, ProbeExclusive, NoLockLeak,
               ClosedCountsStreak, AttemptLeft, States
<1>12. ASSUME Tick PROVE Inv'
  BY <1>12 DEF Tick, TypeOK, ProbeExclusive, NoLockLeak, ClosedCountsStreak, AttemptLeft
<1>13. ASSUME BackendFlips PROVE Inv'
  BY <1>13 DEF BackendFlips, breaker, TypeOK, ProbeExclusive, NoLockLeak,
               ClosedCountsStreak, AttemptLeft
<1>14. CASE UNCHANGED vars
  BY <1>14 DEF vars, TypeOK, ProbeExclusive, NoLockLeak, ClosedCountsStreak, AttemptLeft
<1>. QED
  BY <1>1, <1>2, <1>3, <1>4, <1>5, <1>6, <1>7, <1>8, <1>9, <1>10, <1>11, <1>12, <1>13, <1>14
  DEF Next, CallerStep

-----------------------------------------------------------------------------
\* The invariant holds in every reachable state.
THEOREM Invariance == Spec => []Inv
  BY InitInv, NextInv, PTL DEF Spec

\* Type correctness, for every value of the constants.
THEOREM TypeCorrect == Spec => []TypeOK
<1>1. Inv => TypeOK
  BY DEF Inv
<1>. QED
  BY Invariance, <1>1, PTL

\* At most one probe runs, with the mutex, in the half-open state.
THEOREM ProbesAreExclusive == Spec => []ProbeExclusive
<1>1. Inv => ProbeExclusive
  BY DEF Inv
<1>. QED
  BY Invariance, <1>1, PTL

\* The mutex that Execute takes by hand is held by nobody but the probe, on
\* every return, cancellation and error.
THEOREM MutexIsReleased == Spec => []NoLockLeak
<1>1. Inv => NoLockLeak
  BY DEF Inv
<1>. QED
  BY Invariance, <1>1, PTL

\* A closed breaker's counter is the streak of failed results, below the
\* threshold.
THEOREM CounterIsStreak == Spec => []ClosedCountsStreak
<1>1. Inv => ClosedCountsStreak
  BY DEF Inv
<1>. QED
  BY Invariance, <1>1, PTL

\* A closed breaker opens on Threshold consecutive failures and never sooner.
THEOREM OpensOnlyAtThreshold == Spec => OpensAfterConsecutiveFailures
<1>1. Inv /\ [Next]_vars => [state = Closed /\ state' = Open => streak' = Threshold]_vars
  <2> SUFFICES ASSUME Inv, Next, state = Closed, state' = Open
               PROVE  streak' = Threshold
    BY DEF Closed, Open
  <2>1. PICK c \in Callers : BeginProbe(c) \/ ProbeReturns(c) \/ CallReturns(c)
    BY DEF Next, CallerStep, Request, Cancel, BeginAttempt, RejectOpen, PassClosed,
           StartCall, Backoff, Reset, Tick, BackendFlips, ToClosed, breaker, Closed, Open
  <2>2. CallReturns(c)
    BY <2>1 DEF Inv, BeginProbe, ProbeReturns, ProbeExclusive, ProbeDue, Closed, Open, HalfOpen
  <2>3. ClosedCallFailed /\ CountFailure
    BY <2>2 DEF CallReturns, ClosedCallSucceeded, Closed, Open
  <2>4. failures = streak /\ failures + 1 >= Threshold /\ streak < Threshold
    BY <2>3 DEF Inv, ClosedCountsStreak, ClosedCallFailed, Closed, Open
  <2>5. streak \in Nat
    BY DEF Inv, TypeOK
  <2>. QED
    BY <2>3, <2>4, <2>5 DEF CountFailure
<1>. QED
  BY Invariance, <1>1, PTL DEF Spec, OpensAfterConsecutiveFailures
=============================================================================
