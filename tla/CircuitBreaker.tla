---------------------------- MODULE CircuitBreaker ----------------------------
(***************************************************************************)
(* A circuit breaker, the calls it guards and the service behind it.  Its  *)
(* lock is never held across an await, so every method is one step.  Some  *)
(* callers ask with the context manager or the decorator, others look at   *)
(* is_available and record the outcome themselves.                         *)
(***************************************************************************)
EXTENDS Naturals

CONSTANTS Callers, Threshold,
          MaxOutages,   \* how often the service stops working
          MaxCancels    \* cancelled calls

ASSUME BreakerAssumption == Threshold \in Nat \ {0} /\ MaxOutages \in Nat /\ MaxCancels \in Nat

VARIABLES state,     \* CLOSED, OPEN or HALF_OPEN
          failures,  \* _failure_count, which only its comparison with Threshold reads
          elapsed,   \* recovery_timeout has passed since the last failure
          call,      \* calls in flight
          healthy,   \* the service answers
          outages, cancels

vars == <<state, failures, elapsed, call, healthy, outages, cancels>>

NoCall == [phase |-> "idle", doomed |-> FALSE]

Init ==
    /\ state = "CLOSED" /\ failures = 0 /\ elapsed = TRUE
    /\ call = [c \in Callers |-> NoCall]
    /\ healthy = TRUE /\ outages = 0 /\ cancels = 0

-----------------------------------------------------------------------------
Available == state # "OPEN" \/ elapsed

\* is_available: the state stays as it is.
BeginManual(c) ==
    /\ call[c].phase = "idle" /\ Available
    /\ call' = [call EXCEPT ![c] = [phase |-> "manual", doomed |-> ~healthy]]
    /\ UNCHANGED <<state, failures, elapsed, healthy, outages, cancels>>

\* Mutant: a call in flight keeps everybody else out of a half-open circuit.
BeginOneTest(c) ==
    /\ call[c].phase = "idle" /\ Available /\ state # "HALF_OPEN"
    /\ state' = IF state = "OPEN" THEN "HALF_OPEN" ELSE state
    /\ call' = [call EXCEPT ![c] = [phase |-> "guarded", doomed |-> ~healthy]]
    /\ UNCHANGED <<failures, elapsed, healthy, outages, cancels>>

\* _check_and_acquire
Begin(c) ==
    /\ call[c].phase = "idle" /\ Available
    /\ state' = IF state = "OPEN" THEN "HALF_OPEN" ELSE state
    /\ call' = [call EXCEPT ![c] = [phase |-> "guarded", doomed |-> ~healthy]]
    /\ UNCHANGED <<failures, elapsed, healthy, outages, cancels>>

RecordSuccess == failures' = 0 /\ state' = "CLOSED" /\ UNCHANGED elapsed

\* Mutant: the threshold has to be passed, not reached.
RecordFailureLate ==
    /\ failures' = IF failures > Threshold THEN failures ELSE failures + 1
    /\ elapsed' = FALSE
    /\ state' = IF state = "HALF_OPEN" \/ failures' > Threshold THEN "OPEN" ELSE state
RecordFailure ==
    /\ failures' = IF failures = Threshold THEN failures ELSE failures + 1
    /\ elapsed' = FALSE
    /\ state' = IF state = "HALF_OPEN" \/ failures' = Threshold THEN "OPEN" ELSE state

Succeed(c) ==
    /\ call[c].phase # "idle" /\ healthy
    /\ RecordSuccess
    /\ call' = [call EXCEPT ![c] = NoCall]
    /\ UNCHANGED <<healthy, outages, cancels>>

\* A call that began during an outage may still fail after it.
Fail(c) ==
    /\ call[c].phase # "idle" /\ (call[c].doomed \/ ~healthy)
    /\ RecordFailure
    /\ call' = [call EXCEPT ![c] = NoCall]
    /\ UNCHANGED <<healthy, outages, cancels>>

\* __aexit__ records a cancelled call as a failure; the decorator and manual
\* callers catch Exception, which a cancellation is not, and record nothing.
Cancel(c) ==
    /\ call[c].phase # "idle" /\ cancels < MaxCancels
    /\ cancels' = cancels + 1
    /\ \/ call[c].phase = "guarded" /\ RecordFailure
       \/ UNCHANGED <<state, failures, elapsed>>
    /\ call' = [call EXCEPT ![c] = NoCall]
    /\ UNCHANGED <<healthy, outages>>

-----------------------------------------------------------------------------
Elapse == /\ ~elapsed /\ elapsed' = TRUE
          /\ UNCHANGED <<state, failures, call, healthy, outages, cancels>>

ServiceChanges ==
    /\ \/ healthy /\ outages < MaxOutages /\ outages' = outages + 1
       \/ ~healthy /\ UNCHANGED outages
    /\ healthy' = ~healthy
    /\ UNCHANGED <<state, failures, elapsed, call, cancels>>

End(c) == Succeed(c) \/ Fail(c)

Next == \/ \E c \in Callers : BeginManual(c) \/ Begin(c) \/ End(c) \/ Cancel(c)
        \/ Elapse \/ ServiceChanges

Spec == Init /\ [][Next]_vars

\* Calls keep coming and end, with an answer or a time-out, and time passes.
FairSpec == /\ Spec /\ WF_vars(Elapse)
            /\ \A c \in Callers : WF_vars(Begin(c)) /\ WF_vars(End(c))

-----------------------------------------------------------------------------
\* The breaker's fields and the calls in flight hold what the code can put there.
TypeOK ==
    /\ state \in {"CLOSED", "OPEN", "HALF_OPEN"} /\ failures \in 0..Threshold
    /\ elapsed \in BOOLEAN /\ healthy \in BOOLEAN
    /\ call \in [Callers -> [phase: {"idle", "guarded", "manual"}, doomed: BOOLEAN]]

\* A circuit that has seen Threshold failures without a success between them
\* is not closed, whichever calls ended, were late or were cancelled
\* (record_failure, record_success).
ThresholdOpens == failures = Threshold => state # "CLOSED"

\* Once the service works for good, the circuit closes, whatever calls of the
\* outage end late and whichever test call is cancelled (_check_and_acquire).
RecoversWithService == <>[]healthy => <>[](state = "CLOSED")
=============================================================================
