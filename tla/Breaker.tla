------------------------------- MODULE Breaker -------------------------------
(***************************************************************************)
(* The circuit breaker object of transport/circuit_breaker.py: its fields   *)
(* are a record, its methods operators from record to record.  Modules that *)
(* use a breaker keep the record in a variable of theirs.                   *)
(*                                                                          *)
(* Time is a count of ticks since _opened_at.  It stops mattering at        *)
(* MaxRecoveryTimeout, where it saturates, as do the two counters that the  *)
(* code only compares with a threshold.                                     *)
(***************************************************************************)
EXTENDS Integers

CONSTANTS
    FailureThreshold,    \* consecutive failures that trip it
    RecoveryTimeout,     \* ticks before a probe is let through
    BackoffMultiplier,   \* growth of the timeout on a failed probe
    MaxRecoveryTimeout   \* its ceiling

ASSUME BreakerAssumption ==
    /\ FailureThreshold \in Nat \ {0}
    /\ RecoveryTimeout \in Nat \ {0}
    /\ BackoffMultiplier \in Nat \ {0}
    /\ MaxRecoveryTimeout \in Nat
    /\ MaxRecoveryTimeout >= RecoveryTimeout

-----------------------------------------------------------------------------
States == {"closed", "open", "half_open"}
NotOpened == -1          \* _opened_at is None
Least(a, b) == IF a <= b THEN a ELSE b

Breakers == [state : States,
             failures : 0 .. FailureThreshold,
             age : NotOpened .. MaxRecoveryTimeout,
             timeout : Nat,
             opens : 0 .. 2]

\* A new breaker, and what reset() leaves.
ClosedBreaker == [state |-> "closed", failures |-> 0, age |-> NotOpened,
                  timeout |-> RecoveryTimeout, opens |-> 0]

\* _maybe_transition_to_half_open, run by allow_request and by every read of .state
Observed(b) ==
    IF b.state = "open" /\ b.age # NotOpened /\ b.age >= b.timeout
    THEN [b EXCEPT !.state = "half_open"]
    ELSE b

\* allow_request, on a breaker already Observed
Allows(b) == b.state \in {"closed", "half_open"}

\* _trip_open.  opens saturates at 2: the code asks only whether it exceeds 1.
TrippedOpen(b, applyBackoff) ==
    [b EXCEPT !.state = "open",
              !.age = 0,
              !.opens = Least(@ + 1, 2),
              !.timeout = IF applyBackoff /\ b.opens + 1 > 1
                          THEN Least(@ * BackoffMultiplier, MaxRecoveryTimeout)
                          ELSE @]

\* Slip: a success keeps the back-off of the open period.
AfterSuccessKeepingBackoff(b) ==
    [b EXCEPT !.state = "closed", !.failures = 0, !.age = NotOpened]

\* record_success
AfterSuccess(b) ==
    IF b.state = "closed" THEN [b EXCEPT !.failures = 0] ELSE ClosedBreaker

\* Slip: a failure reported while open trips again and restarts the pause.
AfterFailureRestarting(b) ==
    LET counted == [b EXCEPT !.failures = Least(@ + 1, FailureThreshold)] IN
    IF counted.failures >= FailureThreshold
    THEN TrippedOpen(counted, b.state = "half_open")
    ELSE counted

\* record_failure
AfterFailure(b) ==
    LET counted == [b EXCEPT !.failures = Least(@ + 1, FailureThreshold)] IN
    CASE b.state = "half_open" -> TrippedOpen(counted, TRUE)
      [] b.state = "closed" /\ counted.failures >= FailureThreshold
           -> TrippedOpen(counted, FALSE)
      [] OTHER -> counted

\* The monotonic clock, as the breaker sees it.
AfterTick(b) ==
    IF b.age = NotOpened THEN b
    ELSE [b EXCEPT !.age = Least(@ + 1, MaxRecoveryTimeout)]
=============================================================================
