---------------------------- MODULE CircuitBreaker ----------------------------
(***************************************************************************)
(* Coroutines that share one circuit breaker.  A caller is admitted, waits  *)
(* for the remote system, and only then records the outcome: in between     *)
(* another caller may have tripped, half-opened or closed the breaker.      *)
(***************************************************************************)
EXTENDS Breaker

CONSTANT Callers         \* coroutines that use this breaker

VARIABLES
    cb,        \* the breaker
    pending,   \* caller |-> "idle", or the state in which it was admitted
    up         \* whether the remote system answers

vars == <<cb, pending, up>>

Init ==
    /\ cb = ClosedBreaker
    /\ pending = [c \in Callers |-> "idle"]
    /\ up = TRUE

\* allow_request returns True; the coroutine goes on to await the response.
Admit(c) ==
    /\ pending[c] = "idle"
    /\ Allows(Observed(cb))
    /\ cb' = Observed(cb)
    /\ pending' = [pending EXCEPT ![c] = cb'.state]
    /\ UNCHANGED up

\* The awaited response arrives and the caller records it.
Succeed(c) ==
    /\ pending[c] # "idle"
    /\ up
    /\ cb' = AfterSuccess(cb)
    /\ pending' = [pending EXCEPT ![c] = "idle"]
    /\ UNCHANGED up

Fail(c) ==
    /\ pending[c] # "idle"
    /\ ~up
    /\ cb' = AfterFailure(cb)
    /\ pending' = [pending EXCEPT ![c] = "idle"]
    /\ UNCHANGED up

\* The state property, read by the polling loops, the API routes and the alerts.
ReadState == cb' = Observed(cb) /\ UNCHANGED <<pending, up>>

\* The reset-circuit-breaker control command.
Reset == cb' = ClosedBreaker /\ UNCHANGED <<pending, up>>

Tick == cb' = AfterTick(cb) /\ UNCHANGED <<pending, up>>

\* The remote system breaks or recovers.
Outage == up /\ up' = FALSE /\ UNCHANGED <<cb, pending>>
Recovery == ~up /\ up' = TRUE /\ UNCHANGED <<cb, pending>>

Next ==
    \/ \E c \in Callers : Admit(c) \/ Succeed(c) \/ Fail(c)
    \/ ReadState \/ Reset \/ Tick \/ Outage \/ Recovery

Spec == Init /\ [][Next]_vars

\* The loops poll for ever, a response or a timeout always arrives, time passes.
FairSpec ==
    /\ Spec
    /\ WF_vars(Tick)
    /\ \A c \in Callers : WF_vars(Admit(c)) /\ WF_vars(Succeed(c) \/ Fail(c))

-----------------------------------------------------------------------------
(* Properties. *)

TypeOK ==
    /\ cb \in Breakers
    /\ pending \in [Callers -> {"idle", "closed", "half_open"}]
    /\ up \in BOOLEAN

\* Closed means fully recovered: whatever callers of an earlier open period still
\* report, a closed breaker has fewer failures on record than would trip it, no
\* clock running and the timeout back at its base (record_success, reset).
ClosedIsFresh ==
    cb.state = "closed" =>
        /\ cb.failures < FailureThreshold
        /\ cb.age = NotOpened
        /\ cb.timeout = RecoveryTimeout
        /\ cb.opens = 0

\* A breaker that is not closed has the run of failures that tripped it behind it
\* and a running clock, without which it could never half-open (_trip_open stamps
\* _opened_at; _maybe_transition_to_half_open requires it).
TrippedHasCause ==
    cb.state # "closed" =>
        /\ cb.failures = FailureThreshold
        /\ cb.age # NotOpened
        /\ cb.opens > 0

\* The pause never falls below its base nor exceeds the ceiling, however many
\* probes fail and whichever late answers arrive in between (_trip_open).
TimeoutInRange == cb.timeout \in RecoveryTimeout .. MaxRecoveryTimeout

\* Half-open is reached only after the full pause since the LAST trip: failures
\* reported by requests admitted before it neither restart nor shorten the pause,
\* and no request is admitted inside it.
PauseIsServed ==
    [][ (cb.state = "open" /\ cb.age < cb.timeout) =>
          /\ cb'.state # "half_open"
          /\ \A c \in Callers : pending[c] = "idle" => pending'[c] = "idle"
          /\ cb'.state = "open" => cb'.age >= cb.age /\ cb'.timeout = cb.timeout ]_vars

\* A failed probe never shortens the pause: until the breaker closes, its timeout
\* only grows (exponential back-off on repeated opens).
BackoffNeverShrinks ==
    [][ (cb.state # "closed" /\ cb'.state # "closed") => cb'.timeout >= cb.timeout ]_vars

\* transport/circuit_breaker.py:15 and GOAL.md:242: half-open lets ONE probe through.
SingleProbe ==
    \A c, d \in Callers :
        (pending[c] = "half_open" /\ pending[d] = "half_open") => c = d

\* GOAL.md:242: the only way out of open is half-open (or an operator's reset, the
\* only step that closes the breaker while no caller finishes).
OpenOnlyToHalfOpen ==
    [][ (cb.state = "open" /\ cb'.state = "closed") => pending' = pending ]_vars
=============================================================================
