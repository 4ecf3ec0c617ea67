--------------------------- MODULE TransportProofs ---------------------------
(* What stands between a loop and the remote system, for any number of callers, *)
(* any thresholds, rates and timing: the breaker shared by coroutines, the      *)
(* ingestion loop's double bookkeeping of it, the token bucket, and the cached  *)
(* tokens of a connector whose credential is rotated.                           *)
EXTENDS MCTransport, TLAPS

-----------------------------------------------------------------------------
(* The breaker and its callers.  The four invariants are inductive only together: *)
(* a trip from closed leaves the timeout at its base only because a closed breaker *)
(* has it there, and a breaker that is not closed keeps a running clock only       *)
(* because the sole way back to closed (record_success, reset) resets every field. *)

BreakerInv(b) ==
    /\ b \in Breakers
    /\ b.state = "closed" =>
          /\ b.failures < FailureThreshold
          /\ b.age = NotOpened
          /\ b.timeout = RecoveryTimeout
          /\ b.opens = 0
    /\ b.state # "closed" =>
          /\ b.failures = FailureThreshold
          /\ b.age # NotOpened
          /\ b.opens > 0
    /\ b.timeout \in RecoveryTimeout .. MaxRecoveryTimeout

Inv == BreakerInv(cb) /\ TypeOK

(* A new or reset breaker is well formed. *)
LEMMA ClosedBreakerInv == BreakerInv(ClosedBreaker)
  BY BreakerAssumption DEF BreakerInv, ClosedBreaker, Breakers, States, NotOpened

(* Reading the state keeps a breaker well formed. *)
LEMMA ObservedInv ==
  ASSUME NEW b, BreakerInv(b)
  PROVE  BreakerInv(Observed(b))
  BY BreakerAssumption DEF BreakerInv, Observed, Breakers, States, NotOpened

(* So does the passing of time. *)
LEMMA TickInv ==
  ASSUME NEW b, BreakerInv(b)
  PROVE  BreakerInv(AfterTick(b))
  BY BreakerAssumption
  DEF BreakerInv, AfterTick, Breakers, States, NotOpened, Least

(* A recorded success resets whatever an open period left behind. *)
LEMMA SuccessInv ==
  ASSUME NEW b, BreakerInv(b)
  PROVE  BreakerInv(AfterSuccess(b))
<1>1. CASE b.state = "closed"
  BY <1>1, BreakerAssumption
  DEF BreakerInv, AfterSuccess, Breakers, States, NotOpened
<1>2. CASE b.state # "closed"
  BY <1>2, ClosedBreakerInv DEF AfterSuccess
<1> QED BY <1>1, <1>2

(* The backed-off timeout stays between the current one and the ceiling. *)
LEMMA BackoffBounds ==
  ASSUME NEW t \in RecoveryTimeout .. MaxRecoveryTimeout
  PROVE  Least(t * BackoffMultiplier, MaxRecoveryTimeout) \in t .. MaxRecoveryTimeout
<1>1. t \in Nat /\ t * BackoffMultiplier \in Nat
  BY BreakerAssumption
<1>2. t * BackoffMultiplier >= t
  BY BreakerAssumption, <1>1
<1> QED BY <1>1, <1>2, BreakerAssumption DEF Least

(* Tripping a breaker that has its failures on record keeps it well formed. *)
LEMMA TripInv ==
  ASSUME NEW b \in Breakers, NEW applyBackoff \in BOOLEAN,
         b.failures = FailureThreshold,
         b.timeout \in RecoveryTimeout .. MaxRecoveryTimeout
  PROVE  BreakerInv(TrippedOpen(b, applyBackoff))
<1> DEFINE t == IF applyBackoff /\ b.opens + 1 > 1
                THEN Least(b.timeout * BackoffMultiplier, MaxRecoveryTimeout)
                ELSE b.timeout
           n == Least(b.opens + 1, 2)
<1>1. t \in RecoveryTimeout .. MaxRecoveryTimeout
  BY BackoffBounds, BreakerAssumption
<1>2. n \in 1 .. 2
  BY DEF Least, Breakers
<1>3. TrippedOpen(b, applyBackoff)
        = [b EXCEPT !.state = "open", !.age = 0, !.opens = n, !.timeout = t]
  BY DEF TrippedOpen
<1> HIDE DEF t, n
<1>4. TrippedOpen(b, applyBackoff)
        = [state |-> "open", failures |-> FailureThreshold, age |-> 0,
           timeout |-> t, opens |-> n]
  BY <1>3 DEF Breakers
<1>5. 0 \in NotOpened .. MaxRecoveryTimeout /\ 0 # NotOpened /\ t \in Nat
  BY <1>1, BreakerAssumption DEF NotOpened
<1> QED BY <1>1, <1>2, <1>4, <1>5, BreakerAssumption
        DEF BreakerInv, Breakers, States

(* A recorded failure trips, re-trips or only counts; all keep it well formed. *)
LEMMA FailureInv ==
  ASSUME NEW b, BreakerInv(b)
  PROVE  BreakerInv(AfterFailure(b))
<1> DEFINE n == Least(b.failures + 1, FailureThreshold)
           counted == [b EXCEPT !.failures = n]
<1>0. n \in 0 .. FailureThreshold
  BY BreakerAssumption DEF BreakerInv, Breakers, Least
<1>1. b.state # "closed" => n = FailureThreshold
  BY BreakerAssumption DEF BreakerInv, Least
<1>2. /\ AfterFailure(b) =
           CASE b.state = "half_open" -> TrippedOpen(counted, TRUE)
             [] b.state = "closed" /\ counted.failures >= FailureThreshold
                  -> TrippedOpen(counted, FALSE)
             [] OTHER -> counted
  BY DEF AfterFailure
<1> HIDE DEF n
<1>3. /\ counted \in Breakers
      /\ counted.state = b.state /\ counted.timeout = b.timeout
      /\ counted.age = b.age /\ counted.opens = b.opens
      /\ counted.failures = n
      /\ b.timeout \in RecoveryTimeout .. MaxRecoveryTimeout
      /\ b.state \in States
  BY <1>0, BreakerAssumption DEF BreakerInv, Breakers
<1> HIDE DEF counted
<1>4. CASE b.state = "half_open"
  BY <1>1, <1>2, <1>3, <1>4, TripInv
<1>5. CASE b.state = "closed" /\ counted.failures >= FailureThreshold
  <2>1. counted.failures = FailureThreshold
    BY <1>0, <1>3, <1>5, BreakerAssumption
  <2> QED BY <1>2, <1>3, <1>5, <2>1, TripInv
<1>6. CASE b.state # "half_open" /\ ~(b.state = "closed" /\ counted.failures >= FailureThreshold)
  <2>1. AfterFailure(b) = counted
    BY <1>2, <1>6
  <2> QED BY <1>0, <1>1, <1>3, <1>6, <2>1, BreakerAssumption DEF BreakerInv
<1> QED BY <1>4, <1>5, <1>6

-----------------------------------------------------------------------------

LEMMA InitInv == Init => Inv
  BY ClosedBreakerInv DEF Init, Inv, TypeOK, BreakerInv

(* Every step keeps the breaker well formed and the callers typed. *)
LEMMA StepInv == Inv /\ [Next]_vars => Inv'
<1> SUFFICES ASSUME Inv, [Next]_vars PROVE Inv'
  OBVIOUS
<1> USE DEF Inv
<1>1. ASSUME NEW c \in Callers, Admit(c) PROVE Inv'
  <2>1. BreakerInv(Observed(cb))
    BY ObservedInv
  <2>2. cb'.state \in {"closed", "half_open"}
    BY <1>1 DEF Admit, Allows
  <2> QED BY <1>1, <2>1, <2>2 DEF Admit, TypeOK, BreakerInv
<1>2. ASSUME NEW c \in Callers, Succeed(c) PROVE Inv'
  BY <1>2, SuccessInv DEF Succeed, TypeOK, BreakerInv
<1>3. ASSUME NEW c \in Callers, Fail(c) PROVE Inv'
  BY <1>3, FailureInv DEF Fail, TypeOK, BreakerInv
<1>4. CASE ReadState
  BY <1>4, ObservedInv DEF ReadState, TypeOK, BreakerInv
<1>5. CASE Reset
  BY <1>5, ClosedBreakerInv DEF Reset, TypeOK, BreakerInv
<1>6. CASE Tick
  BY <1>6, TickInv DEF Tick, TypeOK, BreakerInv
<1>7. CASE Outage
  BY <1>7 DEF Outage, TypeOK, BreakerInv
<1>8. CASE Recovery
  BY <1>8 DEF Recovery, TypeOK, BreakerInv
<1>9. CASE UNCHANGED vars
  BY <1>9 DEF vars, TypeOK, BreakerInv
<1> QED BY <1>1, <1>2, <1>3, <1>4, <1>5, <1>6, <1>7, <1>8, <1>9 DEF Next

(* The inductive invariant holds in every reachable state. *)
THEOREM Invariance == Spec => []Inv
  BY InitInv, StepInv, PTL DEF Spec

(* Type correctness of the breaker and of its callers. *)
THEOREM TypeCorrect == Spec => []TypeOK
<1>1. Inv => TypeOK BY DEF Inv
<1> QED BY <1>1, Invariance, PTL

(* A closed breaker is fully recovered: no failures enough to trip, base timeout. *)
THEOREM ClosedFresh == Spec => []ClosedIsFresh
<1>1. Inv => ClosedIsFresh BY DEF Inv, BreakerInv, ClosedIsFresh
<1> QED BY <1>1, Invariance, PTL

(* A breaker that is not closed has the failures that tripped it and a running clock. *)
THEOREM TrippedCause == Spec => []TrippedHasCause
<1>1. Inv => TrippedHasCause BY DEF Inv, BreakerInv, TrippedHasCause
<1> QED BY <1>1, Invariance, PTL

(* The pause stays between its base and its ceiling. *)
THEOREM TimeoutBounded == Spec => []TimeoutInRange
<1>1. Inv => TimeoutInRange BY DEF Inv, BreakerInv, TimeoutInRange
<1> QED BY <1>1, Invariance, PTL

-----------------------------------------------------------------------------

(* A failed probe never shortens the pause. *)
THEOREM BackoffMonotone == Spec => BackoffNeverShrinks
<1>1. Inv /\ [Next]_vars =>
        [ (cb.state # "closed" /\ cb'.state # "closed") => cb'.timeout >= cb.timeout ]_vars
  <2> SUFFICES ASSUME Inv, Next, cb.state # "closed", cb'.state # "closed"
               PROVE  cb'.timeout >= cb.timeout
    OBVIOUS
  <2>0. cb \in Breakers /\ cb.timeout \in RecoveryTimeout .. MaxRecoveryTimeout
    BY DEF Inv, BreakerInv
  <2>1. ASSUME NEW b \in Breakers, b = Observed(cb) \/ b = AfterTick(cb) \/ b = cb
        PROVE  b.timeout = cb.timeout
    BY <2>0, <2>1 DEF Observed, AfterTick, Breakers
  <2>2. cb' = AfterFailure(cb) => cb'.timeout >= cb.timeout
    <3>1. Least(cb.timeout * BackoffMultiplier, MaxRecoveryTimeout) >= cb.timeout
      BY <2>0, BackoffBounds, BreakerAssumption
    <3> QED BY <2>0, <3>1, BreakerAssumption DEF AfterFailure, TrippedOpen, Breakers
  <2>3. cb' \in Breakers
    BY StepInv DEF Inv, BreakerInv, Breakers
  <2>4. \/ cb' = Observed(cb) \/ cb' = AfterTick(cb) \/ cb' = cb
        \/ cb' = AfterFailure(cb) \/ cb' = AfterSuccess(cb) \/ cb' = ClosedBreaker
    BY DEF Next, Admit, Succeed, Fail, ReadState, Reset, Tick, Outage, Recovery
  <2>5. AfterSuccess(cb) = ClosedBreaker /\ ClosedBreaker.state = "closed"
    BY DEF AfterSuccess, ClosedBreaker
  <2> QED BY <2>0, <2>1, <2>2, <2>3, <2>4, <2>5, BreakerAssumption
<1> QED BY <1>1, Invariance, PTL DEF Spec, BackoffNeverShrinks

(* The pause is served in full: before it is over the breaker does not half-open *)
(* and admits nobody, and an outcome of a request admitted before the trip, a    *)
(* failure even, neither restarts nor stretches it.                              *)
THEOREM PauseServed == Spec => PauseIsServed
<1>1. Inv /\ [Next]_vars =>
        [ (cb.state = "open" /\ cb.age < cb.timeout) =>
            /\ cb'.state # "half_open"
            /\ \A c \in Callers : pending[c] = "idle" => pending'[c] = "idle"
            /\ cb'.state = "open" => cb'.age >= cb.age /\ cb'.timeout = cb.timeout ]_vars
  <2> SUFFICES ASSUME Inv, Next, cb.state = "open", cb.age < cb.timeout
               PROVE  /\ cb'.state # "half_open"
                      /\ \A c \in Callers : pending[c] = "idle" => pending'[c] = "idle"
                      /\ cb'.state = "open" => cb'.age >= cb.age /\ cb'.timeout = cb.timeout
    OBVIOUS
  <2>1. /\ cb \in Breakers /\ cb.age \in NotOpened .. MaxRecoveryTimeout
        /\ pending \in [Callers -> {"idle", "closed", "half_open"}]
    BY DEF Inv, BreakerInv, TypeOK, Breakers
  <2>2. Observed(cb) = cb /\ ~Allows(Observed(cb))
    BY <2>1, BreakerAssumption DEF Observed, Allows, Breakers, NotOpened
  <2>3. /\ AfterFailure(cb).state = "open"
        /\ AfterFailure(cb).age = cb.age
        /\ AfterFailure(cb).timeout = cb.timeout
    BY <2>1 DEF AfterFailure, Breakers
  <2>4. /\ AfterTick(cb).state = "open"
        /\ AfterTick(cb).age >= cb.age
        /\ AfterTick(cb).timeout = cb.timeout
    BY <2>1, BreakerAssumption DEF AfterTick, Least, Breakers, NotOpened
  <2>5. AfterSuccess(cb) = ClosedBreaker /\ ClosedBreaker.state = "closed"
    BY DEF AfterSuccess, ClosedBreaker
  <2>6. ASSUME NEW c \in Callers
        PROVE  ~Admit(c)
    BY <2>2 DEF Admit
  <2>7. ASSUME NEW c \in Callers, Succeed(c) \/ Fail(c)
        PROVE  /\ cb' = AfterSuccess(cb) \/ cb' = AfterFailure(cb)
               /\ \A d \in Callers : pending[d] = "idle" => pending'[d] = "idle"
    BY <2>1, <2>7 DEF Succeed, Fail
  <2>8. CASE \E c \in Callers : Succeed(c) \/ Fail(c)
    BY <2>1, <2>3, <2>5, <2>7, <2>8
  <2>9. CASE ReadState \/ Reset \/ Tick \/ Outage \/ Recovery
    BY <2>1, <2>2, <2>4, <2>5, <2>9 DEF ReadState, Reset, Tick, Outage, Recovery
  <2> QED BY <2>6, <2>8, <2>9 DEF Next
<1> QED BY <1>1, Invariance, PTL DEF Spec, PauseIsServed
-----------------------------------------------------------------------------
(* The ingestion loop.  A poll and its loop record its outcome one after the other, *)
(* with awaits in between, so that "the breaker is open after so many bad polls"    *)
(* is not inductive: what is, is that a closed breaker has counted at least the     *)
(* polls that failed in a row, but for one that raised and is still to be reported, *)
(* and that a poll reported as a success has ended the row.                         *)

\* The failure of a poll that raised, which only the loop will record.
Unrecorded == IF pc = "reporting" /\ outcome = "raised" THEN 1 ELSE 0

LoopInv ==
    /\ BreakerInv(loopCb)
    /\ badPolls \in 0 .. FailureThreshold
    /\ loopCb.state = "closed" => loopCb.failures + Unrecorded >= badPolls
    /\ pc = "reporting" /\ outcome \in {"completed", "skipped"} => badPolls = 0

(* The breaker of the loop is the breaker of the callers. *)
LEMMA SameBreaker ==
  /\ Loop!ClosedBreaker = ClosedBreaker
  /\ \A b : /\ Loop!Observed(b) = Observed(b)
            /\ Loop!AfterSuccess(b) = AfterSuccess(b)
            /\ Loop!AfterFailure(b) = AfterFailure(b)
            /\ Loop!AfterTick(b) = AfterTick(b)
<1>1. Loop!ClosedBreaker = ClosedBreaker
  BY DEF Loop!ClosedBreaker, ClosedBreaker, Loop!NotOpened, NotOpened
<1>2. \A b : Loop!Observed(b) = Observed(b)
  BY DEF Loop!Observed, Observed, Loop!NotOpened, NotOpened
<1>3. \A b : Loop!AfterSuccess(b) = AfterSuccess(b)
  BY <1>1 DEF Loop!AfterSuccess, AfterSuccess
<1>4. \A b, backoff : Loop!TrippedOpen(b, backoff) = TrippedOpen(b, backoff)
  BY DEF Loop!TrippedOpen, TrippedOpen, Loop!Least, Least
<1>5. \A b : Loop!AfterFailure(b) = AfterFailure(b)
  BY <1>4, Zenon DEF Loop!AfterFailure, AfterFailure, Loop!Least, Least
<1>6. \A b : Loop!AfterTick(b) = AfterTick(b)
  BY DEF Loop!AfterTick, AfterTick, Loop!Least, Least, Loop!NotOpened, NotOpened
<1> QED BY <1>1, <1>2, <1>3, <1>5, <1>6

(* Recording a failure counts it, or leaves the breaker open. *)
LEMMA FailureCounts ==
  ASSUME NEW b, BreakerInv(b)
  PROVE  LET n == AfterFailure(b)
         IN  /\ n.state = "closed" => b.state = "closed" /\ n.failures = b.failures + 1
             /\ b.state # "closed" => n.state # "closed"
<1> DEFINE n == AfterFailure(b)
           counted == [b EXCEPT !.failures = Least(@ + 1, FailureThreshold)]
<1>1. /\ b.state \in States
      /\ counted.state = b.state
      /\ b.state = "closed" => counted.failures = b.failures + 1
      /\ counted.failures \in 0 .. FailureThreshold
  BY BreakerAssumption DEF BreakerInv, Breakers, Least
<1>2. \A applyBackoff : TrippedOpen(counted, applyBackoff).state = "open"
  BY DEF TrippedOpen, BreakerInv, Breakers
<1>3. /\ n = CASE b.state = "half_open" -> TrippedOpen(counted, TRUE)
             [] b.state = "closed" /\ counted.failures >= FailureThreshold
                  -> TrippedOpen(counted, FALSE)
             [] OTHER -> counted
  BY DEF AfterFailure
<1> HIDE DEF counted
<1>4. CASE b.state = "half_open"
  BY <1>2, <1>3, <1>4
<1>5. CASE b.state = "closed" /\ counted.failures >= FailureThreshold
  BY <1>2, <1>3, <1>5
<1>6. CASE b.state # "half_open" /\ ~(b.state = "closed" /\ counted.failures >= FailureThreshold)
  <2>1. n = counted
    BY <1>3, <1>6
  <2> QED BY <1>1, <1>6, <2>1
<1> QED BY <1>4, <1>5, <1>6

(* Reading the state, or the clock, neither closes a breaker nor forgets a failure. *)
LEMMA ReadCounts ==
  ASSUME NEW b, BreakerInv(b), NEW n, n = Observed(b) \/ n = AfterTick(b)
  PROVE  n.state = "closed" => b.state = "closed" /\ n.failures = b.failures
  BY DEF Observed, AfterTick, BreakerInv, Breakers

(* A poll that ends: the row of bad polls grows by one or ends. *)
LEMMA EndPollKeeps ==
  ASSUME LoopInv, NEW result, NEW b, Loop!EndPoll(result, b), BreakerInv(b),
         b.state = "closed" /\ result # "raised" /\ result \in {"failed", "aborted"}
           => loopCb.state = "closed" /\ b.failures = loopCb.failures + 1,
         result = "raised" => b = loopCb
  PROVE  LoopInv'
<1>1. /\ pc = "working" /\ loopCb' = b /\ pc' = "reporting" /\ outcome' = result
      /\ badPolls' = IF result \in {"failed", "raised", "aborted"}
                       THEN Loop!Least(badPolls + 1, FailureThreshold) ELSE 0
  BY DEF Loop!EndPoll, Loop!CountPoll
<1>2. /\ badPolls \in 0 .. FailureThreshold
      /\ loopCb.state = "closed" => loopCb.failures >= badPolls
      /\ loopCb.failures \in Nat /\ b.failures \in Nat
  BY <1>1, BreakerAssumption DEF LoopInv, Unrecorded, BreakerInv, Breakers
<1>3. badPolls' \in 0 .. FailureThreshold
  BY <1>1, <1>2, BreakerAssumption DEF Loop!Least
<1>4. badPolls' = 0 \/ badPolls' <= badPolls + 1
  BY <1>1, <1>2, BreakerAssumption DEF Loop!Least
<1>5. CASE result \in {"failed", "aborted"}
  <2>1. b.state = "closed" => b.failures >= badPolls'
    BY <1>2, <1>3, <1>4, <1>5
  <2>2. Unrecorded' = 0
    BY <1>1, <1>5 DEF Unrecorded
  <2> QED BY <1>1, <1>2, <1>3, <1>5, <2>1, <2>2 DEF LoopInv
<1>6. CASE result = "raised"
  <2>1. Unrecorded' = 1
    BY <1>1, <1>6 DEF Unrecorded
  <2>2. b.state = "closed" => b.failures + 1 >= badPolls'
    BY <1>2, <1>3, <1>4, <1>6
  <2> QED BY <1>1, <1>3, <1>6, <2>1, <2>2 DEF LoopInv
<1>7. CASE result \notin {"failed", "raised", "aborted"}
  <2>1. badPolls' = 0 /\ Unrecorded' = 0
    BY <1>1, <1>7 DEF Unrecorded
  <2> QED BY <1>1, <1>2, <1>3, <2>1 DEF LoopInv
<1> QED BY <1>5, <1>6, <1>7

(* The end of a poll, in each of its ways. *)
LEMMA SyncKeepsLoopInv ==
  ASSUME LoopInv,
         \/ Loop!SyncCompletes \/ Loop!SyncFails \/ Loop!SyncAborts
         \/ Loop!SyncSkipped \/ Loop!SyncRaises
  PROVE  LoopInv'
<1>0. BreakerInv(loopCb)
  BY DEF LoopInv
<1>1. CASE Loop!SyncCompletes
  <2>1. Loop!EndPoll("completed", AfterSuccess(loopCb))
    BY <1>1, SameBreaker DEF Loop!SyncCompletes
  <2> QED BY <1>0, <2>1, SuccessInv, EndPollKeeps
<1>2. CASE Loop!SyncFails
  <2> DEFINE b == Observed(AfterFailure(loopCb))
  <2>1. Loop!EndPoll("failed", b)
    BY <1>2, SameBreaker DEF Loop!SyncFails
  <2>2. BreakerInv(AfterFailure(loopCb)) /\ BreakerInv(b)
    BY <1>0, FailureInv, ObservedInv
  <2>3. b.state = "closed" => loopCb.state = "closed" /\ b.failures = loopCb.failures + 1
    BY <1>0, <2>2, FailureCounts, ReadCounts
  <2> QED BY <2>1, <2>2, <2>3, EndPollKeeps
<1>3. CASE Loop!SyncAborts
  <2> DEFINE b == AfterFailure(loopCb)
  <2>1. Loop!EndPoll("aborted", b)
    BY <1>3, SameBreaker DEF Loop!SyncAborts
  <2>2. BreakerInv(b)
    BY <1>0, FailureInv
  <2>3. b.state = "closed" => loopCb.state = "closed" /\ b.failures = loopCb.failures + 1
    BY <1>0, FailureCounts
  <2> QED BY <2>1, <2>2, <2>3, EndPollKeeps
<1>4. CASE Loop!SyncSkipped
  <2>1. Loop!EndPoll("skipped", loopCb)
    BY <1>4 DEF Loop!SyncSkipped
  <2> QED BY <1>0, <2>1, EndPollKeeps
<1>5. CASE Loop!SyncRaises
  <2>1. Loop!EndPoll("raised", loopCb)
    BY <1>5 DEF Loop!SyncRaises
  <2> QED BY <1>0, <2>1, EndPollKeeps
<1> QED BY <1>1, <1>2, <1>3, <1>4, <1>5

(* The loop's own record of the poll counts a poll that raised, and takes back *)
(* nothing that a bad one has counted.                                         *)
LEMMA ReportKeepsLoopInv ==
  ASSUME LoopInv, Loop!ReportPoll
  PROVE  LoopInv'
<1>1. /\ pc = "reporting" /\ pc' = "asleep" /\ badPolls' = badPolls
      /\ \/ outcome \in {"completed", "skipped"} /\ loopCb' = Observed(AfterSuccess(loopCb))
         \/ outcome \in {"failed", "raised"} /\ loopCb' = Observed(AfterFailure(loopCb))
         \/ outcome = "aborted" /\ loopCb' = Observed(loopCb)
  BY SameBreaker DEF Loop!ReportPoll
<1>2. BreakerInv(loopCb) /\ badPolls \in 0 .. FailureThreshold
  BY DEF LoopInv
<1>3. Unrecorded' = 0
  BY <1>1 DEF Unrecorded
<1>4. ASSUME NEW b, b = loopCb', BreakerInv(b), b.state = "closed" => b.failures >= badPolls
      PROVE  LoopInv'
  <2>1. b.failures \in Nat
    BY <1>4 DEF BreakerInv, Breakers
  <2> QED BY <1>1, <1>2, <1>3, <1>4, <2>1 DEF LoopInv
<1>5. CASE outcome \in {"completed", "skipped"} /\ loopCb' = Observed(AfterSuccess(loopCb))
  <2>1. badPolls = 0
    BY <1>1, <1>5 DEF LoopInv
  <2>2. BreakerInv(Observed(AfterSuccess(loopCb)))
    BY <1>2, SuccessInv, ObservedInv
  <2>3. Observed(AfterSuccess(loopCb)).failures >= 0
    BY <2>2 DEF BreakerInv, Breakers
  <2> QED BY <1>4, <1>5, <2>1, <2>2, <2>3
<1>6. CASE outcome \in {"failed", "raised"} /\ loopCb' = Observed(AfterFailure(loopCb))
  <2>1. BreakerInv(AfterFailure(loopCb)) /\ BreakerInv(Observed(AfterFailure(loopCb)))
    BY <1>2, FailureInv, ObservedInv
  <2>2. Observed(AfterFailure(loopCb)).state = "closed" =>
          /\ loopCb.state = "closed"
          /\ Observed(AfterFailure(loopCb)).failures = loopCb.failures + 1
    BY <1>2, <2>1, FailureCounts, ReadCounts
  <2>3. loopCb.state = "closed" => loopCb.failures + 1 >= badPolls
    <3>1. loopCb.failures \in Nat /\ Unrecorded \in 0 .. 1
      BY <1>2 DEF BreakerInv, Breakers, Unrecorded
    <3> QED BY <1>2, <3>1 DEF LoopInv
  <2> QED BY <1>4, <1>6, <2>1, <2>2, <2>3
<1>7. CASE outcome = "aborted" /\ loopCb' = Observed(loopCb)
  <2>1. BreakerInv(Observed(loopCb))
    BY <1>2, ObservedInv
  <2>2. Observed(loopCb).state = "closed" =>
          loopCb.state = "closed" /\ Observed(loopCb).failures = loopCb.failures
    BY <1>2, ReadCounts
  <2>3. loopCb.state = "closed" => loopCb.failures >= badPolls
    <3>1. Unrecorded = 0 /\ loopCb.failures \in Nat
      BY <1>2, <1>7 DEF Unrecorded, BreakerInv, Breakers
    <3> QED BY <1>2, <3>1 DEF LoopInv
  <2> QED BY <1>4, <1>7, <2>1, <2>2, <2>3
<1> QED BY <1>1, <1>5, <1>6, <1>7

(* Everything else that happens around the ingestion loop. *)
LEMMA AroundKeepsLoopInv ==
  ASSUME LoopInv, Loop!StartPoll \/ Loop!Tick \/ Loop!Reset \/ Loop!Outage
  PROVE  LoopInv'
<1>0. /\ BreakerInv(loopCb) /\ badPolls \in 0 .. FailureThreshold
      /\ loopCb.failures \in Nat /\ Unrecorded \in 0 .. 1
  BY DEF LoopInv, BreakerInv, Breakers, Unrecorded
<1>1. CASE Loop!StartPoll
  <2>1. /\ pc = "asleep" /\ loopCb' = Observed(loopCb) /\ pc' \in {"working", "asleep"}
        /\ badPolls' = badPolls
    BY <1>1, SameBreaker DEF Loop!StartPoll
  <2>2. Unrecorded = 0 /\ Unrecorded' = 0
    BY <2>1 DEF Unrecorded
  <2>3. BreakerInv(Observed(loopCb))
    BY <1>0, ObservedInv
  <2>4. Observed(loopCb).state = "closed" =>
          loopCb.state = "closed" /\ Observed(loopCb).failures = loopCb.failures
    BY <1>0, ReadCounts
  <2> QED BY <1>0, <2>1, <2>2, <2>3, <2>4 DEF LoopInv
<1>2. CASE Loop!Tick
  <2>1. loopCb' = AfterTick(loopCb) /\ UNCHANGED <<pc, outcome, badPolls>>
    BY <1>2, SameBreaker DEF Loop!Tick
  <2>2. Unrecorded' = Unrecorded
    BY <2>1 DEF Unrecorded
  <2>3. BreakerInv(AfterTick(loopCb))
    BY <1>0, TickInv
  <2>4. AfterTick(loopCb).state = "closed" =>
          loopCb.state = "closed" /\ AfterTick(loopCb).failures = loopCb.failures
    BY <1>0, ReadCounts
  <2> QED BY <1>0, <2>1, <2>2, <2>3, <2>4 DEF LoopInv
<1>3. CASE Loop!Reset
  <2>1. loopCb' = ClosedBreaker /\ badPolls' = 0 /\ UNCHANGED <<pc, outcome>>
    BY <1>3, SameBreaker DEF Loop!Reset
  <2>2. Unrecorded' = Unrecorded
    BY <2>1 DEF Unrecorded
  <2>3. BreakerInv(ClosedBreaker) /\ ClosedBreaker.failures = 0
    BY ClosedBreakerInv DEF ClosedBreaker
  <2> QED BY <1>0, <2>1, <2>2, <2>3, BreakerAssumption DEF LoopInv
<1>4. CASE Loop!Outage
  BY <1>4 DEF Loop!Outage, LoopInv, Unrecorded
<1> QED BY <1>1, <1>2, <1>3, <1>4

(* The breaker of the ingestion loop is not closed after FailureThreshold polls that *)
(* failed in a row: SustainedFailureOpens, for every threshold and however the two   *)
(* records of a poll interleave with resets and the clock.                           *)
THEOREM BadPollsTrip == Loop!Spec => []SustainedFailureOpens
<1> DEFINE Ingesting == tool = "ingestion" => LoopInv
<1>1. Loop!Init => Ingesting
  <2> SUFFICES ASSUME Loop!Init PROVE LoopInv
    OBVIOUS
  <2>1. loopCb = ClosedBreaker /\ badPolls = 0 /\ Unrecorded = 0
    BY SameBreaker DEF Loop!Init, Unrecorded
  <2> QED BY <2>1, ClosedBreakerInv, BreakerAssumption DEF LoopInv, ClosedBreaker
<1>2. Ingesting /\ [Loop!Next]_Loop!vars => Ingesting'
  <2> SUFFICES ASSUME Ingesting, [Loop!Next]_Loop!vars, tool' = "ingestion"
               PROVE  LoopInv'
    OBVIOUS
  <2>1. tool = "ingestion" /\ LoopInv
    BY DEF Loop!Next, Loop!vars
  <2>2. CASE Loop!Step
    <3>1. \/ Loop!StartPoll \/ Loop!Tick \/ Loop!Reset \/ Loop!Outage
          \/ Loop!SyncCompletes \/ Loop!SyncFails \/ Loop!SyncAborts
          \/ Loop!SyncSkipped \/ Loop!SyncRaises \/ Loop!ReportPoll
      BY <2>1, <2>2
      DEF Loop!Step, Loop!Work, Loop!StartCycle, Loop!StartEmptyCycle, Loop!CycleRaises,
          Loop!DispatchRow, Loop!RowRejected, Loop!RowWritten, Loop!RowFails, Loop!ReportCycle
    <3> QED BY <2>1, <3>1, AroundKeepsLoopInv, SyncKeepsLoopInv, ReportKeepsLoopInv
  <2>3. CASE UNCHANGED Loop!vars
    BY <2>1, <2>3 DEF Loop!vars, LoopInv, Unrecorded
  <2> QED BY <2>2, <2>3 DEF Loop!Next
<1>3. Ingesting => SustainedFailureOpens
  <2> SUFFICES ASSUME LoopInv, badPolls = FailureThreshold, pc = "asleep"
               PROVE  loopCb.state # "closed"
    BY DEF SustainedFailureOpens, Loop!SustainedFailureOpens
  <2>1. Unrecorded = 0 /\ loopCb.failures \in Nat
    BY DEF Unrecorded, LoopInv, BreakerInv, Breakers
  <2> QED BY <2>1, BreakerAssumption DEF LoopInv, BreakerInv
<1> QED BY <1>1, <1>2, <1>3, PTL DEF Loop!Spec

-----------------------------------------------------------------------------
(* The token bucket.  That an exact bucket is never overdrawn is not inductive: what *)
(* is, is that it holds at least what the code's bucket would after its next refill, *)
(* at the full rate.  The refill may then be as late, and at as low a rate, as the   *)
(* callers and the answers make it.                                                  *)

\* A refill now, at the full rate.
Due(b) == Client!Least(Capacity, b.tokens + b.since * Base)

BucketInv ==
    /\ bucket = [tokens |-> bucket.tokens, reduced |-> bucket.reduced,
                 left |-> bucket.left, since |-> bucket.since]
    /\ bucket.tokens \in 0 .. Capacity
    /\ bucket.since \in 0 .. Capacity
    /\ ideal \in Int
    /\ Due(bucket) <= ideal

(* What a refill leaves in the bucket. *)
LEMMA RefilledBounds ==
  ASSUME Client!HttpClientAssumption, BucketInv
  PROVE  LET b == Client!Refilled(bucket)
         IN  /\ b = [tokens |-> b.tokens, reduced |-> b.reduced, left |-> b.left, since |-> 0]
             /\ b.tokens \in 0 .. Capacity
             /\ b.tokens <= ideal
<1> DEFINE half == Base \div 2
           rate == IF bucket.reduced /\ bucket.left > 0 THEN half ELSE Base
           b == Client!Refilled(bucket)
<1>1. /\ Base \in Nat \ {0} /\ Capacity \in Nat /\ half \in Nat /\ half <= Base
      /\ bucket.since \in Nat /\ bucket.tokens \in 0 .. Capacity
  BY DEF Client!HttpClientAssumption, BucketInv
<1>2. rate \in Nat /\ rate <= Base
  BY <1>1
<1>3. b = [tokens |-> Client!Least(Capacity, bucket.tokens + bucket.since * rate),
           reduced |-> bucket.reduced /\ bucket.left > 0,
           left |-> IF bucket.reduced /\ bucket.left > 0 THEN bucket.left ELSE 0,
           since |-> 0]
  BY Zenon DEF Client!Refilled
<1>4. b = [tokens |-> b.tokens, reduced |-> b.reduced, left |-> b.left, since |-> 0]
  BY <1>3
<1>5. b.tokens = Client!Least(Capacity, bucket.tokens + bucket.since * rate)
  BY <1>3
<1> HIDE DEF rate
<1>6. \A s, r \in Nat : r <= Base => s * r \in Nat /\ s * Base \in Nat /\ s * r <= s * Base
  <2>1. TAKE s, r \in Nat
  <2>2. SUFFICES ASSUME r <= Base
                 PROVE  s * r \in Nat /\ s * Base \in Nat /\ s * r <= s * Base
    OBVIOUS
  <2>3. Base - r \in Nat /\ s * (Base - r) \in Nat /\ s * Base = s * r + s * (Base - r)
    BY <1>1, <2>2
  <2> QED BY <1>1, <2>3
<1>7. /\ bucket.since * rate \in Nat /\ bucket.since * Base \in Nat
      /\ bucket.since * rate <= bucket.since * Base
  BY <1>1, <1>2, <1>6
<1>8. b.tokens \in 0 .. Capacity /\ b.tokens <= Due(bucket) /\ Due(bucket) \in Int
  BY <1>1, <1>5, <1>7 DEF Client!Least, Due
<1>9. b.tokens <= ideal
  <2> HIDE DEF b
  <2> QED BY <1>8 DEF BucketInv
<1> QED BY <1>4, <1>8, <1>9

(* A bucket that was refilled just now holds at most what an exact one does. *)
LEMMA FreshBucket ==
  ASSUME Client!HttpClientAssumption, NEW n \in 0 .. Capacity
  PROVE  \A b : b.tokens = n /\ b.since = 0 => Due(b) = n
  BY DEF Due, Client!HttpClientAssumption, Client!Least

LEMMA AcquireKeepsBucketInv ==
  ASSUME Client!HttpClientAssumption, BucketInv, NEW c \in Callers,
         Client!Acquire(c) \/ Client!AcquireLater(c)
  PROVE  BucketInv'
<1> DEFINE b == Client!Refilled(bucket)
<1>1. /\ b = [tokens |-> b.tokens, reduced |-> b.reduced, left |-> b.left, since |-> 0]
      /\ b.tokens \in 0 .. Capacity /\ b.tokens <= ideal
      /\ Capacity \in Nat /\ Cost \in Nat /\ ideal \in Int
  BY RefilledBounds DEF Client!HttpClientAssumption, BucketInv
<1>2. CASE Client!Acquire(c)
  <2>1. b.tokens >= Cost /\ bucket' = [b EXCEPT !.tokens = @ - Cost] /\ ideal' = ideal - Cost
    BY <1>2 DEF Client!Acquire
  <2> HIDE DEF b
  <2>2. bucket' = [tokens |-> b.tokens - Cost, reduced |-> b.reduced, left |-> b.left,
                   since |-> 0]
    BY <1>1, <2>1
  <2>3. b.tokens - Cost \in 0 .. Capacity
    BY <1>1, <2>1
  <2>4. Due(bucket') = b.tokens - Cost
    BY <2>2, <2>3, FreshBucket
  <2>5. PICK n : n = bucket'
    OBVIOUS
  <2>6. Due(n) = Due(bucket)'
    BY <2>5 DEF Due
  <2> QED BY <1>1, <2>1, <2>2, <2>3, <2>4, <2>5, <2>6 DEF BucketInv
<1>3. CASE Client!AcquireLater(c)
  <2>1. bucket' = b /\ ideal' = ideal
    BY <1>3 DEF Client!AcquireLater
  <2> HIDE DEF b
  <2>2. Due(b) = b.tokens
    <3>1. b.since = 0
      BY <1>1
    <3> QED BY <1>1, <3>1, FreshBucket
  <2>3. Due(bucket)' = Due(b)
    BY <2>1 DEF Due
  <2> QED BY <1>1, <2>1, <2>2, <2>3 DEF BucketInv
<1> QED BY <1>2, <1>3

(* A backoff takes tokens from the bucket and none from the exact one. *)
LEMMA BackoffKeepsBucketInv ==
  ASSUME Client!HttpClientAssumption, BucketInv, NEW wait, ideal' = ideal,
         bucket' = Client!BackedOff(bucket, wait)
  PROVE  BucketInv'
<1> DEFINE n == Client!Least(bucket.tokens, Capacity \div 10)
<1>1. /\ Capacity \in Nat /\ Base \in Nat /\ bucket.tokens \in 0 .. Capacity
      /\ bucket.since \in 0 .. Capacity /\ ideal \in Int
      /\ bucket = [tokens |-> bucket.tokens, reduced |-> bucket.reduced,
                   left |-> bucket.left, since |-> bucket.since]
  BY DEF Client!HttpClientAssumption, BucketInv
<1>2. n \in 0 .. bucket.tokens
  BY <1>1 DEF Client!Least
<1>3. bucket' = [tokens |-> n, reduced |-> TRUE, left |-> wait, since |-> bucket.since]
  <2>1. bucket' = [bucket EXCEPT !.reduced = TRUE, !.left = wait, !.tokens = n]
    BY Zenon DEF Client!BackedOff
  <2> HIDE DEF n
  <2> QED BY <1>1, <2>1
<1> HIDE DEF n
<1>4. bucket.since * Base \in Nat
  BY <1>1
<1>5. Due(bucket)' <= Due(bucket)
  <2>1. bucket'.tokens = n /\ bucket'.since = bucket.since
    BY <1>3
  <2>2. Due(bucket)' = Client!Least(Capacity, n + bucket.since * Base)
    BY <2>1 DEF Due
  <2> QED BY <1>1, <1>2, <1>4, <2>2 DEF Due, Client!Least
<1>6. Due(bucket)' \in Int /\ Due(bucket) \in Int
  BY <1>1, <1>2, <1>3, <1>4 DEF Due, Client!Least
<1> QED BY <1>1, <1>2, <1>3, <1>5, <1>6 DEF BucketInv

(* Time gives the exact bucket all that it may give the other. *)
LEMMA TickKeepsBucketInv ==
  ASSUME Client!HttpClientAssumption, BucketInv, Client!Tick
  PROVE  BucketInv'
<1> DEFINE s == Client!Least(bucket.since + 1, Capacity)
           l == IF bucket.left > 0 THEN bucket.left - 1 ELSE 0
<1>1. /\ Capacity \in Nat /\ Base \in Nat \ {0} /\ bucket.tokens \in 0 .. Capacity
      /\ bucket.since \in 0 .. Capacity /\ ideal \in Int
      /\ bucket = [tokens |-> bucket.tokens, reduced |-> bucket.reduced,
                   left |-> bucket.left, since |-> bucket.since]
      /\ Due(bucket) <= ideal
  BY DEF Client!HttpClientAssumption, BucketInv
<1>2. s \in 0 .. Capacity /\ (s = bucket.since + 1 \/ (s = Capacity /\ bucket.since = Capacity))
  BY <1>1 DEF Client!Least
<1>3. /\ bucket' = [bucket EXCEPT !.since = s, !.left = l]
      /\ ideal' = Client!Least(Capacity, ideal + Base)
  BY DEF Client!Tick
<1> HIDE DEF s, l
<1>4. bucket' = [tokens |-> bucket.tokens, reduced |-> bucket.reduced, left |-> l, since |-> s]
  BY <1>1, <1>3
<1>5. Due(bucket)' = Client!Least(Capacity, bucket.tokens + s * Base)
  <2>1. bucket'.tokens = bucket.tokens /\ bucket'.since = s
    BY <1>4
  <2> QED BY <2>1 DEF Due
<1>6. ideal' \in Int
  BY <1>1, <1>3 DEF Client!Least
<1>7. Due(bucket)' <= ideal'
  <2>1. CASE s = bucket.since + 1
    <3>1. s * Base = bucket.since * Base + Base /\ bucket.since * Base \in Nat
      BY <1>1, <2>1
    <3> QED BY <1>1, <1>3, <1>5, <3>1 DEF Due, Client!Least
  <2>2. CASE s = Capacity /\ bucket.since = Capacity
    <3>1. Capacity * Base \in Nat /\ Capacity * Base >= Capacity
      BY <1>1
    <3> QED BY <1>1, <1>3, <1>5, <2>2, <3>1 DEF Due, Client!Least
  <2> QED BY <1>2, <2>1, <2>2
<1> QED BY <1>1, <1>2, <1>4, <1>6, <1>7 DEF BucketInv

(* In any span the callers together send no more than a burst and what the rate gives *)
(* for it: RateIsKept, for every rate, burst, cost, number of callers and sequence of *)
(* answers.                                                                           *)
THEOREM RateKept ==
  ASSUME Client!HttpClientAssumption
  PROVE  Client!Spec => []RateIsKept
<1>1. Client!Init => BucketInv
  BY FreshBucket DEF Client!Init, BucketInv, Client!HttpClientAssumption
<1>2. BucketInv /\ [Client!Next]_Client!vars => BucketInv'
  <2> SUFFICES ASSUME BucketInv, [Client!Next]_Client!vars PROVE BucketInv'
    OBVIOUS
  <2>1. CASE Client!Tick
    BY <2>1, TickKeepsBucketInv
  <2>2. ASSUME NEW c \in Callers, Client!Acquire(c) \/ Client!AcquireLater(c)
        PROVE  BucketInv'
    BY <2>2, AcquireKeepsBucketInv
  <2>3. ASSUME NEW c \in Callers, NEW header \in RetryAfter, Client!Answer429(c, header)
        PROVE  BucketInv'
    <3>1. /\ bucket' = Client!BackedOff(bucket, Client!RetryAfterSpan(header, requests[c].raw))
          /\ ideal' = ideal
      BY <2>3 DEF Client!Answer429
    <3> QED BY <3>1, BackoffKeepsBucketInv
  <2>4. ASSUME UNCHANGED <<bucket, ideal>>
        PROVE  BucketInv'
    BY <2>4 DEF BucketInv, Due
  <2>5. ASSUME NEW c \in Callers,
               \/ Client!Start(c) \/ Client!Wake(c) \/ Client!AnswerFinal(c)
               \/ Client!AnswerTransient(c) \/ Client!BudgetExhausted(c)
        PROVE  BucketInv'
    BY <2>4, <2>5 DEF Client!Start, Client!Wake, Client!AnswerFinal, Client!AnswerTransient,
                      Client!BudgetExhausted
  <2>6. CASE UNCHANGED Client!vars
    BY <2>4, <2>6 DEF Client!vars
  <2> QED BY <2>1, <2>2, <2>3, <2>5, <2>6 DEF Client!Next, Client!Moves, Client!Answers
<1>3. BucketInv => RateIsKept
  <2> SUFFICES ASSUME BucketInv PROVE ideal >= 0
    BY DEF RateIsKept, Client!RateIsKept
  <2>1. /\ bucket.since \in Nat /\ Base \in Nat /\ bucket.tokens \in Nat /\ Capacity \in Nat
        /\ ideal \in Int /\ Due(bucket) <= ideal
    BY DEF BucketInv, Client!HttpClientAssumption
  <2>2. bucket.since * Base \in Nat
    BY <2>1
  <2> QED BY <2>1, <2>2 DEF Due, Client!Least
<1> QED BY <1>1, <1>2, <1>3, PTL DEF Client!Spec

-----------------------------------------------------------------------------
(* The cached token, where rotate-credential empties the cache: what is kept is that *)
(* the cache never holds a token from before the last rotation.  A request in flight *)
(* still may, and its 401 must not bring one back.                                   *)

TokenInv == cache.access \notin outdated /\ Token!None \notin outdated

(* A request that begins takes the cached token, a new one or none. *)
LEMMA MovesKeepTokenInv ==
  ASSUME TokenInv, NEW c \in Callers, Token!Moves(c)
  PROVE  /\ TokenInv'
         /\ \A d \in Callers : call[d].step = "idle" /\ call'[d].step = "sent"
                                 => call'[d].token \notin outdated'
<1>1. ASSUME NEW step, NEW token, Token!Sent(c, step, token),
             step # "sent" \/ token \notin outdated'
      PROVE  \A d \in Callers : call[d].step = "idle" /\ call'[d].step = "sent"
                                  => call'[d].token \notin outdated'
  <2>1. call' = [call EXCEPT ![c] = [step |-> step, token |-> token]]
    BY <1>1 DEF Token!Sent
  <2>2. \A d \in Callers : d # c => call'[d] = call[d]
    BY <2>1
  <2>3. call'[c] = [step |-> step, token |-> token] \/ call'[c] = call[c]
    BY <2>1
  <2> QED BY <1>1, <2>2, <2>3
<1>2. ASSUME NEW entry, NEW t, NEW rotates, Token!FetchedAs(entry, t, rotates), t \in Tokens
      PROVE  TokenInv' /\ t \notin outdated'
  BY <1>2 DEF Token!FetchedAs, TokenInv
<1>3. ASSUME NEW entry, Token!FetchFails(entry) \/ Token!FetchLost(entry),
             entry.access \in {cache.access, Token!None}
      PROVE  TokenInv' /\ outdated' = outdated
  <2>1. CASE Token!FetchFails(entry)
    BY <1>3, <2>1 DEF Token!FetchFails, TokenInv
  <2>2. CASE Token!FetchLost(entry)
    <3>1. outdated' = outdated /\ cache' \in {[entry EXCEPT !.refresh = "spent"], entry}
      BY <2>2 DEF Token!FetchLost
    <3>2. [entry EXCEPT !.refresh = "spent"].access = entry.access
      OBVIOUS
    <3> QED BY <1>3, <3>1, <3>2 DEF TokenInv
  <2> QED BY <1>3, <2>1, <2>2
<1>4. CASE Token!SendFetched(c)
  <2>1. CASE \E t \in Tokens, rotates \in Token!Rotates :
               Token!FetchedAs(cache, t, rotates) /\ Token!Sent(c, "sent", t)
    BY <1>1, <1>2, <2>1
  <2>2. CASE (Token!FetchFails(cache) \/ Token!FetchLost(cache)) /\ Token!Sent(c, "sent", Token!None)
    BY <1>1, <1>3, <2>2 DEF TokenInv
  <2> QED BY <1>4, <2>1, <2>2 DEF Token!SendFetched
<1>5. CASE Token!SendCached(c)
  BY <1>1, <1>5 DEF Token!SendCached, TokenInv
<1>6. CASE Token!Arrive(c)
  <2>1. UNCHANGED <<cache, outdated>>
    BY <1>6 DEF Token!Arrive
  <2>2. \E step \in {"idle", "refused", "unauthorized"} : \E token : Token!Sent(c, step, token)
    BY <1>6 DEF Token!Arrive
  <2> QED BY <1>1, <2>1, <2>2 DEF TokenInv
<1>7. CASE Token!Retry(c)
  <2>1. CASE \E t \in Tokens, rotates \in Token!Rotates :
               Token!FetchedAs(Token!Empty, t, rotates) /\ Token!Sent(c, "resent", t)
    BY <1>1, <1>2, <2>1
  <2>2. CASE (Token!FetchFails(Token!Empty) \/ Token!FetchLost(Token!Empty))
               /\ Token!Sent(c, "unauthorized", Token!None)
    <3>1. Token!Empty.access = Token!None
      BY DEF Token!Empty
    <3> QED BY <1>1, <1>3, <2>2, <3>1
  <2> QED BY <1>7, <2>1, <2>2 DEF Token!Retry
<1>8. CASE Token!Give(c)
  BY <1>1, <1>8 DEF Token!Give, TokenInv
<1> QED BY <1>4, <1>5, <1>6, <1>7, <1>8 DEF Token!Moves

(* After rotate-credential no request that begins carries a token from before it:    *)
(* RotationIsComplete, for any number of callers, tokens and faults, of the          *)
(* providers whose cache the command empties.                                        *)
THEOREM RotationComplete ==
  ASSUME Flow # "pre"
  PROVE  Token!Spec => RotationIsComplete
<1>1. Token!Init => TokenInv
  BY DEF Token!Init, TokenInv
<1>2. ASSUME TokenInv, [Token!Next]_Token!vars
      PROVE  /\ TokenInv'
             /\ \A d \in Callers : call[d].step = "idle" /\ call'[d].step = "sent"
                                     => call'[d].token \notin outdated'
  <2>1. CASE \E c \in Callers : Token!Moves(c)
    BY <1>2, <2>1, MovesKeepTokenInv
  <2>2. CASE Token!RotateCredential
    <3>1. cache' = Token!Empty /\ Token!None \notin outdated' /\ call' = call
      BY <2>2 DEF Token!RotateCredential, Token!Invalidated
    <3>2. Token!Empty.access = Token!None
      BY DEF Token!Empty
    <3> QED BY <3>1, <3>2 DEF TokenInv
  <2>3. CASE Token!NearsItsEnd
    <3>1. cache' = [cache EXCEPT !.near = TRUE] /\ UNCHANGED <<outdated, call>>
      BY <2>3 DEF Token!NearsItsEnd
    <3>2. [cache EXCEPT !.near = TRUE].access = cache.access
      OBVIOUS
    <3> QED BY <1>2, <3>1, <3>2 DEF TokenInv
  <2>4. CASE Token!Expire \/ (\E t \in Tokens : Token!Revoke(t)) \/ UNCHANGED Token!vars
    <3>1. UNCHANGED <<cache, outdated, call>>
      BY <2>4 DEF Token!Expire, Token!Revoke, Token!vars
    <3> QED BY <1>2, <3>1 DEF TokenInv
  <2> QED BY <1>2, <2>1, <2>2, <2>3, <2>4 DEF Token!Next
<1>3. TokenInv /\ [Token!Next]_Token!vars =>
        [\A c \in Callers : call[c].step = "idle" /\ call'[c].step = "sent"
           => call'[c].token \notin outdated']_Token!vars
  BY <1>2
<1>4. TokenInv /\ [Token!Next]_Token!vars => TokenInv'
  BY <1>2
<1> QED BY <1>1, <1>3, <1>4, PTL DEF Token!Spec, RotationIsComplete, Token!RotationIsComplete
=============================================================================
