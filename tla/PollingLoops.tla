----------------------------- MODULE PollingLoops -----------------------------
(***************************************************************************)
(* The two daemons' polling loops around one circuit breaker:               *)
(* ingestion/daemon.py _polling_loop asks the breaker before each poll,     *)
(* runs engine.run_sync, which records an outcome of its own, and then      *)
(* records the poll's result once more; writeback/daemon.py                 *)
(* _writeback_polling_loop runs every cycle, the engine asks the breaker    *)
(* row by row, and the loop records the cycle as a whole.                   *)
(*                                                                          *)
(* Each daemon is a process with a breaker registry of its own, so one loop *)
(* and one breaker are a complete instance; tool says which daemon it is.   *)
(***************************************************************************)
EXTENDS Breaker

CONSTANTS
    Tools,         \* the daemons looked at: "ingestion", "writeback"
    Contended,     \* another instance may hold the lock (a poll is "skipped")
    Raises,        \* a cycle may raise outside the handled errors
    RowsPerCycle   \* rows of a writeback cycle (bound)

LoopAssumption ==
    /\ Tools \subseteq {"ingestion", "writeback"}
    /\ Contended \in BOOLEAN /\ Raises \in BOOLEAN
    /\ RowsPerCycle \in Nat \ {0}

VARIABLES
    tool,      \* this process's daemon
    cb,        \* this process's breaker for (connector, datatype)
    pc,        \* "asleep", "working" or "reporting"
    outcome,   \* what the finished poll or cycle returned
    rows,      \* rows of the cycle still to dispatch
    failed,    \* result.failed > 0 so far
    up,        \* whether the remote system answers
    badPolls,  \* history: polls failed in a row, up to FailureThreshold
    answered   \* history: the remote system has answered since the last trip

vars == <<tool, cb, pc, outcome, rows, failed, up, badPolls, answered>>

Init ==
    /\ tool \in Tools
    /\ cb = ClosedBreaker
    /\ pc = "asleep" /\ outcome = "none" /\ rows = 0 /\ failed = FALSE
    /\ up = TRUE /\ badPolls = 0 /\ answered = TRUE

\* The histories, from what a step does to the breaker and to the remote system.
Witness(gotAnswer) ==
    answered' = IF gotAnswer THEN TRUE
                ELSE IF cb.state # "open" /\ cb'.state = "open" THEN FALSE
                ELSE answered
CountPoll(bad) ==
    badPolls' = IF bad THEN Least(badPolls + 1, FailureThreshold) ELSE 0

-----------------------------------------------------------------------------
(* The ingestion loop. *)

\* The breaker admits the poll, or the loop sleeps through the interval.
StartPoll ==
    /\ tool = "ingestion" /\ pc = "asleep"
    /\ cb' = Observed(cb)
    /\ pc' = IF Allows(cb') THEN "working" ELSE "asleep"
    /\ outcome' = "none"
    /\ UNCHANGED <<rows, failed, up, badPolls, answered>>

EndPoll(result, b) ==
    /\ tool = "ingestion" /\ pc = "working"
    /\ cb' = b
    /\ pc' = "reporting" /\ outcome' = result
    /\ CountPoll(result \in {"failed", "raised", "aborted"})
    /\ UNCHANGED <<rows, failed, up>>

\* run_sync: the sync succeeds and records it; fails, records it and reads the
\* state to decide whether to mark the connector; or aborts on pagination drift.
SyncCompletes == up /\ EndPoll("completed", AfterSuccess(cb)) /\ Witness(TRUE)
SyncFails == ~up /\ EndPoll("failed", Observed(AfterFailure(cb))) /\ Witness(FALSE)
SyncAborts == up /\ EndPoll("aborted", AfterFailure(cb)) /\ Witness(TRUE)

\* Another instance holds the lock, or the connector is in its cooldown.
SyncSkipped == Contended /\ EndPoll("skipped", cb) /\ Witness(FALSE)

\* run_sync raises before or after the part whose errors it handles.
SyncRaises == Raises /\ EndPoll("raised", cb) /\ Witness(FALSE)

\* Slip: a poll that raised is not counted.
ReportPollMissingRaise ==
    /\ tool = "ingestion" /\ pc = "reporting"
    /\ \/ outcome \in {"completed", "skipped"} /\ cb' = Observed(AfterSuccess(cb))
       \/ outcome = "failed" /\ cb' = Observed(AfterFailure(cb))
       \/ outcome \in {"aborted", "raised"} /\ cb' = Observed(cb)
    /\ pc' = "asleep"
    /\ Witness(FALSE)
    /\ UNCHANGED <<outcome, rows, failed, up, badPolls>>

\* The loop's own bookkeeping, after the awaits in between.
ReportPoll ==
    /\ tool = "ingestion" /\ pc = "reporting"
    /\ \/ outcome \in {"completed", "skipped"} /\ cb' = Observed(AfterSuccess(cb))
       \/ outcome \in {"failed", "raised"} /\ cb' = Observed(AfterFailure(cb))
       \/ outcome = "aborted" /\ cb' = Observed(cb)
    /\ pc' = "asleep"
    /\ Witness(FALSE)
    /\ UNCHANGED <<outcome, rows, failed, up, badPolls>>

-----------------------------------------------------------------------------
(* The writeback loop. *)

\* Slip: result.failed survives from the previous cycle.
StartCycleSticky ==
    /\ tool = "writeback" /\ pc = "asleep"
    /\ pc' = "working" /\ outcome' = "none"
    /\ rows' \in 1 .. RowsPerCycle
    /\ UNCHANGED <<cb, failed, up, badPolls, answered>>

\* A cycle starts whatever the breaker says.
StartCycle ==
    /\ tool = "writeback" /\ pc = "asleep"
    /\ pc' = "working" /\ outcome' = "none" /\ failed' = FALSE
    /\ rows' \in 1 .. RowsPerCycle
    /\ UNCHANGED <<cb, up, badPolls, answered>>

\* Without the advisory lock it has no rows and returns skipped = 1; the delta view
\* may be empty, too.
StartEmptyCycle ==
    /\ tool = "writeback" /\ pc = "asleep" /\ Contended
    /\ pc' = "working" /\ outcome' = "none" /\ failed' = FALSE /\ rows' = 0
    /\ UNCHANGED <<cb, up, badPolls, answered>>

DispatchRow(b) ==
    /\ tool = "writeback" /\ pc = "working" /\ rows > 0
    /\ rows' = rows - 1
    /\ cb' = b
    /\ UNCHANGED <<pc, outcome, up, badPolls>>

\* _dispatch_row: the breaker rejects the row (skipped), or the write is sent.
RowRejected ==
    /\ ~Allows(Observed(cb))
    /\ DispatchRow(Observed(cb)) /\ Witness(FALSE) /\ UNCHANGED failed
RowWritten ==
    /\ Allows(Observed(cb)) /\ up
    /\ DispatchRow(AfterSuccess(Observed(cb))) /\ Witness(TRUE) /\ UNCHANGED failed
RowFails ==
    /\ Allows(Observed(cb)) /\ ~up
    /\ DispatchRow(AfterFailure(Observed(cb))) /\ Witness(FALSE) /\ failed' = TRUE

\* An error outside the row handling is caught by the cycle itself: the remaining
\* rows are dropped and result.failed stays as it was.
CycleRaises ==
    /\ tool = "writeback" /\ Raises /\ pc = "working" /\ rows > 0
    /\ rows' = 0
    /\ UNCHANGED <<cb, pc, outcome, failed, up, badPolls, answered>>

\* Slip: the end of a cycle always counts as a success.
ReportCycleLenient ==
    /\ tool = "writeback" /\ pc = "working" /\ rows = 0
    /\ cb' = Observed(AfterSuccess(Observed(cb)))
    /\ pc' = "asleep" /\ outcome' = IF failed THEN "failed" ELSE "completed"
    /\ CountPoll(failed)
    /\ Witness(FALSE)
    /\ UNCHANGED <<rows, failed, up>>

\* The loop records the cycle: a failure if any row failed, else a success.
ReportCycle ==
    /\ tool = "writeback" /\ pc = "working" /\ rows = 0
    /\ cb' = IF failed THEN Observed(AfterFailure(cb))
                       ELSE Observed(AfterSuccess(Observed(cb)))
    /\ pc' = "asleep" /\ outcome' = IF failed THEN "failed" ELSE "completed"
    /\ CountPoll(failed)
    /\ Witness(FALSE)
    /\ UNCHANGED <<rows, failed, up>>

-----------------------------------------------------------------------------
(* Time, the operator and the remote system. *)

Tick ==
    /\ cb' = AfterTick(cb)
    /\ UNCHANGED <<pc, outcome, rows, failed, up, badPolls, answered>>

\* The reset-circuit-breaker command; the operator vouches for the remote system.
Reset ==
    /\ cb' = ClosedBreaker /\ answered' = TRUE /\ badPolls' = 0
    /\ UNCHANGED <<pc, outcome, rows, failed, up>>

Outage ==
    /\ up' = ~up
    /\ UNCHANGED <<cb, pc, outcome, rows, failed, badPolls, answered>>

Work == \/ StartPoll \/ SyncCompletes \/ SyncFails \/ ReportPoll
        \/ StartCycle \/ RowRejected \/ RowWritten \/ RowFails \/ ReportCycle

Step ==
    \/ Work
    \/ SyncAborts \/ SyncSkipped \/ SyncRaises \/ StartEmptyCycle \/ CycleRaises
    \/ Tick \/ Reset \/ Outage

Next == Step /\ UNCHANGED tool

\* The loop is scheduled for ever, a remote call always returns, time passes.
Spec ==
    /\ Init /\ [][Next]_vars
    /\ WF_vars(Work /\ UNCHANGED tool) /\ WF_vars(Tick /\ UNCHANGED tool)

-----------------------------------------------------------------------------
(* Properties. *)

TypeOK ==
    /\ tool \in Tools
    /\ cb \in Breakers
    /\ pc \in {"asleep", "working", "reporting"}
    /\ outcome \in {"none", "completed", "failed", "aborted", "skipped", "raised"}
    /\ rows \in 0 .. RowsPerCycle
    /\ failed \in BOOLEAN /\ up \in BOOLEAN /\ answered \in BOOLEAN
    /\ badPolls \in 0 .. FailureThreshold

\* However the two records of one poll interleave with resets and the clock, the
\* breaker is not closed once FailureThreshold polls in a row have failed.  (Of the
\* ingestion loop: a writeback cycle that counts as failed may hold a success.)
SustainedFailureOpens ==
    (tool = "ingestion" /\ badPolls = FailureThreshold /\ pc = "asleep") => cb.state # "closed"

\* Nobody resets the breaker or contends for the lock any more, and no poll ends in
\* a way that says nothing of the remote system.
Undisturbed ==
    <>[][~(Reset \/ SyncAborts \/ SyncSkipped \/ SyncRaises \/ StartEmptyCycle
               \/ CycleRaises)]_vars

\* A remote system that is down for good is shed again and again: the breaker cannot
\* settle in a state that lets requests through.
OutageIsShed == (<>[]~up /\ Undisturbed) => []<>(cb.state = "open")

\* A remote system that is up for good is used with success again and again: the
\* double bookkeeping of a poll never leaves the loop locked out.
RecoveryIsUsed == (<>[]up /\ Undisturbed) => []<>(outcome = "completed")

\* circuit_breaker.py:20: the threshold counts consecutive failures.  A breaker
\* that is not closed has seen that many failed polls in a row.
ThresholdCountsPolls ==
    (cb.state # "closed" /\ pc = "asleep") => badPolls = FailureThreshold

\* GOAL.md:242: an open breaker closes because a probe has succeeded, so the remote
\* system has answered since it opened.
ClosesOnAnswer ==
    [][ (cb.state # "closed" /\ cb'.state = "closed") => answered' ]_vars
=============================================================================
