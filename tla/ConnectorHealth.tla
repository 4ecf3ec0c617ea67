---------------------------- MODULE ConnectorHealth ----------------------------
(***************************************************************************)
(* What inout_ops_connector_health says of one connector and datatype:     *)
(* written by run_sync in ingestion/engine.py and, after it, by the        *)
(* polling loop in ingestion/daemon.py, read by the cooldown at the start  *)
(* of run_sync and by /ready.  Both writers go by the same breaker.        *)
(*                                                                         *)
(* Times are ages in ticks and stop counting at MaxAge.  A skip count      *)
(* beyond MaxSkips does not make the cooldown longer.                      *)
(***************************************************************************)
EXTENDS Breaker

CONSTANTS
  Cooldown,    \* unavailability_cooldown_secs, in ticks
  Ceiling,     \* unavailability_backoff_ceiling_secs; it doubles up to there
  MaxFaults    \* failing statements and restarts (bound)

HealthAssumption == Cooldown \in Nat \ {0} /\ Ceiling \in Nat /\ Ceiling >= Cooldown /\ MaxFaults \in Nat

Never == -1

VARIABLES
  up,          \* the source answers
  cb,          \* the breaker
  status,      \* "none" (no row), "healthy", "unhealthy" or "unavailable"
  since,       \* age of marked_unhealthy_at, or Never
  outage,      \* age of the mark that began this outage, or Never (history)
  skips,       \* _unavailability_skip_counts
  pc,          \* "asleep", "checking", "syncing" or "reporting"
  result,      \* of the sync
  alerts,      \* alerts sent, of the last outage
  faults

row == <<status, since>>
vars == <<up, cb, status, since, outage, skips, pc, result, alerts, faults>>

Init ==
  /\ up \in BOOLEAN /\ cb = ClosedBreaker
  /\ status = "none" /\ since = Never /\ outage = Never
  /\ skips = 0 /\ pc = "asleep" /\ result = "none" /\ alerts = {} /\ faults = 0

CooldownOf(n) == Least(Cooldown * 2 ^ n, Ceiling)
MaxSkips == CHOOSE n \in 0 .. Ceiling : CooldownOf(n) = Ceiling

Fault == faults < MaxFaults /\ faults' = faults + 1

(* COALESCE(marked_unhealthy_at, NOW()).                                   *)
Mark(s) ==
  /\ status' = s
  /\ since' = IF since = Never THEN 0 ELSE since
  /\ outage' = IF outage = Never THEN 0 ELSE outage
MarkFails == Fault /\ UNCHANGED <<row, outage>>

----------------------------------------------------------------------------
(* A poll. *)

StartPoll ==
  /\ pc = "asleep" /\ cb' = Observed(cb)
  /\ pc' = IF Allows(cb') THEN "checking" ELSE "asleep"
  /\ result' = "none"
  /\ UNCHANGED <<up, row, outage, skips, alerts, faults>>

Cooling == status = "unhealthy" /\ since # Never /\ since < CooldownOf(skips)

SkipSync ==
  /\ pc = "checking" /\ Cooling
  /\ skips' = Least(skips + 1, MaxSkips)
  /\ pc' = "reporting" /\ result' = "skipped"
  /\ UNCHANGED <<up, cb, row, outage, alerts, faults>>

StartSync ==
  /\ pc = "checking" /\ ~Cooling /\ pc' = "syncing"
  /\ UNCHANGED <<up, cb, row, outage, skips, result, alerts, faults>>

\* Slip: the row is left to the loop.
SyncCompletesUnmarked ==
  /\ pc = "syncing" /\ up
  /\ cb' = AfterSuccess(cb) /\ skips' = 0
  /\ pc' = "reporting" /\ result' = "completed"
  /\ UNCHANGED <<up, row, outage, alerts, faults>>

(* The row, if there is one, becomes healthy, and keeps marked_unhealthy_at. *)
(* A statement that fails takes the rest with it.                          *)
SyncCompletes ==
  /\ pc = "syncing" /\ up
  /\ \/ /\ status' = IF status = "none" THEN "none" ELSE "healthy"
        /\ cb' = AfterSuccess(cb) /\ skips' = 0 /\ outage' = Never
        /\ UNCHANGED faults
     \/ Fault /\ UNCHANGED <<status, cb, skips, outage>>
  /\ pc' = "reporting" /\ result' = "completed"
  /\ UNCHANGED <<up, since, alerts>>

SyncFails ==
  /\ pc = "syncing" /\ ~up
  /\ cb' = Observed(AfterFailure(cb))
  /\ IF cb'.state = "open" THEN (Mark("unhealthy") /\ UNCHANGED faults) \/ MarkFails
                           ELSE UNCHANGED <<row, outage, faults>>
  /\ pc' = "reporting" /\ result' = "failed"
  /\ UNCHANGED <<up, skips, alerts>>

(* A skip counts as a success.  _mark_connector_healthy, which is called   *)
(* then, asks psycopg's connection for a method it does not have, and      *)
(* swallows what comes of it: no statement and no alert.                   *)
ReportGood ==
  /\ pc = "reporting" /\ result \in {"completed", "skipped"} /\ pc' = "asleep"
  /\ cb' = Observed(AfterSuccess(cb))
  /\ UNCHANGED <<up, row, outage, skips, result, alerts, faults>>

ReportFailed ==
  /\ pc = "reporting" /\ result = "failed" /\ pc' = "asleep"
  /\ cb' = Observed(AfterFailure(cb))
  /\ IF cb'.state = "open"
     THEN /\ (Mark("unavailable") /\ UNCHANGED faults) \/ MarkFails
          /\ alerts' = {"connector_unavailable"}
     ELSE UNCHANGED <<row, outage, alerts, faults>>
  /\ UNCHANGED <<up, skips, result>>

----------------------------------------------------------------------------

Restart ==
  /\ Fault /\ pc' = "asleep" /\ cb' = ClosedBreaker /\ skips' = 0 /\ result' = "none"
  /\ UNCHANGED <<up, row, outage, alerts>>

Aged(a) == IF a = Never THEN a ELSE Least(a + 1, Ceiling)

(* From the end of a sync to its report takes less than a pause.           *)
Tick ==
  /\ pc # "reporting"
  /\ cb' = AfterTick(cb) /\ since' = Aged(since) /\ outage' = Aged(outage)
  /\ UNCHANGED <<up, status, skips, pc, result, alerts, faults>>

Outage == up /\ up' = FALSE /\ UNCHANGED <<cb, row, outage, skips, pc, result, alerts, faults>>
Recovery == ~up /\ up' = TRUE /\ UNCHANGED <<cb, row, outage, skips, pc, result, alerts, faults>>

Poll == StartPoll \/ SkipSync \/ StartSync \/ SyncCompletes \/ SyncFails \/ ReportGood \/ ReportFailed

Next == Poll \/ Restart \/ Tick \/ Outage \/ Recovery

Spec == Init /\ [][Next]_vars
FairSpec == Spec /\ WF_vars(Poll) /\ SF_vars(Tick)

----------------------------------------------------------------------------
(* Properties. *)

(* An outage that lasts is shown as long as it lasts, and to /ready, which *)
(* looks for 'unavailable', again and again; a source that stays up is     *)
(* shown healthy again, whichever statements fail and however often the    *)
(* daemon restarts (GOAL.md:249).                                          *)
HealthFollows ==
  /\ <>[]~up => <>[](status \in {"unhealthy", "unavailable"}) /\ []<>(status = "unavailable")
  /\ <>[]up => <>[](status \in {"none", "healthy"})

(* A source that was marked is left alone for the cooldown                 *)
(* (engine.py:144).  Refuted: the loop writes a status the cooldown does   *)
(* not know, and the next outage is dated from the first.                  *)
CooldownIsServed ==
  [][pc = "checking" /\ pc' = "syncing" /\ outage # Never => outage >= Cooldown]_vars

(* A recovery is announced (daemon.py:436).  Refuted: it never is.         *)
RecoveryIsAnnounced == <>[]up /\ alerts # {} ~> "connector_recovered" \in alerts

(* The breaker is closed by the source only (GOAL.md:242).  Refuted by a   *)
(* cooldown's skip.                                                        *)
ClosedBySuccess ==
  [][cb.state = "half_open" /\ cb'.state = "closed" => result' = "completed" \/ faults' > faults]_vars
=============================================================================
