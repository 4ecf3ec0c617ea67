----------------------------- MODULE DeadLetters -----------------------------
(***************************************************************************)
(* What becomes of delta rows whose writes fail for good: the writeback    *)
(* cycle counts failures in the audit table, parks a row in the            *)
(* dead-letter table, and an operator replays it.  The MDM owns the rows   *)
(* and rewrites them meanwhile.  Of a cycle only the transactions matter   *)
(* here; Writeback has the writes themselves.                              *)
(*                                                                         *)
(* Layout says what delta_table names: a table of the MDM that takes any   *)
(* _action ("delta"), or inout_dst_*, whose CHECK and columns reject the   *)
(* mark ("desired").  MaxEdits bounds what the MDM and housekeeping do and *)
(* MaxReplays the operator.                                                *)
(***************************************************************************)
EXTENDS Naturals, Sequences, FiniteSets, Ordered

CONSTANTS Rows, Layout, MaxRetries, Batch, MaxEdits, MaxReplays

Wanted == {"update", "delete"}

VARIABLES
  table,        \* [Rows -> _action]
  tried,        \* <<row, action>> with an 'ok' of the last hour in the audit table
  failures,     \* [Rows -> 'failed' audit rows], saturating at MaxRetries
  letters,      \* the dead-letter table, oldest first
  cycle,        \* the cycle in progress
  replaying,    \* letters a replay has read and not reached
  broken,       \* rows whose write the target refuses
  wanted,       \* [Rows -> the action the MDM wrote last], history
  edits, replays

vars == <<table, tried, failures, letters, cycle, replaying, broken, wanted, edits, replays>>

Idle == [step |-> "idle", batch |-> {}, failed |-> {}]

Init ==
  /\ wanted \in [Rows -> Wanted] /\ table = wanted
  /\ tried = {} /\ letters = <<>> /\ cycle = Idle /\ replaying = <<>>
  /\ failures = [r \in Rows |-> 0]
  /\ broken \in SUBSET Rows
  /\ edits = 0 /\ replays = 0

Saturated(n) == IF n < MaxRetries THEN n + 1 ELSE n

----------------------------------------------------------------------------
(* The cycle. *)

(* Rows are fetched in no particular order and with any _action but noop;  *)
(* what has an 'ok' of the last hour is left out afterwards.               *)
Fetch ==
  LET some == {r \in Rows : table[r] # "noop"}
  IN  /\ cycle = Idle
      /\ \E S \in SUBSET some :
           /\ Cardinality(S) = IF Cardinality(some) < Batch THEN Cardinality(some) ELSE Batch
           /\ LET batch == {<<r, table[r]>> : r \in S} \ tried
              IN  batch # {} /\ cycle' = [Idle EXCEPT !.step = "fetched", !.batch = batch]
      /\ UNCHANGED <<table, tried, failures, letters, replaying, broken, wanted, edits, replays>>

(* The rows are sent and the audit rows written: 'failed' for those that   *)
(* failed, and 'ok' for every row of the batch.  'dead_lettered' is an     *)
(* unsupported action, skipped.                                            *)
Dispatch ==
  LET sent   == {e \in cycle.batch : e[2] \in Wanted}
      failed == {e \in sent : e[1] \in broken}
      Lost(r) == \E e \in failed : e[1] = r
  IN  /\ cycle.step = "fetched"
      /\ tried' = tried \cup cycle.batch
      /\ failures' = [r \in Rows |-> IF Lost(r) THEN Saturated(failures[r]) ELSE failures[r]]
      /\ cycle' = [step |-> "dispatched", batch |-> {}, failed |-> failed]
      /\ UNCHANGED <<table, letters, replaying, broken, wanted, edits, replays>>

\* Slip: a letter that is already there for the row is taken for this one.
LetterOnce(r, action) ==
  IF \E i \in DOMAIN letters : letters[i].row = r THEN letters
  ELSE Append(letters, [row |-> r, action |-> action, requeued |-> FALSE, gone |-> FALSE])

Letter(r, action) == Append(letters, [row |-> r, action |-> action, requeued |-> FALSE, gone |-> FALSE])

(* The letter and the mark are one transaction.  Where the mark is an      *)
(* error, which is swallowed, the commit rolls the letter back.            *)
\* Slip: neither is committed.
MoveUncommitted(r, action) == UNCHANGED <<letters, table>>

MoveToDeadLetter(r, action) ==
  IF Layout = "delta"
    THEN /\ letters' = Letter(r, action)
         /\ table' = [table EXCEPT ![r] = IF @ = "noop" THEN @ ELSE "dead_lettered"]
    ELSE UNCHANGED <<letters, table>>

AutoDeadLetter ==
  /\ cycle.step = "dispatched" /\ cycle.failed # {}
  /\ \E e \in cycle.failed :
       /\ cycle' = [cycle EXCEPT !.failed = @ \ {e}]
       /\ IF failures[e[1]] >= MaxRetries THEN MoveToDeadLetter(e[1], e[2]) ELSE UNCHANGED <<letters, table>>
  /\ UNCHANGED <<tried, failures, replaying, broken, wanted, edits, replays>>

EndCycle ==
  /\ cycle.step = "dispatched" /\ cycle.failed = {}
  /\ cycle' = Idle
  /\ UNCHANGED <<table, tried, failures, letters, replaying, broken, wanted, edits, replays>>

----------------------------------------------------------------------------
(* The operator's replay: the letters are read first, and each is restored *)
(* in a transaction of its own that does not look at it again.             *)

Eligible == {i \in DOMAIN letters : ~letters[i].requeued /\ ~letters[i].gone}

Replay ==
  /\ replays < MaxReplays /\ replaying = <<>> /\ Eligible # {}
  /\ replaying' = Ascending(Eligible) /\ replays' = replays + 1
  /\ UNCHANGED <<table, tried, failures, letters, cycle, broken, wanted, edits>>

ReplayOne ==
  /\ replaying # <<>>
  /\ LET i == Head(replaying)
         r == letters[i].row
     IN  /\ letters' = [letters EXCEPT ![i].requeued = TRUE]
         /\ table' = IF table[r] = "dead_lettered" THEN [table EXCEPT ![r] = letters[i].action] ELSE table
  /\ replaying' = Tail(replaying)
  /\ UNCHANGED <<tried, failures, cycle, broken, wanted, edits, replays>>

----------------------------------------------------------------------------
(* Others. *)

MdmWrites(r, action) ==
  /\ edits < MaxEdits /\ edits' = edits + 1
  /\ table' = [table EXCEPT ![r] = action] /\ wanted' = [wanted EXCEPT ![r] = action]
  /\ UNCHANGED <<tried, failures, letters, cycle, replaying, broken, replays>>

TargetChanges(r) ==
  /\ broken' = IF r \in broken THEN broken \ {r} ELSE broken \cup {r}
  /\ UNCHANGED <<table, tried, failures, letters, cycle, replaying, wanted, edits, replays>>

AnHourPasses ==
  /\ tried # {} /\ cycle = Idle
  /\ tried' = {}
  /\ UNCHANGED <<table, failures, letters, cycle, replaying, broken, wanted, edits, replays>>

PurgeAudit ==           \* housekeeping, after 30 days
  /\ edits < MaxEdits /\ edits' = edits + 1
  /\ failures' = [r \in Rows |-> 0]
  /\ UNCHANGED <<table, tried, letters, cycle, replaying, broken, wanted, replays>>

PurgeLetters ==         \* housekeeping, after 30 days
  /\ edits < MaxEdits /\ edits' = edits + 1
  /\ letters' = [i \in DOMAIN letters |-> [letters[i] EXCEPT !.gone = TRUE]]
  /\ UNCHANGED <<table, tried, failures, cycle, replaying, broken, wanted, replays>>

Cycle == Fetch \/ Dispatch \/ AutoDeadLetter \/ EndCycle

Next ==
  \/ Cycle \/ Replay \/ ReplayOne \/ AnHourPasses \/ PurgeAudit \/ PurgeLetters
  \/ \E r \in Rows : TargetChanges(r) \/ \E action \in Wanted \cup {"noop"} : MdmWrites(r, action)

Spec == Init /\ [][Next]_vars
FairSpec == Spec /\ WF_vars(Cycle) /\ WF_vars(AnHourPasses)

----------------------------------------------------------------------------
(* Properties. *)

(* A parked row can be taken up again: there is a letter for it that has   *)
(* not been replayed, whatever the MDM, cycles and replays do in between,  *)
(* until housekeeping purges it; then nothing lifts the mark any more.     *)
ParkedHasLetter == \A r \in Rows :
  table[r] = "dead_lettered" => \E i \in DOMAIN letters : letters[i].row = r /\ ~letters[i].requeued

(* A row that fails for good ends up parked (writeback.py:3, "Permanently  *)
(* failed writeback rows ... are moved from the delta table"): refuted     *)
(* where rows are in inout_dst_*, which goes on failing for ever.          *)
FailuresAreParked == \A r \in Rows :
  <>[](r \in broken /\ table[r] # "noop") => <>[](table[r] = "dead_lettered")

(* A replay restores what the MDM wants: refuted by an older letter, and   *)
(* by a row rewritten between its fetch and its parking.                   *)
ActionIsWanted == \A r \in Rows : table[r] \in {wanted[r], "dead_lettered"}
=============================================================================
