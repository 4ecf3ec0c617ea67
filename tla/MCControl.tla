------------------------------ MODULE MCControl ------------------------------
(* The control table and the two dead-letter tables: three systems that     *)
(* share no state here, of which a behaviour runs one.                       *)
EXTENDS Commands

CONSTANTS
  Parts,
  Rows, Layout, MaxRetries, CycleRows, MaxEdits, MaxReplays

VARIABLES part,
  table, tried, failures, letters, cycle, replaying, broken, wanted, edits, replays,
  source, rejected, row, watermark, inbox, batch, by, rounds

commandVars == vars
parkedVars == <<table, tried, failures, letters, cycle, replaying, broken, wanted, edits, replays>>
requeueVars == <<source, rejected, row, watermark, inbox, batch, by, rounds>>
all == <<part, commandVars, parkedVars, requeueVars>>

Parked == INSTANCE DeadLetters WITH Batch <- CycleRows
Again == INSTANCE Requeue WITH
            letters <- inbox, Incremental <- FALSE, MaxVersion <- 3, MaxLetters <- 3, MaxRounds <- 2

\* Every command names the tool that can do it.
Targeted == {FromCLI("pause", "d", "ingestion"),
             FromCLI("resume", "d", "ingestion"), FromCLI("full_sync", "d", "ingestion"),
             FromCLI("drain", "*", "writeback")}

\* What has no target_tool.
Untargeted == {FromAPI(kind, "d") : kind \in {"pause", "resume", "full_sync", "requeue"}} \cup {FromWriteback("d")}

MCInit ==
  /\ part \in Parts
  /\ Init /\ Parked!Init /\ Again!Init
  /\ part # "commands" => deltaOnly = {} /\ marked = {}
  /\ part # "parked" => broken = {} /\ wanted = [r \in Rows |-> "update"]
  /\ part # "requeue" => rejected = {}

Commanding == part = "commands" /\ UNCHANGED <<part, parkedVars, requeueVars>>
Parking == part = "parked" /\ UNCHANGED <<part, commandVars, requeueVars>>
Requeueing == part = "requeue" /\ UNCHANGED <<part, commandVars, parkedVars>>

MCNext ==
  \/ Commanding /\ Next
  \/ Parking /\ Parked!Next
  \/ Requeueing /\ Again!Next

MCSpec ==
  /\ MCInit /\ [][MCNext]_all
  /\ \A d \in Daemons : WF_all(Commanding /\ Poll(d))
  /\ WF_all(Parking /\ Parked!Cycle) /\ WF_all(Parking /\ Parked!AnHourPasses)
  /\ WF_all(Requeueing /\ Again!Sync)

(* DeadLetters: a row that is parked can be replayed.                        *)
ParkedHasLetter == Parked!ParkedHasLetter

(* DeadLetters: a row whose write fails for good is parked in the end.       *)
FailuresAreParked == Parked!FailuresAreParked

(* Requeue: under full syncs a requeue does no lasting harm.                 *)
RequeueHeals == part = "requeue" => Again!RequeueHeals
=============================================================================
