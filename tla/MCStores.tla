------------------------------- MODULE MCStores -------------------------------
(* What the engine and the simulator keep.  Where a sync's listing starts and  *)
(* ends when it resumes from a checkpoint, is held to a window or takes a bulk *)
(* export; the two daemons' housekeeping; and the simulator, with one engine   *)
(* and one user of its panel against each kind of store.  They share no state, *)
(* and a behaviour runs one of them.                                           *)
EXTENDS Simulator

CONSTANTS
  Parts,
  Ids, Start, Horizon, Window, CheckpointEvery, Textual, Bulk, MaxPolls, MaxMishaps,
  Jobs, Pairs, Absent, Filled, People, Keep, Pinning, MaxRows

VARIABLES part,
  src, now, stored, watermark, checkpoint, orphan, job, pc, run, mishaps,
  kept, lastRun, tx, clock, upsets

rangeVars == <<src, now, stored, watermark, checkpoint, orphan, job, pc, run, mishaps>>
upkeepVars == <<kept, lastRun, tx, clock, upsets>>
all == <<part, rangeVars, upkeepVars, vars>>

\* Ranges resumes from checkpoints; the others take the other paths.
Ranges == INSTANCE SyncRange
Windowed == INSTANCE SyncRange WITH
              Window <- 2, CheckpointEvery <- 0, Textual <- FALSE, MaxMishaps <- 0
Exporting == INSTANCE SyncRange WITH Horizon <- 10, CheckpointEvery <- 1, Bulk <- TRUE
Upkeep == INSTANCE Housekeeping WITH
            rows <- kept, watermark <- lastRun, now <- clock, mishaps <- upsets, MaxMishaps <- 1, Horizon <- 1

ASSUME /\ SimulatorAssumption
       /\ Ranges!SyncRangeAssumption /\ Windowed!SyncRangeAssumption /\ Exporting!SyncRangeAssumption

\* Ingestion sorts its connectors by dependency, writeback does not.
Loops == [ingestion |-> "retention", writeback |-> "retention"]
Orders == [ingestion |-> <<"p", "q">>, writeback |-> <<"q", "p">>]
Tables == {<<"sync_run", "">>, <<"history", "p">>, <<"history", "q">>}
\* For the counterexamples: both ways to delete a person.
Purges == [operator |-> "gdpr", caller |-> "erase"]
OnePair == [operator |-> <<"p">>, caller |-> <<"p">>]
Personal == {<<"dst", "p">>, <<"history", "p">>}
HalfADay == [kind \in {"sync_run", "history"} |-> 1]

MCInit ==
  /\ part \in Parts
  /\ Ranges!Init /\ Upkeep!Init /\ Init
  /\ part # "simulator" => backend = "memory"

Ranging(p) == part = p /\ UNCHANGED <<part, upkeepVars, vars>>
Tidying == part = "upkeep" /\ UNCHANGED <<part, rangeVars, vars>>
Simulating == part = "simulator" /\ UNCHANGED <<part, rangeVars, upkeepVars>>

MCNext ==
  \/ Ranging("resuming") /\ Ranges!Next
  \/ Ranging("windowed") /\ Windowed!Next
  \/ Ranging("exporting") /\ Exporting!Next
  \/ Tidying /\ Upkeep!Next
  \/ Simulating /\ Next

\* One condition of each part at a time: only those of the part that runs matter.
MCSpec ==
  /\ MCInit /\ [][MCNext]_all
  /\ WF_all(\/ Ranging("resuming") /\ Ranges!Sync
            \/ Ranging("exporting") /\ Exporting!Sync
            \/ Tidying /\ \E j \in DOMAIN Jobs : Upkeep!Works(j))
  /\ WF_all(Ranging("exporting") /\ Exporting!ExportRuns)

(* SyncRange: once the source is quiet, everything in it is stored.           *)
ListingsCatchUp == <>[](part \in {"resuming", "exporting"} => Ranges!CaughtUp)

(* Housekeeping: what has outlived its retention goes.                        *)
ExpiredGo == []<>(part = "upkeep" => Upkeep!Tidy)

(* SyncRange: what a listing starts after is stored.                          *)
PassedIsStored == Ranges!PassedIsStored
===============================================================================
