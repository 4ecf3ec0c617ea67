------------------------------ MODULE Commands ------------------------------
(***************************************************************************)
(* The control table of one connector and the daemons that poll it.       *)
(* A poller fetches a batch of pending commands without claiming them,    *)
(* and takes each through acknowledge, execute and report, every step a   *)
(* transaction of its own.  Pauses live in the memory of the process that *)
(* executed them; only the polling loops of an ingestion daemon look at   *)
(* them.  A full sync is forced by deleting the watermark, which a sync   *)
(* reads when it starts and writes when it ends.                          *)
(*                                                                        *)
(* MaxCommands, and MaxFaults for errors and restarts, bound a behaviour. *)
(***************************************************************************)
EXTENDS Naturals, Sequences, FiniteSets, FiniteSetsExt, Ordered

CONSTANTS
  Ingesting, Writing,   \* the running ingestion and writeback daemons
  Datatypes,            \* datatypes of the connector
  Issues,               \* commands that are issued: [kind, key, tool]; tool "any" is NULL
  Batch,                \* LIMIT of a fetch: 20 in the code
  MaxCommands, MaxFaults

Kinds == {"pause", "resume", "full_sync", "requeue", "resync", "trigger", "drain", "reset"}

ASSUME CommandsAssumption ==
  /\ Ingesting \cap Writing = {} /\ Batch \in Nat \ {0}
  /\ \A c \in Issues : /\ c.kind \in Kinds /\ c.key \in Datatypes \cup {"*"}
                       /\ c.tool \in {"ingestion", "writeback", "any"}
  /\ {MaxCommands, MaxFaults} \subseteq Nat

VARIABLES
  deltaOnly,            \* datatypes whose source gives no snapshots, by the connector's file
  control,              \* inout_ops_control, oldest first
  effects,              \* how often each command took effect
  work,                 \* [Daemons -> what its poller is doing]
  paused,               \* [Daemons -> the keys paused in its memory]
  draining,             \* daemons told to drain, which poll no more
  syncing,              \* [Daemons -> [Datatypes -> the sync in progress]]
  marked,               \* datatypes with a stored watermark
  faults, restarts

Daemons == Ingesting \cup Writing
ToolOf(d) == IF d \in Ingesting THEN "ingestion" ELSE "writeback"

vars == <<deltaOnly, control, effects, work, paused, draining, syncing, marked, faults, restarts>>

Asleep == [step |-> "asleep", todo |-> <<>>, outcome |-> "none"]

Init ==
  /\ deltaOnly \in SUBSET Datatypes
  /\ control = <<>> /\ effects = <<>>
  /\ work = [d \in Daemons |-> Asleep]
  /\ paused = [d \in Daemons |-> {}] /\ draining = {}
  /\ syncing = [d \in Daemons |-> [t \in Datatypes |-> "idle"]]
  /\ marked \in SUBSET Datatypes
  /\ faults = 0 /\ restarts = 0

----------------------------------------------------------------------------
(* The table and its pollers. *)

(* Who inserts commands: the CLI says which tool is meant; the API and the *)
(* writeback engine, which asks for a resync of a conflicting row, do not. *)
FromCLI(kind, key, tool) == [kind |-> kind, key |-> key, tool |-> tool]
FromAPI(kind, key) == [kind |-> kind, key |-> key, tool |-> "any"]
FromWriteback(key) == [kind |-> "resync", key |-> key, tool |-> "any"]

Issue(c) ==
  /\ Len(control) < MaxCommands
  /\ control' = Append(control, [status |-> "pending", kind |-> c.kind, key |-> c.key, tool |-> c.tool])
  /\ effects' = Append(effects, 0)
  /\ UNCHANGED <<deltaOnly, work, paused, draining, syncing, marked, faults, restarts>>

\* Slip: a fetch also returns what another poller has acknowledged.
AddressedAgain(d, i) ==
  control[i].status \in {"pending", "acknowledged"} /\ control[i].tool \in {ToolOf(d), "any"}

Addressed(d, i) ==
  control[i].status = "pending" /\ control[i].tool \in {ToolOf(d), "any"}

Fetch(d) ==
  LET rows == Ascending({i \in DOMAIN control : Addressed(d, i)})
  IN  /\ work[d] = Asleep /\ d \notin draining /\ rows # <<>>
      /\ work' = [work EXCEPT ![d] =
           [step |-> "fetched", todo |-> SubSeq(rows, 1, Min({Batch, Len(rows)})), outcome |-> "none"]]
      /\ UNCHANGED <<deltaOnly, control, effects, paused, draining, syncing, marked, faults, restarts>>

Current(d) == Head(work[d].todo)
Marked(d, status) == control' = [control EXCEPT ![Current(d)].status = status]

Acknowledge(d) ==
  /\ work[d].step = "fetched"
  /\ Marked(d, "acknowledged")
  /\ work' = [work EXCEPT ![d].step = "acknowledged"]
  /\ UNCHANGED <<deltaOnly, effects, paused, draining, syncing, marked, faults, restarts>>

(* An error while acknowledging leaves dispatch_pending and the batch.     *)
AcknowledgeFails(d) ==
  /\ work[d].step = "fetched" /\ faults + restarts < MaxFaults
  /\ work' = [work EXCEPT ![d] = Asleep] /\ faults' = faults + 1
  /\ UNCHANGED <<deltaOnly, control, effects, paused, draining, syncing, marked, restarts>>

Covered(key) == IF key = "*" THEN Datatypes ELSE {key}

(* The protection of delta-only datatypes asks for a datatype by name, and *)
(* knows the connectors only in the ingestion daemon's dispatcher.         *)
Refused(d, c) == c.kind = "full_sync" /\ d \in Ingesting /\ c.key \in deltaOnly

(* What a command comes to, by who executes it.  Only the ingestion daemon *)
(* hands its dispatcher an engine.                                         *)
NeedsEngine(d, c) == c.kind = "requeue" /\ d \notin Ingesting

NeedsDatatype(c) == c.kind \in {"requeue", "resync", "trigger"} /\ c.key = "*"

(* A resync looks for connectors in an engine that holds none, and is      *)
(* skipped; without an engine it is an error.                              *)
ResyncSkipped(d, c) == c.kind = "resync" /\ d \in Ingesting

(* No daemon hands over an engine that has a writeback cycle to trigger.   *)
TriggerSkipped(c) == c.kind = "trigger"

(* A pause is kept wherever it arrives; who polls is an ingestion daemon.  *)
PauseUnread(d, c) == c.kind \in {"pause", "resume"} /\ d \notin Ingesting

Raises(d, c) ==
  \/ Refused(d, c) \/ NeedsEngine(d, c) \/ NeedsDatatype(c)
  \/ c.kind = "resync" /\ ~ResyncSkipped(d, c)

Outcome(d, c) ==
  IF Raises(d, c) THEN "error"
  ELSE IF ResyncSkipped(d, c) \/ TriggerSkipped(c) \/ PauseUnread(d, c) THEN "vain" ELSE "done"

KeysAfter(keys, c) ==
  IF c.kind = "pause" THEN keys \cup {c.key} ELSE IF c.kind = "resume" THEN keys \ {c.key} ELSE keys

Execute(d) ==
  LET i == Current(d)
      c == control[i]
      o == Outcome(d, c)
  IN  /\ work[d].step = "acknowledged"
      /\ work' = [work EXCEPT ![d] = [@ EXCEPT !.step = "executed", !.outcome = o]]
      /\ effects' = IF o = "done" THEN [effects EXCEPT ![i] = @ + 1] ELSE effects
      /\ paused' = [paused EXCEPT ![d] = KeysAfter(@, c)]
      /\ draining' = IF c.kind = "drain" THEN draining \cup {d} ELSE draining
      /\ marked' = IF c.kind = "full_sync" /\ o = "done" THEN marked \ Covered(c.key) ELSE marked
      /\ UNCHANGED <<deltaOnly, control, syncing, faults, restarts>>

\* Slip: _fail is not committed.
ReportForgets(d) ==
  /\ work[d].step = "executed"
  /\ IF work[d].outcome = "error" THEN UNCHANGED control ELSE Marked(d, "completed")
  /\ work' = [work EXCEPT ![d] =
       IF Len(@.todo) = 1 THEN Asleep ELSE [step |-> "fetched", todo |-> Tail(@.todo), outcome |-> "none"]]
  /\ UNCHANGED <<deltaOnly, effects, paused, draining, syncing, marked, faults, restarts>>

Report(d) ==            \* _complete or _fail, then the next command of the batch
  /\ work[d].step = "executed"
  /\ Marked(d, IF work[d].outcome = "error" THEN "failed" ELSE "completed")
  /\ work' = [work EXCEPT ![d] =
       IF Len(@.todo) = 1 THEN Asleep ELSE [step |-> "fetched", todo |-> Tail(@.todo), outcome |-> "none"]]
  /\ UNCHANGED <<deltaOnly, effects, paused, draining, syncing, marked, faults, restarts>>

(* An error in _complete is caught like one of the command: _fail; an      *)
(* error there leaves dispatch_pending with the command acknowledged.      *)
ReportFails(d) ==
  /\ work[d].step = "executed" /\ faults + restarts < MaxFaults
  /\ work' = [work EXCEPT ![d] = IF @.outcome = "error" THEN Asleep ELSE [@ EXCEPT !.outcome = "error"]]
  /\ faults' = faults + 1
  /\ UNCHANGED <<deltaOnly, control, effects, paused, draining, syncing, marked, restarts>>

----------------------------------------------------------------------------
(* The polling loops of an ingestion daemon. *)

IsPaused(d, t) == t \in paused[d] \/ "*" \in paused[d]

StartSync(d, t) ==      \* the watermark is read
  /\ d \in Ingesting \ draining /\ syncing[d][t] = "idle" /\ ~IsPaused(d, t)
  /\ syncing' = [syncing EXCEPT ![d][t] = IF t \in marked THEN "incremental" ELSE "full"]
  /\ UNCHANGED <<deltaOnly, control, effects, work, paused, draining, marked, faults, restarts>>

StoreWatermark(d, t) == \* with every page and at the end
  /\ syncing[d][t] # "idle"
  /\ marked' = marked \cup {t}
  /\ UNCHANGED <<deltaOnly, control, effects, work, paused, draining, syncing, faults, restarts>>

EndSync(d, t) ==
  /\ syncing[d][t] # "idle"
  /\ syncing' = [syncing EXCEPT ![d][t] = "idle"]
  /\ UNCHANGED <<deltaOnly, control, effects, work, paused, draining, marked, faults, restarts>>

Restart(d) ==           \* a crash, or the end of a drain; a supervisor starts it again
  /\ faults + restarts < MaxFaults
  /\ restarts' = restarts + 1
  /\ work' = [work EXCEPT ![d] = Asleep]
  /\ paused' = [paused EXCEPT ![d] = {}]
  /\ draining' = draining \ {d}
  /\ syncing' = [syncing EXCEPT ![d] = [t \in Datatypes |-> "idle"]]
  /\ UNCHANGED <<deltaOnly, control, effects, marked, faults>>

Poll(d) == Fetch(d) \/ Acknowledge(d) \/ Execute(d) \/ Report(d)

Next ==
  \/ \E c \in Issues : Issue(c)
  \/ \E d \in Daemons : Poll(d) \/ AcknowledgeFails(d) \/ ReportFails(d) \/ Restart(d)
  \/ \E d \in Daemons, t \in Datatypes : StartSync(d, t) \/ StoreWatermark(d, t) \/ EndSync(d, t)

Spec == Init /\ [][Next]_vars

(* A poller comes back every poll_interval and its statements end.         *)
Fairness == \A d \in Daemons : WF_vars(Poll(d))
FairSpec == Spec /\ Fairness

----------------------------------------------------------------------------
(* Properties. *)

Queue == INSTANCE CommandQueue WITH
           queue <- [i \in DOMAIN control |-> [status |-> control[i].status, effects |-> effects[i]]]

(* Where each tool runs one daemon and every command names the tool that   *)
(* can do it, the control table is a queue: a command takes effect at most *)
(* once, before it is reported, whatever fails or restarts between its     *)
(* three transactions, and is completed only if it took effect.            *)
QueueIsFollowed == Queue!Spec

(* As long as nothing restarts, no sync starts where the latest pause or   *)
(* resume that was carried out is a pause, however the commands were cut   *)
(* into batches, reported or not, and mixed with those that fail           *)
(* (api/routes.py:276, "Pause polling for the given connector/datatype").  *)
CarriedOut(key) == {i \in DOMAIN control : /\ effects[i] > 0 \/ control[i].status = "completed"
                                           /\ control[i].kind \in {"pause", "resume"} /\ control[i].key = key}
PauseHolds == [][\A d \in Ingesting, t \in Datatypes : \A key \in {t, "*"} :
  StartSync(d, t) /\ restarts = 0 /\ CarriedOut(key) # {} => control[Max(CarriedOut(key))].kind = "resume"]_vars

(* A command ends, behind however many others: a daemon it is addressed to *)
(* takes it up and reports on it, unless such a daemon was drained or      *)
(* failed between acknowledging and reporting.                             *)
Ended(i) == i \in DOMAIN control /\
  \/ control[i].status \in {"completed", "failed"}
  \/ control[i].status = "acknowledged" /\ faults + restarts > 0
  \/ \E d \in draining : control[i].tool \in {ToolOf(d), "any"}
CommandsEnd == \A i \in 1 .. MaxCommands :
  (i \in DOMAIN control /\ control[i].status = "pending") ~> Ended(i)

(* control.py:227, "Clear watermark(s) so the next poll does a full sync": *)
(* refuted by a sync that was running meanwhile and stores its watermark.  *)
NextSyncIsFull == [][\A d \in Ingesting, t \in Datatypes :
  syncing[d][t] = "incremental" /\ t \notin marked => t \notin marked']_vars
=============================================================================
