-------------------------------- MODULE MCDaemon --------------------------------
(* What a daemon runs beside its syncs: the gate around its loops, the        *)
(* webhook receiver and its subscriptions, the connector files and the health *)
(* table.  They share no state; a behaviour runs one of them.                 *)
EXTENDS ComponentGate, Sequences

CONSTANTS
  Parts,
  Handlers, Ports, Routes, Strategies, Dedup, DeletionSets, FirstSequence, BufferSize,
  MaxEvents, MaxFaults,
  Files, Names, Datatypes, Distinct, Installed, MaxEdits, MaxRestarts

VARIABLES part,
  port, strategy, routeOf, deletions, made, acked, seen, lastSeq, buffer, row, handler, faults,
  subs, nextId, stored, step, ids, at, kept, got, mishaps,
  library, file, edits, phase, changed, missed, flag, configs, loops, routes, restarts,
  up, cb, status, since, outage, skips, poll, result, alerts, failures

gateVars == vars
hookVars == <<port, strategy, routeOf, deletions, made, acked, seen, lastSeq, buffer, row, handler, faults>>
subVars == <<subs, nextId, stored, step, ids, at, kept, got, mishaps>>
fileVars == <<library, file, edits, phase, changed, missed, flag, configs, loops, routes, restarts>>
healthVars == <<up, cb, status, since, outage, skips, poll, result, alerts, failures>>
all == <<part, gateVars, hookVars, subVars, fileVars, healthVars>>

Hooks == INSTANCE Webhooks
Subs == INSTANCE WebhookSubscriptions WITH Routes <- 2, IdsRestart <- FALSE, MaxMishaps <- 3
Reload == INSTANCE HotReload
Health == INSTANCE ConnectorHealth WITH
            FailureThreshold <- 3, RecoveryTimeout <- 1, BackoffMultiplier <- 2,
            MaxRecoveryTimeout <- 2, Cooldown <- 2, Ceiling <- 4, MaxFaults <- 2,
            pc <- poll, faults <- failures

ASSUME /\ Hooks!WebhookAssumption /\ Subs!SubscriptionAssumption /\ Reload!HotReloadAssumption
       /\ Health!HealthAssumption

MCInit ==
  /\ part \in Parts
  /\ Init /\ Hooks!Init /\ Subs!Init
  /\ part # "gate" => size = 3
  /\ part # "webhooks" => strategy = "latest" /\ deletions = {}
  /\ Health!Init /\ (part # "health" => up)
  /\ Reload!Init /\ (part # "files" => library /\ \A f \in Files : file[f] = Reload!Gone)

Gating == part = "gate" /\ UNCHANGED <<part, hookVars, subVars, fileVars, healthVars>>
Receiving == part = "webhooks" /\ UNCHANGED <<part, gateVars, subVars, fileVars, healthVars>>
Subscribing == part = "subscriptions" /\ UNCHANGED <<part, gateVars, hookVars, fileVars, healthVars>>
Reloading == part = "files" /\ UNCHANGED <<part, gateVars, hookVars, subVars, healthVars>>
Watching == part = "health" /\ UNCHANGED <<part, gateVars, hookVars, subVars, fileVars>>

MCNext ==
  \/ Gating /\ Next
  \/ Receiving /\ Hooks!Next
  \/ Subscribing /\ Subs!Next
  \/ Reloading /\ Reload!Next
  \/ Watching /\ Health!Next

\* One condition of each part at a time: only those of the part that runs matter.
MCSpec ==
  /\ MCInit /\ [][MCNext]_all
  /\ WF_all(\/ Gating /\ Manager
            \/ Receiving /\ \E h \in Handlers : Hooks!Handle(h)
            \/ Subscribing /\ Subs!Works
            \/ Reloading /\ Reload!Works
            \/ Watching /\ Health!Poll)
  /\ \A l \in Loops : /\ WF_all(Gating /\ Timeout(l))
                     /\ SF_all(\/ Gating /\ Cycle(l)
                               \/ Receiving /\ l[2] \notin acked /\ \E h \in Handlers : Hooks!Post(h, l[2])
                               \/ Watching /\ Health!Tick)
  /\ \A r \in Replicas : WF_all(Gating /\ EndDrain(r))

(* Webhooks: nothing acknowledged is swallowed.                               *)
AckedIsCovered == Hooks!AckedIsCovered

(* Webhooks: ordered strategies never go back.                                *)
NeverBackwards == Hooks!NeverBackwards

(* Webhooks: without a failure the row gets to the newest state.              *)
Converges == part = "webhooks" => Hooks!Converges

(* WebhookSubscriptions: what is lost is registered again.                    *)
LostAreReplaced == part = "subscriptions" => Subs!LostAreReplaced

(* HotReload: no datatype is polled twice.                                    *)
OneLoopPerDatatype == Reload!OneLoopPerDatatype

(* HotReload: what the daemon is told of, it knows in the end.                *)
NoticedIsKnown == part = "files" => Reload!NoticedIsKnown

(* ConnectorHealth: the table follows the source.                             *)
HealthFollows == part = "health" => Health!HealthFollows
=============================================================================
