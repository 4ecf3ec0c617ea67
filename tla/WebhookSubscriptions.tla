-------------------------- MODULE WebhookSubscriptions --------------------------
(***************************************************************************)
(* The subscriptions an ingestion daemon keeps at a remote system that     *)
(* wants one registration per event route: the lifecycle loop of           *)
(* ingestion/webhook_lifecycle.py against the registration endpoints that  *)
(* the simulator has for it.  Each request and each statement is a step;   *)
(* between them the remote system may lose subscriptions and the daemon    *)
(* may be restarted.  MaxMishaps bounds what is lost, failed or restarted. *)
(*                                                                         *)
(* Renewals are left out: the endpoint answers 200 to any id, and what a   *)
(* renewal writes is not read by anybody.                                  *)
(***************************************************************************)
EXTENDS Naturals, Sequences, Functions, TLC

CONSTANTS
  Routes,        \* fan-out routes, in their order: 1 .. Routes
  IdsRestart,    \* ids are counted in memory and begin at 1 again, as the simulator's
  MaxMishaps

SubscriptionAssumption == Routes \in Nat \ {0} /\ IdsRestart \in BOOLEAN /\ MaxMishaps \in Nat

VARIABLES
  subs,          \* the remote system's subscriptions: id -> route
  nextId,
  stored,        \* ids in inout_ops_webhook_subscriptions
  step,          \* "off", "posting", "storing", "checking", "waiting" or "over"
  ids,           \* webhook_ids
  at,            \* position in ids of the one being checked, 0 at the start
  kept,          \* new_ids
  got,           \* ids of the registration under way, one per route done
  mishaps

remote == <<subs, nextId>>
vars == <<subs, nextId, stored, step, ids, at, kept, got, mishaps>>

Init ==
  /\ subs = <<>> /\ nextId = 1 /\ stored = {}
  /\ step = "off" /\ ids = <<>> /\ at = 0 /\ kept = <<>> /\ got = <<>>
  /\ mishaps = 0

Mishap == mishaps < MaxMishaps /\ mishaps' = mishaps + 1

----------------------------------------------------------------------------
(* The remote system. *)

Granted == subs' = (nextId :> Len(got) + 1) @@ subs /\ nextId' = nextId + 1

(* Deleted by an operator, one or all.                                     *)
Drop(lost) ==
  /\ lost # {} /\ Mishap
  /\ subs' = Restrict(subs, DOMAIN subs \ lost)
  /\ UNCHANGED <<nextId, stored, step, ids, at, kept, got>>

RemoteRestarts ==
  /\ IdsRestart /\ Mishap
  /\ subs' = <<>> /\ nextId' = 1
  /\ UNCHANGED <<stored, step, ids, at, kept, got>>

----------------------------------------------------------------------------
(* register: a POST for every route, each stored before the next is made.  *)

Begin ==
  /\ step = "off" /\ step' = "posting" /\ got' = <<>>
  /\ UNCHANGED <<remote, stored, ids, at, kept, mishaps>>

(* The check of ids[at] is over and new says what takes its place.         *)
Replaced(new) ==
  /\ got' = <<>>
  /\ IF at = Len(ids)
     THEN step' = "waiting" /\ ids' = kept \o new /\ at' = 0 /\ kept' = <<>>
     ELSE step' = "checking" /\ at' = at + 1 /\ kept' = kept \o new /\ UNCHANGED ids

Registered(all) ==
  IF at = 0 THEN step' = "waiting" /\ ids' = all /\ got' = <<>> /\ UNCHANGED <<at, kept>>
            ELSE Replaced(all)

\* Slip: the id that could not be replaced is given up.
RaisedForgets ==
  IF at = 0 THEN step' = "over" /\ UNCHANGED <<ids, at, kept, got>>
            ELSE Replaced(<<>>)

(* register raises: at the start the loop is over for good, later the old  *)
(* id is kept, and what was registered for the first routes is forgotten.  *)
Raised ==
  IF at = 0 THEN step' = "over" /\ UNCHANGED <<ids, at, kept, got>>
            ELSE Replaced(<<ids[at]>>)

PostRegistration ==
  /\ step = "posting" /\ Granted
  /\ step' = "storing" /\ got' = Append(got, nextId)
  /\ UNCHANGED <<stored, ids, at, kept, mishaps>>

PostFails == step = "posting" /\ Mishap /\ Raised /\ UNCHANGED <<remote, stored>>

(* The subscription is made and its answer lost.                           *)
PostLost == step = "posting" /\ Mishap /\ Granted /\ Raised /\ UNCHANGED stored

UpsertSubscription ==
  /\ step = "storing"
  /\ stored' = stored \cup {got[Len(got)]}
  /\ IF Len(got) = Routes THEN Registered(got)
     ELSE step' = "posting" /\ UNCHANGED <<ids, at, kept, got>>
  /\ UNCHANGED <<remote, mishaps>>

UpsertFails == step = "storing" /\ Mishap /\ Raised /\ UNCHANGED <<remote, stored>>

----------------------------------------------------------------------------
(* The health check, of one id after the other. *)

BeginRound ==
  /\ step = "waiting"
  /\ IF ids = <<>> THEN UNCHANGED <<step, at, kept>>
                   ELSE step' = "checking" /\ at' = 1 /\ kept' = <<>>
  /\ UNCHANGED <<remote, stored, ids, got, mishaps>>

FindActive ==
  /\ step = "checking" /\ ids[at] \in DOMAIN subs
  /\ Replaced(<<ids[at]>>) /\ UNCHANGED <<remote, stored, mishaps>>

(* Every route is registered anew, whichever the missing one was for.      *)
RegisterAgain == step' = "posting" /\ UNCHANGED <<remote, stored, ids, at, kept, got>>

FindInactive ==
  /\ step = "checking" /\ ids[at] \notin DOMAIN subs
  /\ RegisterAgain /\ UNCHANGED mishaps

(* The request or the note of its time fails: as good as inactive.         *)
CheckFails == step = "checking" /\ ids[at] \in DOMAIN subs /\ Mishap /\ RegisterAgain

----------------------------------------------------------------------------

(* The daemon starts again with nothing but the table, which it does not   *)
(* read.                                                                   *)
Restart ==
  /\ step # "off" /\ (Mishap \/ (step = "over" /\ UNCHANGED mishaps))
  /\ step' = "off" /\ ids' = <<>> /\ at' = 0 /\ kept' = <<>> /\ got' = <<>>
  /\ UNCHANGED <<remote, stored>>

Works ==
  \/ Begin \/ PostRegistration \/ UpsertSubscription
  \/ BeginRound \/ FindActive \/ FindInactive

Next ==
  \/ Works \/ PostFails \/ PostLost \/ UpsertFails \/ CheckFails \/ Restart \/ RemoteRestarts
  \/ Drop(DOMAIN subs) \/ \E id \in DOMAIN subs : Drop({id})

Spec == Init /\ [][Next]_vars
FairSpec == Spec /\ WF_vars(Works)

----------------------------------------------------------------------------
(* Properties. *)

Served == \A r \in 1 .. Routes : \E id \in DOMAIN subs : subs[id] = r

(* Whatever was dropped, lost or restarted, in the end every route has a   *)
(* live subscription again, unless the first registration failed           *)
(* (webhook_lifecycle.py:367, "re-register any that are no longer          *)
(* active").  With ids that are used again it is refuted: the one that is  *)
(* checked may have become another route's.                                *)
LostAreReplaced == <>[](step = "over" \/ Served)

(* One subscription per fan_out route (config/webhooks.py:93).  Refuted by *)
(* a restart, a check that fails, and by two subscriptions dropped at once. *)
OnePerRoute == \A i, j \in DOMAIN subs : subs[i] = subs[j] => i = j

(* The loop goes on until the daemon ends.  Refuted: it is over with the   *)
(* first registration that fails.                                          *)
LoopLasts == step # "over"

(* What is registered is in the table, by which deregister tells what is   *)
(* its own.  Refuted by an answer or a statement that is lost.             *)
SubscribedIsStored == step = "waiting" => DOMAIN subs \subseteq stored
=============================================================================
