----------------------------- MODULE TokenCache -----------------------------
(***************************************************************************)
(* The token that a connector's requests share, per credential and token   *)
(* endpoint, in the memory of the process.  A request takes the cached     *)
(* token or fetches one; on 401 it empties the cache, fetches and is sent  *)
(* once more.  Fetching blocks the event loop, so that it is one step with *)
(* what precedes it; requests in flight interleave with everything.        *)
(*                                                                         *)
(* Flow is the provider: "client" and "refresh" of OAuth2, "custom" steps, *)
(* or "pre" for a pre-request token.  A token that nobody holds any more   *)
(* may be issued again under its name.  MaxFaults bounds what is lost,     *)
(* revoked or rotated.                                                     *)
(***************************************************************************)
EXTENDS Naturals, FiniteSets

CONSTANTS
  Callers, Tokens, Flow,
  Rotations,            \* whether a refresh brings a new refresh token: subset of BOOLEAN
  Exclusive,            \* the server keeps one access token per client
  MaxFaults

TokenCacheAssumption ==
  /\ Flow \in {"client", "refresh", "custom", "pre"}
  /\ Rotations \in (SUBSET BOOLEAN) \ {{}} /\ Exclusive \in BOOLEAN
  /\ Cardinality(Tokens) >= Cardinality(Callers) + 2

None == "none"          \* no token: "__pending__" or "" is sent

VARIABLES
  cache,        \* [access, near: less than 60 s left, refresh]
  call,         \* [Callers -> [step, token]]
  live,         \* access tokens the server accepts
  original,     \* the server accepts the refresh token of the credential
  outdated,     \* tokens from before the last rotation of the credential, history
  faults

vars == <<cache, call, live, original, outdated, faults>>

Empty == [access |-> None, near |-> FALSE, refresh |-> None]
NoCall == [step |-> "idle", token |-> None]

Init ==
  /\ cache = Empty /\ call = [c \in Callers |-> NoCall]
  /\ live = {} /\ original = TRUE /\ outdated = {} /\ faults = 0

----------------------------------------------------------------------------
(* The token endpoint. *)

Held == {cache.access} \cup {call[c].token : c \in Callers}

(* The refresh token is the rotated one of the entry, if there is one.     *)
Accepted(entry) ==
  Flow = "refresh" => IF entry.refresh = None THEN original ELSE entry.refresh = "valid"

(* A token t is issued.  What was in the entry is replaced as a whole, the *)
(* refresh token by the one of this answer or by none.                     *)
FetchedAs(entry, t, rotates) ==
  /\ t \in Tokens \ Held /\ outdated' = outdated \ {t}
  /\ Accepted(entry)
  /\ live' = {t} \cup (IF Exclusive THEN {} ELSE live \cap Held)
  /\ original' = (original /\ ~rotates)
  /\ cache' = [access |-> t, near |-> FALSE, refresh |-> IF rotates THEN "valid" ELSE None]

Rotates == IF Flow = "refresh" THEN Rotations ELSE {FALSE}

(* Refused, or unreachable.                                                *)
FetchFails(entry) ==
  /\ cache' = entry /\ UNCHANGED <<live, original, outdated>>
  /\ IF Accepted(entry) THEN faults < MaxFaults /\ faults' = faults + 1 ELSE UNCHANGED faults

(* Issued, and the answer is lost.                                         *)
FetchLost(entry) ==
  /\ Accepted(entry) /\ faults < MaxFaults /\ faults' = faults + 1
  /\ \E rotates \in Rotates :
       /\ cache' = IF rotates /\ entry.refresh # None THEN [entry EXCEPT !.refresh = "spent"] ELSE entry
       /\ original' = (original /\ ~rotates)
  /\ live' = IF Exclusive THEN {} ELSE live
  /\ UNCHANGED outdated

----------------------------------------------------------------------------
(* Requests. *)

Sent(c, step, token) == call' = [call EXCEPT ![c] = [step |-> step, token |-> token]]

SendCached(c) ==
  /\ call[c] = NoCall /\ cache.access # None /\ ~cache.near
  /\ Sent(c, "sent", cache.access)
  /\ UNCHANGED <<cache, live, original, outdated, faults>>

(* A fetch that fails sends the request without the token, though one that *)
(* is near its end may be there.                                           *)
SendFetched(c) ==
  /\ call[c] = NoCall /\ (cache.access = None \/ cache.near)
  /\ \/ \E t \in Tokens, rotates \in Rotates :
          FetchedAs(cache, t, rotates) /\ Sent(c, "sent", t) /\ UNCHANGED faults
     \/ (FetchFails(cache) \/ FetchLost(cache)) /\ Sent(c, "sent", None)

Arrive(c) ==
  /\ call[c].step \in {"sent", "resent"}
  /\ IF call[c].token \in live THEN Sent(c, "idle", None)
     ELSE Sent(c, IF call[c].step = "sent" THEN "refused" ELSE "unauthorized", call[c].token)
  /\ UNCHANGED <<cache, live, original, outdated, faults>>

\* Slip: the entry stays, and is used again while it lasts.
RetryCached(c) ==
  /\ call[c].step = "refused" /\ Sent(c, "resent", cache.access)
  /\ UNCHANGED <<cache, live, original, outdated, faults>>

Retry(c) ==             \* the entry goes with the rotated refresh token in it
  /\ call[c].step = "refused"
  /\ \/ \E t \in Tokens, rotates \in Rotates :
          FetchedAs(Empty, t, rotates) /\ Sent(c, "resent", t) /\ UNCHANGED faults
     \/ (FetchFails(Empty) \/ FetchLost(Empty)) /\ Sent(c, "unauthorized", None)

Give(c) ==              \* the 401 is the caller's
  /\ call[c].step = "unauthorized" /\ Sent(c, "idle", None)
  /\ UNCHANGED <<cache, live, original, outdated, faults>>

----------------------------------------------------------------------------
(* Others. *)

NearsItsEnd ==
  /\ cache.access # None /\ ~cache.near
  /\ cache' = [cache EXCEPT !.near = TRUE]
  /\ UNCHANGED <<call, live, original, outdated, faults>>

(* A request is sent with a token that has 60 s left and times out sooner, *)
(* so that a token in flight ends only if it is revoked.                   *)
Expire ==
  /\ cache.near /\ cache.access \in live /\ \A c \in Callers : call[c].token # cache.access
  /\ live' = live \ {cache.access}
  /\ UNCHANGED <<cache, call, original, outdated, faults>>

Revoke(t) ==
  /\ t \in live /\ faults < MaxFaults /\ faults' = faults + 1
  /\ live' = live \ {t}
  /\ UNCHANGED <<cache, call, original, outdated>>

\* Slip: only the class of client credentials is looked through.
InvalidatedClientOnly == IF Flow = "client" THEN Empty ELSE cache

(* The caches of the OAuth2 and custom providers are emptied; that of the  *)
(* pre-request tokens is not among them.                                   *)
Invalidated == IF Flow = "pre" THEN cache ELSE Empty

(* The operator changes the credential and sends rotate-credential.        *)
RotateCredential ==
  /\ faults < MaxFaults /\ faults' = faults + 1
  /\ cache' = Invalidated /\ original' = TRUE
  /\ outdated' = Held \ {None}
  /\ UNCHANGED <<call, live>>

Moves(c) == SendFetched(c) \/ SendCached(c) \/ Arrive(c) \/ Retry(c) \/ Give(c)

Next == NearsItsEnd \/ Expire \/ RotateCredential \/ (\E t \in Tokens : Revoke(t)) \/ \E c \in Callers : Moves(c)

Spec == Init /\ [][Next]_vars
FairSpec == Spec /\ \A c \in Callers : WF_vars(Moves(c))

----------------------------------------------------------------------------
(* Properties. *)

(* Once nothing fails any more requests are not refused for ever: whatever *)
(* was lost, revoked or cached before, and though every request that is    *)
(* answered 401 empties the cache of the others.  With rotated refresh     *)
(* tokens it is refuted: a 401 forgets the rotated one, the credential's   *)
(* is spent, and every request from then on is refused (auth.py:230,       *)
(* "subsequent refreshes use the rotated value").  With a server that      *)
(* keeps one token per client, two callers refute it.                      *)
RefusalsEnd == <>[][\A c \in Callers : call[c].step # "unauthorized" => call'[c].step # "unauthorized"]_vars

(* No request begun after rotate-credential carries a token from before    *)
(* (auth.py:472, "Invalidate all cached tokens for a given credential_ref"). *)
(* Refuted for pre-request tokens.                                         *)
RotationIsComplete ==
  [][\A c \in Callers : call[c].step = "idle" /\ call'[c].step = "sent" => call'[c].token \notin outdated']_vars

(* A token that is still good is used: refuted when a refresh within its   *)
(* last minute fails.                                                      *)
GoodTokenIsUsed == [][\A c \in Callers :
  call[c].step = "idle" /\ call'[c].step = "sent" /\ cache.access \in live => call'[c].token # None]_vars
=============================================================================
