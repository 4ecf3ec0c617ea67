----------------------------- MODULE MCTransport -----------------------------
(* What stands between a loop and the remote system: a shared breaker, the  *)
(* loops' use of it, the requests behind bucket and budget, and the token   *)
(* they carry.  They share no state; a behaviour runs one of them.          *)
EXTENDS CircuitBreaker

CONSTANTS
  Parts,
  Tools, Contended, Raises, RowsPerCycle,
  Cost, Base, Capacity, MaxRetries, MaxAttempts, Window, RetryAfter, MaxRequests,
  Tokens, Flow, Rotations, Exclusive, MaxFaults

VARIABLES part,
  tool, loopCb, pc, outcome, rows, failed, loopUp, badPolls, answered,
  bucket, stamps, requests, ideal, throttled,
  cache, call, live, original, outdated, faults

breakerVars == vars
loopVars == <<tool, loopCb, pc, outcome, rows, failed, loopUp, badPolls, answered>>
clientVars == <<bucket, stamps, requests, ideal, throttled>>
tokenVars == <<cache, call, live, original, outdated, faults>>
all == <<part, breakerVars, loopVars, clientVars, tokenVars>>

Loop == INSTANCE PollingLoops WITH cb <- loopCb, up <- loopUp
Client == INSTANCE HttpClient WITH call <- requests
Token == INSTANCE TokenCache

ASSUME Loop!LoopAssumption /\ Client!HttpClientAssumption /\ Token!TokenCacheAssumption

MCInit ==
  /\ part \in Parts
  /\ Init /\ Loop!Init /\ Client!Init /\ Token!Init
  /\ part # "loops" => tool = "ingestion"

Breaking == part = "breaker" /\ UNCHANGED <<part, loopVars, clientVars, tokenVars>>
Looping == part = "loops" /\ UNCHANGED <<part, breakerVars, clientVars, tokenVars>>
Requesting == part = "client" /\ UNCHANGED <<part, breakerVars, loopVars, tokenVars>>
Authenticating == part = "tokens" /\ UNCHANGED <<part, breakerVars, loopVars, clientVars>>

MCNext ==
  \/ Breaking /\ Next
  \/ Looping /\ Loop!Next
  \/ Requesting /\ Client!Next
  \/ Authenticating /\ Token!Next

MCSpec ==
  /\ MCInit /\ [][MCNext]_all
  /\ WF_all(Breaking /\ Tick)
  /\ \A c \in Callers : WF_all(Breaking /\ Admit(c)) /\ WF_all(Breaking /\ (Succeed(c) \/ Fail(c)))
  /\ WF_all(Looping /\ Loop!Work /\ UNCHANGED tool) /\ WF_all(Looping /\ Loop!Tick /\ UNCHANGED tool)
  /\ WF_all(Requesting /\ Client!Tick)
  /\ \A c \in Callers : /\ WF_all(Requesting /\ Client!Moves(c))
                        /\ WF_all(Requesting /\ Client!Answers(c))
                        /\ WF_all(Authenticating /\ Token!Moves(c))

(* PollingLoops: polls that fail in a row open the breaker.                  *)
SustainedFailureOpens == Loop!SustainedFailureOpens

(* PollingLoops: an outage that lasts is shed again and again.               *)
OutageIsShed == part = "loops" => Loop!OutageIsShed

(* PollingLoops: a remote system that stays up is used again and again.      *)
RecoveryIsUsed == part = "loops" => Loop!RecoveryIsUsed

(* HttpClient: together the requests keep the configured rate.               *)
RateIsKept == Client!RateIsKept

(* HttpClient: a request ends, however often it has to wait.                 *)
RequestsEnd == Client!RequestsEnd

(* TokenCache: what was cached or lost does not refuse requests for ever.    *)
RefusalsEnd == Token!RefusalsEnd

(* TokenCache: after rotate-credential no new request has an old token.      *)
RotationIsComplete == Token!RotationIsComplete
=============================================================================
