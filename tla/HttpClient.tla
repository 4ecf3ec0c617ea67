----------------------------- MODULE HttpClient -----------------------------
(***************************************************************************)
(* The requests of one connector: coroutines that share a token bucket and *)
(* a retry budget.  A request loops over transient errors (_request), and  *)
(* every round of it over 429 answers (_raw_request); each retry takes a   *)
(* slot of the budget, and a 429 slows the bucket down.                    *)
(*                                                                         *)
(* The bucket counts in units of which a request takes Cost, so that half  *)
(* the rate is a whole number.  Times are spans in ticks.  MaxRequests     *)
(* bounds the requests of a caller.                                        *)
(***************************************************************************)
EXTENDS Integers, Sequences

CONSTANTS
  Callers,
  Cost, Base, Capacity,         \* acquire(1), rate per tick and burst, in units
  MaxRetries,
  MaxAttempts, Window,          \* the retry budget
  RetryAfter,                   \* values of the header; 0 is absent, or zero
  MaxRequests

HttpClientAssumption ==
  /\ {Cost, Base, MaxAttempts, Window, MaxRequests} \subseteq Nat \ {0} /\ Base % 2 = 0
  /\ Capacity \in Nat /\ MaxRetries \in Nat
  /\ RetryAfter \subseteq Nat

VARIABLES
  bucket,       \* [tokens, reduced, left: until the full rate, since: the last refill]
  stamps,       \* ages of the budget's slots, oldest first
  call,         \* [Callers -> the request it is in]
  ideal,        \* what an exact bucket would hold, history
  throttled     \* what a bucket drained and slowed down would hold, history

vars == <<bucket, stamps, call, ideal, throttled>>

Least(a, b) == IF a <= b THEN a ELSE b

NoCall(n) == [step |-> "idle", raw |-> 0, outer |-> 0, wait |-> 0, left |-> n]

Init ==
  /\ bucket = [tokens |-> Capacity, reduced |-> FALSE, left |-> 0, since |-> 0]
  /\ stamps = <<>>
  /\ call = [c \in Callers |-> NoCall(MaxRequests)]
  /\ ideal = Capacity /\ throttled = Capacity

----------------------------------------------------------------------------
(* The bucket. *)

\* Slip: the time of the refill is not kept.
RefilledAgain(b) ==
  LET reduced == b.reduced /\ b.left > 0
  IN  [b EXCEPT !.reduced = reduced, !.left = IF reduced THEN @ ELSE 0,
                !.tokens = Least(Capacity, @ + b.since * (IF reduced THEN Base \div 2 ELSE Base))]

(* All the time since the last refill counts at the rate that holds now.   *)
Refilled(b) ==
  LET reduced == b.reduced /\ b.left > 0
  IN  [tokens |-> Least(Capacity, b.tokens + b.since * (IF reduced THEN Base \div 2 ELSE Base)),
       reduced |-> reduced, left |-> IF reduced THEN b.left ELSE 0, since |-> 0]

(* A later backoff replaces an earlier one, be it shorter.                 *)
BackedOff(b, wait) ==
  [b EXCEPT !.reduced = TRUE, !.left = wait, !.tokens = Least(@, Capacity \div 10)]

Start(c) ==
  /\ call[c].step = "idle" /\ call[c].left > 0
  /\ call' = [call EXCEPT ![c] = [NoCall(@.left - 1) EXCEPT !.step = "acquire"]]
  /\ UNCHANGED <<bucket, stamps, ideal, throttled>>

Acquire(c) ==           \* and the request is sent
  LET b == Refilled(bucket)
  IN  /\ call[c].step = "acquire" /\ b.tokens >= Cost
      /\ bucket' = [b EXCEPT !.tokens = @ - Cost]
      /\ call' = [call EXCEPT ![c].step = "sent"]
      /\ ideal' = ideal - Cost /\ throttled' = throttled - Cost
      /\ UNCHANGED stamps

AcquireLater(c) ==      \* the refill is kept and the caller sleeps
  LET b == Refilled(bucket)
  IN  /\ call[c].step = "acquire" /\ b.tokens < Cost
      /\ bucket' = b
      /\ UNCHANGED <<stamps, call, ideal, throttled>>

----------------------------------------------------------------------------
(* Answers.  4xx, and a 429 that was not retried, are raised to the caller.*)

Ended(c) == call' = [call EXCEPT ![c] = NoCall(@.left)]

Consume ==              \* what is older than the window is gone with Tick
  Len(stamps) < MaxAttempts /\ stamps' = Append(stamps, 0)

Exhausted == Len(stamps) >= MaxAttempts /\ UNCHANGED stamps

AnswerFinal(c) ==
  /\ call[c].step = "sent" /\ Ended(c)
  /\ UNCHANGED <<bucket, stamps, ideal, throttled>>

(* Without the header, or with a zero, the wait doubles with the attempt.  *)
RetryAfterSpan(header, attempt) == IF header = 0 THEN 2 ^ attempt ELSE header

\* Slip: the attempt is not counted.
Answer429Forever(c, header) ==
  LET wait == RetryAfterSpan(header, call[c].raw)
  IN  /\ call[c].step = "sent" /\ Consume
      /\ bucket' = BackedOff(bucket, wait) /\ throttled' = Capacity \div 10
      /\ call' = [call EXCEPT ![c] = [@ EXCEPT !.step = "sleeping", !.wait = Least(wait, 300)]]
      /\ UNCHANGED ideal

Answer429(c, header) ==
  LET wait == RetryAfterSpan(header, call[c].raw)
  IN  /\ call[c].step = "sent" /\ call[c].raw < MaxRetries /\ Consume
      /\ bucket' = BackedOff(bucket, wait) /\ throttled' = Capacity \div 10
      /\ call' = [call EXCEPT ![c] =
           [@ EXCEPT !.step = "sleeping", !.wait = Least(wait, 300), !.raw = @ + 1]]
      /\ UNCHANGED ideal

AnswerTransient(c) ==   \* 5xx, connection error or timeout
  /\ call[c].step = "sent" /\ call[c].outer < MaxRetries /\ Consume
  /\ call' = [call EXCEPT ![c] = [@ EXCEPT !.step = "sleeping", !.raw = 0, !.outer = @ + 1,
                                           !.wait = Least(2 ^ call[c].outer, 60)]]
  /\ UNCHANGED <<bucket, ideal, throttled>>

BudgetExhausted(c) ==   \* a retry that would be next is refused
  /\ call[c].step = "sent" /\ Exhausted /\ (call[c].raw < MaxRetries \/ call[c].outer < MaxRetries)
  /\ Ended(c)
  /\ UNCHANGED <<bucket, ideal, throttled>>

Wake(c) ==
  /\ call[c].step = "sleeping" /\ call[c].wait = 0
  /\ call' = [call EXCEPT ![c].step = "acquire"]
  /\ UNCHANGED <<bucket, stamps, ideal, throttled>>

(* Spans saturate where they no longer make a difference.                  *)
Tick ==
  /\ bucket' = [bucket EXCEPT !.since = Least(@ + 1, Capacity), !.left = IF @ > 0 THEN @ - 1 ELSE 0]
  /\ stamps' = [i \in 1 .. Len(SelectSeq(stamps, LAMBDA age : age < Window)) |->
                  SelectSeq(stamps, LAMBDA age : age < Window)[i] + 1]
  /\ call' = [c \in Callers |-> [call[c] EXCEPT !.wait = IF @ > 0 THEN @ - 1 ELSE 0]]
  /\ ideal' = Least(Capacity, ideal + Base)
  /\ throttled' = Least(Capacity, throttled + Base \div 2)

Moves(c) == Start(c) \/ Acquire(c) \/ AcquireLater(c) \/ Wake(c)
Answers(c) ==
  \/ AnswerFinal(c) \/ AnswerTransient(c) \/ BudgetExhausted(c)
  \/ \E header \in RetryAfter : Answer429(c, header)

Next == Tick \/ \E c \in Callers : Moves(c) \/ Answers(c)

Spec == Init /\ [][Next]_vars

----------------------------------------------------------------------------
(* Properties. *)

TypeOK ==
  /\ bucket \in [tokens : 0 .. Capacity, reduced : BOOLEAN, left : Nat, since : 0 .. Capacity]
  /\ stamps \in Seq(0 .. Window) /\ Len(stamps) <= MaxAttempts
  /\ call \in [Callers -> [step : {"idle", "acquire", "sent", "sleeping"}, raw : 0 .. MaxRetries,
                           outer : 0 .. MaxRetries, wait : Nat, left : 0 .. MaxRequests]]

(* In any span the callers together send no more than a burst and what the *)
(* rate gives for it, through backoffs, recoveries and refills of many     *)
(* callers at once: an exact bucket is never overdrawn.                    *)
RateIsKept == ideal >= 0

(* A request ends, answered or given up, however often it is told to wait  *)
(* or to try again; not so where a burst is less than one request, which a *)
(* rate below one in two seconds gives by default.                         *)
RequestsEnd == \A c \in Callers : call[c].step # "idle" ~> call[c].step = "idle"

(* During a backoff the callers send no more than the drained bucket and   *)
(* half the rate allow (rate_limiter.py:88, "Drain tokens to force         *)
(* immediate throttling"): refuted by the time before the backoff, which   *)
(* the next refill still counts, and by a shorter backoff after it.        *)
BackoffIsKept == bucket.left > 0 => throttled >= 0
=============================================================================
