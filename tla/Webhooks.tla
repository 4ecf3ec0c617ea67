------------------------------- MODULE Webhooks -------------------------------
(***************************************************************************)
(* The webhook receiver of ingestion/webhooks.py for the events of one      *)
(* external record: deduplication by event id, the out-of-order strategies  *)
(* with the in-memory buffer of ingestion/event_buffer.py, the single-      *)
(* record fetch of notification events and the upsert, each a transaction   *)
(* or a request of its own between which the process may die.  The sender   *)
(* repeats an event until it is acknowledged, and may repeat, delay and     *)
(* reorder it after that.                                                   *)
(*                                                                          *)
(* Event n announces the n-th state of the record; n is its payload, its    *)
(* timestamp and its event id, and SequenceOf(n) its sequence number.       *)
(***************************************************************************)
EXTENDS Integers, FiniteSets

CONSTANTS
    Handlers,       \* requests handled at the same time
    Ports,          \* servers the sender posts to: "health", "webhook" or both looked at
    Routes,         \* fan-out routes the record's events take
    Strategies,     \* out-of-order strategies looked at, and "notification"
    Dedup,          \* event_id_field is configured
    DeletionSets,   \* which events take an is_delete route: the choices looked at
    FirstSequence,  \* the sender's first sequence number
    BufferSize,     \* the event buffer's max_size
    MaxEvents,      \* events, and failures (bounds)
    MaxFaults

WebhookAssumption ==
    /\ Strategies \subseteq {"ignore", "latest", "buffer", "notification"}
    /\ Ports \subseteq {"health", "webhook"}
    /\ Dedup \in BOOLEAN
    /\ DeletionSets \subseteq SUBSET Nat
    /\ {FirstSequence, MaxEvents, MaxFaults} \subseteq Nat
    /\ BufferSize \in Nat \ {0}

VARIABLES
    port,      \* the server the sender knows
    strategy,  \* of the datatype's webhook_events
    routeOf,   \* event |-> route that matches it
    deletions, \* events whose route is an is_delete route
    made,      \* events so far
    acked,     \* events answered with a status below 300
    seen,      \* inout_ops_webhook_seen
    lastSeq,   \* inout_ops_webhook_route_seq: route |-> last_seq, 0 for no row
    buffer,    \* EventBuffer of the record: [next, held, aged]
    row,       \* state in the source table, 0 for no row
    handler,   \* handler |-> [pc, n, got]
    faults     \* failures so far

configured == <<port, strategy, routeOf, deletions>>
sender == <<made, acked>>
store == <<seen, lastSeq, row>>
vars == <<port, strategy, routeOf, deletions, made, acked, seen, lastSeq, buffer, row, handler,
          faults>>

Events == 1 .. MaxEvents
SequenceOf(n) == n - 1 + FirstSequence
Idle == [pc |-> "idle", n |-> 0, got |-> 0]
EmptyBuffer == [next |-> 0, held |-> {}, aged |-> FALSE]

Init ==
    /\ port \in Ports
    /\ strategy \in Strategies
    /\ routeOf \in [Events -> Routes]
    /\ deletions \in DeletionSets
    /\ made = 0 /\ acked = {}
    /\ seen = {} /\ lastSeq = [r \in Routes |-> 0] /\ row = 0
    /\ buffer = EmptyBuffer
    /\ handler = [h \in Handlers |-> Idle]
    /\ faults = 0

-----------------------------------------------------------------------------
(* The external system. *)

RecordChanges ==
    /\ made < MaxEvents
    /\ made' = made + 1
    /\ UNCHANGED <<configured, acked, store, buffer, handler, faults>>

\* build_webhook_app looks for the routes in a field that no connector has, and its server
\* answers everything with 404.
Mounted == port = "health"

\* A first delivery, a retry or a duplicate.
Post(h, n) ==
    /\ Mounted
    /\ handler[h] = Idle /\ n <= made
    /\ handler' = [handler EXCEPT ![h] = [pc |-> "received", n |-> n, got |-> n]]
    /\ UNCHANGED <<configured, sender, store, buffer, faults>>

-----------------------------------------------------------------------------
(* _handle_single_event. *)

Fault == faults < MaxFaults /\ faults' = faults + 1

Respond(h, success) ==
    /\ handler' = [handler EXCEPT ![h] = Idle]
    /\ acked' = IF success THEN acked \cup {handler[h].n} ELSE acked
    /\ UNCHANGED made

Proceed(h, pc, got) ==
    /\ handler' = [handler EXCEPT ![h] = [pc |-> pc, n |-> @.n, got |-> got]]
    /\ UNCHANGED sender

At(h, pc) == handler[h].pc = pc

\* No ordering is configured; or a deletion is announced, which carries its payload
\* where other notifications carry a name only.
Unordered(n) == strategy = "ignore" \/ (strategy = "notification" /\ n \in deletions)

\* Slip: events are told apart by their record only.
DeduplicateByRecord(h) ==
    /\ At(h, "received")
    /\ LET n == handler[h].n
       IN  IF Dedup /\ seen # {}
           THEN Respond(h, TRUE) /\ UNCHANGED seen
           ELSE /\ Proceed(h, IF Unordered(n) THEN "accepted" ELSE "routed", n)
                /\ seen' = IF Dedup THEN seen \cup {n} ELSE seen
    /\ UNCHANGED <<configured, lastSeq, row, buffer, faults>>

\* The event id is inserted and committed before anything else is done.
Deduplicate(h) ==
    /\ At(h, "received")
    /\ LET n == handler[h].n
       IN  IF Dedup /\ n \in seen
           THEN Respond(h, TRUE) /\ UNCHANGED seen
           ELSE /\ Proceed(h, IF Unordered(n) THEN "accepted" ELSE "routed", n)
                /\ seen' = IF Dedup THEN seen \cup {n} ELSE seen
    /\ UNCHANGED <<configured, lastSeq, row, buffer, faults>>

\* Slip: stale events are let through.
CompareSequenceNever(h) ==
    /\ At(h, "routed") /\ strategy = "latest"
    /\ Proceed(h, "fresh", handler[h].n)
    /\ UNCHANGED <<configured, store, buffer, faults>>

\* accept_latest_timestamp and accept_highest_sequence: compared with the last
\* value of the event's own route.
CompareSequence(h) ==
    /\ At(h, "routed") /\ strategy = "latest"
    /\ LET n == handler[h].n
       IN  IF n <= lastSeq[routeOf[n]] THEN Respond(h, TRUE)
                                       ELSE Proceed(h, "fresh", n)
    /\ UNCHANGED <<configured, store, buffer, faults>>

\* The value is stored and committed before the record is.
StoreSequence(h) ==
    /\ At(h, "fresh")
    /\ LET n == handler[h].n IN lastSeq' = [lastSeq EXCEPT ![routeOf[n]] = n]
    /\ Proceed(h, "accepted", handler[h].n)
    /\ UNCHANGED <<configured, seen, row, buffer, faults>>

\* The record as the source has it now; a 404 leaves the row alone.
FetchRecord(h) ==
    /\ At(h, "routed") /\ strategy = "notification"
    /\ IF made \in deletions THEN Respond(h, TRUE) ELSE Proceed(h, "accepted", made)
    /\ UNCHANGED <<configured, store, buffer, faults>>

\* run_sync_single_record swallows its errors, and the event is answered with 200.
FetchFails(h) ==
    /\ At(h, "routed") /\ strategy = "notification" /\ Fault
    /\ Respond(h, TRUE)
    /\ UNCHANGED <<configured, store, buffer>>

\* Slip: the row keeps what was inserted first.
UpsertInsertOnly(h) ==
    /\ At(h, "accepted")
    /\ row' = IF row = 0 THEN handler[h].got ELSE row
    /\ Respond(h, TRUE)
    /\ UNCHANGED <<configured, seen, lastSeq, buffer, faults>>

\* A deletion is an upsert, too: of the payload, annotated with _deleted.
Upsert(h) ==
    /\ At(h, "accepted")
    /\ row' = handler[h].got
    /\ Respond(h, TRUE)
    /\ UNCHANGED <<configured, seen, lastSeq, buffer, faults>>

\* 500 after a full payload; after a fetched record the error is swallowed.
UpsertFails(h) ==
    /\ At(h, "accepted") /\ Fault
    /\ Respond(h, strategy = "notification" /\ handler[h].n \notin deletions)
    /\ UNCHANGED <<configured, store, buffer>>

-----------------------------------------------------------------------------
(* EventBuffer.buffer_event, and what its caller makes of the result: to pass   *)
(* the released payloads on, it calls a method the engine does not have, so     *)
(* that the event at hand is upserted and the other released ones are lost.     *)

Flushes == Cardinality(buffer.held) >= BufferSize \/ buffer.aged

\* The first sequence number from s on that is not held.
FirstGap(s) ==
    CHOOSE g \in s .. (s + Cardinality(buffer.held)) :
        g \notin buffer.held /\ \A k \in s .. (g - 1) : k \in buffer.held

\* The buffer once the event it waits for, s, has come.
Released(s) ==
    LET rest == {k \in buffer.held : k > FirstGap(s + 1)}
    IN  [next |-> FirstGap(s + 1), held |-> rest, aged |-> buffer.aged /\ rest # {}]

BufferEvent(h) ==
    /\ At(h, "routed") /\ strategy = "buffer"
    /\ LET n == handler[h].n
           s == SequenceOf(n)
       IN  \/ /\ Flushes
              /\ buffer' = [EmptyBuffer EXCEPT !.next = s + 1]
              /\ Proceed(h, "accepted", n)
           \/ /\ ~Flushes /\ s = buffer.next
              /\ buffer' = Released(s)
              /\ Proceed(h, "accepted", n)
           \/ /\ ~Flushes /\ s > buffer.next
              /\ buffer' = [buffer EXCEPT !.held = @ \cup {s}]
              /\ Respond(h, TRUE)
           \/ /\ ~Flushes /\ s < buffer.next
              /\ Respond(h, TRUE)
              /\ UNCHANGED buffer
    /\ UNCHANGED <<configured, store, faults>>

\* The oldest held event has waited for buffer_timeout_secs.  Nothing happens
\* until the next event arrives.
BufferAges ==
    /\ buffer.held # {} /\ ~buffer.aged
    /\ buffer' = [buffer EXCEPT !.aged = TRUE]
    /\ UNCHANGED <<configured, sender, store, handler, faults>>

\* _webhook_dedup_cleanup_loop: dedup_ttl is over, for an event that is not at work.
ForgetSeen(n) ==
    /\ n \in seen /\ \A h \in Handlers : handler[h].n # n
    /\ seen' = seen \ {n}
    /\ UNCHANGED <<configured, sender, lastSeq, row, buffer, handler, faults>>

\* The process dies and restarts: the sender sees no answer.
Restart ==
    /\ Fault
    /\ handler' = [h \in Handlers |-> Idle]
    /\ buffer' = EmptyBuffer
    /\ UNCHANGED <<configured, sender, store>>

-----------------------------------------------------------------------------

Handle(h) ==
    \/ Deduplicate(h) \/ CompareSequence(h) \/ StoreSequence(h) \/ FetchRecord(h)
    \/ BufferEvent(h) \/ Upsert(h)

Next ==
    \/ RecordChanges \/ BufferAges \/ Restart
    \/ \E n \in Events : ForgetSeen(n)
    \/ \E h \in Handlers :
          Handle(h) \/ FetchFails(h) \/ UpsertFails(h) \/ \E n \in Events : Post(h, n)

Spec == Init /\ [][Next]_vars

\* A handler goes on, and the sender repeats what is not acknowledged: strongly fair,
\* because the bound on concurrent requests is the model's and not the server's.
FairSpec ==
    /\ Spec
    /\ \A h \in Handlers : WF_vars(Handle(h))
    /\ \A n \in Events : SF_vars(n \notin acked /\ \E h \in Handlers : Post(h, n))

-----------------------------------------------------------------------------
(* Properties. *)

TypeOK ==
    /\ strategy \in Strategies /\ routeOf \in [Events -> Routes]
    /\ deletions \in DeletionSets
    /\ made \in 0 .. MaxEvents /\ acked \subseteq 1 .. made
    /\ seen \subseteq 1 .. made
    /\ lastSeq \in [Routes -> 0 .. made] /\ row \in 0 .. made
    /\ buffer.next \in 0 .. SequenceOf(made + 1)
    /\ buffer.held \subseteq {SequenceOf(n) : n \in 1 .. made}
    /\ buffer.aged => buffer.held # {}
    /\ Cardinality(buffer.held) <= BufferSize
    /\ handler \in [Handlers -> [pc : {"idle", "received", "routed", "fresh", "accepted"},
                                 n : 0 .. made, got : 0 .. made]]
    /\ faults \in 0 .. MaxFaults

\* The strategies that promise an order.  Deletions among notifications are not
\* compared with anything.
Ordering == strategy = "latest" \/ (strategy = "notification" /\ deletions = {})

\* GOAL.md:86: a stale event does not replace a newer state, whatever is repeated,
\* delayed, reordered or fails (webhooks.py 386-486; of one route, one at a time).
NeverBackwards == [][Ordering => row' >= row]_vars

\* As long as nothing has failed, an event that was acknowledged is in the row, or a
\* newer one is: neither deduplication nor the staleness test swallows it.
AckedIsCovered == Ordering /\ faults = 0 => \A n \in acked : row >= n

\* If nothing fails, the row gets to the newest state and stays there: what was seen
\* and forgotten changes nothing when it is repeated.  Refuted for a sender that knows
\* the server of webhook_server.listen (webhook_server.py:133).
Converges == (Ordering /\ []<>(made = MaxEvents) /\ [](faults = 0)) => <>[](row = made)

\* GOAL.md:86, event_buffer.py:44: with buffer-and-reorder, too, an acknowledged event
\* reaches the row or waits in the buffer.
BufferedIsCovered ==
    strategy = "buffer" /\ faults = 0 /\ (\A h \in Handlers : handler[h] = Idle) =>
        \A n \in acked : row >= n \/ SequenceOf(n) \in buffer.held

\* GOAL.md:86: nor does a stale deletion, when the other events are notifications.
NotificationsInOrder == [][strategy = "notification" => row' >= row]_vars

\* GOAL.md:39: an acknowledged event survives a failure or a restart.
AckedSurvives == Ordering => \A n \in acked : row >= n
=============================================================================
