------------------------------- MODULE Writeback -------------------------------
(***************************************************************************)
(* A writeback cycle of writeback/engine.py for one (connector, datatype)   *)
(* that reads its rows from the desired-state table inout_dst_*: the        *)
(* advisory lock, the audit-log deduplication, the pre-flight read with its *)
(* three-way comparison, the conditional write, last-written state, the     *)
(* feedback and the row statuses.  Several instances run it against one     *)
(* target system, which other actors edit, over a network that delays and   *)
(* loses requests.                                                          *)
(*                                                                          *)
(* The state of a target record is a number that stands for its payload and *)
(* its ETag; 0 is "no such record", {} as a payload, and "no ETag".  Edits  *)
(* and desired states draw on one counter, so a larger number is newer.     *)
(***************************************************************************)
EXTENDS Integers, FiniteSets

CONSTANTS
    Workers,       \* writeback instances
    Ids, Existing, \* records of the datatype, and those the target starts with
    Actions,       \* actions the MDM asks for
    Resolution,    \* conflict_resolution
    ETags,         \* the target answers with ETags and honours If-Match
    Optimistic,    \* protection_level = optimistic: a second lookup
    CrashRecovery, \* enable_crash_recovery: skip what the audit log has as sent
    Purges,        \* housekeeping's desired-state retention is running
    Faults,        \* what may fail, and how often (bound)
    MaxFaults,
    MaxEdits       \* edits and desired states (bound)

Nobody == "nobody"

ASSUME WritebackAssumption ==
    /\ Nobody \notin Workers
    /\ Existing \subseteq Ids
    /\ Actions \subseteq {"insert", "update", "delete"}
    /\ Resolution \in {"last_writer_wins", "skip_and_warn", "dead_letter", "server_wins"}
    /\ {ETags, Optimistic, CrashRecovery, Purges} \subseteq BOOLEAN
    /\ Optimistic => Resolution # "server_wins"
    /\ Faults \subseteq {"breaker", "lookup_raises", "lookup_5xx", "write_lost",
                         "lwstate_write", "crash", "lock_loss"}
    /\ MaxFaults \in Nat /\ MaxEdits \in Nat \ {0}

VARIABLES
    remote,    \* target system: id |-> state
    edits,     \* the counter
    mirror,    \* what ingestion last saw of each record
    dst,       \* inout_dst_*: id |-> [action, data, base, status]
    lwstate,   \* inout_dst_*_lwstate: id |-> last-written state, or Unwritten
    okAudit,   \* 'ok' rows of the last hour in inout_ops_writeback_result
    lock,      \* holder of the advisory lock
    pc,        \* worker |-> "idle", "dispatching" or "marking"
    batch,     \* worker |-> its rows, as fetched
    task,      \* worker |-> for each row: [at, etag]
    late,      \* requests given up by their senders and still under way
    faults,    \* faults so far
    made,      \* history: states the MDM asked for
    been,      \* history: states each record has been in
    known,     \* history: states of each record that ingestion or lwstate recorded
    created    \* history: records each id's POSTs have created (2 = several)

target == <<remote, been, created>>
history == <<made, known>>
cycle == <<lock, pc, batch, task>>
vars == <<remote, edits, mirror, dst, lwstate, okAudit, lock, pc, batch, task, late,
          faults, made, been, known, created>>

Nothing == [i \in {} |-> 0]
States == 0 .. MaxEdits
Unwritten == -1   \* no row, which is not a row that holds {}
NoRow == [action |-> "none", data |-> 0, base |-> 0, status |-> "pending"]
Waiting == [at |-> "todo", etag |-> 0]

Init ==
    /\ edits = IF Existing = {} THEN 0 ELSE 1
    /\ remote = [i \in Ids |-> IF i \in Existing THEN edits ELSE 0]
    /\ mirror = remote
    /\ dst = [i \in Ids |-> NoRow]
    /\ lwstate = [i \in Ids |-> Unwritten]
    /\ okAudit = {}
    /\ lock = Nobody
    /\ pc = [w \in Workers |-> "idle"]
    /\ batch = [w \in Workers |-> Nothing] /\ task = [w \in Workers |-> Nothing]
    /\ late = {} /\ faults = 0
    /\ made = {}
    /\ been = [i \in Ids |-> {remote[i]}] /\ known = [i \in Ids |-> {remote[i]}]
    /\ created = [i \in Ids |-> 0]

-----------------------------------------------------------------------------
(* The other actors. *)

Becomes(i, s) ==
    /\ remote' = [remote EXCEPT ![i] = s]
    /\ been' = [been EXCEPT ![i] = @ \cup {s}]

\* Somebody edits or deletes the record in the target system.
TargetEdited(i) ==
    /\ remote[i] # 0 /\ edits < MaxEdits
    /\ edits' = edits + 1
    /\ Becomes(i, edits') \/ Becomes(i, 0)
    /\ UNCHANGED <<mirror, dst, lwstate, okAudit, cycle, late, faults, history, created>>

Ingest(i) ==
    /\ mirror' = [mirror EXCEPT ![i] = remote[i]]
    /\ known' = [known EXCEPT ![i] = @ \cup {remote[i]}]
    /\ UNCHANGED <<target, edits, dst, lwstate, okAudit, cycle, late, faults, made>>

\* The MDM asks for a new state of a record, on the state that ingestion last saw.
Produce(i, action) ==
    /\ action \in Actions /\ edits < MaxEdits
    /\ (action = "insert") <=> (mirror[i] = 0)
    /\ edits' = edits + 1
    /\ LET data == IF action = "delete" THEN 0 ELSE edits'
       IN  /\ dst' = [dst EXCEPT ![i] = [action |-> action, data |-> data,
                                         base |-> mirror[i], status |-> "pending"]]
           /\ made' = made \cup {data}
    /\ UNCHANGED <<target, mirror, lwstate, okAudit, cycle, late, faults, known>>

\* The MDM recomputes a row on a newer base; one that has been reached is a noop.
Recompute(i) ==
    /\ dst[i].action \in {"insert", "update"} /\ mirror[i] # 0
    /\ dst' = [dst EXCEPT ![i] = [action |-> IF mirror[i] = @.data THEN "noop" ELSE "update",
                                  data |-> @.data, base |-> mirror[i],
                                  status |-> "pending"]]
    /\ UNCHANGED <<target, edits, mirror, lwstate, okAudit, cycle, late, faults, history>>

Fault(kind) == kind \in Faults /\ faults < MaxFaults /\ faults' = faults + 1

-----------------------------------------------------------------------------
(* Lock, fetch and deduplication. *)

\* Slip: only rows that nobody has tried yet.
PendingUntried == {i \in Ids : dst[i].action \notin {"none", "noop"} /\ dst[i].status = "pending"}

\* _fetch_delta_rows.  It ignores _status; the batch holds every row (a bound:
\* no more rows than batch_size).
Pending == {i \in Ids : dst[i].action \notin {"none", "noop"}}

\* _deduplicate_with_audit compares external_id and action.
AlreadySent(i) == CrashRecovery /\ <<i, dst[i].action>> \in okAudit

\* Slip: the cycle starts whether or not it got the lock.
StartCycleUnlocked(w) ==
    /\ pc[w] = "idle"
    /\ lock' = w
    /\ pc' = [pc EXCEPT ![w] = "dispatching"]
    /\ LET rows == {i \in Pending : ~AlreadySent(i)}
       IN  /\ batch' = [batch EXCEPT ![w] = [i \in rows |-> dst[i]]]
           /\ task' = [task EXCEPT ![w] = [i \in rows |-> Waiting]]
    /\ UNCHANGED <<target, edits, mirror, dst, lwstate, okAudit, late, faults, history>>

\* pg_try_advisory_lock succeeds; an instance that fails to get it does nothing.
\* Only the holder adds audit rows, so fetch and deduplication are one step.
StartCycle(w) ==
    /\ pc[w] = "idle" /\ lock = Nobody
    /\ lock' = w
    /\ pc' = [pc EXCEPT ![w] = "dispatching"]
    /\ LET rows == {i \in Pending : ~AlreadySent(i)}
       IN  /\ batch' = [batch EXCEPT ![w] = [i \in rows |-> dst[i]]]
           /\ task' = [task EXCEPT ![w] = [i \in rows |-> Waiting]]
    /\ UNCHANGED <<target, edits, mirror, dst, lwstate, okAudit, late, faults, history>>

-----------------------------------------------------------------------------
(* _dispatch_row.  Rows of different records run concurrently. *)

At(w, i, at) == pc[w] = "dispatching" /\ i \in DOMAIN task[w] /\ task[w][i].at = at
Moves(w, i, at, etag) ==
    task' = [task EXCEPT ![w][i] = [at |-> at, etag |-> etag]]
OfThisRow == <<edits, mirror, dst, okAudit, lock, pc, batch>>

\* The circuit breaker does not let the row through.
BreakerRejects(w, i) ==
    /\ At(w, i, "todo") /\ Fault("breaker")
    /\ Moves(w, i, "skipped", 0)
    /\ UNCHANGED <<target, OfThisRow, lwstate, late, history>>

\* Inserts and deletes go out without a pre-flight read.
SendUnread(w, i) ==
    /\ At(w, i, "todo") /\ batch[w][i].action # "update"
    /\ Moves(w, i, "ready", 0)
    /\ UNCHANGED <<target, OfThisRow, lwstate, late, faults, history>>

SaveLwstate(i, s) ==
    /\ lwstate' = [lwstate EXCEPT ![i] = s]
    /\ known' = [known EXCEPT ![i] = @ \cup {s}]

\* Slips: last-written state gets what was meant instead of what is there; a safe
\* write goes out without If-Match.
ObservedIntent(w, i, seen) == batch[w][i].data
ETagOfConflictOnly(w, i, seen, safe) == IF ETags /\ ~safe THEN seen ELSE 0

\* What the conflict path stores, and the ETag the write will carry.
Observed(w, i, seen) == seen
ETagOf(w, i, seen, safe) == IF ETags THEN seen ELSE 0

\* (last_written_3way or {}): without a row, {} is compared.
LastWritten(i) == IF lwstate[i] = Unwritten THEN 0 ELSE lwstate[i]

\* The three-way comparison with the state the lookup returned.
Compare(w, i, seen) ==
    LET safe == seen = batch[w][i].base \/ seen = LastWritten(i)
        position == IF safe \/ Resolution = "last_writer_wins" THEN
                        IF Optimistic THEN "checked" ELSE "ready"
                    ELSE IF Resolution = "dead_letter" THEN "failed" ELSE "skipped"
    IN  /\ IF safe THEN UNCHANGED <<lwstate, known>> ELSE SaveLwstate(i, Observed(w, i, seen))
        /\ Moves(w, i, position, ETagOf(w, i, seen, safe))

\* lookup, get_lwstate and, on a conflict, upsert_lwstate: only the holder of the
\* lock touches this record's last-written state, so they are one step.
Preflight(w, i) ==
    /\ At(w, i, "todo") /\ batch[w][i].action = "update"
    /\ Compare(w, i, remote[i])
    /\ UNCHANGED <<target, OfThisRow, late, faults, made>>

\* A response that is not a success leaves current_state at {}, with no ETag, and {} is
\* what a conflict then stores, of a record that exists.
PreflightFails(w, i) ==
    /\ At(w, i, "todo") /\ batch[w][i].action = "update" /\ Fault("lookup_5xx")
    /\ Compare(w, i, 0)
    /\ UNCHANGED <<target, OfThisRow, late, made>>

\* "On error, fall through to normal write".
PreflightRaises(w, i) ==
    /\ At(w, i, "todo") /\ batch[w][i].action = "update" /\ Fault("lookup_raises")
    /\ Moves(w, i, IF Optimistic THEN "checked" ELSE "ready", 0)
    /\ UNCHANGED <<target, OfThisRow, lwstate, late, history>>

\* protection_level = optimistic: If-Match is the ETag of a lookup of its own.
Relookup(w, i) ==
    /\ At(w, i, "checked")
    /\ Moves(w, i, "ready", IF ETags THEN remote[i] ELSE 0)
    /\ UNCHANGED <<target, OfThisRow, lwstate, late, faults, history>>

RelookupFails(w, i) ==
    /\ At(w, i, "checked") /\ Fault("lookup_raises")
    /\ Moves(w, i, "ready", 0)
    /\ UNCHANGED <<target, OfThisRow, lwstate, late, history>>

\* The target system carries out a request; If-Match of an absent record fails too.
\* A second POST for an id creates a second record under another name.
Accepts(r) == r.etag = 0 \/ r.etag = remote[r.id]
Takes(r) == Accepts(r) /\ remote[r.id] # 0
Performed(r) ==
    \/ r.action = "update" /\ Takes(r) /\ Becomes(r.id, r.data) /\ UNCHANGED created
    \/ r.action = "update" /\ ~Takes(r) /\ UNCHANGED target
    \/ r.action = "delete" /\ Becomes(r.id, 0) /\ UNCHANGED created
    \/ /\ r.action = "insert"
       /\ created' = [created EXCEPT ![r.id] = IF @ = 0 THEN 1 ELSE 2]
       /\ remote' = [remote EXCEPT ![r.id] = IF @ = 0 THEN r.data ELSE @]
       /\ been' = [been EXCEPT ![r.id] = @ \cup {r.data}]

Request(w, i) ==
    [id |-> i, action |-> batch[w][i].action, data |-> batch[w][i].data,
     etag |-> task[w][i].etag]

\* The request and its response.  412 or 404 is an HTTPError and fails the row; the
\* optimistic path skips it on 412.
Write(w, i) ==
    /\ At(w, i, "ready")
    /\ LET r == Request(w, i)
           refused == r.action # "insert" /\ ~Takes(r)
       IN  /\ Performed(r)
           /\ Moves(w, i, IF ~refused THEN "written"
                         ELSE IF Optimistic /\ ~Accepts(r) THEN "skipped" ELSE "failed",
                    r.etag)
    /\ UNCHANGED <<OfThisRow, lwstate, late, faults, history>>

\* No response: the request is lost or still under way.  Requests without headers
\* go through the transport's retry loop and may be sent again.
WriteTimesOut(w, i) ==
    /\ At(w, i, "ready") /\ Fault("write_lost")
    /\ late' = late \cup {Request(w, i)}
    /\ \/ Moves(w, i, "failed", 0)
       \/ task[w][i].etag = 0 /\ batch[w][i].action # "insert" /\ UNCHANGED task
    /\ UNCHANGED <<target, OfThisRow, lwstate, history>>

\* upsert_lwstate after the write, and the audit entry.  A delete leaves it alone.
Record(w, i) ==
    /\ At(w, i, "written")
    /\ IF batch[w][i].action = "delete" THEN UNCHANGED <<lwstate, known>>
                                        ELSE SaveLwstate(i, batch[w][i].data)
    /\ Moves(w, i, "ok", 0)
    /\ UNCHANGED <<target, OfThisRow, late, faults, made>>

\* It fails: logged after an update.  After an insert it counts as a failure, but
\* the audit entry is there already, and with it the row ends as "processed".
RecordFails(w, i) ==
    /\ At(w, i, "written") /\ batch[w][i].action # "delete" /\ Fault("lwstate_write")
    /\ Moves(w, i, "ok", 0)
    /\ UNCHANGED <<target, OfThisRow, lwstate, late, history>>

-----------------------------------------------------------------------------
(* The end of the cycle. *)

Ended == {"ok", "failed", "skipped"}

\* _write_feedback: an 'ok' row for every row of the batch.
WriteFeedback(w) ==
    /\ pc[w] = "dispatching"
    /\ \A i \in DOMAIN task[w] : task[w][i].at \in Ended
    /\ okAudit' = okAudit \cup {<<i, batch[w][i].action>> : i \in DOMAIN batch[w]}
    /\ pc' = [pc EXCEPT ![w] = "marking"]
    /\ UNCHANGED <<target, edits, mirror, dst, lwstate, lock, batch, task, late, faults,
                   history>>

StatusOf(at) == IF at = "ok" THEN "processed" ELSE at

\* _update_desired_state_statuses: one transaction per row, by external_id.
MarkRow(w, i) ==
    /\ pc[w] = "marking" /\ i \in DOMAIN task[w]
    /\ dst' = IF dst[i].action = "none" THEN dst
              ELSE [dst EXCEPT ![i].status = StatusOf(task[w][i].at)]
    /\ task' = [task EXCEPT ![w] = [j \in DOMAIN @ \ {i} |-> @[j]]]
    /\ UNCHANGED <<target, edits, mirror, lwstate, okAudit, lock, pc, batch, late, faults,
                   history>>

Leaves(w) ==
    /\ lock' = IF lock = w THEN Nobody ELSE lock
    /\ pc' = [pc EXCEPT ![w] = "idle"]
    /\ batch' = [batch EXCEPT ![w] = Nothing] /\ task' = [task EXCEPT ![w] = Nothing]

Unlock(w) ==
    /\ pc[w] = "marking" /\ task[w] = Nothing
    /\ Leaves(w)
    /\ UNCHANGED <<target, edits, mirror, dst, lwstate, okAudit, late, faults, history>>

\* The process dies, or the cycle raises: requests that were under way stay so, the
\* session's advisory lock is released.
Crash(w) ==
    /\ pc[w] # "idle" /\ Fault("crash")
    /\ Leaves(w)
    /\ late' = late \cup {Request(w, i) : i \in {j \in DOMAIN task[w] : At(w, j, "ready")}}
    /\ UNCHANGED <<target, edits, mirror, dst, lwstate, okAudit, history>>

\* The server ends the idle session that holds the lock; the cycle does not notice.
LoseLock(w) ==
    /\ lock = w /\ Fault("lock_loss")
    /\ lock' = Nobody
    /\ UNCHANGED <<target, edits, mirror, dst, lwstate, okAudit, pc, batch, task, late,
                   history>>

\* A request that its sender gave up arrives, or is lost.
ArrivesLate(r) ==
    /\ r \in late
    /\ late' = late \ {r}
    /\ Performed(r) \/ UNCHANGED target
    /\ UNCHANGED <<edits, mirror, dst, lwstate, okAudit, cycle, faults, history>>

AuditAges(e) ==
    /\ okAudit' = okAudit \ {e}
    /\ UNCHANGED <<target, edits, mirror, dst, lwstate, cycle, late, faults, history>>

\* Housekeeping deletes rows whose _processed_at is past the retention.
Purge(i) ==
    /\ Purges /\ dst[i].action # "none" /\ dst[i].status # "pending"
    /\ dst' = [dst EXCEPT ![i] = NoRow]
    /\ UNCHANGED <<target, edits, mirror, lwstate, okAudit, cycle, late, faults, history>>

-----------------------------------------------------------------------------

Dispatch(w, i) ==
    \/ SendUnread(w, i) \/ Preflight(w, i) \/ Relookup(w, i) \/ Write(w, i) \/ Record(w, i)
Work(w) ==
    \/ StartCycle(w) \/ WriteFeedback(w) \/ Unlock(w)
    \/ \E i \in Ids : Dispatch(w, i) \/ MarkRow(w, i)
Failures(w) ==
    \/ Crash(w) \/ LoseLock(w)
    \/ \E i \in Ids : \/ BreakerRejects(w, i) \/ PreflightFails(w, i)
                      \/ PreflightRaises(w, i) \/ RelookupFails(w, i)
                      \/ WriteTimesOut(w, i) \/ RecordFails(w, i)

Next ==
    \/ \E w \in Workers : Work(w) \/ Failures(w)
    \/ \E i \in Ids : \/ TargetEdited(i) \/ Ingest(i) \/ Recompute(i) \/ Purge(i)
                      \/ \E action \in Actions : Produce(i, action)
    \/ \E r \in late : ArrivesLate(r)
    \/ \E e \in okAudit : AuditAges(e)

Spec == Init /\ [][Next]_vars

\* The loop runs a cycle again and again, every await returns, the hour of an audit
\* row passes and a request does not stay on the wire for ever.
FairSpec ==
    /\ Spec
    /\ \A w \in Workers : WF_vars(Work(w))
    /\ WF_vars(\E r \in late : ArrivesLate(r))
    /\ \A e \in Ids \X Actions : WF_vars(AuditAges(e))

-----------------------------------------------------------------------------
(* Properties. *)

Sent == {"insert", "update", "delete"}
Requests == [id : Ids, action : Sent, data : States, etag : States]
Rows == [action : Sent \cup {"none", "noop"}, data : States, base : States,
         status : {"pending", "processed", "failed", "skipped"}]
Fetched == [action : Sent, data : States, base : States,
            status : {"pending", "processed", "failed", "skipped"}]
Tasks == [at : {"todo", "checked", "ready", "written"} \cup Ended, etag : States]
Partial(S, T) == UNION {[D -> T] : D \in SUBSET S}

\* The CHECK constraints of inout_dst_* hold, and a cycle has a task for a row only
\* while it has the row.
TypeOK ==
    /\ remote \in [Ids -> States] /\ mirror \in [Ids -> States]
    /\ lwstate \in [Ids -> States \cup {Unwritten}]
    /\ edits \in States /\ faults \in 0 .. MaxFaults
    /\ dst \in [Ids -> Rows]
    /\ okAudit \subseteq Ids \X Sent
    /\ lock \in Workers \cup {Nobody}
    /\ pc \in [Workers -> {"idle", "dispatching", "marking"}]
    /\ batch \in [Workers -> Partial(Ids, Fetched)]
    /\ task \in [Workers -> Partial(Ids, Tasks)]
    /\ \A w \in Workers : DOMAIN task[w] \subseteq DOMAIN batch[w]
    /\ late \subseteq Requests
    /\ made \subseteq States
    /\ been \in [Ids -> SUBSET States] /\ known \in [Ids -> SUBSET States]
    /\ created \in [Ids -> 0 .. 2]

ToolWrites(i) == edits' = edits /\ remote'[i] # remote[i]

\* GOAL.md:115 and :170: a write replaces only a state that ingestion has seen or that
\* last-written state records, whatever the target's other actors do between the
\* pre-flight read and the write, and however late the request arrives.
NoBlindOverwrite ==
    [][ \A i \in Ids : (ToolWrites(i) /\ remote[i] # 0) => remote[i] \in known[i] ]_vars

\* GOAL.md:154: a newer state that the MDM asked for and got is not replaced by an
\* older one, whichever instances and requests were still at work for the older one.
NewerNotOverwritten ==
    [][ \A i \in Ids : (ToolWrites(i) /\ remote[i] \in made) => remote'[i] >= remote[i] ]_vars

\* GOAL.md:130: last-written state reflects reality and not intent.  It is a state
\* the record has really been in, {} only if there was no such record.  Refuted with
\* lookup_5xx: a look-up that is answered with an error counts as having seen {}.
LwstateIsReal == \A i \in Ids : lwstate[i] # Unwritten => lwstate[i] \in been[i]

\* Once edits and failures end, every update of a record that still exists reaches
\* the target and stays there, though the audit log has rows of failed attempts as ok
\* (under last_writer_wins, the resolution that lets conflicting writes through).
Delivered ==
    <>[](\A i \in Ids :
            dst[i].action = "update" /\ remote[i] # 0 => remote[i] = dst[i].data)

\* engine.py:438: deduplication filters out rows that were already successfully sent.
DroppedWereSent ==
    [][ lock = Nobody /\ lock' # Nobody =>
          \A i \in Pending \ DOMAIN batch'[lock'] : dst[i].data \in been[i] ]_vars

\* config/writeback.py:107: crash recovery skips already-sent rows.  A row that is
\* skipped although the record's last write went through is the row of that write.
DroppedWereLatest ==
    [][ lock = Nobody /\ lock' # Nobody =>
          \A i \in Pending \ DOMAIN batch'[lock'] :
              lwstate[i] \in made => dst[i].data = lwstate[i] ]_vars

\* GOAL.md:159: skip-and-warn preserves the external actor's change.  A write replaces
\* only what the MDM's input has shown or what the tool itself has written.
ExternalEditsSurvive ==
    [][ \A i \in Ids : (ToolWrites(i) /\ remote[i] # 0) =>
          remote[i] \in made \/ \E w \in Workers :
              i \in DOMAIN batch[w] /\ remote[i] \in {batch[w][i].base, mirror[i]} ]_vars

\* GOAL.md:140: an insert that is retried does not create a second record.
InsertedOnce == \A i \in Ids : created[i] < 2

\* desired_state.py:241: a row marked as processed has been actioned.
ProcessedWereWritten ==
    \A i \in Ids : dst[i].status = "processed" => dst[i].data \in been[i]

\* GOAL.md:129: a row that has not been successfully processed is never deleted.
PurgedWereWritten ==
    [][ \A i \in Ids : dst[i].action # "none" /\ dst'[i].action = "none" =>
          dst[i].data \in been[i] ]_vars
=============================================================================
