------------------------------- MODULE Ingestion -------------------------------
(***************************************************************************)
(* The sync engine of ingestion/engine.py for one (connector, datatype):    *)
(* run_sync and its lock, the page walk of _do_sync, the upsert, the        *)
(* watermark, drift protection and the tombstone pass, run by several       *)
(* instances against one source table, while the external system changes    *)
(* its records and webhooks deliver them out of band.                       *)
(*                                                                          *)
(* A record version is the number of the edit that made it.  It stands for  *)
(* the record's payload, for the payload's hash and for the cursor field    *)
(* (updated_at) at once: the field is part of what is hashed, so that two   *)
(* payloads of one hash have one cursor.  0 is "absent" in the source, "no  *)
(* row" as a hash, the empty payload '{}' as data, and None as a watermark. *)
(* Steps are the code's transactions and the HTTP calls between them.       *)
(***************************************************************************)
EXTENDS Integers, FiniteSets

CONSTANTS
    Workers,         \* ingestion instances that may sync this datatype
    Records,         \* external records, numbered in the API's default order
    MaxEdits,        \* edits of the source (bound)
    MaxStops,        \* syncs that raise or crash (bound)
    PageSize,
    Paging,          \* "offset", "keyset" or "snapshot" (a frozen result set)
    SortedByCursor,  \* the API lists by cursor field, not by id
    Incremental,     \* list.incremental with a cursor_field is configured
    VerifyDeletion,  \* verify_deletion with a detail_path
    Webhooks,        \* the source also pushes full payloads
    Returns,         \* a deleted record may come back unchanged, cursor included
    Rejected         \* versions that fail the quality rules

IngestionAssumption ==
    /\ Records \in Nat /\ MaxEdits \in Nat /\ MaxStops \in Nat
    /\ PageSize \in Nat \ {0}
    /\ Paging \in {"offset", "keyset", "snapshot"}
    /\ {SortedByCursor, Incremental, VerifyDeletion, Webhooks, Returns} \subseteq BOOLEAN
    /\ Rejected \subseteq Nat

VARIABLES
    src,        \* external system: id |-> current version
    latest,     \* id |-> the version it has now or had when it was deleted
    edits,      \* edits made so far
    returned,   \* history: versions that came back after a deletion
    events,     \* webhook payloads <<id, version>> not yet delivered
    table,      \* inout_src_*: id |-> [hash, data, deleted]
    watermark,  \* inout_ops_watermark
    deadLetter, \* versions written to the dead-letter table
    lastCount,  \* records_fetched of the latest completed sync run
    rowLock,    \* holder of the row lock on inout_ops_sync_lock
    pc, run,    \* each instance's position in run_sync and its local state
    cand,       \* missing ids it has still to verify
    confirmed,  \* missing ids it will tombstone
    ended,      \* status of the sync run that ended last
    stops,      \* syncs stopped so far
    absent      \* history: ids absent from the source at some time in its walk

source == <<src, latest, edits, returned>>
store == <<table, watermark, deadLetter, lastCount>>
deletion == <<cand, confirmed>>
vars == <<src, latest, edits, returned, events, table, watermark, deadLetter, lastCount,
          rowLock, pc, run, cand, confirmed, ended, stops, absent>>

Ids == 1 .. Records
Versions == 0 .. (Records + MaxEdits)
Nobody == "nobody"
NoRow == [hash |-> 0, data |-> 0, deleted |-> FALSE]
Nothing == [i \in {} |-> 0]
Larger(a, b) == IF a >= b THEN a ELSE b

\* The local variables of run_sync and _do_sync before the first page.
FreshRun(wm) ==
    [wm |-> wm, prev |-> 0, pos |-> 0, more |-> TRUE, view |-> Nothing,
     page |-> Nothing, seen |-> {}, newWm |-> 0, fetched |-> 0,
     status |-> "running"]

Live == {i \in Ids : table[i].hash # 0 /\ ~table[i].deleted}

Init ==
    /\ src = [i \in Ids |-> i] /\ latest = src
    /\ edits = Records /\ returned = {}
    /\ events = {}
    /\ table = [i \in Ids |-> NoRow]
    /\ watermark = 0 /\ deadLetter = {} /\ lastCount = 0
    /\ rowLock = Nobody
    /\ pc = [w \in Workers |-> "idle"]
    /\ run = [w \in Workers |-> FreshRun(0)]
    /\ cand = [w \in Workers |-> {}] /\ confirmed = [w \in Workers |-> {}]
    /\ ended = "none" /\ stops = 0
    /\ absent = [w \in Workers |-> {}]

-----------------------------------------------------------------------------
(* The external system: lists, and changes under the engine's feet. *)

\* A GET of page pos of the records changed after wm, from the state v.
ListKey(v, i) == IF SortedByCursor THEN v[i] ELSE i
Listing(v, wm) == {i \in Ids : v[i] > wm}
Remaining(v, wm, pos) ==
    IF Paging = "keyset" THEN {i \in Listing(v, wm) : ListKey(v, i) > pos}
                         ELSE Listing(v, wm)
ListPage(v, wm, pos) ==
    LET rest == Remaining(v, wm, pos)
        skip == IF Paging = "keyset" THEN 0 ELSE pos
        rank(i) == Cardinality({j \in rest : ListKey(v, j) < ListKey(v, i)})
    IN  {i \in rest : skip <= rank(i) /\ rank(i) < skip + PageSize}

\* Where the next request starts (offset += len(records), or next_cursor), and
\* whether there is one: a short page or a missing next_cursor ends the walk.
NextPos(v, pos, page) ==
    IF Paging = "keyset"
    THEN IF page = {} THEN pos
         ELSE CHOOSE k \in {ListKey(v, i) : i \in page} :
                  \A i \in page : ListKey(v, i) <= k
    ELSE pos + Cardinality(page)
HasNext(v, wm, pos, page) ==
    IF Paging = "keyset" THEN page # {} /\ Remaining(v, wm, NextPos(v, pos, page)) # {}
                         ELSE Cardinality(page) = PageSize

Notifies(i, v) == events' = IF Webhooks THEN events \cup {<<i, v>>} ELSE events

\* A record gets a new payload, or is created anew.
SourceWrites(i) ==
    /\ edits < Records + MaxEdits
    /\ edits' = edits + 1
    /\ src' = [src EXCEPT ![i] = edits']
    /\ latest' = [latest EXCEPT ![i] = edits']
    /\ Notifies(i, edits')
    /\ UNCHANGED <<returned, store, rowLock, pc, run, deletion, ended, stops, absent>>

\* A deleted record comes back as it was: restored, or visible again.
SourceRestores(i) ==
    /\ Returns /\ edits < Records + MaxEdits
    /\ src[i] = 0
    /\ edits' = edits + 1
    /\ src' = [src EXCEPT ![i] = latest[i]]
    /\ returned' = returned \cup {latest[i]}
    /\ Notifies(i, latest[i])
    /\ UNCHANGED <<latest, store, rowLock, pc, run, deletion, ended, stops, absent>>

SourceDeletes(i) ==
    /\ edits < Records + MaxEdits
    /\ src[i] # 0
    /\ edits' = edits + 1
    /\ src' = [src EXCEPT ![i] = 0]
    /\ absent' = [w \in Workers |->
                    IF pc[w] = "idle" THEN absent[w] ELSE absent[w] \cup {i}]
    /\ UNCHANGED <<latest, returned, events, store, rowLock, pc, run, deletion, ended, stops>>

-----------------------------------------------------------------------------
(* _upsert_record. *)

\* Slip: resurrection forgets the deletion flags.
UpsertedKeepingFlags(row, v) ==
    IF row.hash # v THEN [row EXCEPT !.hash = v, !.data = v] ELSE row

\* A changed hash rewrites the row; the same hash only clears a tombstone, whose row
\* keeps the emptied payload.
Upserted(row, v) ==
    IF row.hash # v THEN [hash |-> v, data |-> v, deleted |-> FALSE]
                    ELSE [row EXCEPT !.deleted = FALSE]

\* A full-payload webhook is handled: handle_webhook's direct upsert.
DeliverWebhook(e) ==
    /\ e \in events
    /\ events' = events \ {e}
    /\ table' = [table EXCEPT ![e[1]] = Upserted(@, e[2])]
    /\ UNCHANGED <<source, watermark, deadLetter, lastCount, rowLock, pc, run,
                   deletion, ended, stops, absent>>

-----------------------------------------------------------------------------
(* run_sync: the watermark is read first, then the lock is taken. *)

Begin(w) ==
    /\ pc[w] = "idle"
    /\ pc' = [pc EXCEPT ![w] = "started"]
    /\ run' = [run EXCEPT ![w] = FreshRun(watermark)]
    /\ absent' = [absent EXCEPT ![w] = {i \in Ids : src[i] = 0}]
    /\ UNCHANGED <<source, events, store, rowLock, deletion, ended, stops>>

\* SELECT ... FOR UPDATE SKIP LOCKED returns the row.
TryLock(w) ==
    /\ pc[w] = "started" /\ rowLock = Nobody
    /\ rowLock' = w
    /\ pc' = [pc EXCEPT ![w] = "locked"]
    /\ UNCHANGED <<source, events, store, run, deletion, ended, stops, absent>>

\* It returns nothing: the run row is marked 'skipped'.
SkipRun(w) ==
    /\ pc[w] = "started" /\ rowLock # Nobody
    /\ ended' = "skipped"
    /\ pc' = [pc EXCEPT ![w] = "idle"]
    /\ run' = [run EXCEPT ![w] = FreshRun(0)]
    /\ absent' = [absent EXCEPT ![w] = {}]
    /\ UNCHANGED <<source, events, store, rowLock, deletion, stops>>

\* locked_until and locked_by are stamped and committed: the commit ends the
\* transaction that held the row lock.  Nothing reads the two columns before a
\* later SELECT ... FOR UPDATE, so they are not part of the state.
StampLock(w) ==
    /\ pc[w] = "locked"
    /\ rowLock' = Nobody
    /\ pc' = [pc EXCEPT ![w] = "opening"]
    /\ run' = [run EXCEPT ![w].prev = lastCount]
    /\ UNCHANGED <<source, events, store, deletion, ended, stops, absent>>

-----------------------------------------------------------------------------
(* _do_sync: the page walk. *)

FetchPage(w) ==
    /\ pc[w] \in {"opening", "paging"}
    /\ LET r == run[w]
           v == IF Paging = "snapshot" /\ pc[w] = "paging" THEN r.view ELSE src
           page == ListPage(v, r.wm, r.pos)
       IN  run' = [run EXCEPT ![w] =
                     [r EXCEPT !.view = IF Paging = "snapshot" THEN v ELSE Nothing,
                               !.page = [i \in page |-> v[i]],
                               !.pos = NextPos(v, r.pos, page),
                               !.more = HasNext(v, r.wm, r.pos, page)]]
    /\ pc' = [pc EXCEPT ![w] = "fetched"]
    /\ UNCHANGED <<source, events, store, rowLock, deletion, ended, stops, absent>>

\* The page's records: those the quality rules reject go to the dead-letter table,
\* those this run has already written are skipped, the others are upserted.
PageRejects(r) == {i \in DOMAIN r.page : r.page[i] \in Rejected}
PageDuplicates(r) == (DOMAIN r.page \ PageRejects(r)) \cap r.seen
PageWrites(r) == (DOMAIN r.page \ PageRejects(r)) \ r.seen

\* new_watermark: the largest cursor value this run has written.
MaxCursor(r) ==
    CHOOSE m \in {r.newWm} \cup {r.page[i] : i \in PageWrites(r)} :
        \A i \in PageWrites(r) : m >= r.page[i] /\ m >= r.newWm

\* Slip: a rejected record is dropped without a dead letter.
DeadLettersNone(r) == {}

DeadLetters(r) == {r.page[i] : i \in PageRejects(r)}

\* records_fetched: the page's records, less the duplicates.
Fetched(r) ==
    r.fetched + Cardinality(DOMAIN r.page) - Cardinality(PageDuplicates(r))

\* One transaction: dead letters, rows and watermark.
CommitPage(w) ==
    /\ pc[w] = "fetched"
    /\ LET r == run[w]
           top == MaxCursor(r)
       IN  /\ table' = [i \in Ids |-> IF i \in PageWrites(r)
                                      THEN Upserted(table[i], r.page[i]) ELSE table[i]]
           /\ deadLetter' = deadLetter \cup DeadLetters(r)
           /\ watermark' = IF Incremental /\ top # 0 THEN top ELSE watermark
           /\ run' = [run EXCEPT ![w] =
                        [r EXCEPT !.page = Nothing,
                                  !.seen = @ \cup PageWrites(r),
                                  !.newWm = IF Incremental THEN top ELSE 0,
                                  !.fetched = Fetched(r)]]
           /\ pc' = [pc EXCEPT ![w] = IF r.more THEN "paging" ELSE "walked"]
    /\ UNCHANGED <<source, events, lastCount, rowLock, deletion, ended, stops, absent>>

-----------------------------------------------------------------------------
(* _do_sync: what follows the walk. *)

\* The walk of a full sync returned less than half of the last completed run's count.
Drifted(r) == r.wm = 0 /\ r.prev > 0 /\ 2 * r.fetched < r.prev

EndRun(w, status) ==
    /\ pc' = [pc EXCEPT ![w] = "finishing"]
    /\ run' = [run EXCEPT ![w].status = status]

AbortOnDrift(w) ==
    /\ pc[w] = "walked" /\ Drifted(run[w])
    /\ EndRun(w, "aborted")
    /\ UNCHANGED <<source, events, store, rowLock, deletion, ended, stops, absent>>

Missing(w) == Live \ run[w].seen

\* A tombstone pass follows: a full sync that saw something, with missing rows that
\* are no more than half of the live ones.
TombstonePass(w) ==
    /\ run[w].wm = 0 /\ run[w].seen # {}
    /\ Missing(w) # {}
    /\ 2 * Cardinality(Missing(w)) <= Cardinality(Live)

CompleteWalk(w) ==
    /\ pc[w] = "walked" /\ ~Drifted(run[w]) /\ ~TombstonePass(w)
    /\ EndRun(w, "completed")
    /\ UNCHANGED <<source, events, store, rowLock, deletion, ended, stops, absent>>

SelectMissing(w) ==
    /\ pc[w] = "walked" /\ ~Drifted(run[w]) /\ TombstonePass(w)
    /\ pc' = [pc EXCEPT ![w] = "verifying"]
    /\ cand' = [cand EXCEPT ![w] = IF VerifyDeletion THEN Missing(w) ELSE {}]
    /\ confirmed' = [confirmed EXCEPT ![w] = IF VerifyDeletion THEN {} ELSE Missing(w)]
    /\ UNCHANGED <<source, events, store, rowLock, run, ended, stops, absent>>

\* Slip: an error of the verification request counts as "not found".
VerifyMissingOptimistic(w) ==
    /\ pc[w] = "verifying"
    /\ \E i \in cand[w] :
          /\ cand' = [cand EXCEPT ![w] = @ \ {i}]
          /\ confirmed' = [confirmed EXCEPT ![w] = @ \cup {i}]
    /\ UNCHANGED <<source, events, store, rowLock, pc, run, ended, stops, absent>>

\* GET detail_path of one missing id: a 404 confirms it; an answer or an error does not.
VerifyMissing(w) ==
    /\ pc[w] = "verifying"
    /\ \E i \in cand[w], reached \in BOOLEAN :
          /\ cand' = [cand EXCEPT ![w] = @ \ {i}]
          /\ confirmed' = [confirmed EXCEPT ![w] =
                             IF reached /\ src[i] = 0 THEN @ \cup {i} ELSE @]
    /\ UNCHANGED <<source, events, store, rowLock, pc, run, ended, stops, absent>>

\* Flags set and payload emptied, of the rows that are still live; the hash stays.
Tombstone(w) ==
    /\ pc[w] = "verifying" /\ cand[w] = {}
    /\ table' = [i \in Ids |-> IF i \in confirmed[w] \cap Live
                               THEN [table[i] EXCEPT !.data = 0, !.deleted = TRUE]
                               ELSE table[i]]
    /\ confirmed' = [confirmed EXCEPT ![w] = {}]
    /\ EndRun(w, "completed")
    /\ UNCHANGED <<source, events, watermark, deadLetter, lastCount, rowLock, cand,
                   ended, stops, absent>>

\* run_sync's finally: the run row gets its status and counts.
Finish(w) ==
    /\ pc[w] = "finishing"
    /\ ended' = run[w].status
    /\ lastCount' = IF run[w].status = "completed" THEN run[w].fetched ELSE lastCount
    /\ pc' = [pc EXCEPT ![w] = "idle"]
    /\ run' = [run EXCEPT ![w] = FreshRun(0)]
    /\ absent' = [absent EXCEPT ![w] = {}]
    /\ UNCHANGED <<source, events, table, watermark, deadLetter, rowLock, deletion, stops>>

\* The sync raises, or its process dies: what was committed stays.
Stop(w) ==
    /\ pc[w] # "idle" /\ stops < MaxStops
    /\ stops' = stops + 1
    /\ rowLock' = IF rowLock = w THEN Nobody ELSE rowLock
    /\ ended' = "failed"
    /\ pc' = [pc EXCEPT ![w] = "idle"]
    /\ run' = [run EXCEPT ![w] = FreshRun(0)]
    /\ cand' = [cand EXCEPT ![w] = {}] /\ confirmed' = [confirmed EXCEPT ![w] = {}]
    /\ absent' = [absent EXCEPT ![w] = {}]
    /\ UNCHANGED <<source, events, store>>

\* The reset-watermark and force_full_sync commands.
ResetWatermark ==
    /\ watermark # 0
    /\ watermark' = 0
    /\ UNCHANGED <<source, events, table, deadLetter, lastCount, rowLock, pc, run,
                   deletion, ended, stops, absent>>

-----------------------------------------------------------------------------

Work(w) ==
    \/ Begin(w) \/ TryLock(w) \/ SkipRun(w) \/ StampLock(w)
    \/ FetchPage(w) \/ CommitPage(w)
    \/ AbortOnDrift(w) \/ CompleteWalk(w) \/ SelectMissing(w)
    \/ VerifyMissing(w) \/ Tombstone(w) \/ Finish(w)

Next ==
    \/ \E w \in Workers : Work(w) \/ Stop(w)
    \/ \E i \in Ids : SourceWrites(i) \/ SourceRestores(i) \/ SourceDeletes(i)
    \/ \E e \in events : DeliverWebhook(e)
    \/ ResetWatermark

Spec == Init /\ [][Next]_vars

\* Polling loops never end, and an HTTP call or a transaction always returns.
FairSpec == Spec /\ \A w \in Workers : WF_vars(Work(w))
-----------------------------------------------------------------------------
(* Properties. *)

Positions == {"idle", "started", "locked", "opening", "fetched", "paging", "walked",
              "verifying", "finishing"}

Pages == UNION {[S -> Versions] : S \in SUBSET Ids}
Runs == [wm : Versions, prev : Nat, pos : Nat, more : BOOLEAN, view : Pages,
         page : Pages, seen : SUBSET Ids, newWm : Versions, fetched : Nat,
         status : {"running", "aborted", "completed"}]

\* Every count of a run stays a natural number and every cursor a known version.
TypeOK ==
    /\ {src, latest} \subseteq [Ids -> Versions]
    /\ edits \in Versions /\ returned \subseteq Versions
    /\ events \subseteq Ids \X Versions
    /\ table \in [Ids -> [hash : Versions, data : Versions, deleted : BOOLEAN]]
    /\ watermark \in Versions /\ deadLetter \subseteq Versions
    /\ lastCount \in Nat /\ stops \in 0 .. MaxStops
    /\ rowLock \in Workers \cup {Nobody}
    /\ pc \in [Workers -> Positions]
    /\ run \in [Workers -> Runs]
    /\ {cand, confirmed, absent} \subseteq [Workers -> SUBSET Ids]
    /\ ended \in {"none", "skipped", "aborted", "completed", "failed"}

\* GOAL.md:91: the watermark is never ahead of the data written.  A record whose
\* current version lies at or below the watermark, and so will not be listed again,
\* has that version in its row or in the dead-letter table.
WatermarkCovers ==
    \A i \in Ids : src[i] \in 1 .. watermark =>
        table[i].hash = src[i] \/ src[i] \in deadLetter

\* GOAL.md:87: at most one instance is inside _do_sync at any time.
MutualExclusion ==
    \A w, x \in Workers :
        (pc[w] \notin {"idle", "started"} /\ pc[x] \notin {"idle", "started"}) => w = x

\* GOAL.md:92: a record that is active again has its payload.  Refuted: a record that
\* comes back unchanged is revived with the payload its tombstone has emptied.
LiveRowsHaveData == \A i \in Live : table[i].data = table[i].hash

\* engine.py:1866: nothing else leaves a live row empty.  Whatever vanishes and returns
\* between the pages, the verification and the tombstone, a row that is not flagged as
\* deleted carries the payload its hash says, unless just this version came back.
OnlyReturnsAreEmpty ==
    \A i \in Live : \/ table[i].data = table[i].hash
                    \/ table[i].data = 0 /\ table[i].hash \in returned

\* GOAL.md:56: only what is truly gone is tombstoned.  The instance that tombstones a
\* row began its sync when the record was absent from the source, or saw it vanish.
TombstonedWasAbsent ==
    [][ \A i \in Live : table'[i].deleted =>
          \E w \in Workers : pc[w] = "verifying" /\ i \in absent[w] ]_vars

\* Once the source is quiet every acceptable record it holds reaches the table, alive
\* and with its current hash, whatever crashed or was reset on the way; and with its
\* current payload, unless it has come back unchanged (LiveRowsHaveData).
Converges ==
    <>[](\A i \in Ids : src[i] \notin Rejected \cup {0} =>
            /\ table[i].hash = src[i] /\ ~table[i].deleted
            /\ src[i] \notin returned => table[i].data = src[i])

\* GOAL.md:64: a drift alarm halts a sync until an operator has looked; it does not
\* halt all syncs for ever.
SyncsComplete == []<>(ended = "completed")
=============================================================================
