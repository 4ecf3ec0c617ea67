------------------------------- MODULE SyncRange -------------------------------
(***************************************************************************)
(* What a sync lists: the part of _do_sync in ingestion/engine.py that       *)
(* decides where a listing starts (watermark or checkpoint) and where it     *)
(* ends (cursor window), page by page or by a bulk export, for one instance, *)
(* while the source changes, syncs fail or crash, and operators clear the    *)
(* watermark.                                                                *)
(*                                                                           *)
(* A record's version is the time of its latest edit, which is its cursor    *)
(* field; 0 is "absent" in the source, "no row" in the table, and None or    *)
(* "no row" as a watermark or a checkpoint.  The API lists by cursor.        *)
(***************************************************************************)
EXTENDS Integers, FiniteSets

CONSTANTS
    Ids,              \* external records
    Start, Horizon,   \* first and last time (bound)
    Window,           \* incremental.cursor_window (with an until_param), 0 for none
    CheckpointEvery,  \* checkpoint_every_n_pages, 0 when not configured
    PageSize,
    Textual,          \* the cursor is a number, compared as text
    Bulk, MaxPolls,   \* list.bulk_export; max_wait in poll intervals
    MaxMishaps        \* failed and crashed syncs and cleared watermarks (bound)

SyncRangeAssumption ==
    /\ IsFiniteSet(Ids)
    /\ Start \in Nat \ {0} /\ Horizon \in Nat /\ Start <= Horizon
    /\ Window \in Nat /\ CheckpointEvery \in Nat /\ PageSize \in Nat \ {0}
    /\ {Textual, Bulk} \subseteq BOOLEAN /\ MaxPolls \in Nat \ {0}
    /\ MaxMishaps \in Nat

VARIABLES
    src, now,    \* the source: id |-> version; the time
    stored,      \* inout_src_*: id |-> version of its row
    watermark,   \* inout_ops_watermark
    checkpoint,  \* cursor_value in the checkpoint row of the present run
    orphan,      \* the same of a run that crashed and is still 'running'
    job,         \* the export job this run waits for, at the source
    pc, run,     \* where _do_sync is, and its local variables
    mishaps

source == <<src, now>>
ops == <<stored, watermark, checkpoint, orphan>>
vars == <<source, ops, job, pc, run, mishaps>>

Nothing == [i \in {} |-> 0]
Idle == [upper |-> 0, pos |-> 0, newWm |-> 0, page |-> Nothing, pages |-> 0,
         more |-> FALSE, polls |-> 0]
NoJob == [status |-> "none", rows |-> Nothing]
Earlier(a, b) == IF a <= b THEN a ELSE b

Init ==
    /\ src = [i \in Ids |-> 0] /\ now = Start /\ job = NoJob
    /\ stored = [i \in Ids |-> 0]
    /\ watermark = 0 /\ checkpoint = 0 /\ orphan = 0
    /\ pc = "idle" /\ run = Idle /\ mishaps = 0

-----------------------------------------------------------------------------
(* The source. *)

Tick ==
    /\ now < Horizon
    /\ now' = now + 1
    /\ UNCHANGED <<src, job, ops, pc, run, mishaps>>

SourceWrites(i) ==
    /\ now < Horizon
    /\ now' = now + 1
    /\ src' = [src EXCEPT ![i] = now']
    /\ UNCHANGED <<job, ops, pc, run, mishaps>>

SourceDeletes(i) ==
    /\ src[i] # 0
    /\ src' = [src EXCEPT ![i] = 0]
    /\ UNCHANGED <<now, job, ops, pc, run, mishaps>>

\* The source does what it was asked to, and keeps the result.
Present == {i \in Ids : src[i] # 0}
ExportRuns ==
    /\ job.status = "queued"
    /\ job' = [status |-> "complete", rows |-> [i \in Present |-> src[i]]]
    /\ UNCHANGED <<src, now, ops, pc, run, mishaps>>

\* The records a request of this run can still see, and a first page of them.
Remaining ==
    {i \in Ids : src[i] > run.pos /\ (run.upper = 0 \/ src[i] <= run.upper)}
IsPage(p, rest) ==
    /\ Cardinality(p) = Earlier(PageSize, Cardinality(rest))
    /\ \A i \in p, j \in rest \ p : src[i] < src[j]
LastOf(p) == CHOOSE v \in {src[i] : i \in p} : \A i \in p : src[i] <= v

-----------------------------------------------------------------------------
(* _do_sync. *)

\* Slip: the window ends past the present.
WindowEndUnclamped(wm) == wm + Window
WindowEnd(wm) == Earlier(wm + Window, now)

\* A checkpoint of a crashed run replaces the watermark, once.
StartsAt == IF CheckpointEvery > 0 /\ orphan # 0 THEN orphan ELSE watermark

\* page_number, as far as page_number % checkpoint_n tells it.
PageAfter(n) == IF CheckpointEvery = 0 THEN 0 ELSE (n + 1) % CheckpointEvery

Begin ==
    /\ pc = "idle"
    /\ run' = [Idle EXCEPT !.pos = StartsAt,
                           !.upper = IF Window > 0 /\ watermark # 0
                                     THEN WindowEnd(watermark) ELSE 0]
    /\ orphan' = IF CheckpointEvery > 0 THEN 0 ELSE orphan
    /\ pc' = IF Bulk /\ StartsAt = 0 THEN "submit" ELSE "fetch"
    /\ UNCHANGED <<source, job, stored, watermark, checkpoint, mishaps>>

\* run_bulk_export: the job is kept under the run's own new id, so that every
\* run finds none and submits one.
SubmitJob ==
    /\ pc = "submit"
    /\ job' = [NoJob EXCEPT !.status = "queued"]
    /\ pc' = "poll"
    /\ UNCHANGED <<src, now, ops, run, mishaps>>

\* The last poll finds the job done, or the run fails.
PollJob ==
    /\ pc = "poll"
    /\ \/ job.status = "complete" /\ pc' = "download" /\ UNCHANGED run
       \/ /\ job.status = "queued" /\ run.polls + 1 < MaxPolls
          /\ run' = [run EXCEPT !.polls = @ + 1]
          /\ UNCHANGED pc
    /\ UNCHANGED <<source, ops, job, mishaps>>

\* All of the export is one page.
Download ==
    /\ pc = "download"
    /\ run' = [run EXCEPT !.page = job.rows, !.pages = PageAfter(0)]
    /\ pc' = IF DOMAIN job.rows = {} THEN "end" ELSE "commit"
    /\ UNCHANGED <<source, ops, job, mishaps>>

\* One request.  An empty page is passed over and ends the listing: the run
\* completes with nothing written.
Fetch ==
    /\ pc = "fetch"
    /\ \E p \in SUBSET Remaining :
          /\ IsPage(p, Remaining)
          /\ run' = [run EXCEPT !.page = [i \in p |-> src[i]],
                                !.pos = IF p = {} THEN @ ELSE LastOf(p),
                                !.pages = PageAfter(@),
                                !.more = Remaining \ p # {}]
          /\ pc' = IF p = {} THEN "end" ELSE "commit"
    /\ UNCHANGED <<source, ops, job, mishaps>>

\* Cursors below 100 in the order of their decimal text: "9" is after "10".
Key(v) == IF Textual THEN (IF v < 10 THEN 100 * v ELSE 10 * v + 1) ELSE v
IsLargest(v, V) == v \in V /\ \A u \in V : Key(u) <= Key(v)
Cursors == {run.page[i] : i \in DOMAIN run.page}
                \cup (IF run.newWm = 0 THEN {} ELSE {run.newWm})

\* Slip: the time of the page, whatever it holds.
EffectiveNow(newWm) == now
\* The end of the window, when there is one, from the first page on.
Effective(newWm) == IF run.upper # 0 THEN run.upper ELSE newWm

SetWatermark(value) == watermark' = value

\* The page's transaction: rows and watermark.
Commit ==
    /\ pc = "commit"
    /\ stored' = [i \in Ids |-> IF i \in DOMAIN run.page THEN run.page[i] ELSE stored[i]]
    /\ \E newWm \in Cursors :
          /\ IsLargest(newWm, Cursors)
          /\ SetWatermark(Effective(newWm))
          /\ run' = [run EXCEPT !.newWm = newWm]
    /\ pc' = IF CheckpointEvery > 0 /\ run.pages = 0 THEN "checkpoint"
             ELSE IF run.more THEN "fetch" ELSE "end"
    /\ UNCHANGED <<source, job, checkpoint, orphan, mishaps>>

\* In a transaction of its own, whose failure is passed over.  The row of an
\* export names no connector, and is found by nobody.
SaveCheckpoint ==
    /\ pc = "checkpoint"
    /\ checkpoint' \in {checkpoint} \cup IF job = NoJob THEN {run.newWm} ELSE {}
    /\ pc' = IF run.more THEN "fetch" ELSE "end"
    /\ UNCHANGED <<source, job, stored, watermark, orphan, run, mishaps>>

\* The run's row leaves 'running': nothing looks at its checkpoint any more.
Leave == pc' = "idle" /\ run' = Idle /\ checkpoint' = 0 /\ job' = NoJob

Finish ==
    /\ pc = "end"
    /\ Leave
    /\ UNCHANGED <<source, stored, watermark, orphan, mishaps>>

\* A request or a transaction raises: status 'failed'.
Fail ==
    /\ pc # "idle" /\ mishaps < MaxMishaps
    /\ Leave
    /\ mishaps' = mishaps + 1
    /\ UNCHANGED <<source, stored, watermark, orphan>>

\* The process dies: the row stays 'running'.
Crash ==
    /\ pc # "idle" /\ mishaps < MaxMishaps
    /\ Leave
    /\ orphan' = IF checkpoint # 0 THEN checkpoint ELSE orphan
    /\ mishaps' = mishaps + 1
    /\ UNCHANGED <<source, stored, watermark>>

\* _cmd_force_full_sync, at any time.
ResetWatermark ==
    /\ mishaps < MaxMishaps
    /\ watermark' = 0
    /\ mishaps' = mishaps + 1
    /\ UNCHANGED <<source, job, stored, checkpoint, orphan, pc, run>>

Sync ==
    \/ Begin \/ SubmitJob \/ PollJob \/ Download \/ Fetch
    \/ Commit \/ SaveCheckpoint \/ Finish
Next ==
    \/ Tick \/ ExportRuns
    \/ \E i \in Ids : SourceWrites(i) \/ SourceDeletes(i)
    \/ Sync \/ Fail \/ Crash \/ ResetWatermark

Spec == Init /\ [][Next]_vars
\* The polling loop syncs again and again; the source does its jobs.
FairSpec == Spec /\ WF_vars(Sync) /\ WF_vars(ExportRuns)

-----------------------------------------------------------------------------
(* Properties. *)

\* The next listing leaves out nothing that is not stored (a window's watermark
\* is set by the first of its pages, so that this is about its last).
PassedIsStored ==
    run.upper = 0 \/ pc = "idle" =>
        \A i \in Ids : src[i] # 0 /\ src[i] <= StartsAt => stored[i] = src[i]

\* Once the source is quiet, everything in it is stored.
CaughtUp == \A i \in Ids : src[i] # 0 => stored[i] = src[i]
CatchesUp == <>[]CaughtUp
=============================================================================
