---------------------------- MODULE SyncRangeProofs ----------------------------
(* What SyncRange keeps true for any number of records, any times, page sizes,    *)
(* checkpoints and export jobs: the next listing starts where everything before   *)
(* is stored, although cursors may be compared as text and syncs may die anywhere. *)
EXTENDS MCStores, NaturalFacts, FiniteSetTheorems, TLAPS

(* What a listing start of x leaves out is stored. *)
Covered(x) == \A i \in Ids : src[i] \in 1 .. x => stored[i] = src[i]

\* The cursors a later sync may start from, and where the present one stands.
Marks == {watermark, orphan, checkpoint, run.pos, run.newWm, run.upper}
Values(f) == {f[i] : i \in DOMAIN f}

\* Record i has been edited since the cursors V were listed.
Later(i, V) == \A x \in Marks \cup V : src[i] > x

Pages == UNION {[S -> 1 .. Horizon] : S \in SUBSET Ids}
Runs == [upper : Nat, pos : Nat, newWm : Nat, page : Pages, pages : Nat, more : BOOLEAN,
         polls : Nat]
TypeInv ==
    /\ now \in 0 .. Horizon /\ src \in [Ids -> 0 .. Horizon] /\ stored \in [Ids -> Nat]
    /\ {watermark, orphan, checkpoint, mishaps} \subseteq Nat
    /\ job \in [status : {"none", "queued", "complete"}, rows : Pages]
    /\ pc \in {"idle", "submit", "poll", "download", "fetch", "commit", "checkpoint", "end"}
    /\ run \in Runs
    /\ (Window = 0 => run.upper = 0)
    /\ pc \in {"idle", "submit"} => job = Ranges!NoJob

(* The position after a page is the largest cursor on it. *)
LEMMA LastIsListed ==
  ASSUME Horizon \in Nat, NEW p, p # {}, \A i \in p : src[i] \in 1 .. Horizon
  PROVE  /\ \E i \in p : Ranges!LastOf(p) = src[i]
         /\ \A i \in p : src[i] <= Ranges!LastOf(p)
         /\ Ranges!LastOf(p) \in Nat
<1> DEFINE cursors == {src[i] : i \in p}
           Bounds(v) == \A i \in p : src[i] <= v
<1>1. cursors \subseteq 0 .. Horizon /\ cursors # {}
  OBVIOUS
<1>2. \E m \in cursors : \A k \in cursors : m >= k
  <2> HIDE DEF cursors
  <2> QED BY <1>1, GreatestNatural
<1>3. \E v \in cursors : Bounds(v)
  BY <1>2
<1>4. (CHOOSE v \in cursors : Bounds(v)) \in cursors /\ Bounds(CHOOSE v \in cursors : Bounds(v))
  <2> HIDE DEF cursors, Bounds
  <2> QED BY <1>3
<1>5. Ranges!LastOf(p) = CHOOSE v \in cursors : Bounds(v)
  BY DEF Ranges!LastOf
<1>6. Ranges!LastOf(p) \in cursors /\ Bounds(Ranges!LastOf(p))
  <2> HIDE DEF cursors, Bounds
  <2> QED BY <1>4, <1>5
<1> QED BY <1>6

(* The module's own instance of FiniteSets. *)
LEMMA SameCounting ==
  \A S : Ranges!Cardinality(S) = Cardinality(S) /\ Ranges!IsFiniteSet(S) = IsFiniteSet(S)
<1>1. ASSUME NEW S PROVE Ranges!Cardinality(S) = Cardinality(S)
  BY Zenon DEF Ranges!Cardinality, Cardinality
<1>2. ASSUME NEW S PROVE Ranges!IsFiniteSet(S) = IsFiniteSet(S)
  BY Zenon DEF Ranges!IsFiniteSet, IsFiniteSet
<1> QED BY <1>1, <1>2

(* Only the end of the listing is an empty page. *)
LEMMA EmptyPage ==
  ASSUME Ranges!SyncRangeAssumption, Ranges!IsPage({}, Ranges!Remaining)
  PROVE  Ranges!Remaining = {}
<1>1. IsFiniteSet(Ranges!Remaining)
  BY SameCounting, FS_Subset DEF Ranges!Remaining, Ranges!SyncRangeAssumption
<1>2. Cardinality({}) = Ranges!Earlier(PageSize, Cardinality(Ranges!Remaining))
  BY SameCounting DEF Ranges!IsPage
<1>3. Cardinality({}) = 0 /\ Cardinality(Ranges!Remaining) \in Nat
  BY <1>1, FS_EmptySet, FS_CardinalityType
<1>4. Cardinality(Ranges!Remaining) = 0
  BY <1>2, <1>3 DEF Ranges!Earlier, Ranges!SyncRangeAssumption
<1> QED BY <1>1, <1>4, FS_EmptySet

LEMMA TypeInit ==
  ASSUME Ranges!SyncRangeAssumption
  PROVE  Ranges!Init => TypeInv
<1> SUFFICES ASSUME Ranges!SyncRangeAssumption, Ranges!Init PROVE TypeInv
  OBVIOUS
<1>1. Ranges!Nothing \in Pages
  <2>1. Ranges!Nothing \in [{} -> 1 .. Horizon]
    BY DEF Ranges!Nothing
  <2> QED BY <2>1 DEF Pages
<1> QED BY <1>1 DEF Ranges!SyncRangeAssumption, Ranges!Init, TypeInv, Ranges!Idle, Ranges!NoJob, Runs

(* A step of the engine or of the source keeps the types. *)
LEMMA TypeStep ==
  ASSUME Ranges!SyncRangeAssumption
  PROVE  TypeInv /\ [Ranges!Next]_Ranges!vars => TypeInv'
<1> SUFFICES ASSUME Ranges!SyncRangeAssumption, TypeInv, [Ranges!Next]_Ranges!vars PROVE TypeInv'
  OBVIOUS
<1>0. /\ now \in 0 .. Horizon /\ src \in [Ids -> 0 .. Horizon] /\ stored \in [Ids -> Nat]
      /\ {watermark, orphan, checkpoint, mishaps} \subseteq Nat
      /\ job \in [status : {"none", "queued", "complete"}, rows : Pages]
      /\ run \in Runs /\ (Window = 0 => run.upper = 0) /\ Ranges!Nothing \in Pages
      /\ Ranges!NoJob \in [status : {"none", "queued", "complete"}, rows : Pages]
      /\ Ranges!Idle \in Runs /\ Horizon \in Nat
  <2>1. Ranges!Nothing \in [{} -> 1 .. Horizon]
    BY DEF Ranges!Nothing
  <2>2. Ranges!Nothing \in Pages
    BY <2>1 DEF Pages
  <2> QED BY <2>2 DEF Ranges!SyncRangeAssumption, TypeInv, Ranges!Idle, Ranges!NoJob, Runs
<1> USE DEF Ranges!source, Ranges!ops
<1>1. CASE Ranges!Tick \/ \E i \in Ids : Ranges!SourceWrites(i) \/ Ranges!SourceDeletes(i)
  <2>1. now' \in 0 .. Horizon /\ src' \in [Ids -> 0 .. Horizon]
    BY <1>0, <1>1 DEF Ranges!Tick, Ranges!SourceWrites, Ranges!SourceDeletes
  <2> QED BY <1>1, <2>1 DEF Ranges!Tick, Ranges!SourceWrites, Ranges!SourceDeletes, TypeInv
<1>2. CASE Ranges!ExportRuns
  <2>1. [i \in Ranges!Present |-> src[i]] \in Pages
    <3>1. \A i \in Ranges!Present : i \in Ids /\ src[i] \in 1 .. Horizon
      BY <1>0 DEF Ranges!Present
    <3>2. [i \in Ranges!Present |-> src[i]] \in [Ranges!Present -> 1 .. Horizon]
      BY <3>1
    <3> QED BY <3>1, <3>2 DEF Pages
  <2>2. pc \notin {"idle", "submit"}
    BY <1>2 DEF Ranges!ExportRuns, TypeInv, Ranges!NoJob
  <2>3. job' \in [status : {"none", "queued", "complete"}, rows : Pages]
    BY <1>2, <2>1 DEF Ranges!ExportRuns
  <2> QED BY <1>0, <1>2, <2>2, <2>3 DEF Ranges!ExportRuns, TypeInv
<1>3. CASE Ranges!Begin
  <2> DEFINE upper == IF Window > 0 /\ watermark # 0 THEN Ranges!WindowEnd(watermark) ELSE 0
  <2>1. upper \in Nat /\ (Window = 0 => upper = 0) /\ Ranges!StartsAt \in Nat
    BY <1>0 DEF Ranges!WindowEnd, Ranges!Earlier, Ranges!StartsAt, Ranges!SyncRangeAssumption
  <2>2. run' = [Ranges!Idle EXCEPT !.pos = Ranges!StartsAt, !.upper = upper]
    BY <1>3 DEF Ranges!Begin
  <2> HIDE DEF upper
  <2>3. run' \in Runs /\ (Window = 0 => run'.upper = 0)
    BY <1>0, <2>1, <2>2 DEF Runs
  <2>4. pc' \in {"submit", "fetch"} /\ pc = "idle" /\ job' = job /\ orphan' \in Nat
    BY <1>0, <1>3 DEF Ranges!Begin
  <2> QED BY <1>0, <1>3, <2>3, <2>4 DEF Ranges!Begin, TypeInv
<1>4. CASE Ranges!SubmitJob \/ Ranges!PollJob
  <2>1. run' \in Runs /\ run'.upper = run.upper
    <3>1. run' = run \/ run' = [run EXCEPT !.polls = run.polls + 1]
      BY <1>4 DEF Ranges!SubmitJob, Ranges!PollJob
    <3> QED BY <1>0, <3>1 DEF Runs
  <2> QED BY <1>0, <1>4, <2>1 DEF Ranges!SubmitJob, Ranges!PollJob, TypeInv
<1>5. CASE Ranges!Download
  <2>1. run' = [run EXCEPT !.page = job.rows, !.pages = Ranges!PageAfter(0)]
    BY <1>5 DEF Ranges!Download
  <2>2. Ranges!PageAfter(0) \in Nat
    BY DEF Ranges!PageAfter, Ranges!SyncRangeAssumption
  <2>3. run' \in Runs /\ run'.upper = run.upper
    BY <1>0, <2>1, <2>2 DEF Runs
  <2> QED BY <1>0, <1>5, <2>3 DEF Ranges!Download, TypeInv
<1>6. CASE Ranges!Fetch
  <2>1. PICK p \in SUBSET Ranges!Remaining :
          /\ Ranges!IsPage(p, Ranges!Remaining)
          /\ run' = [run EXCEPT !.page = [i \in p |-> src[i]],
                                !.pos = IF p = {} THEN @ ELSE Ranges!LastOf(p),
                                !.pages = Ranges!PageAfter(@),
                                !.more = Ranges!Remaining \ p # {}]
          /\ pc' = IF p = {} THEN "end" ELSE "commit"
    BY <1>6 DEF Ranges!Fetch
  <2>2. p \subseteq Ids /\ \A i \in p : src[i] \in 1 .. Horizon
    BY <1>0 DEF Ranges!Remaining, Runs
  <2>3. [i \in p |-> src[i]] \in Pages
    <3>1. [i \in p |-> src[i]] \in [p -> 1 .. Horizon]
      BY <2>2
    <3> QED BY <2>2, <3>1 DEF Pages
  <2>4. p # {} => Ranges!LastOf(p) \in Nat
    BY <1>0, <2>2, LastIsListed
  <2>5. Ranges!PageAfter(run.pages) \in Nat
    <3>1. run.pages \in Nat
      BY <1>0 DEF Runs
    <3> QED BY <3>1 DEF Ranges!PageAfter, Ranges!SyncRangeAssumption
  <2>6. run' \in Runs /\ run'.upper = run.upper
    BY <1>0, <2>1, <2>3, <2>4, <2>5 DEF Runs
  <2> QED BY <1>0, <1>6, <2>1, <2>6 DEF Ranges!Fetch, TypeInv
<1>7. CASE Ranges!Commit
  <2>1. PICK newWm \in Ranges!Cursors : /\ watermark' = Ranges!Effective(newWm)
                                 /\ run' = [run EXCEPT !.newWm = newWm]
    BY <1>7 DEF Ranges!Commit, Ranges!SetWatermark
  <2>2. \A i \in DOMAIN run.page : i \in Ids /\ run.page[i] \in Nat
    BY <1>0 DEF Runs, Pages
  <2>3. newWm \in Nat /\ Ranges!Effective(newWm) \in Nat
    BY <1>0, <2>1, <2>2 DEF Ranges!Cursors, Ranges!Effective, Runs
  <2>4. stored' \in [Ids -> Nat]
    BY <1>0, <1>7, <2>2 DEF Ranges!Commit
  <2>5. run' \in Runs /\ run'.upper = run.upper
    BY <1>0, <2>1, <2>3 DEF Runs
  <2> QED BY <1>0, <1>7, <2>1, <2>3, <2>4, <2>5 DEF Ranges!Commit, TypeInv
<1>8. CASE Ranges!SaveCheckpoint
  BY <1>0, <1>8 DEF Ranges!SaveCheckpoint, TypeInv, Runs
<1>9. CASE Ranges!Finish \/ Ranges!Fail \/ Ranges!Crash
  <2>1. run'.upper = 0
    BY <1>9 DEF Ranges!Finish, Ranges!Fail, Ranges!Crash, Ranges!Leave, Ranges!Idle
  <2> QED BY <1>0, <1>9, <2>1 DEF Ranges!Finish, Ranges!Fail, Ranges!Crash, Ranges!Leave, TypeInv
<1>10. CASE Ranges!ResetWatermark
  BY <1>0, <1>10 DEF Ranges!ResetWatermark, TypeInv
<1>11. CASE UNCHANGED Ranges!vars
  BY <1>11 DEF Ranges!vars, TypeInv
<1> QED
  BY <1>1, <1>2, <1>3, <1>4, <1>5, <1>6, <1>7, <1>8, <1>9, <1>10, <1>11 DEF Ranges!Next, Ranges!Sync

-----------------------------------------------------------------------------
(* Coverage. *)

(* No cursor is ahead of the clock. *)
Timely ==
    /\ \A i \in Ids : src[i] <= now
    /\ \A x \in Marks \cup Values(run.page) \cup Values(job.rows) : x <= now

(* A fetched page has what its part of the source had, but for later edits; and what it  *)
(* leaves out is stored or comes later.                                                  *)
PageListed ==
    /\ \A i \in DOMAIN run.page : src[i] \in {0, run.page[i]} \/ Later(i, Values(run.page))
    /\ \A i \in Ids \ DOMAIN run.page :
          \/ src[i] = 0 \/ stored[i] = src[i]
          \/ /\ \A x \in Values(run.page) \cup {run.pos} : src[i] > x
             /\ run.more \/ src[i] > run.upper

(* A finished export has all of the source, but for later edits. *)
ExportListed ==
    \A i \in Ids : \/ src[i] = 0
                   \/ i \in DOMAIN job.rows /\ job.rows[i] = src[i]
                   \/ Later(i, Values(job.rows))

(* The end of a window is a watermark before its last page is stored. *)
WindowOpen == pc \in {"fetch", "commit", "checkpoint"} /\ run.upper # 0 /\ watermark = run.upper

RangeInv ==
    /\ Timely
    /\ Covered(orphan) /\ Covered(checkpoint) /\ Covered(run.newWm)
    /\ pc # "commit" => Covered(run.pos)
    /\ Covered(watermark) \/ WindowOpen
    /\ pc = "commit" => PageListed
    /\ pc \in {"poll", "download"} /\ job.status = "complete" => ExportListed
    /\ pc = "download" => job.status = "complete"
    /\ pc = "checkpoint" /\ ~run.more /\ run.upper # 0 => Covered(run.upper)

LEMMA RangeInit == ASSUME Ranges!SyncRangeAssumption PROVE Ranges!Init => RangeInv
<1> SUFFICES ASSUME Ranges!SyncRangeAssumption, Ranges!Init PROVE RangeInv
  OBVIOUS
<1>1. /\ now \in Nat /\ Marks = {0} /\ Values(run.page) = {} /\ Values(job.rows) = {}
      /\ \A i \in Ids : src[i] = 0
  BY DEF Ranges!SyncRangeAssumption, Ranges!Init, Marks, Values, Ranges!Idle, Ranges!NoJob,
         Ranges!Nothing
<1>2. Timely
  BY <1>1 DEF Timely
<1>3. Covered(orphan) /\ Covered(checkpoint) /\ Covered(run.newWm) /\ Covered(run.pos)
      /\ Covered(watermark)
  BY <1>1 DEF Covered
<1> QED BY <1>2, <1>3 DEF Ranges!Init, RangeInv

(* The times and cursors of a state. *)
LEMMA Times ==
  ASSUME Ranges!SyncRangeAssumption, TypeInv
  PROVE  /\ now \in Nat /\ src \in [Ids -> Nat] /\ stored \in [Ids -> Nat]
         /\ Marks \subseteq Nat
         /\ watermark \in Nat /\ orphan \in Nat /\ checkpoint \in Nat
         /\ run.pos \in Nat /\ run.newWm \in Nat /\ run.upper \in Nat
         /\ DOMAIN run.page \subseteq Ids /\ \A i \in DOMAIN run.page : run.page[i] \in Nat \ {0}
         /\ DOMAIN job.rows \subseteq Ids /\ \A i \in DOMAIN job.rows : job.rows[i] \in Nat \ {0}
<1>1. run.pos \in Nat /\ run.newWm \in Nat /\ run.upper \in Nat /\ run.page \in Pages
      /\ job.rows \in Pages
  BY DEF TypeInv, Runs
<1>2. \A f \in Pages : DOMAIN f \subseteq Ids /\ \A i \in DOMAIN f : f[i] \in Nat \ {0}
  BY DEF Pages, Ranges!SyncRangeAssumption
<1>3. now \in Nat /\ src \in [Ids -> Nat] /\ stored \in [Ids -> Nat]
      /\ watermark \in Nat /\ orphan \in Nat /\ checkpoint \in Nat
  BY DEF TypeInv, Ranges!SyncRangeAssumption
<1> QED BY <1>1, <1>2, <1>3 DEF Marks

(* An edit is later than every cursor there is. *)
LEMMA RangeEdits ==
  ASSUME Ranges!SyncRangeAssumption, TypeInv, RangeInv,
         Ranges!Tick \/ \E i \in Ids : Ranges!SourceWrites(i) \/ Ranges!SourceDeletes(i)
  PROVE  RangeInv'
<1>0. /\ now \in Nat /\ src \in [Ids -> Nat] /\ Marks \subseteq Nat
      /\ DOMAIN run.page \subseteq Ids /\ \A i \in DOMAIN run.page : run.page[i] \in Nat \ {0}
      /\ \A i \in DOMAIN job.rows : job.rows[i] \in Nat \ {0}
      /\ run.pos \in Nat /\ run.upper \in Nat
  BY Times
<1>1. /\ now' \in {now, now + 1}
      /\ \A i \in Ids : src'[i] \in {0, src[i], now + 1} /\ (src'[i] = now + 1 => now' = now + 1)
      /\ src' \in [Ids -> Nat]
      /\ UNCHANGED <<stored, watermark, checkpoint, orphan, job, pc, run>>
  BY <1>0 DEF Ranges!Tick, Ranges!SourceWrites, Ranges!SourceDeletes, Ranges!ops, Timely, RangeInv
<1>2. Marks' = Marks
  BY <1>1 DEF Marks
<1>3. Timely /\ Timely'
  <2>1. Timely
    BY DEF RangeInv
  <2>2. Values(run.page) \subseteq Nat /\ Values(job.rows) \subseteq Nat
    BY <1>0 DEF Values
  <2> QED BY <1>0, <1>1, <1>2, <2>1, <2>2 DEF Timely, Values
<1>4. ASSUME NEW x \in Marks, Covered(x) PROVE Covered(x)'
  <2>1. x <= now
    BY <1>3 DEF Timely
  <2> QED BY <1>0, <1>1, <1>4, <2>1 DEF Covered
<1>5. \A i \in Ids, V \in SUBSET Nat :
         Later(i, V) /\ src'[i] # 0 /\ src'[i] # now + 1 => Later(i, V)'
  BY <1>0, <1>1, <1>2 DEF Later
<1>6. \A i \in Ids, V \in SUBSET (0 .. now) : src'[i] = now + 1 => Later(i, V)'
  BY <1>0, <1>1, <1>2, <1>3 DEF Later, Timely
<1>7. Values(run.page) \in SUBSET (0 .. now) /\ Values(job.rows) \in SUBSET (0 .. now)
  BY <1>0, <1>3 DEF Timely, Values
<1>8. ASSUME PageListed PROVE PageListed'
  <2>1. ASSUME NEW i \in DOMAIN run.page
        PROVE  src'[i] \in {0, run.page[i]} \/ Later(i, Values(run.page))'
    BY <1>0, <1>1, <1>5, <1>6, <1>7, <1>8 DEF PageListed
  <2>2. ASSUME NEW i \in Ids \ DOMAIN run.page
        PROVE  \/ src'[i] = 0 \/ stored[i] = src'[i]
               \/ /\ \A x \in Values(run.page) \cup {run.pos} : src'[i] > x
                  /\ run.more \/ src'[i] > run.upper
    <3>1. CASE src'[i] = now + 1
      <4>1. \A x \in Values(run.page) \cup {run.pos, run.upper} : x <= now /\ x \in Nat
        BY <1>0, <1>3 DEF Timely, Marks, Values
      <4> QED BY <1>0, <3>1, <4>1
    <3>2. CASE src'[i] = src[i]
      BY <1>8, <3>2 DEF PageListed
    <3> QED BY <1>1, <3>1, <3>2
  <2> QED BY <1>1, <2>1, <2>2 DEF PageListed
<1>9. ASSUME ExportListed PROVE ExportListed'
  <2>1. ASSUME NEW i \in Ids
        PROVE  \/ src'[i] = 0
               \/ i \in DOMAIN job.rows /\ job.rows[i] = src'[i]
               \/ Later(i, Values(job.rows))'
    <3> PICK V : V = Values(job.rows)
      OBVIOUS
    <3>0. V \in SUBSET (0 .. now) /\ V \in SUBSET Nat /\ Values(job.rows)' = V
      BY <1>0, <1>1, <1>7
    <3>1. CASE src'[i] = now + 1
      BY <1>6, <3>0, <3>1
    <3>2. CASE src'[i] = src[i] /\ src'[i] # now + 1
      BY <1>5, <1>9, <3>0, <3>2 DEF ExportListed
    <3> QED BY <1>1, <3>1, <3>2
  <2> QED BY <1>1, <2>1 DEF ExportListed
<1>10. /\ Covered(orphan)' /\ Covered(checkpoint)' /\ Covered(run.newWm)'
       /\ Covered(run.pos) => Covered(run.pos)'
       /\ Covered(run.upper) => Covered(run.upper)'
       /\ Covered(watermark) => Covered(watermark)'
  <2>1. \A x \in Marks : Covered(x) => Covered(x)'
    BY <1>4
  <2>2. {orphan, checkpoint, run.newWm, run.pos, run.upper, watermark} \subseteq Marks
    BY DEF Marks
  <2>3. Covered(orphan) /\ Covered(checkpoint) /\ Covered(run.newWm)
    BY DEF RangeInv
  <2> QED BY <1>1, <2>1, <2>2, <2>3 DEF Covered
<1> QED BY <1>1, <1>3, <1>8, <1>9, <1>10 DEF RangeInv, WindowOpen

(* A step that moves no cursor and no record changes nothing here. *)
LEMMA CoveredSame ==
  ASSUME UNCHANGED <<src, stored>>
  PROVE  \A x : Covered(x)' = Covered(x)
BY DEF Covered

(* An export job on its way: queued, done, asked for, fetched. *)
LEMMA RangeExport ==
  ASSUME Ranges!SyncRangeAssumption, TypeInv, RangeInv,
         Ranges!ExportRuns \/ Ranges!SubmitJob \/ Ranges!PollJob \/ Ranges!Download
  PROVE  RangeInv'
<1>0. /\ now \in Nat /\ src \in [Ids -> Nat] /\ Marks \subseteq Nat /\ run \in Runs
      /\ DOMAIN job.rows \subseteq Ids /\ \A i \in DOMAIN job.rows : job.rows[i] \in Nat \ {0}
  BY Times DEF TypeInv
<1>1. UNCHANGED <<src, now, stored, watermark, checkpoint, orphan>>
  BY DEF Ranges!ExportRuns, Ranges!SubmitJob, Ranges!PollJob, Ranges!Download, Ranges!source, Ranges!ops
<1>2. /\ run'.pos = run.pos /\ run'.newWm = run.newWm /\ run'.upper = run.upper
      /\ (Ranges!Download \/ run'.page = run.page) /\ run'.more = run.more
  <2>1. CASE Ranges!Download
    BY <1>0, <2>1 DEF Ranges!Download, Runs
  <2>2. CASE run' = run
    BY <2>2
  <2>3. CASE run' = [run EXCEPT !.polls = @ + 1]
    BY <1>0, <2>3 DEF Runs
  <2> QED BY <2>1, <2>2, <2>3 DEF Ranges!ExportRuns, Ranges!SubmitJob, Ranges!PollJob
<1>3. Marks' = Marks
  BY <1>1, <1>2 DEF Marks
<1>4. \A x : Covered(x)' = Covered(x)
  BY <1>1, CoveredSame
<1>5. Covered(orphan)' /\ Covered(checkpoint)' /\ Covered(run.newWm)'
  BY <1>1, <1>2, <1>4 DEF RangeInv
<1>6. Timely /\ \A x \in Values(run.page) \cup Values(job.rows) : x <= now
  BY DEF RangeInv, Timely
<1>7. CASE Ranges!ExportRuns
  <2>1. job'.rows = [i \in Ranges!Present |-> src[i]] /\ pc' = pc
    BY <1>7 DEF Ranges!ExportRuns
  <2>2. Timely'
    BY <1>1, <1>2, <1>3, <1>6, <1>7, <2>1 DEF Timely, Values, Ranges!Present, Ranges!ExportRuns, Ranges!Download
  <2>3. ExportListed'
    BY <1>1, <2>1 DEF ExportListed, Ranges!Present
  <2>4. PageListed' = PageListed
    BY <1>1, <1>3, <1>7 DEF Ranges!ExportRuns, PageListed, Later
  <2>5. job'.status = "complete" /\ run' = run
    BY <1>7 DEF Ranges!ExportRuns
  <2> QED BY <1>1, <1>2, <1>4, <1>5, <2>1, <2>2, <2>3, <2>4, <2>5 DEF RangeInv, WindowOpen
<1>8. CASE Ranges!SubmitJob
  <2>1. job'.status = "queued" /\ job'.rows = Ranges!Nothing /\ pc' = "poll" /\ pc = "submit"
        /\ run' = run
    BY <1>8 DEF Ranges!SubmitJob, Ranges!NoJob
  <2>2. Timely'
    BY <1>1, <1>3, <1>6, <2>1 DEF Timely, Values, Ranges!Nothing
  <2>3. Covered(run.pos)' /\ Covered(watermark)'
    BY <1>1, <1>2, <1>4, <2>1 DEF RangeInv, WindowOpen
  <2> QED BY <1>5, <2>1, <2>2, <2>3 DEF RangeInv
<1>9. CASE Ranges!PollJob
  <2>1. /\ pc = "poll" /\ pc' \in {"poll", "download"} /\ job' = job
        /\ pc' = "download" => job.status = "complete"
    BY <1>9 DEF Ranges!PollJob
  <2>2. run'.page = run.page
    BY <1>0, <1>9 DEF Ranges!PollJob, Runs
  <2>3. Timely'
    BY <1>1, <1>3, <1>6, <2>1, <2>2 DEF Timely
  <2>4. Covered(run.pos)' /\ Covered(watermark)'
    BY <1>1, <1>2, <1>4, <2>1 DEF RangeInv, WindowOpen
  <2>5. ExportListed' = ExportListed
    BY <1>1, <1>3, <2>1 DEF ExportListed, Later
  <2> QED BY <1>5, <2>1, <2>3, <2>4, <2>5 DEF RangeInv
<1>10. CASE Ranges!Download
  <2>1. pc = "download" /\ pc' \in {"end", "commit"} /\ job' = job /\ run'.page = job.rows
    BY <1>0, <1>10 DEF Ranges!Download, Runs
  <2>2. Timely'
    BY <1>1, <1>3, <1>6, <2>1 DEF Timely
  <2>3. Covered(run.pos)' /\ Covered(watermark)'
    BY <1>1, <1>2, <1>4, <2>1 DEF RangeInv, WindowOpen
  <2>4. ExportListed
    BY <2>1 DEF RangeInv
  <2>5. PageListed'
    <3>1. ASSUME NEW i \in DOMAIN job.rows
          PROVE  src[i] \in {0, job.rows[i]} \/ Later(i, Values(job.rows))
      BY <1>0, <2>4 DEF ExportListed
    <3>2. ASSUME NEW i \in Ids \ DOMAIN job.rows
          PROVE  \/ src[i] = 0
                 \/ /\ \A x \in Values(job.rows) \cup {run.pos} : src[i] > x
                    /\ src[i] > run.upper
      BY <2>4 DEF ExportListed, Later, Marks
    <3>3. \A i : Later(i, Values(run.page))' = Later(i, Values(job.rows))
      BY <1>1, <1>3, <2>1 DEF Later
    <3> QED BY <1>1, <1>2, <2>1, <3>1, <3>2, <3>3 DEF PageListed
  <2> QED BY <1>5, <2>1, <2>2, <2>3, <2>5 DEF RangeInv
<1> QED BY <1>7, <1>8, <1>9, <1>10

(* A run starts from the checkpoint of a dead one or from the watermark, and its window *)
(* ends in the past.                                                                     *)
LEMMA RangeBegin ==
  ASSUME Ranges!SyncRangeAssumption, TypeInv, RangeInv, Ranges!Begin
  PROVE  RangeInv'
<1>0. /\ now \in Nat /\ src \in [Ids -> Nat] /\ Marks \subseteq Nat
      /\ watermark \in Nat /\ orphan \in Nat
  BY Times
<1> DEFINE upper == IF Window > 0 /\ watermark # 0 THEN Ranges!WindowEnd(watermark) ELSE 0
<1>1. /\ UNCHANGED <<src, now, stored, watermark, checkpoint, job>>
      /\ orphan' \in {0, orphan} /\ pc = "idle" /\ pc' \in {"submit", "fetch"}
      /\ run' = [Ranges!Idle EXCEPT !.pos = Ranges!StartsAt, !.upper = upper]
  BY DEF Ranges!Begin, Ranges!source
<1>2. upper \in Nat /\ upper <= now
  BY <1>0 DEF Ranges!WindowEnd, Ranges!Earlier, Ranges!SyncRangeAssumption
<1> HIDE DEF upper
<1>3. /\ run'.pos = Ranges!StartsAt /\ run'.upper = upper /\ run'.newWm = 0 /\ run'.page = Ranges!Nothing
      /\ Ranges!StartsAt \in {orphan, watermark}
  BY <1>1 DEF Ranges!Idle, Ranges!StartsAt
<1>4. Timely /\ Covered(orphan) /\ Covered(checkpoint) /\ Covered(watermark)
  BY <1>1 DEF RangeInv, WindowOpen
<1>5. Timely'
  <2>1. \A x \in Marks' : x <= now
    BY <1>0, <1>1, <1>2, <1>3, <1>4 DEF Timely, Marks
  <2> QED BY <1>1, <1>3, <1>4, <2>1 DEF Timely, Values, Ranges!Nothing
<1>6. \A x : Covered(x)' = Covered(x)
  BY <1>1, CoveredSame
<1>7. Covered(0)
  BY <1>0 DEF Covered
<1>8. Covered(orphan)' /\ Covered(checkpoint)' /\ Covered(watermark)'
  BY <1>1, <1>4, <1>6, <1>7
<1>9. Covered(run.pos)' /\ Covered(run.newWm)'
  BY <1>3, <1>4, <1>6, <1>7
<1> QED BY <1>1, <1>5, <1>8, <1>9 DEF RangeInv

(* A page ends at the largest cursor on it; an empty one, at the end of the window. *)
LEMMA RangeFetch ==
  ASSUME Ranges!SyncRangeAssumption, TypeInv, RangeInv, Ranges!Fetch
  PROVE  RangeInv'
<1>0. /\ now \in Nat /\ src \in [Ids -> Nat] /\ stored \in [Ids -> Nat] /\ Marks \subseteq Nat
      /\ run \in Runs /\ run.pos \in Nat /\ run.upper \in Nat /\ run.newWm \in Nat
      /\ \A i \in Ids : src[i] \in 0 .. Horizon
  BY Times DEF TypeInv
<1>1. PICK p \in SUBSET Ranges!Remaining :
        /\ Ranges!IsPage(p, Ranges!Remaining)
        /\ run' = [run EXCEPT !.page = [i \in p |-> src[i]],
                              !.pos = IF p = {} THEN @ ELSE Ranges!LastOf(p),
                              !.pages = Ranges!PageAfter(@),
                              !.more = Ranges!Remaining \ p # {}]
        /\ pc' = IF p = {} THEN "end" ELSE "commit"
  BY DEF Ranges!Fetch
<1>2. UNCHANGED <<src, now, stored, watermark, checkpoint, orphan, job>> /\ pc = "fetch"
  BY DEF Ranges!Fetch, Ranges!source, Ranges!ops
<1>3. /\ run'.page = [i \in p |-> src[i]] /\ run'.more = (Ranges!Remaining \ p # {})
      /\ run'.pos = IF p = {} THEN run.pos ELSE Ranges!LastOf(p)
      /\ run'.newWm = run.newWm /\ run'.upper = run.upper
  BY <1>0, <1>1 DEF Runs
<1>4. /\ Timely /\ Covered(orphan) /\ Covered(checkpoint) /\ Covered(run.newWm)
      /\ Covered(run.pos) /\ (Covered(watermark) \/ WindowOpen)
  BY <1>2 DEF RangeInv
<1>5. \A x : Covered(x)' = Covered(x)
  BY <1>2, CoveredSame
<1>6. p \subseteq Ids /\ \A i \in p : src[i] > run.pos /\ src[i] \in 1 .. Horizon
  BY <1>0 DEF Ranges!Remaining
<1>7. p # {} => /\ \E i \in p : Ranges!LastOf(p) = src[i]
                /\ \A i \in p : src[i] <= Ranges!LastOf(p)
                /\ Ranges!LastOf(p) \in Nat
  BY <1>6, LastIsListed DEF Ranges!SyncRangeAssumption
<1>8. Timely'
  <2>1. run'.pos <= now
    BY <1>0, <1>3, <1>4, <1>6, <1>7 DEF Timely, Marks
  <2>2. \A x \in Values(run'.page) : x <= now
    BY <1>3, <1>4, <1>6 DEF Timely, Values
  <2>3. \A x \in Marks' : x <= now
    BY <1>2, <1>3, <1>4, <2>1 DEF Timely, Marks
  <2> QED BY <1>2, <1>4, <2>2, <2>3 DEF Timely
<1>9. CASE p = {}
  <2>1. pc' = "end" /\ run'.pos = run.pos
    BY <1>1, <1>3, <1>9
  <2>2. WindowOpen => Covered(watermark)
    <3> SUFFICES ASSUME WindowOpen, NEW i \in Ids, src[i] \in 1 .. run.upper
                 PROVE  stored[i] = src[i]
      BY DEF Covered, WindowOpen
    <3>1. Ranges!Remaining = {}
      BY <1>1, <1>9, EmptyPage
    <3>2. ~ (src[i] > run.pos)
      BY <1>0, <3>1 DEF Ranges!Remaining
    <3> QED BY <1>0, <1>4, <3>2 DEF Covered
  <2> QED BY <1>2, <1>3, <1>4, <1>5, <1>8, <2>1, <2>2 DEF RangeInv
<1>10. CASE p # {}
  <2>1. pc' = "commit" /\ run'.pos = Ranges!LastOf(p)
    BY <1>1, <1>3, <1>10
  <2>2. ASSUME NEW i \in Ids \ p
        PROVE  \/ src[i] = 0 \/ stored[i] = src[i]
               \/ /\ \A x \in Values(run'.page) \cup {Ranges!LastOf(p)} : src[i] > x
                  /\ Ranges!Remaining \ p # {} \/ src[i] > run.upper
    <3>1. CASE src[i] > run.pos /\ i \in Ranges!Remaining
      <4>1. \A j \in p : src[j] < src[i]
        BY <1>1, <2>2, <3>1 DEF Ranges!IsPage
      <4>2. Ranges!Remaining \ p # {}
        BY <2>2, <3>1
      <4>3. \A x \in Values(run'.page) \cup {Ranges!LastOf(p)} : src[i] > x
        BY <1>0, <1>3, <1>6, <1>7, <1>10, <4>1 DEF Values
      <4> QED BY <4>2, <4>3
    <3>2. CASE src[i] > run.pos /\ i \notin Ranges!Remaining
      <4>1. src[i] > run.upper /\ \A j \in p : src[j] <= run.upper
        BY <1>0, <1>6, <3>2 DEF Ranges!Remaining
      <4>2. \A x \in Values(run'.page) \cup {Ranges!LastOf(p)} : src[i] > x
        BY <1>0, <1>3, <1>6, <1>7, <1>10, <4>1 DEF Values
      <4> QED BY <4>1, <4>2
    <3>3. CASE ~ (src[i] > run.pos)
      BY <1>0, <1>4, <3>3 DEF Covered
    <3> QED BY <3>1, <3>2, <3>3
  <2>3. PageListed'
    BY <1>2, <1>3, <2>1, <2>2 DEF PageListed
  <2>4. WindowOpen => WindowOpen'
    BY <1>2, <1>3, <2>1 DEF WindowOpen
  <2> QED BY <1>2, <1>3, <1>4, <1>5, <1>8, <2>1, <2>3, <2>4 DEF RangeInv
<1> QED BY <1>9, <1>10

(* A commit stores the page and moves the watermark to a cursor of the run, or to the *)
(* end of its window: whichever cursor is taken for the largest, the listing up to it  *)
(* has been stored.                                                                    *)
LEMMA RangeCommit ==
  ASSUME Ranges!SyncRangeAssumption, TypeInv, RangeInv, Ranges!Commit
  PROVE  RangeInv'
<1>0. /\ now \in Nat /\ src \in [Ids -> Nat] /\ stored \in [Ids -> Nat] /\ Marks \subseteq Nat
      /\ run \in Runs /\ run.pos \in Nat /\ run.upper \in Nat /\ run.newWm \in Nat
      /\ watermark \in Nat /\ orphan \in Nat /\ checkpoint \in Nat
      /\ DOMAIN run.page \subseteq Ids /\ \A i \in DOMAIN run.page : run.page[i] \in Nat \ {0}
  BY Times DEF TypeInv
<1>1. PICK newWm \in Ranges!Cursors : /\ watermark' = Ranges!Effective(newWm)
                               /\ run' = [run EXCEPT !.newWm = newWm]
  BY DEF Ranges!Commit, Ranges!SetWatermark
<1>2. /\ pc = "commit" /\ UNCHANGED <<src, now, checkpoint, orphan, job>>
      /\ stored' = [i \in Ids |-> IF i \in DOMAIN run.page THEN run.page[i] ELSE stored[i]]
      /\ pc' \in {"checkpoint", "fetch", "end"} /\ (pc' = "fetch" => run.more)
      /\ (pc' = "end" => ~run.more)
  BY DEF Ranges!Commit, Ranges!source
<1>3. /\ run'.newWm = newWm /\ run'.pos = run.pos /\ run'.upper = run.upper
      /\ run'.page = run.page /\ run'.more = run.more
  BY <1>0, <1>1 DEF Runs
<1>4. /\ Timely /\ Covered(orphan) /\ Covered(checkpoint) /\ Covered(run.newWm)
      /\ (Covered(watermark) \/ WindowOpen) /\ PageListed
  BY <1>2 DEF RangeInv
<1>5. newWm \in Nat /\ newWm <= now /\ (newWm \in Values(run.page) \/ newWm = run.newWm)
  <2>1. newWm \in Values(run.page) \/ newWm = run.newWm
    BY DEF Ranges!Cursors, Values
  <2>2. \A x \in Values(run.page) : x \in Nat
    BY <1>0 DEF Values
  <2> QED BY <1>0, <1>4, <2>1, <2>2 DEF Timely, Marks
<1>6. Timely'
  <2>1. \A x \in Marks' : x <= now
    BY <1>1, <1>2, <1>3, <1>4, <1>5 DEF Timely, Marks, Ranges!Effective
  <2> QED BY <1>2, <1>3, <1>4, <2>1 DEF Timely
\* A record whose version a cursor of the state reaches is as its page has it.
<1>7. ASSUME NEW x \in Marks \cup Values(run.page), x \in Nat,
             NEW i \in DOMAIN run.page, src[i] \in 1 .. x
      PROVE  stored'[i] = src[i]
  <2>1. ~Later(i, Values(run.page))
    BY <1>0, <1>7 DEF Later
  <2> QED BY <1>0, <1>2, <1>4, <1>7, <2>1 DEF PageListed
<1>8. ASSUME NEW x \in Marks \cup Values(run.page), x \in Nat,
             Covered(x) \/ x \in Values(run.page) \cup {run.pos} \/ (x = run.upper /\ ~run.more)
      PROVE  Covered(x)'
  <2> SUFFICES ASSUME NEW i \in Ids, src[i] \in 1 .. x PROVE stored'[i] = src[i]
    BY <1>2 DEF Covered
  <2>1. CASE i \in DOMAIN run.page
    BY <1>7, <1>8, <2>1
  <2>2. CASE i \notin DOMAIN run.page
    <3>1. stored'[i] = stored[i]
      BY <1>2, <2>2
    <3>2. stored[i] = src[i]
      BY <1>0, <1>4, <1>8, <2>2 DEF PageListed, Covered
    <3> QED BY <3>1, <3>2
  <2> QED BY <2>1, <2>2
<1>9. Covered(orphan)' /\ Covered(checkpoint)' /\ Covered(run.pos)'
  <2>1. {orphan, checkpoint, run.pos} \subseteq Marks
    BY DEF Marks
  <2>2. \A x \in {orphan, checkpoint, run.pos} : Covered(x)'
    BY <1>0, <1>4, <1>8, <2>1
  <2>3. orphan' = orphan /\ checkpoint' = checkpoint /\ run'.pos = run.pos
    BY <1>2, <1>3
  <2> QED BY <2>2, <2>3 DEF Covered
<1>10. Covered(newWm)'
  <2>1. run.newWm \in Marks
    BY DEF Marks
  <2> QED BY <1>4, <1>5, <1>8, <2>1
<1>11. Covered(run.newWm)'
  BY <1>3, <1>10 DEF Covered
<1>12. run.upper # 0 /\ ~run.more => Covered(run.upper)'
  <2>1. run.upper \in Marks
    BY DEF Marks
  <2>2. PICK u : u = run.upper
    OBVIOUS
  <2>3. ~run.more => Covered(u)'
    BY <1>0, <1>8, <2>1, <2>2
  <2> QED BY <1>3, <2>2, <2>3 DEF Covered
<1>13. Covered(watermark)' \/ WindowOpen'
  <2>1. CASE run.upper = 0
    <3>1. watermark' = newWm
      BY <1>1, <2>1 DEF Ranges!Effective
    <3> QED BY <1>10, <3>1 DEF Covered
  <2>2. CASE run.upper # 0
    <3>1. watermark' = run.upper /\ run'.upper = run.upper
      BY <1>1, <1>3, <2>2 DEF Ranges!Effective
    <3>2. CASE pc' \in {"checkpoint", "fetch"}
      BY <2>2, <3>1, <3>2 DEF WindowOpen
    <3>3. CASE pc' = "end"
      <4>1. Covered(run.upper)'
        BY <1>2, <1>12, <2>2, <3>3
      <4> QED BY <3>1, <4>1 DEF Covered
    <3> QED BY <1>2, <3>2, <3>3
  <2> QED BY <2>1, <2>2
<1>14. pc' = "checkpoint" /\ ~run'.more /\ run'.upper # 0 => Covered(run.upper)'
  BY <1>3, <1>12
<1> QED BY <1>2, <1>6, <1>9, <1>11, <1>13, <1>14 DEF RangeInv

(* A checkpoint keeps a cursor of the run, whose part of the listing is stored. *)
LEMMA RangeSave ==
  ASSUME Ranges!SyncRangeAssumption, TypeInv, RangeInv, Ranges!SaveCheckpoint
  PROVE  RangeInv'
<1>1. /\ UNCHANGED <<src, now, stored, watermark, orphan, run, job>> /\ pc = "checkpoint"
      /\ checkpoint' \in {checkpoint, run.newWm} /\ pc' = IF run.more THEN "fetch" ELSE "end"
  BY DEF Ranges!SaveCheckpoint, Ranges!source
<1>2. \A x : Covered(x)' = Covered(x)
  BY <1>1, CoveredSame
<1>3. /\ Timely /\ Covered(orphan) /\ Covered(checkpoint) /\ Covered(run.newWm)
      /\ Covered(run.pos) /\ (Covered(watermark) \/ WindowOpen)
      /\ (~run.more /\ run.upper # 0 => Covered(run.upper))
  BY <1>1 DEF RangeInv
<1>4. Marks' \subseteq Marks
  BY <1>1 DEF Marks
<1>5. Timely'
  BY <1>1, <1>3, <1>4 DEF Timely
<1>6. Covered(checkpoint)' /\ Covered(orphan)' /\ Covered(run.newWm)' /\ Covered(run.pos)'
  BY <1>1, <1>2, <1>3
<1>7. Covered(watermark)' \/ WindowOpen'
  <2>1. CASE Covered(watermark)
    BY <1>1, <1>2, <2>1
  <2>2. CASE WindowOpen /\ run.more
    BY <1>1, <2>2 DEF WindowOpen
  <2>3. CASE WindowOpen /\ ~run.more
    <3>1. Covered(watermark)
      BY <1>3, <2>3 DEF WindowOpen
    <3> QED BY <1>1, <1>2, <3>1
  <2> QED BY <1>3, <2>1, <2>2, <2>3 DEF TypeInv, Runs
<1> QED BY <1>1, <1>5, <1>6, <1>7 DEF RangeInv

(* No window is left half stored: there are none, or no run is cut short. *)
WholeWindows == Window = 0 \/ MaxMishaps = 0

(* What a run leaves behind, ended or dead, is a watermark and a checkpoint. *)
LEMMA RangeLeave ==
  ASSUME Ranges!SyncRangeAssumption, WholeWindows, TypeInv, RangeInv,
         Ranges!Finish \/ Ranges!Fail \/ Ranges!Crash \/ Ranges!ResetWatermark
  PROVE  RangeInv'
<1>0. src \in [Ids -> Nat] /\ now \in Nat /\ Marks \subseteq Nat /\ mishaps \in Nat
  BY Times DEF TypeInv
<1>1. UNCHANGED <<src, now, stored>>
  BY DEF Ranges!Finish, Ranges!Fail, Ranges!Crash, Ranges!ResetWatermark, Ranges!source
<1>2. \A x : Covered(x)' = Covered(x)
  BY <1>1, CoveredSame
<1>3. Covered(0)
  BY <1>0 DEF Covered
<1>4. Timely /\ Covered(orphan) /\ Covered(checkpoint) /\ Covered(run.newWm)
  BY DEF RangeInv
<1>5. CASE Ranges!Finish \/ Ranges!Fail \/ Ranges!Crash
  <2>1. /\ run'.pos = 0 /\ run'.newWm = 0 /\ run'.upper = 0 /\ run'.page = Ranges!Nothing
        /\ job'.rows = Ranges!Nothing /\ checkpoint' = 0 /\ pc' = "idle"
        /\ watermark' = watermark /\ orphan' \in {orphan, checkpoint}
    BY <1>5 DEF Ranges!Finish, Ranges!Fail, Ranges!Crash, Ranges!Leave, Ranges!Idle, Ranges!NoJob
  <2>2. Covered(watermark)
    <3>1. CASE Ranges!Finish
      BY <3>1 DEF Ranges!Finish, RangeInv, WindowOpen
    <3>2. CASE Ranges!Fail \/ Ranges!Crash
      <4>1. Window = 0
        BY <1>0, <3>2 DEF Ranges!Fail, Ranges!Crash, WholeWindows, Ranges!SyncRangeAssumption
      <4> QED BY <4>1 DEF TypeInv, RangeInv, WindowOpen
    <3> QED BY <1>5, <3>1, <3>2
  <2>3. Timely'
    <3>1. \A x \in Marks' : x <= now
      BY <1>0, <1>4, <2>1 DEF Timely, Marks
    <3> QED BY <1>1, <1>4, <2>1, <3>1 DEF Timely, Values, Ranges!Nothing
  <2>4. Covered(orphan)' /\ Covered(checkpoint)' /\ Covered(watermark)'
    BY <1>2, <1>3, <1>4, <2>1, <2>2
  <2>5. Covered(run.newWm)' /\ Covered(run.pos)'
    BY <1>2, <1>3, <2>1
  <2> QED BY <2>1, <2>3, <2>4, <2>5 DEF RangeInv
<1>6. CASE Ranges!ResetWatermark
  <2>1. watermark' = 0 /\ UNCHANGED <<checkpoint, orphan, job, pc, run>>
    BY <1>6 DEF Ranges!ResetWatermark
  <2>2. Timely'
    <3>1. \A x \in Marks' : x <= now
      BY <1>0, <1>4, <2>1 DEF Timely, Marks
    <3> QED BY <1>1, <1>4, <2>1, <3>1 DEF Timely
  <2>3. \A i \in Ids : \A V : Later(i, V) => Later(i, V)'
    <3>1. run.pos \in Marks /\ \A x \in Marks' : x \in Marks \cup {0}
      BY <1>0, <2>1 DEF Marks
    <3> SUFFICES ASSUME NEW i \in Ids, NEW V, Later(i, V), NEW x \in Marks' \cup V
                 PROVE  src[i] > x
      BY <1>1 DEF Later
    <3>2. CASE x = 0
      <4>1. src[i] > run.pos /\ run.pos \in Nat /\ src[i] \in Nat
        BY <1>0, <3>1 DEF Later
      <4> QED BY <3>2, <4>1
    <3>3. CASE x \in Marks \cup V
      BY <3>3 DEF Later
    <3> QED BY <3>1, <3>2, <3>3
  <2>4. PageListed => PageListed'
    <3> SUFFICES ASSUME PageListed PROVE PageListed'
      OBVIOUS
    <3> PICK V : V = Values(run.page)
      OBVIOUS
    <3>1. \A i \in DOMAIN run.page : src[i] \in {0, run.page[i]} \/ Later(i, V)'
      BY <2>3, Times DEF PageListed
    <3>2. V = Values(run.page)'
      BY <2>1
    <3> QED BY <1>1, <2>1, <3>1, <3>2 DEF PageListed
  <2>5. ExportListed => ExportListed'
    <3> SUFFICES ASSUME ExportListed PROVE ExportListed'
      OBVIOUS
    <3> PICK V : V = Values(job.rows)
      OBVIOUS
    <3>1. V = Values(job.rows)'
      BY <2>1
    <3> QED BY <1>1, <2>1, <2>3, <3>1 DEF ExportListed
  <2>6. Covered(watermark)' /\ Covered(orphan)' /\ Covered(checkpoint)' /\ Covered(run.newWm)'
        /\ (Covered(run.pos) => Covered(run.pos)') /\ (Covered(run.upper) => Covered(run.upper)')
    BY <1>2, <1>3, <1>4, <2>1
  <2> QED BY <2>1, <2>2, <2>4, <2>5, <2>6 DEF RangeInv
<1> QED BY <1>5, <1>6

LEMMA RangeStep ==
  ASSUME Ranges!SyncRangeAssumption, WholeWindows
  PROVE  TypeInv /\ RangeInv /\ [Ranges!Next]_Ranges!vars => RangeInv'
<1> SUFFICES ASSUME TypeInv, RangeInv, [Ranges!Next]_Ranges!vars PROVE RangeInv'
  OBVIOUS
<1>1. CASE UNCHANGED Ranges!vars
  BY <1>1 DEF Ranges!vars, Ranges!source, Ranges!ops, RangeInv, Timely, Covered, Marks, WindowOpen, PageListed,
              ExportListed, Later
<1> QED
  BY <1>1, RangeEdits, RangeExport, RangeBegin, RangeFetch, RangeCommit, RangeSave, RangeLeave
     DEF Ranges!Next, Ranges!Sync

(* The next listing starts where everything before is stored, for any number of records  *)
(* and pages, cursors compared as text or not, checkpoints that resume a dead run, export *)
(* jobs that lag behind, failures, crashes and cleared watermarks at any point; and with  *)
(* cursor windows as long as no run is cut short inside one.                              *)
THEOREM StartIsCovered ==
  ASSUME Ranges!SyncRangeAssumption, WholeWindows
  PROVE  Ranges!Spec => []PassedIsStored
<1>1. TypeInv /\ RangeInv => PassedIsStored
  <2> SUFFICES ASSUME TypeInv, RangeInv, run.upper = 0 \/ pc = "idle", NEW i \in Ids,
                      src[i] # 0, src[i] <= Ranges!StartsAt
               PROVE  stored[i] = src[i]
    BY DEF PassedIsStored, Ranges!PassedIsStored
  <2>1. Covered(orphan) /\ Covered(watermark)
    BY DEF RangeInv, WindowOpen
  <2>2. Covered(Ranges!StartsAt) /\ Ranges!StartsAt \in Nat /\ src[i] \in Nat
    BY <2>1, Times DEF Ranges!StartsAt
  <2> QED BY <2>2 DEF Covered
<1> QED BY TypeInit, TypeStep, RangeInit, RangeStep, <1>1, PTL DEF Ranges!Spec
================================================================================
