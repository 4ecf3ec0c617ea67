---------------------------- MODULE IngestionProofs ----------------------------
(* What Ingestion keeps true for any number of instances, records, edits and    *)
(* crashes, any pagination, and webhooks or not: its types, and that verified    *)
(* deletions are true ones although the sync lock does not exclude anybody.      *)
EXTENDS Ingestion, NaturalFacts, FiniteSetTheorems, TLAPS

(* A walk that has opened a frozen result set holds on to it, and a sync that *)
(* reaches run_sync's finally has decided its status.                         *)
LocalInv ==
    \A w \in Workers :
        /\ Paging = "snapshot" /\ pc[w] \in {"fetched", "paging"} =>
              run[w].view \in [Ids -> Versions]
        /\ pc[w] = "finishing" => run[w].status # "running"

TypeInv == TypeOK /\ LocalInv

-----------------------------------------------------------------------------
(* The pure operators. *)

(* The ids and the versions of a page are finitely many naturals. *)
LEMMA SmallSets ==
  ASSUME IngestionAssumption
  PROVE  /\ IsFiniteSet(Ids) /\ Ids \subseteq Nat /\ Versions \subseteq Nat
         /\ \A S \in SUBSET Ids : IsFiniteSet(S) /\ Cardinality(S) \in Nat
<1>1. IsFiniteSet(Ids) /\ Ids \subseteq Nat /\ Versions \subseteq Nat
  BY FS_Interval, IngestionAssumption DEF IngestionAssumption, Ids, Versions
<1>2. \A S \in SUBSET Ids : IsFiniteSet(S)
  BY <1>1, FS_Subset
<1> QED BY <1>1, <1>2, FS_CardinalityType

(* A page lists records of the source, and the next position is a number. *)
LEMMA PageTypes ==
  ASSUME IngestionAssumption, NEW v \in [Ids -> Versions], NEW wm, NEW pos \in Nat
  PROVE  /\ ListPage(v, wm, pos) \in SUBSET Ids
         /\ NextPos(v, pos, ListPage(v, wm, pos)) \in Nat
         /\ HasNext(v, wm, pos, ListPage(v, wm, pos)) \in BOOLEAN
         /\ [i \in ListPage(v, wm, pos) |-> v[i]] \in Pages
<1> DEFINE page == ListPage(v, wm, pos)
<1>1. page \in SUBSET Ids
  BY DEF ListPage, Remaining, Listing
<1> HIDE DEF page
<1>2. NextPos(v, pos, page) \in Nat
  <2>1. CASE Paging = "keyset" /\ page # {}
    <3> DEFINE keys == {ListKey(v, i) : i \in page}
               bound == Records + MaxEdits
    <3>1. keys \subseteq 0 .. bound /\ keys # {} /\ bound \in Nat
      <4>1. bound \in Nat /\ Ids \subseteq 0 .. bound /\ Versions = 0 .. bound
        BY IngestionAssumption DEF IngestionAssumption, Ids, Versions
      <4>2. \A i \in page : ListKey(v, i) \in 0 .. bound
        <5> HIDE DEF bound
        <5> QED BY <1>1, <4>1 DEF ListKey
      <4> QED BY <4>1, <4>2, <2>1
    <3>2. \E m \in keys : \A k \in keys : m >= k
      <4> HIDE DEF keys, bound
      <4> QED BY <3>1, GreatestNatural
    <3>3. PICK m \in keys : \A i \in page : ListKey(v, i) <= m
      BY <3>1, <3>2
    <3>4. (CHOOSE k \in keys : \A i \in page : ListKey(v, i) <= k) \in keys
      <4> HIDE DEF keys
      <4> QED BY <3>3
    <3>5. NextPos(v, pos, page) = CHOOSE k \in keys : \A i \in page : ListKey(v, i) <= k
      BY <2>1, Zenon DEF NextPos
    <3>6. 0 .. bound \subseteq Nat
      OBVIOUS
    <3> HIDE DEF keys, bound
    <3> QED BY <3>1, <3>4, <3>5, <3>6
  <2>2. CASE Paging = "keyset" /\ page = {}
    BY <2>2 DEF NextPos
  <2>3. CASE Paging # "keyset"
    <3>1. Cardinality(page) \in Nat
      BY <1>1, SmallSets
    <3> QED BY <2>3, <3>1 DEF NextPos
  <2> QED BY <2>1, <2>2, <2>3
<1>3. HasNext(v, wm, pos, page) \in BOOLEAN
  BY DEF HasNext
<1>4. [i \in page |-> v[i]] \in Pages
  BY <1>1 DEF Pages
<1> QED BY <1>1, <1>2, <1>3, <1>4 DEF page

(* The new watermark is the one the run had, or a cursor the page has written. *)
LEMMA MaxCursorIsOne ==
  ASSUME IngestionAssumption, NEW r \in Runs
  PROVE  MaxCursor(r) \in {r.newWm} \cup {r.page[i] : i \in PageWrites(r)}
<1> DEFINE cursors == {r.newWm} \cup {r.page[i] : i \in PageWrites(r)}
           bound == Records + MaxEdits
           Top(m) == \A i \in PageWrites(r) : m >= r.page[i] /\ m >= r.newWm
<1>1. \A i \in PageWrites(r) : r.page[i] \in Versions
  BY DEF Runs, Pages, PageWrites
<1>2. cursors \subseteq 0 .. bound /\ cursors # {} /\ bound \in Nat
  BY <1>1, IngestionAssumption DEF IngestionAssumption, Runs, Versions
<1>3. \E m \in cursors : \A k \in cursors : m >= k
  <2> HIDE DEF cursors, bound
  <2> QED BY <1>2, GreatestNatural
<1>4. \E m \in cursors : Top(m)
  BY <1>3
<1>5. (CHOOSE m \in cursors : Top(m)) \in cursors
  <2> HIDE DEF cursors, Top
  <2> QED BY <1>4
<1> QED BY <1>5 DEF MaxCursor

(* The writes of a page: their ids, the new watermark and the run's count. *)
LEMMA CommitTypes ==
  ASSUME IngestionAssumption, NEW r \in Runs
  PROVE  /\ PageWrites(r) \subseteq Ids
         /\ \A i \in PageWrites(r) : r.page[i] \in Versions
         /\ DeadLetters(r) \subseteq Versions
         /\ MaxCursor(r) \in Versions
         /\ Fetched(r) \in Nat
<1>1. DOMAIN r.page \in SUBSET Ids /\ \A i \in DOMAIN r.page : r.page[i] \in Versions
  BY DEF Runs, Pages
<1>2. /\ PageWrites(r) \subseteq DOMAIN r.page /\ PageRejects(r) \subseteq DOMAIN r.page
      /\ PageDuplicates(r) \subseteq DOMAIN r.page
  BY DEF PageWrites, PageRejects, PageDuplicates
<1>3. MaxCursor(r) \in Versions
  BY <1>1, <1>2, MaxCursorIsOne DEF Runs
<1>4. Fetched(r) \in Nat
  <2>1. /\ Cardinality(DOMAIN r.page) \in Nat /\ Cardinality(PageDuplicates(r)) \in Nat
        /\ Cardinality(PageDuplicates(r)) <= Cardinality(DOMAIN r.page)
    BY <1>1, <1>2, SmallSets, FS_Subset
  <2> QED BY <2>1 DEF Fetched, Runs
<1>5. DeadLetters(r) \subseteq Versions
  BY <1>1, <1>2 DEF DeadLetters
<1> QED BY <1>1, <1>2, <1>3, <1>4, <1>5

(* An upsert leaves a live row of known versions. *)
LEMMA UpsertTypes ==
  ASSUME NEW row \in [hash : Versions, data : Versions, deleted : BOOLEAN],
         NEW v \in Versions
  PROVE  /\ Upserted(row, v) \in [hash : Versions, data : Versions, deleted : BOOLEAN]
         /\ Upserted(row, v).deleted = FALSE
BY DEF Upserted

(* A new run has a type. *)
LEMMA FreshTypes ==
  ASSUME IngestionAssumption, NEW wm \in Versions
  PROVE  FreshRun(wm) \in Runs
<1>1. Nothing \in [{} -> Versions]
  BY DEF Nothing
<1>2. Nothing \in Pages
  BY <1>1 DEF Pages
<1>3. 0 \in Versions
  BY IngestionAssumption DEF IngestionAssumption, Versions
<1> QED BY <1>2, <1>3 DEF FreshRun, Runs

-----------------------------------------------------------------------------
(* The type invariant. *)

LEMMA TypeInit == ASSUME IngestionAssumption PROVE Init => TypeInv
<1> SUFFICES ASSUME Init PROVE TypeInv
  OBVIOUS
<1>1. 0 \in Versions /\ Records \in Versions /\ Ids \subseteq Versions
  BY IngestionAssumption DEF IngestionAssumption, Versions, Ids
<1>2. run \in [Workers -> Runs]
  BY <1>1, FreshTypes DEF Init
<1>3. table \in [Ids -> [hash : Versions, data : Versions, deleted : BOOLEAN]]
  BY <1>1 DEF Init, NoRow
<1>4. stops \in 0 .. MaxStops
  BY IngestionAssumption DEF IngestionAssumption, Init
<1> QED BY <1>1, <1>2, <1>3, <1>4 DEF Init, TypeInv, TypeOK, LocalInv, Positions

LEMMA TypeStep == ASSUME IngestionAssumption PROVE TypeInv /\ [Next]_vars => TypeInv'
<1> SUFFICES ASSUME TypeInv, [Next]_vars PROVE TypeInv'
  OBVIOUS
<1>0. TypeOK /\ LocalInv /\ 0 \in Versions
  BY IngestionAssumption DEF IngestionAssumption, TypeInv, Versions
<1> USE DEF source, store, deletion
<1>0a. lastCount \in Nat /\ \A w \in Workers : run[w] \in Runs
  BY <1>0 DEF TypeOK
<1>1. ASSUME NEW i \in Ids, SourceWrites(i) PROVE TypeInv'
  <2>1. edits' \in Versions
    BY <1>0, <1>1, IngestionAssumption DEF IngestionAssumption, SourceWrites, TypeOK, Versions
  <2>2. TypeOK'
    BY <1>0, <1>1, <2>1 DEF SourceWrites, Notifies, TypeOK
  <2> QED BY <1>0, <1>1, <2>2 DEF SourceWrites, TypeInv, LocalInv
<1>1a. ASSUME NEW i \in Ids, SourceRestores(i) PROVE TypeInv'
  <2>1. edits' \in Versions
    BY <1>0, <1>1a, IngestionAssumption DEF IngestionAssumption, SourceRestores, TypeOK, Versions
  <2>2. TypeOK'
    BY <1>0, <1>1a, <2>1 DEF SourceRestores, Notifies, TypeOK
  <2> QED BY <1>0, <1>1a, <2>2 DEF SourceRestores, TypeInv, LocalInv
<1>2. ASSUME NEW i \in Ids, SourceDeletes(i) PROVE TypeInv'
  <2>1. edits' \in Versions
    BY <1>0, <1>2, IngestionAssumption DEF IngestionAssumption, SourceDeletes, TypeOK, Versions
  <2>2. absent' \in [Workers -> SUBSET Ids]
    BY <1>0, <1>2 DEF SourceDeletes, TypeOK
  <2>3. TypeOK'
    BY <1>0, <1>2, <2>1, <2>2 DEF SourceDeletes, TypeOK
  <2> QED BY <1>0, <1>2, <2>3 DEF SourceDeletes, TypeInv, LocalInv
<1>3. ASSUME NEW e \in events, DeliverWebhook(e) PROVE TypeInv'
  <2>1. e[1] \in Ids /\ e[2] \in Versions
    BY <1>0 DEF TypeOK
  <2>2. table' \in [Ids -> [hash : Versions, data : Versions, deleted : BOOLEAN]]
    BY <1>0, <1>3, <2>1, UpsertTypes DEF DeliverWebhook, TypeOK
  <2>3. TypeOK'
    BY <1>0, <1>3, <2>2 DEF DeliverWebhook, TypeOK
  <2> QED BY <1>0, <1>3, <2>3 DEF DeliverWebhook, TypeInv, LocalInv
<1>4. ASSUME NEW w \in Workers, Begin(w) PROVE TypeInv'
  <2>1. FreshRun(watermark) \in Runs
    BY <1>0, FreshTypes DEF TypeOK
  <2>2. TypeOK'
    BY <1>0, <1>4, <2>1 DEF Begin, TypeOK, Positions
  <2> QED BY <1>0, <1>4, <2>2 DEF Begin, TypeInv, TypeOK, LocalInv
<1>5. ASSUME NEW w \in Workers, TryLock(w) PROVE TypeInv'
  BY <1>0, <1>5 DEF TryLock, TypeInv, TypeOK, LocalInv, Positions
<1>6. ASSUME NEW w \in Workers, SkipRun(w) PROVE TypeInv'
  <2>1. TypeOK'
    BY <1>0, <1>6, FreshTypes DEF SkipRun, TypeOK, Positions
  <2> QED BY <1>0, <1>6, <2>1 DEF SkipRun, TypeInv, TypeOK, LocalInv
<1>7. ASSUME NEW w \in Workers, StampLock(w) PROVE TypeInv'
  <2>1. [run[w] EXCEPT !.prev = lastCount] \in Runs
    BY <1>0a DEF Runs
  <2>2. TypeOK'
    BY <1>0, <1>7, <2>1 DEF StampLock, TypeOK, Positions
  <2> QED BY <1>0, <1>7, <2>2 DEF StampLock, TypeInv, TypeOK, LocalInv
<1>8. ASSUME NEW w \in Workers, FetchPage(w) PROVE TypeInv'
  <2> DEFINE r == run[w]
             v == IF Paging = "snapshot" /\ pc[w] = "paging" THEN r.view ELSE src
             page == ListPage(v, r.wm, r.pos)
             kept == IF Paging = "snapshot" THEN v ELSE Nothing
             next == [r EXCEPT !.view = kept,
                               !.page = [i \in page |-> v[i]],
                               !.pos = NextPos(v, r.pos, page),
                               !.more = HasNext(v, r.wm, r.pos, page)]
  <2>1. v \in [Ids -> Versions] /\ r \in Runs /\ r.pos \in Nat
    BY <1>0 DEF TypeOK, LocalInv, Runs
  <2>2. kept \in Pages /\ (Paging = "snapshot" => kept \in [Ids -> Versions])
    <3>1. v \in Pages
      BY <2>1 DEF Pages
    <3>2. Nothing \in Pages
      BY FreshTypes, <1>0 DEF FreshRun, Runs
    <3> QED BY <2>1, <3>1, <3>2
  <2>3. /\ [i \in page |-> v[i]] \in Pages
        /\ NextPos(v, r.pos, page) \in Nat
        /\ HasNext(v, r.wm, r.pos, page) \in BOOLEAN
    <3> HIDE DEF v, r
    <3> QED BY <2>1, PageTypes
  <2>4. run' = [run EXCEPT ![w] = next] /\ pc' = [pc EXCEPT ![w] = "fetched"]
    BY <1>8 DEF FetchPage
  <2>5. next \in Runs /\ next.view = kept
    <3> HIDE DEF v, page, kept
    <3> QED BY <2>1, <2>2, <2>3 DEF Runs
  <2> HIDE DEF r, v, page, kept, next
  <2>6. TypeOK'
    BY <1>0, <1>8, <2>4, <2>5 DEF FetchPage, TypeOK, Positions
  <2>7. LocalInv'
    BY <1>0, <2>2, <2>4, <2>5 DEF TypeOK, LocalInv
  <2> QED BY <2>6, <2>7 DEF TypeInv
<1>9. ASSUME NEW w \in Workers, CommitPage(w) PROVE TypeInv'
  <2> DEFINE r == run[w]
             next == [r EXCEPT !.page = Nothing,
                               !.seen = @ \cup PageWrites(r),
                               !.newWm = IF Incremental THEN MaxCursor(r) ELSE 0,
                               !.fetched = Fetched(r)]
  <2>1. r \in Runs /\ Nothing \in Pages
    BY <1>0, FreshTypes DEF TypeOK, FreshRun, Runs
  <2> HIDE DEF r
  <2>2. /\ PageWrites(r) \subseteq Ids
        /\ \A i \in PageWrites(r) : r.page[i] \in Versions
        /\ DeadLetters(r) \subseteq Versions
        /\ MaxCursor(r) \in Versions
        /\ Fetched(r) \in Nat
    BY <2>1, CommitTypes
  <2>3. next \in Runs /\ next.view = r.view
    BY <1>0, <2>1, <2>2 DEF Runs
  <2>4. /\ table' = [i \in Ids |-> IF i \in PageWrites(r)
                                   THEN Upserted(table[i], r.page[i]) ELSE table[i]]
        /\ deadLetter' = deadLetter \cup DeadLetters(r)
        /\ watermark' = IF Incremental /\ MaxCursor(r) # 0
                        THEN MaxCursor(r) ELSE watermark
        /\ run' = [run EXCEPT ![w] = next]
        /\ pc' = [pc EXCEPT ![w] = IF r.more THEN "paging" ELSE "walked"]
        /\ pc[w] = "fetched"
    BY <1>9 DEF CommitPage, r
  <2>5. table' \in [Ids -> [hash : Versions, data : Versions, deleted : BOOLEAN]]
    BY <1>0, <2>2, <2>4, UpsertTypes DEF TypeOK
  <2> HIDE DEF next
  <2>6. TypeOK'
    BY <1>0, <1>9, <2>2, <2>3, <2>4, <2>5 DEF CommitPage, TypeOK, Positions
  <2>7. LocalInv'
    <3>1. run'[w].view = run[w].view
      BY <1>0, <2>3, <2>4 DEF TypeOK, r
    <3> QED BY <1>0, <2>4, <3>1 DEF TypeOK, LocalInv
  <2> QED BY <2>6, <2>7 DEF TypeInv
<1>10. ASSUME NEW w \in Workers, AbortOnDrift(w) PROVE TypeInv'
  <2>1. [run[w] EXCEPT !.status = "aborted"] \in Runs
    BY <1>0a DEF Runs
  <2>2. TypeOK'
    BY <1>0, <1>10, <2>1 DEF AbortOnDrift, EndRun, TypeOK, Positions
  <2> QED BY <1>0, <1>10, <2>2 DEF AbortOnDrift, EndRun, TypeInv, TypeOK, LocalInv
<1>11. ASSUME NEW w \in Workers, CompleteWalk(w) PROVE TypeInv'
  <2>1. [run[w] EXCEPT !.status = "completed"] \in Runs
    BY <1>0a DEF Runs
  <2>2. TypeOK'
    BY <1>0, <1>11, <2>1 DEF CompleteWalk, EndRun, TypeOK, Positions
  <2> QED BY <1>0, <1>11, <2>2 DEF CompleteWalk, EndRun, TypeInv, TypeOK, LocalInv
<1>12. ASSUME NEW w \in Workers, SelectMissing(w) PROVE TypeInv'
  <2>1. Missing(w) \in SUBSET Ids
    BY DEF Missing, Live
  <2>2. TypeOK'
    BY <1>0, <1>12, <2>1 DEF SelectMissing, TypeOK, Positions
  <2> QED BY <1>0, <1>12, <2>2 DEF SelectMissing, TypeInv, TypeOK, LocalInv
<1>13. ASSUME NEW w \in Workers, VerifyMissing(w) PROVE TypeInv'
  <2>1. PICK i \in cand[w], reached \in BOOLEAN :
          /\ cand' = [cand EXCEPT ![w] = @ \ {i}]
          /\ confirmed' = [confirmed EXCEPT ![w] =
                             IF reached /\ src[i] = 0 THEN @ \cup {i} ELSE @]
    BY <1>13 DEF VerifyMissing
  <2>2. i \in Ids
    BY <1>0 DEF TypeOK
  <2>3. cand' \in [Workers -> SUBSET Ids] /\ confirmed' \in [Workers -> SUBSET Ids]
    BY <1>0, <2>1, <2>2 DEF TypeOK
  <2>4. TypeOK'
    BY <1>0, <1>13, <2>3 DEF VerifyMissing, TypeOK
  <2> QED BY <1>0, <1>13, <2>4 DEF VerifyMissing, TypeInv, LocalInv
<1>14. ASSUME NEW w \in Workers, Tombstone(w) PROVE TypeInv'
  <2>1. [run[w] EXCEPT !.status = "completed"] \in Runs
    BY <1>0a DEF Runs
  <2>2. table' \in [Ids -> [hash : Versions, data : Versions, deleted : BOOLEAN]]
    BY <1>0, <1>14 DEF Tombstone, TypeOK
  <2>3. TypeOK'
    BY <1>0, <1>14, <2>1, <2>2 DEF Tombstone, EndRun, TypeOK, Positions
  <2>4. LocalInv'
    <3>1. /\ pc' = [pc EXCEPT ![w] = "finishing"]
          /\ run' = [run EXCEPT ![w].status = "completed"]
      BY <1>14 DEF Tombstone, EndRun
    <3>2. run'[w].status = "completed"
      BY <1>0, <3>1 DEF TypeOK, Runs
    <3> QED BY <1>0, <3>1, <3>2 DEF TypeOK, LocalInv
  <2> QED BY <2>3, <2>4 DEF TypeInv
<1>15. ASSUME NEW w \in Workers, Finish(w) PROVE TypeInv'
  <2>1. run[w] \in Runs /\ run[w].status \in {"running", "aborted", "completed"}
        /\ run[w].fetched \in Nat
    BY <1>0 DEF TypeOK, Runs
  <2>2. FreshRun(0) \in Runs
    BY <1>0, FreshTypes
  <2>3. run[w].status # "running"
    BY <1>0, <1>15 DEF Finish, LocalInv
  <2>4. TypeOK'
    BY <1>0, <1>15, <2>1, <2>2, <2>3 DEF Finish, TypeOK, Positions
  <2> QED BY <1>0, <1>15, <2>4 DEF Finish, TypeInv, TypeOK, LocalInv
<1>16. ASSUME NEW w \in Workers, Stop(w) PROVE TypeInv'
  <2>1. FreshRun(0) \in Runs
    BY <1>0, FreshTypes
  <2>2. stops' \in 0 .. MaxStops
    BY <1>0, <1>16, IngestionAssumption DEF IngestionAssumption, Stop, TypeOK
  <2>3. TypeOK'
    BY <1>0, <1>16, <2>1, <2>2 DEF Stop, TypeOK, Positions
  <2> QED BY <1>0, <1>16, <2>3 DEF Stop, TypeInv, TypeOK, LocalInv
<1>17. CASE ResetWatermark
  <2>1. TypeOK'
    BY <1>0, <1>17 DEF ResetWatermark, TypeOK
  <2> QED BY <1>0, <1>17, <2>1 DEF ResetWatermark, TypeInv, LocalInv
<1>18. CASE UNCHANGED vars
  BY <1>0, <1>18 DEF vars, TypeInv, TypeOK, LocalInv
<1> QED
  BY <1>1, <1>1a, <1>2, <1>3, <1>4, <1>5, <1>6, <1>7, <1>8, <1>9, <1>10, <1>11, <1>12,
     <1>13, <1>14, <1>15, <1>16, <1>17, <1>18 DEF Next, Work

(* Whatever the instances, the source and the crashes do, every version, cursor *)
(* and count the engine stores has its type: no count goes below zero.          *)
THEOREM TypeCorrect == ASSUME IngestionAssumption PROVE Spec => []TypeOK
<1>1. TypeInv => TypeOK
  BY DEF TypeInv
<1> QED BY TypeInit, TypeStep, <1>1, PTL DEF Spec

-----------------------------------------------------------------------------
(* Verified deletions. *)

(* While a sync runs, its history set holds every id the source lacks; and with  *)
(* verification on, what it is about to tombstone was found absent by then.      *)
DeletionInv ==
    \A w \in Workers :
        /\ pc[w] # "idle" => \A i \in Ids : src[i] = 0 => i \in absent[w]
        /\ confirmed[w] # {} => pc[w] = "verifying"
        /\ VerifyDeletion => confirmed[w] \subseteq absent[w]

LEMMA DeletionInit == ASSUME IngestionAssumption PROVE Init => DeletionInv
BY DEF Init, DeletionInv

LEMMA DeletionStep == ASSUME IngestionAssumption PROVE TypeInv /\ DeletionInv /\ [Next]_vars => DeletionInv'
<1> SUFFICES ASSUME TypeInv, DeletionInv, [Next]_vars PROVE DeletionInv'
  OBVIOUS
<1>0. TypeOK
  BY DEF TypeInv
<1> USE DEF source, store, deletion
<1>1. ASSUME NEW i \in Ids, SourceWrites(i) PROVE DeletionInv'
  <2>1. \A j \in Ids : src'[j] = 0 => src[j] = 0
    BY <1>0, <1>1, IngestionAssumption DEF IngestionAssumption, SourceWrites, TypeOK, Versions
  <2> QED BY <1>1, <2>1 DEF SourceWrites, DeletionInv
<1>1a. ASSUME NEW i \in Ids, SourceRestores(i) PROVE DeletionInv'
  <2>1. \A j \in Ids : src'[j] = 0 => src[j] = 0
    BY <1>0, <1>1a DEF SourceRestores, TypeOK
  <2> QED BY <1>1a, <2>1 DEF SourceRestores, DeletionInv
<1>2. ASSUME NEW i \in Ids, SourceDeletes(i) PROVE DeletionInv'
  BY <1>0, <1>2 DEF SourceDeletes, TypeOK, DeletionInv
<1>3. ASSUME NEW w \in Workers, Begin(w) PROVE DeletionInv'
  BY <1>0, <1>3 DEF Begin, TypeOK, DeletionInv
<1>4. ASSUME NEW w \in Workers, SelectMissing(w) PROVE DeletionInv'
  BY <1>0, <1>4 DEF SelectMissing, TypeOK, DeletionInv
<1>5. ASSUME NEW w \in Workers, VerifyMissing(w) PROVE DeletionInv'
  <2>1. PICK i \in cand[w], reached \in BOOLEAN :
          confirmed' = [confirmed EXCEPT ![w] =
                          IF reached /\ src[i] = 0 THEN @ \cup {i} ELSE @]
    BY <1>5 DEF VerifyMissing
  <2>2. i \in Ids /\ pc[w] = "verifying"
    BY <1>0, <1>5 DEF TypeOK, VerifyMissing
  <2>3. src[i] = 0 => i \in absent[w]
    BY <2>2 DEF DeletionInv
  <2> QED BY <1>0, <1>5, <2>1, <2>2, <2>3 DEF VerifyMissing, TypeOK, DeletionInv
<1>6. ASSUME NEW w \in Workers, Tombstone(w) PROVE DeletionInv'
  BY <1>0, <1>6 DEF Tombstone, EndRun, TypeOK, DeletionInv
<1>7. ASSUME NEW w \in Workers, Stop(w) PROVE DeletionInv'
  BY <1>0, <1>7 DEF Stop, TypeOK, DeletionInv
<1>8. ASSUME NEW w \in Workers, SkipRun(w) \/ Finish(w) PROVE DeletionInv'
  BY <1>0, <1>8 DEF SkipRun, Finish, TypeOK, DeletionInv
<1>9. ASSUME NEW w \in Workers,
             TryLock(w) \/ StampLock(w) \/ FetchPage(w) \/ CommitPage(w)
             \/ AbortOnDrift(w) \/ CompleteWalk(w)
      PROVE  DeletionInv'
  <2>1. /\ \E p \in Positions \ {"idle", "verifying"} : pc' = [pc EXCEPT ![w] = p]
        /\ pc[w] \notin {"idle", "verifying"}
        /\ UNCHANGED <<src, absent, confirmed>>
    BY <1>9 DEF TryLock, StampLock, FetchPage, CommitPage, AbortOnDrift, CompleteWalk,
                EndRun, Positions
  <2> QED BY <1>0, <2>1 DEF TypeOK, DeletionInv
<1>10. CASE (\E e \in events : DeliverWebhook(e)) \/ ResetWatermark \/ UNCHANGED vars
  BY <1>10 DEF DeliverWebhook, ResetWatermark, vars, DeletionInv
<1> QED
  BY <1>1, <1>1a, <1>2, <1>3, <1>4, <1>5, <1>6, <1>7, <1>8, <1>9, <1>10 DEF Next, Work

(* Which steps tombstone a live row: the tombstone transaction alone, and only what *)
(* its instance had confirmed.                                                      *)
LEMMA OnlyTombstone ==
  ASSUME IngestionAssumption, TypeInv, Next, NEW i \in Live, table'[i].deleted
  PROVE  \E w \in Workers : Tombstone(w) /\ i \in confirmed[w]
<1>0. TypeOK /\ i \in Ids /\ ~table[i].deleted
  BY DEF TypeInv, Live
<1> USE DEF source, store, deletion
<1>1. ASSUME table' = table PROVE FALSE
  BY <1>0, <1>1
<1>2. ASSUME NEW e \in events, DeliverWebhook(e) PROVE FALSE
  <2>1. e[1] \in Ids /\ e[2] \in Versions
    BY <1>0 DEF TypeOK
  <2>2. Upserted(table[e[1]], e[2]).deleted = FALSE
    BY <1>0, <2>1, UpsertTypes DEF TypeOK
  <2> QED BY <1>0, <1>2, <2>1, <2>2 DEF DeliverWebhook, TypeOK
<1>3. ASSUME NEW w \in Workers, CommitPage(w) PROVE FALSE
  <2>1. \A j \in PageWrites(run[w]) : run[w].page[j] \in Versions
    BY <1>0, CommitTypes DEF TypeOK
  <2>2. table'[i] = IF i \in PageWrites(run[w])
                    THEN Upserted(table[i], run[w].page[i]) ELSE table[i]
    BY <1>0, <1>3 DEF CommitPage
  <2> QED BY <1>0, <2>1, <2>2, UpsertTypes DEF TypeOK
<1>4. ASSUME NEW w \in Workers, Tombstone(w) PROVE i \in confirmed[w]
  BY <1>0, <1>4 DEF Tombstone
<1>5. ASSUME NEW w \in Workers,
             Begin(w) \/ TryLock(w) \/ SkipRun(w) \/ StampLock(w) \/ FetchPage(w)
             \/ AbortOnDrift(w) \/ CompleteWalk(w) \/ SelectMissing(w)
             \/ VerifyMissing(w) \/ Finish(w) \/ Stop(w)
      PROVE  table' = table
  BY <1>5 DEF Begin, TryLock, SkipRun, StampLock, FetchPage, AbortOnDrift, CompleteWalk,
              SelectMissing, VerifyMissing, Finish, Stop, EndRun
<1>6. ASSUME ResetWatermark \/ \E j \in Ids : SourceWrites(j) \/ SourceRestores(j) \/ SourceDeletes(j)
      PROVE  table' = table
  BY <1>6 DEF ResetWatermark, SourceWrites, SourceRestores, SourceDeletes
<1> QED BY <1>1, <1>2, <1>3, <1>4, <1>5, <1>6 DEF Next, Work

(* With verify_deletion, a tombstone is always that of a record the source lacked at *)
(* some time in the sync that wrote it: for any number of instances walking the same *)
(* source at once (the lock is not needed), any pagination, and webhooks in between.  *)
THEOREM DeletionsVerified ==
  ASSUME IngestionAssumption, VerifyDeletion
  PROVE  Spec => TombstonedWasAbsent
<1>1. TypeInv /\ DeletionInv /\ [Next]_vars =>
        [ \A i \in Live : table'[i].deleted =>
             \E w \in Workers : pc[w] = "verifying" /\ i \in absent[w] ]_vars
  <2> SUFFICES ASSUME TypeInv, DeletionInv, Next, NEW i \in Live, table'[i].deleted
               PROVE  \E w \in Workers : pc[w] = "verifying" /\ i \in absent[w]
    OBVIOUS
  <2>1. PICK w \in Workers : Tombstone(w) /\ i \in confirmed[w]
    BY OnlyTombstone
  <2> QED BY <2>1, VerifyDeletion DEF DeletionInv
<1>2. Spec => [](TypeInv /\ DeletionInv)
  <2>1. Init => TypeInv /\ DeletionInv
    BY TypeInit, DeletionInit
  <2>2. TypeInv /\ DeletionInv /\ [Next]_vars => (TypeInv /\ DeletionInv)'
    BY TypeStep, DeletionStep
  <2> QED BY <2>1, <2>2, PTL DEF Spec
<1> QED BY <1>1, <1>2, PTL DEF Spec, TombstonedWasAbsent

-----------------------------------------------------------------------------
(* Payloads, with one instance and no webhooks. *)

(* One instance syncs the datatype, and nothing reaches the table beside it. *)
SoleWriter == (\A v, w \in Workers : v = w) /\ ~Webhooks

(* Of the ids S, f lists nothing from the future, and the version whose payload a *)
(* tombstone has emptied only if that version came back.                          *)
Fresh(S, f) ==
    \A i \in S : f[i] <= edits /\ (table[i].data # table[i].hash =>
                                       f[i] # table[i].hash \/ f[i] \in returned)

(* Only a tombstone empties a payload, and the version it emptied is gone unless it *)
(* came back: neither the source nor a page still to be committed has it otherwise.  *)
Emptied(row) == row.data = 0 /\ row.hash # 0 /\ (row.deleted \/ row.hash \in returned)
RowsWhole ==
    /\ events = {}
    /\ Fresh(Ids, src)
    /\ \A i \in Ids : table[i].hash <= edits /\ latest[i] <= edits
    /\ \A i \in Ids : table[i].data # table[i].hash => Emptied(table[i])
RunWhole(w) ==
    /\ pc[w] = "fetched" => Fresh(DOMAIN run[w].page, run[w].page)
    /\ Paging = "snapshot" /\ pc[w] \in {"fetched", "paging"} => Fresh(Ids, run[w].view)
    /\ pc[w] = "verifying" => cand[w] \cup confirmed[w] \subseteq Live
    /\ confirmed[w] # {} => pc[w] = "verifying"
    /\ \A i \in confirmed[w] : src[i] = table[i].hash => src[i] \in returned
WholeInv == RowsWhole /\ \A w \in Workers : RunWhole(w)

(* The types those steps need. *)
LEMMA Numbers ==
  ASSUME IngestionAssumption, TypeInv
  PROVE  /\ edits \in Nat /\ src \in [Ids -> Nat] /\ latest \in [Ids -> Nat]
         /\ table \in [Ids -> [hash : Nat, data : Nat, deleted : BOOLEAN]]
         /\ pc \in [Workers -> Positions]
         /\ \A w \in Workers : /\ run[w] \in Runs
                               /\ cand[w] \subseteq Ids /\ confirmed[w] \subseteq Ids
                               /\ DOMAIN run[w].page \subseteq Ids
                               /\ \A i \in DOMAIN run[w].page : run[w].page[i] \in Nat
         /\ \A w \in Workers : Paging = "snapshot" /\ pc[w] \in {"fetched", "paging"} =>
                                 run[w].view \in [Ids -> Nat]
<1>1. Versions \subseteq Nat
  BY SmallSets
<1>2. \A w \in Workers : run[w] \in Runs /\ cand[w] \subseteq Ids /\ confirmed[w] \subseteq Ids
  BY DEF TypeInv, TypeOK
<1>3. ASSUME NEW w \in Workers
      PROVE  /\ DOMAIN run[w].page \subseteq Ids
             /\ \A i \in DOMAIN run[w].page : run[w].page[i] \in Nat
  <2>1. run[w].page \in Pages
    BY <1>2 DEF Runs
  <2>2. \A f \in Pages : DOMAIN f \subseteq Ids /\ \A i \in DOMAIN f : f[i] \in Nat
    BY <1>1 DEF Pages
  <2> QED BY <2>1, <2>2
<1>4. edits \in Nat /\ src \in [Ids -> Nat] /\ latest \in [Ids -> Nat]
  BY <1>1 DEF TypeInv, TypeOK
<1>5. table \in [Ids -> [hash : Nat, data : Nat, deleted : BOOLEAN]]
  BY <1>1 DEF TypeInv, TypeOK
<1>6. \A w \in Workers : Paging = "snapshot" /\ pc[w] \in {"fetched", "paging"} =>
                            run[w].view \in [Ids -> Nat]
  BY <1>1 DEF TypeInv, LocalInv
<1>7. pc \in [Workers -> Positions]
  BY DEF TypeInv, TypeOK
<1> QED BY <1>2, <1>3, <1>4, <1>5, <1>6, <1>7

LEMMA WholeInit == ASSUME IngestionAssumption PROVE Init => WholeInv
BY DEF Init, WholeInv, RowsWhole, RunWhole, Fresh, NoRow, IngestionAssumption, Ids

(* An edit of the source makes a version that no row and no page has, or brings one *)
(* back.                                                                            *)
LEMMA WholeEdits ==
  ASSUME IngestionAssumption, SoleWriter, TypeInv, WholeInv,
         NEW i \in Ids, SourceWrites(i) \/ SourceRestores(i) \/ SourceDeletes(i)
  PROVE  WholeInv'
<1>0. /\ edits \in Nat /\ src \in [Ids -> Nat] /\ latest \in [Ids -> Nat]
      /\ table \in [Ids -> [hash : Nat, data : Nat, deleted : BOOLEAN]]
  BY Numbers
<1>1. /\ edits' = edits + 1 /\ \A v \in returned : v \in returned'
      /\ events' = events /\ UNCHANGED <<table, pc, run, cand, confirmed>>
  BY SoleWriter DEF SourceWrites, SourceRestores, SourceDeletes, Notifies, SoleWriter, store,
                    deletion
<1>2. RowsWhole /\ \A w \in Workers : RunWhole(w)
  BY DEF WholeInv
<1>3. \A j \in Ids : /\ src'[j] \in Nat /\ src'[j] <= edits'
                      /\ latest'[j] \in Nat /\ latest'[j] <= edits'
                      /\ src'[j] \in {0, src[j], edits + 1} \cup returned'
  <2>1. \A j \in Ids : /\ src[j] \in Nat /\ src[j] <= edits
                        /\ latest[j] \in Nat /\ latest[j] <= edits
    BY <1>0, <1>2 DEF RowsWhole, Fresh
  <2>2. CASE SourceWrites(i)
    BY <1>0, <2>1, <2>2 DEF SourceWrites
  <2>3. CASE SourceRestores(i)
    BY <1>0, <2>1, <2>3 DEF SourceRestores
  <2>4. CASE SourceDeletes(i)
    BY <1>0, <2>1, <2>4 DEF SourceDeletes
  <2> QED BY <2>2, <2>3, <2>4
<1>4. RowsWhole'
  <2>1. Fresh(Ids, src)'
    BY <1>0, <1>1, <1>2, <1>3 DEF RowsWhole, Fresh, Emptied
  <2>2. \A j \in Ids : table'[j].hash <= edits' /\ latest'[j] <= edits'
    BY <1>0, <1>1, <1>2, <1>3 DEF RowsWhole
  <2> QED BY <1>1, <1>2, <2>1, <2>2 DEF RowsWhole, Emptied
<1>5. ASSUME NEW w \in Workers PROVE RunWhole(w)'
  <2>1. RunWhole(w) /\ cand[w] \subseteq Ids /\ confirmed[w] \subseteq Ids
    BY <1>2, Numbers
  <2>2. pc[w] = "fetched" => Fresh(DOMAIN run[w].page, run[w].page)'
    <3>1. \A j \in DOMAIN run[w].page : run[w].page[j] \in Nat
      BY Numbers
    <3>2. pc[w] = "fetched" => Fresh(DOMAIN run[w].page, run[w].page)
      BY <2>1 DEF RunWhole
    <3>3. run' = run /\ table' = table
      BY <1>1
    <3> QED BY <1>0, <1>1, <3>1, <3>2, <3>3 DEF Fresh
  <2>3. Paging = "snapshot" /\ pc[w] \in {"fetched", "paging"} => Fresh(Ids, run[w].view)'
    <3> SUFFICES ASSUME Paging = "snapshot", pc[w] \in {"fetched", "paging"}
                 PROVE  Fresh(Ids, run[w].view)'
      OBVIOUS
    <3>1. \A j \in Ids : run[w].view[j] \in Nat
      BY Numbers
    <3>2. Fresh(Ids, run[w].view)
      BY <2>1 DEF RunWhole
    <3>3. run' = run /\ table' = table
      BY <1>1
    <3> QED BY <1>0, <1>1, <3>1, <3>2, <3>3 DEF Fresh
  <2>4. Live' = Live
    BY <1>1 DEF Live
  <2>5. ASSUME NEW j \in confirmed[w], src'[j] = table[j].hash PROVE src'[j] \in returned'
    <3>1. j \in Ids /\ table[j].hash # 0 /\ table[j].hash \in Nat /\ table[j].hash <= edits
      BY <1>0, <1>2, <2>1 DEF RunWhole, RowsWhole, Live
    <3>2. src'[j] \in {src[j]} \cup returned'
      BY <1>0, <1>3, <2>5, <3>1
    <3> QED BY <1>1, <2>1, <2>5, <3>2 DEF RunWhole
  <2> QED BY <1>1, <2>1, <2>2, <2>3, <2>4, <2>5 DEF RunWhole
<1> QED BY <1>4, <1>5 DEF WholeInv

(* A request lists the source as it is, or as the frozen result set has it. *)
LEMMA WholeFetch ==
  ASSUME IngestionAssumption, SoleWriter, TypeInv, WholeInv, NEW w \in Workers, FetchPage(w)
  PROVE  WholeInv'
<1> DEFINE r == run[w]
           v == IF Paging = "snapshot" /\ pc[w] = "paging" THEN r.view ELSE src
           page == ListPage(v, r.wm, r.pos)
           kept == IF Paging = "snapshot" THEN v ELSE Nothing
           next == [r EXCEPT !.view = kept,
                             !.page = [i \in page |-> v[i]],
                             !.pos = NextPos(v, r.pos, page),
                             !.more = HasNext(v, r.wm, r.pos, page)]
<1>1. /\ run' = [run EXCEPT ![w] = next] /\ pc' = [pc EXCEPT ![w] = "fetched"]
      /\ UNCHANGED <<src, latest, edits, returned, events, table, cand, confirmed>>
      /\ pc[w] \in {"opening", "paging"}
  BY DEF FetchPage, source, store, deletion
<1>2. r \in Runs /\ run \in [Workers -> Runs] /\ pc \in [Workers -> Positions]
  BY DEF TypeInv, TypeOK
<1>3. page \subseteq Ids
  BY DEF ListPage, Remaining, Listing
<1>4. Fresh(Ids, v)
  BY <1>1 DEF WholeInv, RowsWhole, RunWhole
<1> PICK s : s = run'[w]
  OBVIOUS
<1>5. s.page = [i \in page |-> v[i]] /\ s.view = kept /\ pc'[w] = "fetched"
  <2>1. next.page = [i \in page |-> v[i]] /\ next.view = kept
    <3> HIDE DEF v, page, kept
    <3> QED BY <1>2 DEF Runs
  <2> HIDE DEF next, kept, v, page, r
  <2> QED BY <1>1, <1>2, <2>1
<1> HIDE DEF page, v, next, r
<1>6. Fresh(DOMAIN s.page, s.page)
  BY <1>3, <1>4, <1>5 DEF Fresh
<1>7. Paging = "snapshot" => Fresh(Ids, s.view)
  BY <1>4, <1>5
<1>8. confirmed[w] = {}
  BY <1>1 DEF WholeInv, RunWhole
<1>9. RunWhole(w)'
  <2>1. Fresh(DOMAIN run[w].page, run[w].page)'
    BY <1>1, <1>6 DEF Fresh
  <2>2. Paging = "snapshot" => Fresh(Ids, run[w].view)'
    BY <1>1, <1>7 DEF Fresh
  <2>3. pc'[w] = "fetched" /\ confirmed'[w] = {}
    BY <1>1, <1>5, <1>8
  <2> QED BY <2>1, <2>2, <2>3 DEF RunWhole
<1> QED BY <1>1, <1>9, SoleWriter DEF SoleWriter, WholeInv, RowsWhole, Emptied, Fresh

(* A commit stores each payload with its hash: no page lists an emptied version. *)
LEMMA WholeCommit ==
  ASSUME IngestionAssumption, SoleWriter, TypeInv, WholeInv, NEW w \in Workers, CommitPage(w)
  PROVE  WholeInv'
<1> DEFINE r == run[w]
           next == [r EXCEPT !.page = Nothing,
                             !.seen = @ \cup PageWrites(r),
                             !.newWm = IF Incremental THEN MaxCursor(r) ELSE 0,
                             !.fetched = Fetched(r)]
<1>1. /\ table' = [i \in Ids |-> IF i \in PageWrites(r)
                                 THEN Upserted(table[i], r.page[i]) ELSE table[i]]
      /\ run' = [run EXCEPT ![w] = next]
      /\ pc' = [pc EXCEPT ![w] = IF r.more THEN "paging" ELSE "walked"]
      /\ UNCHANGED <<src, latest, edits, returned, events, cand, confirmed>>
      /\ pc[w] = "fetched"
  BY DEF CommitPage, source, deletion
<1>2. /\ r \in Runs /\ run \in [Workers -> Runs] /\ pc \in [Workers -> Positions]
      /\ table \in [Ids -> [hash : Nat, data : Nat, deleted : BOOLEAN]]
      /\ \A i \in DOMAIN r.page : r.page[i] \in Nat
      /\ PageWrites(r) \subseteq DOMAIN r.page
  BY Numbers DEF TypeInv, TypeOK, PageWrites
<1>3. run'[w].view = r.view /\ pc'[w] \in {"paging", "walked"}
  <2> HIDE DEF r
  <2>1. next.view = r.view
    BY <1>2 DEF Runs
  <2> HIDE DEF next
  <2> QED BY <1>1, <1>2, <2>1
<1> HIDE DEF next
<1>4. /\ Fresh(DOMAIN r.page, r.page) /\ RowsWhole /\ confirmed[w] = {}
      /\ Paging = "snapshot" => Fresh(Ids, r.view)
  BY <1>1 DEF WholeInv, RunWhole
<1> HIDE DEF r
<1>5. ASSUME NEW i \in Ids
      PROVE  /\ table'[i].hash <= edits
             /\ \/ table'[i].data = table'[i].hash
                \/ /\ table'[i].hash = table[i].hash /\ table[i].data # table[i].hash
                   /\ Emptied(table'[i])
  <2>1. table[i] \in [hash : Nat, data : Nat, deleted : BOOLEAN] /\ table[i].hash <= edits
    BY <1>2, <1>4 DEF RowsWhole
  <2>2. table[i].data # table[i].hash => Emptied(table[i])
    BY <1>4 DEF RowsWhole
  <2>3. CASE i \in PageWrites(r)
    <3>1. /\ table'[i] = Upserted(table[i], r.page[i])
          /\ r.page[i] \in Nat /\ r.page[i] <= edits
          /\ table[i].data # table[i].hash =>
                r.page[i] # table[i].hash \/ r.page[i] \in returned
      BY <1>1, <1>2, <1>4, <2>3 DEF Fresh
    <3>2. CASE table[i].hash # r.page[i]
      BY <3>1, <3>2 DEF Upserted
    <3>3. CASE table[i].hash = r.page[i]
      <4>1. table'[i] = [table[i] EXCEPT !.deleted = FALSE]
        BY <3>1, <3>3 DEF Upserted
      <4>2. table'[i].hash = table[i].hash /\ table'[i].data = table[i].data
        BY <2>1, <4>1
      <4> QED BY <2>1, <2>2, <3>1, <3>3, <4>2 DEF Emptied
    <3> QED BY <3>2, <3>3
  <2>4. CASE i \notin PageWrites(r)
    BY <1>1, <2>1, <2>2, <2>4
  <2> QED BY <2>3, <2>4
<1>6. \A i \in Ids : table'[i].data # table'[i].hash =>
         table'[i].hash = table[i].hash /\ table[i].data # table[i].hash
  BY <1>5
<1>7. RowsWhole'
  BY <1>1, <1>2, <1>4, <1>5, <1>6 DEF RowsWhole, Emptied, Fresh
<1> PICK s : s = run'[w]
  OBVIOUS
<1>8. Paging = "snapshot" => Fresh(Ids, s.view)'
  <2> SUFFICES ASSUME Paging = "snapshot", NEW i \in Ids
               PROVE  /\ s.view[i] <= edits
                      /\ table'[i].data # table'[i].hash =>
                            s.view[i] # table'[i].hash \/ s.view[i] \in returned
    BY <1>1 DEF Fresh
  <2>1. /\ r.view[i] <= edits
        /\ table[i].data # table[i].hash =>
              r.view[i] # table[i].hash \/ r.view[i] \in returned
    BY <1>4 DEF Fresh
  <2> QED BY <1>3, <1>6, <2>1
<1>9. RunWhole(w)'
  <2>1. pc'[w] \in {"paging", "walked"} /\ confirmed'[w] = {}
    BY <1>1, <1>3, <1>4
  <2>2. Paging = "snapshot" => Fresh(Ids, run[w].view)'
    BY <1>8 DEF Fresh
  <2> QED BY <2>1, <2>2 DEF RunWhole
<1> QED BY <1>7, <1>9, SoleWriter DEF SoleWriter, WholeInv

LEMMA WholeStep ==
  ASSUME IngestionAssumption, SoleWriter, VerifyDeletion
  PROVE  TypeInv /\ WholeInv /\ [Next]_vars => WholeInv'
<1> SUFFICES ASSUME TypeInv, WholeInv, [Next]_vars PROVE WholeInv'
  OBVIOUS
<1>0. /\ RowsWhole /\ \A w \in Workers : RunWhole(w)
      /\ src \in [Ids -> Nat] /\ table \in [Ids -> [hash : Nat, data : Nat, deleted : BOOLEAN]]
      /\ pc \in [Workers -> Positions] /\ cand \in [Workers -> SUBSET Ids]
      /\ confirmed \in [Workers -> SUBSET Ids]
  BY Numbers DEF WholeInv, TypeInv, TypeOK
<1> USE DEF source, store, deletion
<1>1. ASSUME NEW w \in Workers, SelectMissing(w) PROVE WholeInv'
  <2>1. /\ pc[w] = "walked" /\ pc' = [pc EXCEPT ![w] = "verifying"]
        /\ cand' = [cand EXCEPT ![w] = Missing(w)]
        /\ confirmed' = [confirmed EXCEPT ![w] = {}]
        /\ UNCHANGED <<src, latest, edits, returned, events, table, run>>
    BY <1>1, VerifyDeletion DEF SelectMissing
  <2>2. Missing(w) \subseteq Live /\ Live' = Live
    BY <2>1 DEF Missing, Live
  <2>3. RunWhole(w)'
    BY <1>0, <2>1, <2>2 DEF RunWhole
  <2> QED BY <1>0, <2>1, <2>3, SoleWriter DEF SoleWriter, WholeInv, RowsWhole, Emptied, Fresh
<1>2. ASSUME NEW w \in Workers, VerifyMissing(w) PROVE WholeInv'
  <2>1. PICK i \in cand[w], reached \in BOOLEAN :
          /\ cand' = [cand EXCEPT ![w] = @ \ {i}]
          /\ confirmed' = [confirmed EXCEPT ![w] =
                             IF reached /\ src[i] = 0 THEN @ \cup {i} ELSE @]
    BY <1>2 DEF VerifyMissing
  <2>2. pc[w] = "verifying" /\ UNCHANGED <<src, latest, edits, returned, events, table, pc, run>>
    BY <1>2 DEF VerifyMissing
  <2>3. i \in Live /\ Live' = Live /\ i \in Ids
    BY <1>0, <2>1, <2>2 DEF RunWhole, Live
  <2>4. src[i] = 0 => src[i] # table[i].hash
    BY <2>3 DEF Live
  <2>5. RunWhole(w)'
    BY <1>0, <2>1, <2>2, <2>3, <2>4 DEF RunWhole
  <2> QED BY <1>0, <2>2, <2>5, SoleWriter DEF SoleWriter, WholeInv, RowsWhole, Emptied, Fresh
<1>3. ASSUME NEW w \in Workers, Tombstone(w) PROVE WholeInv'
  <2>1. /\ table' = [i \in Ids |-> IF i \in confirmed[w] \cap Live
                                   THEN [table[i] EXCEPT !.data = 0, !.deleted = TRUE]
                                   ELSE table[i]]
        /\ confirmed' = [confirmed EXCEPT ![w] = {}]
        /\ pc' = [pc EXCEPT ![w] = "finishing"]
        /\ UNCHANGED <<src, latest, edits, returned, events>>
    BY <1>3 DEF Tombstone, EndRun
  <2>2. \A i \in Ids : table'[i].hash = table[i].hash
    BY <1>0, <2>1
  <2>3. \A i \in Ids : table'[i].data # table'[i].hash =>
            \/ table'[i] = table[i]
            \/ /\ table'[i].deleted /\ table'[i].hash # 0 /\ table'[i].data = 0
               /\ src[i] = table'[i].hash => src[i] \in returned
    BY <1>0, <2>1 DEF RunWhole, Live
  <2>4. RowsWhole'
    <3>1. RowsWhole /\ edits' = edits /\ src' = src /\ returned' = returned
      BY <1>0, <2>1
    <3>2. \A i \in Ids : table'[i].data # table'[i].hash =>
             Emptied(table'[i]) /\ (src[i] = table'[i].hash => src[i] \in returned)
      BY <2>3, <3>1 DEF RowsWhole, Fresh, Emptied
    <3> QED BY <2>1, <2>2, <3>1, <3>2 DEF RowsWhole, Fresh, Emptied
  <2>5. RunWhole(w)'
    BY <1>0, <2>1 DEF RunWhole
  <2> QED BY <2>4, <2>5, SoleWriter DEF SoleWriter, WholeInv
<1>4. ASSUME NEW w \in Workers,
             Begin(w) \/ TryLock(w) \/ SkipRun(w) \/ StampLock(w) \/ AbortOnDrift(w)
             \/ CompleteWalk(w) \/ Finish(w) \/ Stop(w)
      PROVE  WholeInv'
  <2>1. /\ \E p \in Positions \ {"fetched", "paging", "verifying"} : pc' = [pc EXCEPT ![w] = p]
        /\ \/ confirmed' = confirmed /\ pc[w] # "verifying"
           \/ confirmed' = [confirmed EXCEPT ![w] = {}]
        /\ UNCHANGED <<src, latest, edits, returned, events, table>>
    BY <1>4 DEF Begin, TryLock, SkipRun, StampLock, AbortOnDrift, CompleteWalk, Finish, Stop,
                EndRun, Positions
  <2>2. confirmed'[w] = {} /\ pc'[w] \notin {"fetched", "paging", "verifying"}
    BY <1>0, <2>1 DEF RunWhole
  <2>3. RunWhole(w)'
    BY <2>2 DEF RunWhole
  <2> QED BY <1>0, <2>1, <2>3, SoleWriter DEF SoleWriter, WholeInv, RowsWhole, Emptied, Fresh
<1>5. ASSUME NEW e \in events, DeliverWebhook(e) PROVE WholeInv'
  BY <1>0, <1>5 DEF RowsWhole
<1>6. CASE ResetWatermark \/ UNCHANGED vars
  <2>1. UNCHANGED <<src, latest, edits, returned, events, table, pc, run, cand, confirmed>>
    BY <1>6 DEF ResetWatermark, vars
  <2>2. ASSUME NEW w \in Workers PROVE RunWhole(w)'
    BY <1>0, <2>1 DEF RunWhole, Fresh, Live
  <2> QED BY <1>0, <2>1, <2>2 DEF WholeInv, RowsWhole, Emptied, Fresh
<1> QED
  BY <1>1, <1>2, <1>3, <1>4, <1>5, <1>6, WholeEdits, WholeFetch, WholeCommit, SoleWriter
     DEF Next, Work

(* With one instance, verified deletions and no webhooks, a live row carries the payload *)
(* its hash says unless just that version has come back after a deletion: no vanishing    *)
(* and returning with another payload, in whatever order the pages of the walks list it,   *)
(* leaves a row alive with the emptied payload of its tombstone.                          *)
THEOREM PayloadsWhole ==
  ASSUME IngestionAssumption, SoleWriter, VerifyDeletion
  PROVE  Spec => []OnlyReturnsAreEmpty
<1>1. WholeInv => OnlyReturnsAreEmpty
  BY DEF WholeInv, RowsWhole, Emptied, OnlyReturnsAreEmpty, Live
<1> QED BY TypeInit, TypeStep, WholeInit, WholeStep, <1>1, PTL DEF Spec

-----------------------------------------------------------------------------
(* The watermark, with one instance that follows a cursor its listing is sorted by. *)

(* list.incremental over a frozen result set sorted by the cursor field, of an API that *)
(* gives a record which comes back a new cursor value.                                  *)
FollowsCursor == Incremental /\ SortedByCursor /\ Paging = "snapshot" /\ ~Returns

\* Version v of record i is in its row or among the dead letters.
Stored(i, v) == table[i].hash = v \/ v \in deadLetter

\* The place of record i in the listing that run r walks.
Rank(r, i) == Cardinality({j \in Listing(r.view, r.wm) : r.view[j] < r.view[i]})

(* Run r has dealt with the first p records of its listing, and its new watermark, if it *)
(* has one, is the cursor of one of them.                                                *)
Walked(r, p) ==
    /\ \A i \in Listing(r.view, r.wm) : Rank(r, i) < p => Stored(i, r.view[i])
    /\ r.newWm # 0 => \E j \in Listing(r.view, r.wm) : Rank(r, j) < p /\ r.newWm = r.view[j]

(* What has changed since run r opened its result set lies above everything in it, so    *)
(* that neither the watermark nor the rows of this run can pass it.                      *)
Frozen(r) ==
    /\ \A i \in Ids : src[i] \notin {0, r.view[i]} =>
           src[i] > watermark /\ \A j \in Ids : src[i] > r.view[j]
    /\ \A i \in Ids : r.view[i] <= edits
    /\ \A i \in Ids : r.view[i] \in 1 .. r.wm => Stored(i, r.view[i])
    /\ \A i \in r.seen : table[i].hash = r.view[i]

(* A run that has not listed anything yet starts from a watermark that is covered. *)
Opening(r) ==
    /\ r.wm <= edits /\ r.newWm = 0 /\ r.seen = {} /\ r.pos = 0
    /\ \A i \in Ids : src[i] \in 1 .. r.wm => Stored(i, src[i])

(* The page that run r holds is the one that follows what it has walked. *)
PageFollows(r, p) ==
    /\ DOMAIN r.page = ListPage(r.view, r.wm, p)
    /\ \A i \in DOMAIN r.page : r.page[i] = r.view[i]
    /\ r.more => r.pos = p + PageSize
    /\ Walked(r, p)

CursorCovered ==
    /\ events = {} /\ watermark <= edits
    /\ \A i \in Ids : src[i] <= edits
    /\ WatermarkCovers
RunCovers(w) ==
    /\ pc[w] \in {"started", "locked", "opening"} => Opening(run[w])
    /\ pc[w] \in {"fetched", "paging"} => Frozen(run[w])
    /\ pc[w] = "paging" => Walked(run[w], run[w].pos)
    /\ pc[w] = "fetched" => \E p \in Nat : PageFollows(run[w], p)
CoversInv == CursorCovered /\ \A w \in Workers : RunCovers(w)

LEMMA CoversInit == ASSUME IngestionAssumption PROVE Init => CoversInv
BY DEF Init, CoversInv, CursorCovered, RunCovers, WatermarkCovers, IngestionAssumption, Ids

(* A record with a smaller cursor comes no later in the listing. *)
LEMMA RankMonotone ==
  ASSUME IngestionAssumption, NEW r, r.view \in [Ids -> Nat],
         NEW i \in Ids, NEW j \in Ids, r.view[i] <= r.view[j]
  PROVE  Rank(r, i) \in Nat /\ Rank(r, i) <= Rank(r, j)
<1> DEFINE Before(k) == {l \in Listing(r.view, r.wm) : r.view[l] < r.view[k]}
<1>1. Before(i) \subseteq Before(j) /\ Before(j) \subseteq Ids /\ Before(i) \subseteq Ids
  BY DEF Listing
<1>2. Rank(r, i) = Cardinality(Before(i)) /\ Rank(r, j) = Cardinality(Before(j))
  BY DEF Rank
<1> HIDE DEF Before
<1>3. IsFiniteSet(Before(j)) /\ Cardinality(Before(i)) \in Nat
  BY <1>1, SmallSets
<1> QED BY <1>1, <1>2, <1>3, FS_Subset

(* Once the first p records of a listing are done, and what lies at or below its start, *)
(* so is every record whose cursor is no larger than that of one of the p.              *)
LEMMA WalkedCovers ==
  ASSUME IngestionAssumption, NEW r, r.view \in [Ids -> Nat], r.wm \in Nat,
         NEW p \in Nat, NEW done,
         \A i \in Listing(r.view, r.wm) : Rank(r, i) < p => i \in done,
         \A i \in Ids : r.view[i] \in 1 .. r.wm => i \in done,
         NEW j \in Listing(r.view, r.wm), Rank(r, j) < p,
         NEW i \in Ids, r.view[i] \in 1 .. r.view[j]
  PROVE  i \in done
<1>1. j \in Ids /\ r.view[i] \in Nat /\ r.view[j] \in Nat
  BY DEF Listing
<1>2. CASE r.view[i] > r.wm
  <2>1. i \in Listing(r.view, r.wm)
    BY <1>2 DEF Listing
  <2>2. Rank(r, i) \in Nat /\ Rank(r, i) <= Rank(r, j) /\ Rank(r, j) \in Nat
    BY <1>1, RankMonotone
  <2> QED BY <2>1, <2>2
<1>3. CASE r.view[i] <= r.wm
  BY <1>1, <1>3
<1> QED BY <1>1, <1>2, <1>3

(* An edit makes a version above the watermark and above every listing. *)
LEMMA CoversEdits ==
  ASSUME IngestionAssumption, SoleWriter, FollowsCursor, TypeInv, CoversInv,
         NEW i \in Ids, SourceWrites(i) \/ SourceRestores(i) \/ SourceDeletes(i)
  PROVE  CoversInv'
<1>1. /\ edits' = edits + 1
      /\ \E v \in {0, edits + 1} : src' = [src EXCEPT ![i] = v]
      /\ events' = events /\ UNCHANGED <<table, watermark, deadLetter, pc, run>>
  BY SoleWriter, FollowsCursor
     DEF SourceWrites, SourceRestores, SourceDeletes, Notifies, SoleWriter, FollowsCursor, store
<1>2. /\ edits \in Nat /\ watermark \in Nat /\ src \in [Ids -> Nat]
      /\ \A w \in Workers : run[w].wm \in Nat
  BY SmallSets, Numbers DEF TypeInv, TypeOK, Runs
<1>3. CursorCovered /\ \A w \in Workers : RunCovers(w)
  BY DEF CoversInv
<1>4. \A j \in Ids : src'[j] \in {0, src[j], edits + 1}
  BY <1>1, <1>2
<1>5. CursorCovered'
  BY <1>1, <1>2, <1>3, <1>4 DEF CursorCovered, WatermarkCovers
<1>6. ASSUME NEW w \in Workers PROVE RunCovers(w)'
  <2> PICK r : r = run[w]
    OBVIOUS
  <2>0. run'[w] = r /\ pc' = pc /\ RunCovers(w) /\ r.wm \in Nat
    BY <1>1, <1>2, <1>3
  <2>1. ASSUME Opening(r) PROVE Opening(r)'
    <3>1. \A j \in Ids : src'[j] \in 1 .. r.wm => src'[j] = src[j]
      BY <1>2, <1>4, <2>0, <2>1 DEF Opening
    <3> QED BY <1>1, <1>2, <2>0, <2>1, <3>1 DEF Opening, Stored
  <2>2. ASSUME Frozen(r), r.view \in [Ids -> Nat] PROVE Frozen(r)'
    <3>1. \A j \in Ids : r.view[j] <= edits' /\ r.view[j] < edits + 1
      BY <1>1, <1>2, <2>2 DEF Frozen
    <3>2. ASSUME NEW j \in Ids, src'[j] \notin {0, r.view[j]}
          PROVE  src'[j] > watermark /\ \A k \in Ids : src'[j] > r.view[k]
      <4>1. CASE src'[j] = src[j]
        BY <2>2, <3>2, <4>1 DEF Frozen
      <4>2. CASE src'[j] = edits + 1
        BY <1>2, <1>3, <2>2, <3>1, <4>2 DEF CursorCovered
      <4> QED BY <1>4, <3>2, <4>1, <4>2
    <3> QED BY <1>1, <2>2, <3>1, <3>2 DEF Frozen, Stored
  <2>3. \A p : Walked(r, p)' = Walked(r, p)
    BY <1>1 DEF Walked, Stored
  <2>4. \A p : PageFollows(r, p)' = PageFollows(r, p)
    BY <2>3 DEF PageFollows
  <2>5. pc[w] \in {"fetched", "paging"} => r.view \in [Ids -> Nat]
    BY Numbers DEF FollowsCursor
  <2> QED BY <2>0, <2>1, <2>2, <2>3, <2>4, <2>5 DEF RunCovers
<1> QED BY <1>5, <1>6 DEF CoversInv

(* The first request freezes the source, the later ones list what was frozen. *)
LEMMA CoversFetch ==
  ASSUME IngestionAssumption, SoleWriter, FollowsCursor, TypeInv, CoversInv,
         NEW w \in Workers, FetchPage(w)
  PROVE  CoversInv'
<1> DEFINE r == run[w]
           v == IF pc[w] = "paging" THEN r.view ELSE src
           page == ListPage(v, r.wm, r.pos)
           next == [r EXCEPT !.view = v,
                             !.page = [i \in page |-> v[i]],
                             !.pos = NextPos(v, r.pos, page),
                             !.more = HasNext(v, r.wm, r.pos, page)]
<1>1. /\ run' = [run EXCEPT ![w] = next] /\ pc' = [pc EXCEPT ![w] = "fetched"]
      /\ UNCHANGED <<src, edits, events, table, watermark, deadLetter>>
      /\ pc[w] \in {"opening", "paging"}
  BY DEF FetchPage, source, store, FollowsCursor
<1>2. /\ r \in Runs /\ run \in [Workers -> Runs] /\ pc \in [Workers -> Positions]
      /\ src \in [Ids -> Nat] /\ r.pos \in Nat /\ r.wm \in Nat
      /\ watermark \in Nat /\ edits \in Nat
  BY SmallSets, Numbers DEF TypeInv, TypeOK, Runs
<1>3. v \in [Ids -> Nat]
  BY <1>1, <1>2, Numbers DEF FollowsCursor
<1>4. RunCovers(w) /\ CursorCovered
  BY DEF CoversInv
<1> PICK s : s = run'[w]
  OBVIOUS
<1> PICK p \in Nat : p = r.pos
  BY <1>2
<1>5. /\ pc'[w] = "fetched" /\ s.view = v /\ s.page = [i \in page |-> v[i]]
      /\ s.pos = NextPos(v, r.pos, page) /\ s.more = HasNext(v, r.wm, r.pos, page)
      /\ s.wm = r.wm /\ s.seen = r.seen /\ s.newWm = r.newWm
  <2> HIDE DEF v, page
  <2>1. /\ next.view = v /\ next.page = [i \in page |-> v[i]]
        /\ next.pos = NextPos(v, r.pos, page) /\ next.more = HasNext(v, r.wm, r.pos, page)
        /\ next.wm = r.wm /\ next.seen = r.seen /\ next.newWm = r.newWm
    BY <1>2 DEF Runs
  <2> HIDE DEF next, r
  <2> QED BY <1>1, <1>2, <2>1
<1> HIDE DEF v, next, page
<1>6. Frozen(s)
  <2>1. CASE pc[w] = "paging"
    BY <1>4, <1>5, <2>1 DEF RunCovers, Frozen, v
  <2>2. CASE pc[w] = "opening"
    <3>1. v = src /\ Opening(r)
      BY <1>4, <2>2 DEF RunCovers, v
    <3>2. \A i \in Ids : src[i] <= edits
      BY <1>4 DEF CursorCovered
    <3> QED BY <1>5, <3>1, <3>2 DEF Opening, Frozen
  <2> QED BY <1>1, <2>1, <2>2
<1>7. Walked(s, p)
  <2>1. CASE pc[w] = "paging"
    BY <1>4, <1>5, <2>1 DEF RunCovers, Walked, Rank, v
  <2>2. CASE pc[w] = "opening"
    <3>1. r.pos = 0 /\ r.newWm = 0
      BY <1>4, <2>2 DEF RunCovers, Opening
    <3>2. \A i \in Ids : Rank(s, i) \in Nat
      BY <1>3, <1>5, RankMonotone
    <3> QED BY <1>5, <3>1, <3>2 DEF Walked, Listing
  <2> QED BY <1>1, <2>1, <2>2
<1>8. PageFollows(s, p)
  <2>1. s.more => s.pos = p + PageSize
    BY <1>5 DEF HasNext, NextPos, FollowsCursor
  <2>2. DOMAIN s.page = ListPage(s.view, s.wm, p)
    BY <1>5 DEF page
  <2> QED BY <1>5, <1>7, <2>1, <2>2 DEF PageFollows
<1>9. Frozen(s)' /\ PageFollows(s, p)'
  <2>2. Frozen(s)'
    BY <1>1, <1>6 DEF Frozen, Stored
  <2>3. Walked(s, p)' = Walked(s, p)
    BY <1>1 DEF Walked, Stored
  <2> QED BY <1>8, <2>2, <2>3 DEF PageFollows
<1>10. RunCovers(w)'
  BY <1>5, <1>9 DEF RunCovers
<1> QED BY <1>1, <1>4, <1>10, SoleWriter DEF SoleWriter, CoversInv, CursorCovered, WatermarkCovers

(* A commit deals with the page and takes no other cursor for its watermark. *)
LEMMA CoversCommit ==
  ASSUME IngestionAssumption, SoleWriter, FollowsCursor, TypeInv, CoversInv,
         NEW w \in Workers, CommitPage(w)
  PROVE  CoversInv'
<1> PICK r : r = run[w]
  OBVIOUS
<1> PICK s : s = run'[w]
  OBVIOUS
<1> DEFINE next == [r EXCEPT !.page = Nothing, !.seen = @ \cup PageWrites(r),
                             !.newWm = MaxCursor(r), !.fetched = Fetched(r)]
<1>1. /\ pc[w] = "fetched"
      /\ table' = [i \in Ids |-> IF i \in PageWrites(r)
                                 THEN Upserted(table[i], r.page[i]) ELSE table[i]]
      /\ deadLetter' = deadLetter \cup DeadLetters(r)
      /\ watermark' = IF MaxCursor(r) # 0 THEN MaxCursor(r) ELSE watermark
      /\ run' = [run EXCEPT ![w] = next]
      /\ pc' = [pc EXCEPT ![w] = IF r.more THEN "paging" ELSE "walked"]
      /\ UNCHANGED <<src, latest, edits, returned, events>>
  BY DEF CommitPage, source, FollowsCursor
<1>2. /\ r \in Runs /\ run \in [Workers -> Runs] /\ pc \in [Workers -> Positions]
      /\ src \in [Ids -> Nat] /\ r.wm \in Nat /\ r.newWm \in Nat /\ PageSize \in Nat
      /\ watermark \in Nat /\ edits \in Nat /\ r.view \in [Ids -> Nat]
      /\ table \in [Ids -> [hash : Nat, data : Nat, deleted : BOOLEAN]]
  BY <1>1, SmallSets, Numbers, IngestionAssumption
     DEF IngestionAssumption, TypeInv, TypeOK, Runs, FollowsCursor
<1>3. Frozen(r) /\ CursorCovered /\ \E p \in Nat : PageFollows(r, p)
  BY <1>1 DEF CoversInv, RunCovers
<1> PICK p \in Nat : PageFollows(r, p)
  BY <1>3
<1>4. /\ s.view = r.view /\ s.wm = r.wm /\ s.pos = r.pos /\ s.newWm = MaxCursor(r)
      /\ s.seen = r.seen \cup PageWrites(r)
      /\ pc'[w] \in {"paging", "walked"} /\ (pc'[w] = "paging" => r.more)
  <2>1. /\ next.view = r.view /\ next.wm = r.wm /\ next.pos = r.pos
        /\ next.newWm = MaxCursor(r) /\ next.seen = r.seen \cup PageWrites(r)
    BY <1>2 DEF Runs
  <2> HIDE DEF next
  <2> QED BY <1>1, <1>2, <2>1
<1> HIDE DEF next
<1>5. PageWrites(r) \subseteq DOMAIN r.page /\ DOMAIN r.page \subseteq Listing(r.view, r.wm)
  <2>1. DOMAIN r.page = ListPage(r.view, r.wm, p)
    BY DEF PageFollows
  <2> QED BY <2>1 DEF PageWrites, ListPage, Remaining
<1>6. \A i \in DOMAIN r.page : r.page[i] = r.view[i] /\ i \in Ids
  BY <1>5 DEF PageFollows, Listing
\* What becomes of the rows and the dead letters.
<1>7. /\ \A i \in PageWrites(r) : table'[i].hash = r.view[i]
      /\ \A i \in Ids \ PageWrites(r) : table'[i] = table[i]
  BY <1>1, <1>2, <1>5, <1>6 DEF Upserted
<1>8. deadLetter \subseteq deadLetter'
  BY <1>1
<1>9. \A i \in Ids, v \in Nat : Stored(i, v) /\ v = r.view[i] => Stored(i, v)'
  BY <1>7, <1>8 DEF Stored
<1>10. \A i \in DOMAIN r.page : Stored(i, r.view[i])'
  <2> SUFFICES ASSUME NEW i \in DOMAIN r.page PROVE Stored(i, r.view[i])'
    OBVIOUS
  <2>1. CASE i \in PageRejects(r)
    BY <1>1, <1>6, <2>1 DEF DeadLetters, Stored
  <2>2. CASE i \in PageWrites(r)
    BY <1>7, <2>2 DEF Stored
  <2>3. CASE i \in r.seen
    <3>1. table[i].hash = r.view[i] /\ r.view[i] \in Nat /\ i \in Ids
      BY <1>2, <1>3, <1>6, <2>3 DEF Frozen
    <3> QED BY <1>9, <3>1 DEF Stored
  <2> QED BY <2>1, <2>2, <2>3 DEF PageWrites
\* The walk is one page further.
<1>11. \A i \in Listing(r.view, r.wm) : Rank(r, i) < p + PageSize => Stored(i, r.view[i])'
  <2> SUFFICES ASSUME NEW i \in Listing(r.view, r.wm), Rank(r, i) < p + PageSize
               PROVE  Stored(i, r.view[i])'
    OBVIOUS
  <2>1. i \in Ids /\ r.view[i] \in Nat /\ Rank(r, i) \in Nat
    BY <1>2, RankMonotone DEF Listing
  <2>2. CASE Rank(r, i) < p
    <3>1. Stored(i, r.view[i])
      BY <2>2 DEF PageFollows, Walked
    <3> QED BY <1>9, <2>1, <3>1
  <2>3. CASE p <= Rank(r, i)
    <3>1. i \in ListPage(r.view, r.wm, p)
      BY <2>3 DEF ListPage, Remaining, ListKey, Rank, FollowsCursor
    <3> QED BY <1>10, <3>1 DEF PageFollows
  <2> QED BY <2>1, <2>2, <2>3
<1>12. MaxCursor(r) # 0 =>
          \E j \in Listing(r.view, r.wm) : Rank(r, j) < p + PageSize /\ MaxCursor(r) = r.view[j]
  <2> SUFFICES ASSUME MaxCursor(r) # 0
               PROVE  \E j \in Listing(r.view, r.wm) :
                         Rank(r, j) < p + PageSize /\ MaxCursor(r) = r.view[j]
    OBVIOUS
  <2>1. MaxCursor(r) \in {r.newWm} \cup {r.page[i] : i \in PageWrites(r)}
    BY <1>2, MaxCursorIsOne
  <2>2. CASE MaxCursor(r) = r.newWm
    <3>1. PICK j \in Listing(r.view, r.wm) : Rank(r, j) < p /\ r.newWm = r.view[j]
      BY <2>2 DEF PageFollows, Walked
    <3>2. Rank(r, j) \in Nat
      BY <1>2, RankMonotone DEF Listing
    <3> QED BY <1>2, <2>2, <3>1, <3>2
  <2>3. ASSUME NEW j \in PageWrites(r), MaxCursor(r) = r.page[j]
        PROVE  Rank(r, j) < p + PageSize /\ MaxCursor(r) = r.view[j]
    <3>1. j \in ListPage(r.view, r.wm, p)
      BY <1>5, <2>3 DEF PageFollows
    <3>2. Rank(r, j) < p + PageSize
      BY <3>1 DEF ListPage, Remaining, ListKey, Rank, FollowsCursor
    <3> QED BY <1>5, <1>6, <2>3, <3>2
  <2> QED BY <1>5, <2>1, <2>2, <2>3
<1>13. Walked(s, p + PageSize)'
  <2>1. \A i : Rank(s, i) = Rank(r, i)
    BY <1>4 DEF Rank
  <2> QED BY <1>4, <1>11, <1>12, <2>1 DEF Walked
\* Nothing of this run reaches a version that is newer than its listing.
<1>14. watermark' <= edits /\ (watermark' = watermark \/ \E j \in Ids : watermark' = r.view[j])
  <2>1. MaxCursor(r) # 0 => \E j \in Ids : MaxCursor(r) = r.view[j]
    BY <1>12 DEF Listing
  <2> QED BY <1>1, <1>3, <2>1 DEF CursorCovered, Frozen
<1>15. Frozen(s)'
  <2>1. ASSUME NEW i \in Ids, src[i] \notin {0, r.view[i]}
        PROVE  src[i] > watermark' /\ \A j \in Ids : src[i] > r.view[j]
    BY <1>3, <1>14, <2>1 DEF Frozen
  <2>2. \A i \in Ids : r.view[i] \in 1 .. r.wm => Stored(i, r.view[i])'
    BY <1>2, <1>3, <1>9 DEF Frozen
  <2>3. \A i \in s.seen : table'[i].hash = r.view[i]
    <3>1. \A i \in r.seen : table[i].hash = r.view[i] /\ i \in Ids
      BY <1>2, <1>3 DEF Frozen, Runs
    <3> QED BY <1>4, <1>7, <3>1
  <2> QED BY <1>1, <1>3, <1>4, <2>1, <2>2, <2>3 DEF Frozen
<1>16. WatermarkCovers'
  <2> SUFFICES ASSUME NEW i \in Ids, src[i] \in 1 .. watermark', NEW v \in Nat, v = src[i]
               PROVE  Stored(i, v)'
    BY <1>1, <1>2 DEF WatermarkCovers, Stored
  <2>1. v = r.view[i]
    BY <1>2, <1>14, <1>15, <1>1, <1>4 DEF Frozen
  <2>2. CASE MaxCursor(r) = 0
    <3>1. Stored(i, v)
      BY <1>1, <1>3, <2>2 DEF CursorCovered, WatermarkCovers, Stored
    <3> QED BY <1>9, <2>1, <3>1
  <2>3. CASE MaxCursor(r) # 0
    <3> DEFINE done == {k \in Ids : Stored(k, r.view[k])'}
    <3>1. PICK j \in Listing(r.view, r.wm) :
            Rank(r, j) < p + PageSize /\ MaxCursor(r) = r.view[j]
      BY <1>12, <2>3
    <3>2. r.view[i] \in 1 .. r.view[j]
      BY <1>1, <2>1, <2>3, <3>1
    <3>3. \A k \in Listing(r.view, r.wm) : Rank(r, k) < p + PageSize => k \in done
      BY <1>11 DEF Listing
    <3>4. \A k \in Ids : r.view[k] \in 1 .. r.wm => k \in done
      BY <1>2, <1>3, <1>9 DEF Frozen
    <3>5. p + PageSize \in Nat
      BY <1>2
    <3>6. i \in done
      <4> HIDE DEF done
      <4> QED BY <1>2, <3>1, <3>2, <3>3, <3>4, <3>5, WalkedCovers
    <3> QED BY <2>1, <3>6
  <2> QED BY <2>2, <2>3
<1>17. s.more = r.more /\ (s.more => s.pos = p + PageSize)
  <2>1. r.more => r.pos = p + PageSize
    BY DEF PageFollows
  <2>2. s.more = r.more
    BY <1>1, <1>2 DEF next, Runs
  <2> QED BY <1>4, <2>1, <2>2
<1>18. RunCovers(w)'
  BY <1>4, <1>13, <1>15, <1>17 DEF RunCovers
<1>19. CursorCovered'
  BY <1>1, <1>3, <1>14, <1>16 DEF CursorCovered
<1> QED BY <1>18, <1>19, SoleWriter DEF SoleWriter, CoversInv

(* Before its first request a run takes the watermark as its start. *)
LEMMA CoversOpening ==
  ASSUME IngestionAssumption, SoleWriter, TypeInv, CoversInv,
         NEW w \in Workers, Begin(w) \/ TryLock(w) \/ StampLock(w)
  PROVE  CoversInv'
<1> PICK s : s = run'[w]
  OBVIOUS
<1>1. UNCHANGED <<src, edits, events, table, watermark, deadLetter>>
  BY DEF Begin, TryLock, StampLock, source, store
<1>2. /\ RunCovers(w) /\ CursorCovered /\ run \in [Workers -> Runs]
      /\ pc \in [Workers -> Positions]
  BY DEF CoversInv, TypeInv, TypeOK
<1>3. CASE Begin(w)
  <2>1. s = FreshRun(watermark) /\ pc'[w] = "started"
    BY <1>2, <1>3 DEF Begin
  <2>2. Opening(s)
    BY <1>2, <2>1 DEF Opening, FreshRun, CursorCovered, WatermarkCovers, Stored
  <2>3. Opening(s)'
    BY <1>1, <2>2 DEF Opening, Stored
  <2>4. RunCovers(w)'
    BY <2>1, <2>3 DEF RunCovers
  <2> QED BY <1>1, <1>2, <2>4, SoleWriter
          DEF SoleWriter, CoversInv, CursorCovered, WatermarkCovers
<1>4. CASE TryLock(w) \/ StampLock(w)
  <2>1. pc[w] \in {"started", "locked"} /\ pc'[w] \in {"locked", "opening"}
    BY <1>2, <1>4 DEF TryLock, StampLock
  <2>2. /\ s.wm = run[w].wm /\ s.newWm = run[w].newWm /\ s.seen = run[w].seen
        /\ s.pos = run[w].pos
    BY <1>2, <1>4 DEF TryLock, StampLock, Runs
  <2>3. Opening(s)
    BY <1>2, <2>1, <2>2 DEF RunCovers, Opening
  <2>4. Opening(s)'
    BY <1>1, <2>3 DEF Opening, Stored
  <2>5. RunCovers(w)'
    BY <2>1, <2>4 DEF RunCovers
  <2> QED BY <1>1, <1>2, <2>5, SoleWriter
          DEF SoleWriter, CoversInv, CursorCovered, WatermarkCovers
<1> QED BY <1>3, <1>4

LEMMA CoversStep ==
  ASSUME IngestionAssumption, SoleWriter, FollowsCursor
  PROVE  TypeInv /\ CoversInv /\ [Next]_vars => CoversInv'
<1> SUFFICES ASSUME TypeInv, CoversInv, [Next]_vars PROVE CoversInv'
  OBVIOUS
<1>0. /\ CursorCovered /\ \A w \in Workers : RunCovers(w)
      /\ table \in [Ids -> [hash : Nat, data : Nat, deleted : BOOLEAN]]
      /\ pc \in [Workers -> Positions] /\ src \in [Ids -> Nat] /\ edits \in Nat
  BY Numbers DEF CoversInv, TypeInv, TypeOK
<1> USE DEF source, store, deletion
\* After the walk, and when a run ends, hashes and cursors stay as they are.
<1>1. ASSUME NEW w \in Workers,
             SkipRun(w) \/ AbortOnDrift(w) \/ CompleteWalk(w) \/ SelectMissing(w)
             \/ VerifyMissing(w) \/ Tombstone(w) \/ Finish(w) \/ Stop(w)
      PROVE  CoversInv'
  <2>1. UNCHANGED <<src, edits, events, watermark, deadLetter>>
    BY <1>1 DEF SkipRun, AbortOnDrift, CompleteWalk, SelectMissing, VerifyMissing, Tombstone,
                Finish, Stop, EndRun
  <2>2. pc'[w] \notin {"started", "locked", "opening", "fetched", "paging"}
    BY <1>0, <1>1 DEF SkipRun, AbortOnDrift, CompleteWalk, SelectMissing, VerifyMissing,
                      Tombstone, Finish, Stop, EndRun
  <2>3. \A i \in Ids : table'[i].hash = table[i].hash
    <3>1. CASE Tombstone(w)
      BY <1>0, <3>1 DEF Tombstone
    <3>2. CASE table' = table
      BY <3>2
    <3> QED BY <1>1, <3>1, <3>2 DEF SkipRun, AbortOnDrift, CompleteWalk, SelectMissing,
                                    VerifyMissing, Finish, Stop, EndRun
  <2>4. CursorCovered'
    BY <1>0, <2>1, <2>3 DEF CursorCovered, WatermarkCovers
  <2>5. RunCovers(w)'
    BY <2>2 DEF RunCovers
  <2> QED BY <2>4, <2>5, SoleWriter DEF SoleWriter, CoversInv
<1>2. CASE ResetWatermark
  <2>1. /\ watermark' = 0
        /\ UNCHANGED <<src, edits, events, table, deadLetter, pc, run>>
    BY <1>2 DEF ResetWatermark
  <2>2. CursorCovered'
    BY <1>0, <2>1 DEF CursorCovered, WatermarkCovers
  <2>3. ASSUME NEW w \in Workers PROVE RunCovers(w)'
    <3> PICK r : r = run[w]
      OBVIOUS
    <3>1. RunCovers(w) /\ run'[w] = r /\ pc'[w] = pc[w]
      BY <1>0, <2>1
    <3>2. (Opening(r) => Opening(r)') /\ (Walked(r, r.pos) => Walked(r, r.pos)')
      BY <2>1 DEF Opening, Walked, Stored
    <3>3. Frozen(r) => Frozen(r)'
      <4> SUFFICES ASSUME Frozen(r) PROVE Frozen(r)'
        OBVIOUS
      <4>1. \A i \in Ids : src[i] # 0 => src[i] > 0
        BY <1>0
      <4> QED BY <2>1, <4>1 DEF Frozen, Stored
    <3>4. \A p \in Nat : PageFollows(r, p) => PageFollows(r, p)'
      BY <2>1 DEF PageFollows, Walked, Stored
    <3> QED BY <3>1, <3>2, <3>3, <3>4 DEF RunCovers
  <2> QED BY <2>2, <2>3 DEF CoversInv
<1>3. ASSUME NEW e \in events, DeliverWebhook(e) PROVE CoversInv'
  BY <1>0, <1>3 DEF CursorCovered
<1>4. CASE UNCHANGED vars
  <2>1. ASSUME NEW w \in Workers PROVE RunCovers(w)'
    <3> PICK r : r = run[w]
      OBVIOUS
    <3>1. RunCovers(w) /\ run'[w] = r /\ pc'[w] = pc[w]
      BY <1>0, <1>4 DEF vars
    <3>2. (Opening(r) => Opening(r)') /\ (Walked(r, r.pos) => Walked(r, r.pos)')
      BY <1>4 DEF vars, Opening, Walked, Stored
    <3>3. Frozen(r) => Frozen(r)'
      BY <1>4 DEF vars, Frozen, Stored
    <3>4. \A p \in Nat : PageFollows(r, p) => PageFollows(r, p)'
      BY <1>4 DEF vars, PageFollows, Walked, Stored
    <3> QED BY <3>1, <3>2, <3>3, <3>4 DEF RunCovers
  <2> QED BY <1>0, <1>4, <2>1 DEF vars, CoversInv, CursorCovered, WatermarkCovers
<1> QED
  BY <1>1, <1>2, <1>3, <1>4, CoversEdits, CoversOpening, CoversFetch, CoversCommit, SoleWriter
     DEF Next, Work

(* With one instance that follows a cursor its frozen listing is sorted by, the watermark *)
(* is never ahead of what is stored, for any page size and any number of records, crashes  *)
(* between pages, resets of the watermark and rejected records: a record whose version     *)
(* will not be listed again is in its row or among the dead letters.                       *)
THEOREM WatermarkCovered ==
  ASSUME IngestionAssumption, SoleWriter, FollowsCursor
  PROVE  Spec => []WatermarkCovers
<1>1. CoversInv => WatermarkCovers
  BY DEF CoversInv, CursorCovered
<1> QED BY TypeInit, TypeStep, CoversInit, CoversStep, <1>1, PTL DEF Spec
================================================================================
