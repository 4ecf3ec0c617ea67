------------------------------ MODULE MCIngestion ------------------------------
(* The sync engine in three configurations: one instance that walks           *)
(* everything or follows the cursor, and two instances that are fed by        *)
(* webhooks as well.  A behaviour runs one of them.                           *)
EXTENDS Ingestion

CONSTANT Parts

VARIABLES part,
  src2, latest2, edits2, returned2, events2, table2, watermark2, deadLetter2, lastCount2, rowLock2,
  pc2, run2, cand2, confirmed2, ended2, stops2, absent2

oneVars == vars
twoVars == <<src2, latest2, edits2, returned2, events2, table2, watermark2, deadLetter2,
             lastCount2, rowLock2, pc2, run2, cand2, confirmed2, ended2, stops2, absent2>>
all == <<part, oneVars, twoVars>>

\* Ingestion walks everything; this follows a cursor instead.  A record that comes back
\* gets a new cursor value, or no listing by cursor would show it.
Following == INSTANCE Ingestion WITH
          Paging <- "snapshot", SortedByCursor <- TRUE, Incremental <- TRUE,
          MaxEdits <- 2, Rejected <- {4}, Returns <- FALSE
Concurrent == INSTANCE Ingestion WITH
          Workers <- {"w1", "w2"}, Records <- 2, MaxEdits <- 2, MaxStops <- 0, PageSize <- 1,
          Webhooks <- TRUE, Rejected <- {},
          src <- src2, latest <- latest2, edits <- edits2, returned <- returned2,
          events <- events2, table <- table2,
          watermark <- watermark2, deadLetter <- deadLetter2, lastCount <- lastCount2,
          rowLock <- rowLock2, pc <- pc2, run <- run2, cand <- cand2,
          confirmed <- confirmed2, ended <- ended2, stops <- stops2, absent <- absent2

ASSUME IngestionAssumption /\ Following!IngestionAssumption /\ Concurrent!IngestionAssumption

MCInit == part \in Parts /\ Init /\ Concurrent!Init

Alone(p) == part = p /\ UNCHANGED <<part, twoVars>>
Together == part = "concurrent" /\ UNCHANGED <<part, oneVars>>

MCNext ==
  \/ Alone("full") /\ Next
  \/ Alone("incremental") /\ Following!Next
  \/ Together /\ Concurrent!Next

MCSpec ==
  /\ MCInit /\ [][MCNext]_all
  /\ \A w \in Workers : WF_all(\/ Alone("full") /\ Work(w)
                               \/ Alone("incremental") /\ Following!Work(w))

(* Ingestion: what two instances tombstone was absent from the source.        *)
TwoTombstoneTheAbsent == Concurrent!TombstonedWasAbsent

(* Ingestion: once the source is quiet its records reach the table.           *)
TableConverges ==
  /\ part = "full" => Converges
  /\ part = "incremental" => Following!Converges
=============================================================================
