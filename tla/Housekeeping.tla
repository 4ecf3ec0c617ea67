---------------------------- MODULE Housekeeping ----------------------------
(* What deletes old rows and a person's rows: the housekeeping loops of the  *)
(* two daemons, the gdpr-purge command and privacy.py.  Each sends a script  *)
(* of statements in one READ COMMITTED transaction.  The script swallows the *)
(* errors of its statements, but to PostgreSQL the first error ends the      *)
(* transaction: its locks are dropped, later statements fail as well, and    *)
(* the COMMIT at the end is a rollback.                                      *)
(*                                                                           *)
(* The unit of time is half a day.  MaxRows, MaxMishaps (crashes and purges) *)
(* and Horizon bound a behaviour.                                            *)
EXTENDS Naturals, Sequences, SequencesExt, FiniteSets

CONSTANTS
  Jobs,                 \* job -> its script: "retention", "gdpr" or "erase"
  Pairs,                \* job -> the (connector, datatype) pairs in its order
  Absent,               \* kinds of table that are not there, or lack a column a script names
  Filled,              \* the tables rows are written to
  People,               \* whose rows they are
  Keep,                 \* kind of table -> retention, in half days
  Pinning,              \* watermarks name the run that set them
  MaxRows, MaxMishaps, Horizon

VARIABLES
  rows,                 \* committed rows: [table, at, open, of]
  watermark,            \* the sync_run row inout_ops_watermark names, or NoRun
  tx,                   \* job -> its transaction
  now, mishaps

vars == <<rows, watermark, tx, now, mishaps>>

Shared(kind) == <<kind, "">>      \* a table all pairs share
NoRun == [table |-> Shared("none")]
Idle == [at |-> 0, start |-> 0, removed |-> {}, bad |-> FALSE, told |-> 0]

\* sync_run rows are open until they finish, inout_dst_* rows until processed.
Opens(t) == t[1] \in {"sync_run", "dst"}

Init ==
  /\ rows = {} /\ watermark = NoRun /\ now = 0 /\ mishaps = 0
  /\ tx = [j \in DOMAIN Jobs |-> Idle]

----------------------------------------------------------------------------
(* The scripts.  Only the first statement of a retention script is outside *)
(* a try, and a person's statements select by external_id.                 *)

Statement(kind, pair, old, guarded) ==
  [table |-> <<kind, pair>>, old |-> old, guarded |-> guarded]
\* The tables all pairs share, and those each pair has.
OfAll == <<Statement("sync_run", "", TRUE, FALSE), Statement("webhook_route_seq", "", TRUE, TRUE),
           Statement("writeback_result", "", TRUE, TRUE)>>
OfPairs == <<"dl_ingestion", "history", "dl_writeback", "dst">>

\* Slip: the name of the table leaves the pair out.
EachShared(pairs, i) == Statement(OfPairs[(i - 1) \div Len(pairs) + 1], "", TRUE, TRUE)
\* The i-th of: one kind after the other, the pairs of each in their order.
Each(pairs, i) ==
  Statement(OfPairs[(i - 1) \div Len(pairs) + 1], pairs[((i - 1) % Len(pairs)) + 1], TRUE, TRUE)

Retention(pairs) ==
  [i \in 1 .. 3 + 4 * Len(pairs) |-> IF i <= 3 THEN OfAll[i] ELSE Each(pairs, i - 3)]

Ofs(kinds, pair) == [i \in DOMAIN kinds |-> Statement(kinds[i], pair, FALSE, TRUE)]
GdprPurge(pair) ==
  Ofs(<<"main", "main_history", "lwstate", "dst">>, pair) \o Ofs(<<"dead_letter", "result">>, "")
Erasure(pair) ==
  Ofs(<<"src", "history", "dst_lwstate", "dl_ingestion">>, pair)
  \o Ofs(<<"writeback_result", "webhook_log">>, "") \o Ofs(<<"dl_writeback", "dst">>, pair)

Script ==
  [j \in DOMAIN Jobs |->
     CASE Jobs[j] = "retention" -> Retention(Pairs[j])
       [] Jobs[j] = "gdpr" -> GdprPurge(Pairs[j][1])
       [] Jobs[j] = "erase" -> Erasure(Pairs[j][1])]

\* A duration counts in whole days; writeback_result keeps at least one.
Interval(kind) == (Keep[kind] \div 2) * 2
OldAt(r, time) ==
  /\ ~r.open /\ time > r.at + Interval(r.table[1])
  /\ r.table[1] = "writeback_result" => time > r.at + 2

\* NOW() is the time the transaction began.
Selected(j) ==
  LET s == Script[j][tx[j].at]
  IN  {r \in rows : r.table = s.table /\ IF s.old THEN OldAt(r, tx[j].start) ELSE r.of = "person"}

----------------------------------------------------------------------------
(* A transaction. *)

Sending(j) == tx[j].at \in DOMAIN Script[j]
Sound(j) == Sending(j) /\ ~tx[j].bad

\* The loops begin every interval, a purge when somebody asks.
Begin(j) ==
  /\ tx[j].at = 0 /\ tx' = [tx EXCEPT ![j].at = 1, ![j].start = now]
  /\ \/ Jobs[j] = "retention" /\ UNCHANGED mishaps
     \/ Jobs[j] # "retention" /\ mishaps < MaxMishaps /\ mishaps' = mishaps + 1
  /\ UNCHANGED <<rows, watermark, now>>

\* A row another transaction has deleted is waited for.
WaitsFor(j, k) == j # k /\ Sound(j) /\ Selected(j) \cap tx[k].removed # {}

Stuck(W) == W # {} /\ \A j \in W : \E k \in W : WaitsFor(j, k)
Waiting == {j \in DOMAIN Jobs : \E k \in DOMAIN Jobs : WaitsFor(j, k)}
Victims == UNION {W \in SUBSET Waiting :
                    Stuck(W) /\ \A V \in SUBSET W : Stuck(V) => V = W}

\* A run that a watermark names cannot be deleted.
Refused(j) == Script[j][tx[j].at].table[1] \in Absent \/ watermark \in Selected(j)

\* What is removed is a row, or the payload of a row that is blanked.
Removes(j) ==
  /\ Sound(j) /\ ~Refused(j) /\ \A k \in DOMAIN Jobs : ~WaitsFor(j, k)
  /\ tx' = [tx EXCEPT ![j].at = @ + 1, ![j].removed = @ \cup Selected(j),
                      ![j].told = @ + Cardinality(Selected(j))]
  /\ UNCHANGED <<rows, watermark, now, mishaps>>

Raises(j) ==
  /\ Sound(j) /\ (Refused(j) \/ j \in Victims)
  /\ tx' = [tx EXCEPT ![j] = IF Script[j][@.at].guarded
                             THEN [@ EXCEPT !.at = @ + 1, !.removed = {}, !.bad = TRUE]
                             ELSE Idle]
  /\ UNCHANGED <<rows, watermark, now, mishaps>>

FailsAgain(j) ==
  /\ Sending(j) /\ tx[j].bad /\ tx' = [tx EXCEPT ![j].at = @ + 1]
  /\ UNCHANGED <<rows, watermark, now, mishaps>>

\* Nothing is left in removed after an error.
Commit(j) ==
  /\ tx[j].at = Len(Script[j]) + 1
  /\ rows' = rows \ tx[j].removed /\ tx' = [tx EXCEPT ![j] = Idle]
  /\ UNCHANGED <<watermark, now, mishaps>>

Works(j) == Begin(j) \/ Removes(j) \/ Raises(j) \/ FailsAgain(j) \/ Commit(j)

Crash(j) ==
  /\ tx[j].at # 0 /\ mishaps < MaxMishaps
  /\ tx' = [tx EXCEPT ![j] = Idle] /\ mishaps' = mishaps + 1
  /\ UNCHANGED <<rows, watermark, now>>

----------------------------------------------------------------------------
(* The rest of the system. *)

Write(t, p) ==
  LET r == [table |-> t, at |-> now, open |-> Opens(t), of |-> p]
  IN  /\ r \notin rows /\ Cardinality(rows) < MaxRows
      /\ rows' = rows \cup {r}
      /\ UNCHANGED <<watermark, tx, now, mishaps>>

\* A run that finishes may have set the watermark.
Finish(r) ==
  LET closed == [r EXCEPT !.open = FALSE, !.at = now]
  IN  /\ r.open /\ closed \notin rows
      /\ rows' = (rows \ {r}) \cup {closed}
      /\ watermark' \in {watermark} \cup {x \in {closed} : Pinning /\ r.table[1] = "sync_run"}
      /\ UNCHANGED <<tx, now, mishaps>>

Tick == now < Horizon /\ now' = now + 1 /\ UNCHANGED <<rows, watermark, tx, mishaps>>

Next ==
  \/ \E j \in DOMAIN Jobs : Works(j) \/ Crash(j)
  \/ \E t \in Filled, p \in People : Write(t, p)
  \/ \E r \in rows : Finish(r)
  \/ Tick

Spec == Init /\ [][Next]_vars /\ \A j \in DOMAIN Jobs : WF_vars(Works(j))

----------------------------------------------------------------------------
(* Properties. *)

(* What has outlived its retention is gone again and again, whoever else    *)
(* deletes meanwhile and whichever process dies (GOAL.md:238), unless a     *)
(* table is absent, a watermark names a run that old, or the daemons, which *)
(* go through the pairs in orders of their own, block each other for ever.  *)
Pinned == watermark \in rows /\ OldAt(watermark, now)
Tidy == Pinned \/ Victims # {} \/ ~\E r \in rows : OldAt(r, now)
ExpiredGo == []<>Tidy
----------------------------------------------------------------------------
(* What the code says and does not keep; refuted, see the README. *)

(* The numbers a job returns are those of the rows it removed              *)
(* (housekeeping.py:32, privacy.py:37): an aborted transaction, of a script *)
(* with an absent table or of the victim of a deadlock, is reported like    *)
(* any other.                                                               *)
ReportIsTrue == [][\A j \in DOMAIN Jobs : Commit(j) => Cardinality(rows \ rows') = tx[j].told]_vars

(* After a purge nothing older of the person is left in a table it names   *)
(* (housekeeping.py:136).                                                   *)
ErasedIsGone ==
  [][\A j \in DOMAIN Jobs :
       Jobs[j] # "retention" /\ Commit(j) =>
         ~\E r \in rows' : /\ r.of = "person" /\ r.at < tx[j].start
                          /\ \E s \in ToSet(Script[j]) : s.table = r.table]_vars
=============================================================================
