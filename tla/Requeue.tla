------------------------------- MODULE Requeue -------------------------------
(***************************************************************************)
(* One record that ingestion rejects: every sync that sees the rejected    *)
(* version writes a letter, and letters come back into the source table by *)
(* the requeue command or by a transform script, past syncs that have      *)
(* stored something newer.  A version stands for a payload and its hash;   *)
(* 0 is no row.  MaxVersion, MaxLetters and MaxRounds bound a behaviour.   *)
(***************************************************************************)
EXTENDS Naturals, Sequences, FiniteSets

CONSTANTS
  Incremental,          \* syncs fetch only what is newer than the watermark
  MaxVersion, MaxLetters, MaxRounds

VARIABLES
  source,               \* the record's version at the source
  rejected,             \* versions a quality rule or the mapping rejects
  row,                  \* [data, hash] in inout_src_*
  watermark,
  letters,              \* inout_dl_ingestion_*, by id: [version, requeued]
  batch,                \* letters a requeue or a script has read and not reached
  by,                   \* who works on batch: "none", "requeue" or "script"
  rounds

vars == <<source, rejected, row, watermark, letters, batch, by, rounds>>

Init ==
  /\ source = 1 /\ rejected \in SUBSET (1 .. MaxVersion)
  /\ row = [data |-> 0, hash |-> 0] /\ watermark = 0
  /\ letters = <<>> /\ batch = <<>> /\ by = "none" /\ rounds = 0

Edit ==
  /\ source < MaxVersion /\ source' = source + 1
  /\ UNCHANGED <<rejected, row, watermark, letters, batch, by, rounds>>

FixRules ==             \* the operator corrects the rule or the mapping
  /\ rejected # {} /\ rejected' = {}
  /\ UNCHANGED <<source, row, watermark, letters, batch, by, rounds>>

(* A rejected version becomes a letter, in the page's transaction with the *)
(* watermark; a version whose hash is stored is left alone.                *)
Sync ==
  /\ Incremental => source > watermark
  /\ source \in rejected => Len(letters) < MaxLetters
  /\ watermark' = source
  /\ IF source \in rejected
       THEN letters' = Append(letters, [version |-> source, requeued |-> FALSE]) /\ UNCHANGED row
       ELSE row' = [data |-> IF row.hash = source THEN row.data ELSE source, hash |-> source] /\ UNCHANGED letters
  /\ UNCHANGED <<source, rejected, batch, by, rounds>>

Ascending(S) == [k \in 1 .. Cardinality(S) |-> CHOOSE i \in S : Cardinality({j \in S : j < i}) = k - 1]
Descending(S) == [k \in 1 .. Cardinality(S) |-> CHOOSE i \in S : Cardinality({j \in S : j > i}) = k - 1]

StartRequeue ==
  /\ by = "none" /\ rounds < MaxRounds
  /\ batch' = Ascending({i \in DOMAIN letters : ~letters[i].requeued})
  /\ batch' # <<>> /\ by' = "requeue" /\ rounds' = rounds + 1
  /\ UNCHANGED <<source, rejected, row, watermark, letters>>

StartScript ==          \* every letter, newest first
  /\ by = "none" /\ rounds < MaxRounds
  /\ batch' = Descending(DOMAIN letters)
  /\ batch' # <<>> /\ by' = "script" /\ rounds' = rounds + 1
  /\ UNCHANGED <<source, rejected, row, watermark, letters>>

Taken ==                \* one letter of the batch, in a transaction of its own
  /\ batch # <<>> /\ batch' = Tail(batch) /\ by' = IF Tail(batch) = <<>> THEN "none" ELSE by
  /\ UNCHANGED <<source, rejected, watermark, rounds>>

\* Slip: the payload is replaced and the stored hash is not.
RequeueSingleKeepsHash ==
  /\ by = "requeue" /\ Taken
  /\ row' = [row EXCEPT !.data = letters[Head(batch)].version]
  /\ letters' = [letters EXCEPT ![Head(batch)].requeued = TRUE]

RequeueSingle ==
  /\ by = "requeue" /\ Taken
  /\ row' = [data |-> letters[Head(batch)].version, hash |-> letters[Head(batch)].version]
  /\ letters' = [letters EXCEPT ![Head(batch)].requeued = TRUE]

(* The script's upsert leaves _raw_hash of an existing row as it was, and  *)
(* requeued_at of the letter unset.  A script may drop the record instead. *)
ScriptSingle ==
  /\ by = "script" /\ Taken
  /\ row' \in {row, [row EXCEPT !.data = letters[Head(batch)].version]}
  /\ UNCHANGED letters

Next == Edit \/ FixRules \/ Sync \/ StartRequeue \/ StartScript \/ RequeueSingle \/ ScriptSingle

Spec == Init /\ [][Next]_vars
FairSpec == Spec /\ WF_vars(Sync)

----------------------------------------------------------------------------
(* Properties. *)

(* Under full syncs a requeue does no lasting harm: the row comes to have  *)
(* the version the source ends with, if that is accepted.  Not so for      *)
(* incremental syncs, which do not see the record again, and after a       *)
(* script, whose stored hash tells a full sync that nothing has changed.   *)
RequeueHeals == [](by # "script") /\ <>[](source \notin rejected) => <>[](row.data = source)

(* A requeued payload does not replace a newer one: refuted.               *)
RequeueKeepsNewer == [][row'.data >= row.data]_row

(* transform.py:63, rows "successfully processed are marked as requeued":  *)
(* refuted, requeued_at stays unset and a later requeue takes them again.  *)
ScriptMarksLetters == [][by = "script" /\ batch' = Tail(batch) /\ row' # row => letters'[Head(batch)].requeued]_vars
=============================================================================
