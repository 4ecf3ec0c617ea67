----------------------------- MODULE ControlProofs -----------------------------
(* What the control table and the dead-letter table promise for any connectors,   *)
(* daemons, commands, rows and batch sizes, and however often daemons restart and  *)
(* statements fail.                                                                *)
EXTENDS MCControl, NaturalFacts, FiniteSetTheorems, SequenceTheorems, TLAPS

----------------------------------------------------------------------------
(* ORDER BY: the ids of the fetched rows as a sequence, each of them once. *)
LEMMA FetchedMembers ==
  ASSUME NEW S \in SUBSET Nat, IsFiniteSet(S)
  PROVE  /\ Ascending(S) \in Seq(S)
         /\ Len(Ascending(S)) = Cardinality(S)
         /\ \A k, l \in 1 .. Cardinality(S) : Ascending(S)[k] = Ascending(S)[l] => k = l
<1>1. /\ Cardinality(S) \in Nat /\ Ascending(S) \in [1 .. Cardinality(S) -> S]
      /\ \A k \in 1 .. Cardinality(S) : Place(S, Ascending(S)[k]) = k
  BY AscendingSorts
<1>2. \A k, l \in 1 .. Cardinality(S) : Ascending(S)[k] = Ascending(S)[l] => k = l
  <2> TAKE k, l \in 1 .. Cardinality(S)
  <2> QED BY <1>1, Zenon
<1> QED BY <1>1, <1>2

----------------------------------------------------------------------------
(* The dead-letter table. *)

Actions == Parked!Wanted \cup {"noop", "dead_lettered"}
LetterRows == [row : Rows, action : Parked!Wanted, requeued : BOOLEAN, gone : BOOLEAN]

\* What a cycle carries and a replay has read is of the tables.
LettersTypeInv ==
  /\ table \in [Rows -> Actions]
  /\ letters \in Seq(LetterRows)
  /\ \A e \in cycle.batch : e \in Rows \X Actions
  /\ \A e \in cycle.failed : e \in Rows \X Parked!Wanted
  /\ replaying \in Seq(1 .. Len(letters))

LettersInv == LettersTypeInv /\ Parked!ParkedHasLetter

(* A letter appended to the table keeps the others in their places.             *)
LEMMA AppendedLetter ==
  ASSUME LettersTypeInv, NEW r \in Rows, NEW a \in Parked!Wanted
  PROVE  /\ Parked!Letter(r, a) \in Seq(LetterRows)
         /\ Len(Parked!Letter(r, a)) = Len(letters) + 1
         /\ \A i \in DOMAIN letters : Parked!Letter(r, a)[i] = letters[i]
         /\ Parked!Letter(r, a)[Len(letters) + 1].row = r
         /\ ~Parked!Letter(r, a)[Len(letters) + 1].requeued
<1>1. PICK l \in LetterRows :
         l = [row |-> r, action |-> a, requeued |-> FALSE, gone |-> FALSE]
  BY DEF LetterRows
<1>2. Parked!Letter(r, a) = Append(letters, l)
  BY <1>1 DEF Parked!Letter
<1>3. letters \in Seq(LetterRows)
  BY DEF LettersTypeInv
<1>4. /\ Append(letters, l) \in Seq(LetterRows)
      /\ Len(Append(letters, l)) = Len(letters) + 1
      /\ \A i \in DOMAIN letters : Append(letters, l)[i] = letters[i]
      /\ Append(letters, l)[Len(letters) + 1] = l
  BY <1>3
<1> QED BY <1>1, <1>2, <1>4

(* Parking a row writes its letter in the same transaction as its mark.         *)
LEMMA MoveKeepsLetters ==
  ASSUME LettersInv, NEW r \in Rows, NEW a \in Parked!Wanted, Parked!MoveToDeadLetter(r, a),
         cycle'.batch = cycle.batch, cycle'.failed \subseteq cycle.failed,
         UNCHANGED replaying
  PROVE  LettersInv'
<1> USE DEF LettersInv, LettersTypeInv
<1>1. CASE Layout = "delta"
  <2>1. letters' = Parked!Letter(r, a)
    BY <1>1 DEF Parked!MoveToDeadLetter
  <2>2. table' = [table EXCEPT ![r] = IF @ = "noop" THEN @ ELSE "dead_lettered"]
    BY <1>1 DEF Parked!MoveToDeadLetter
  <2>3. /\ letters' \in Seq(LetterRows) /\ Len(letters') = Len(letters) + 1
        /\ \A i \in DOMAIN letters : letters'[i] = letters[i]
        /\ letters'[Len(letters) + 1].row = r /\ ~letters'[Len(letters) + 1].requeued
    BY <2>1, AppendedLetter
  <2>4. table' \in [Rows -> Actions]
    BY <2>2 DEF Actions
  <2>5. Len(letters) \in Nat /\ DOMAIN letters = 1 .. Len(letters)
    OBVIOUS
  <2>6. replaying' \in Seq(1 .. Len(letters'))
    <3>1. 1 .. Len(letters) \subseteq 1 .. Len(letters')
      BY <2>3, <2>5
    <3>2. replaying \in Seq(1 .. Len(letters))
      OBVIOUS
    <3>3. \A S, T : S \subseteq T => (replaying \in Seq(S) => replaying \in Seq(T))
      OBVIOUS
    <3> QED BY <3>1, <3>2, <3>3
  <2>7. DOMAIN letters' = 1 .. Len(letters) + 1
    BY <2>3
  <2>8. ASSUME NEW q \in Rows, table'[q] = "dead_lettered"
        PROVE  \E i \in DOMAIN letters' : letters'[i].row = q /\ ~letters'[i].requeued
    <3>1. CASE q = r
      <4>1. Len(letters) + 1 \in DOMAIN letters'
        BY <2>5, <2>7
      <4> QED BY <3>1, <4>1, <2>3
    <3>2. CASE q # r
      <4>1. table[q] = "dead_lettered"
        BY <3>2, <2>2, <2>8
      <4>2. PICK i \in DOMAIN letters : letters[i].row = q /\ ~letters[i].requeued
        BY <4>1 DEF Parked!ParkedHasLetter
      <4>3. i \in DOMAIN letters'
        BY <2>5, <2>7
      <4> QED BY <4>2, <4>3, <2>3
    <3> QED BY <3>1, <3>2
  <2>9. Parked!ParkedHasLetter'
    BY <2>8 DEF Parked!ParkedHasLetter
  <2> QED BY <2>3, <2>4, <2>6, <2>9
<1>2. CASE Layout # "delta"
  <2>1. UNCHANGED <<letters, table>>
    BY <1>2 DEF Parked!MoveToDeadLetter
  <2> QED BY <2>1 DEF Parked!ParkedHasLetter
<1> QED BY <1>1, <1>2

LEMMA LettersInit == Parked!Init => LettersInv
<1> SUFFICES ASSUME Parked!Init PROVE LettersInv
  OBVIOUS
<1>1. table \in [Rows -> Actions] /\ \A r \in Rows : table[r] # "dead_lettered"
  BY DEF Parked!Init, Parked!Wanted, Actions
<1>2. /\ letters = <<>> /\ replaying = <<>>
      /\ cycle.batch = {} /\ cycle.failed = {}
  BY DEF Parked!Init, Parked!Idle
<1>3. letters \in Seq(LetterRows) /\ replaying \in Seq(1 .. Len(letters))
  BY <1>2
<1> QED BY <1>1, <1>2, <1>3 DEF LettersInv, LettersTypeInv, Parked!ParkedHasLetter

(* The cycle: what is fetched, sent and found to have failed is rows of the      *)
(* table with their actions, and only what may be written fails.                 *)
LEMMA CycleKeepsLetters ==
  ASSUME LettersInv, Parked!Cycle
  PROVE  LettersInv'
<1> USE DEF LettersInv, LettersTypeInv
<1>1. CASE Parked!Fetch
  <2>1. UNCHANGED <<table, letters, replaying>>
    BY <1>1 DEF Parked!Fetch
  <2>2. PICK S \in SUBSET {r \in Rows : table[r] # "noop"} :
          cycle' = [Parked!Idle EXCEPT !.step = "fetched",
                                       !.batch = {<<r, table[r]>> : r \in S} \ tried]
    BY <1>1 DEF Parked!Fetch
  <2>3. cycle'.batch = {<<r, table[r]>> : r \in S} \ tried /\ cycle'.failed = {}
    BY <2>2 DEF Parked!Idle
  <2>4. \A e \in cycle'.batch : e \in Rows \X Actions
    BY <2>3
  <2> QED BY <2>1, <2>3, <2>4 DEF Parked!ParkedHasLetter
<1>2. CASE Parked!Dispatch
  <2>1. UNCHANGED <<table, letters, replaying>>
    BY <1>2 DEF Parked!Dispatch
  <2>2. cycle' = [step |-> "dispatched", batch |-> {},
                  failed |-> {e \in {x \in cycle.batch : x[2] \in Parked!Wanted} : e[1] \in broken}]
    BY <1>2 DEF Parked!Dispatch
  <2>3. /\ cycle'.batch = {}
        /\ \A e \in cycle'.failed : e \in cycle.batch /\ e[2] \in Parked!Wanted
    BY <2>2
  <2>4. \A e \in cycle'.failed : e \in Rows \X Parked!Wanted
    BY <2>3
  <2> QED BY <2>1, <2>3, <2>4 DEF Parked!ParkedHasLetter
<1>3. CASE Parked!AutoDeadLetter
  <2>1. PICK e \in cycle.failed :
          /\ cycle' = [cycle EXCEPT !.failed = cycle.failed \ {e}]
          /\ IF failures[e[1]] >= MaxRetries THEN Parked!MoveToDeadLetter(e[1], e[2])
                                             ELSE UNCHANGED <<letters, table>>
    BY <1>3 DEF Parked!AutoDeadLetter
  <2>2. UNCHANGED replaying
    BY <1>3 DEF Parked!AutoDeadLetter
  <2>3. e[1] \in Rows /\ e[2] \in Parked!Wanted
    OBVIOUS
  <2>4. cycle'.batch = cycle.batch /\ cycle'.failed \subseteq cycle.failed
    BY <2>1
  <2>5. CASE failures[e[1]] >= MaxRetries
    <3>1. Parked!MoveToDeadLetter(e[1], e[2])
      BY <2>1, <2>5
    <3> QED BY <3>1, <2>2, <2>3, <2>4, MoveKeepsLetters
  <2>6. CASE ~(failures[e[1]] >= MaxRetries)
    <3>1. UNCHANGED <<letters, table>>
      BY <2>1, <2>6
    <3> QED BY <3>1, <2>2, <2>4 DEF Parked!ParkedHasLetter
  <2> QED BY <2>5, <2>6
<1>4. CASE Parked!EndCycle
  <2>1. UNCHANGED <<table, letters, replaying>> /\ cycle' = Parked!Idle
    BY <1>4 DEF Parked!EndCycle
  <2> QED BY <2>1 DEF Parked!Idle, Parked!ParkedHasLetter
<1> QED BY <1>1, <1>2, <1>3, <1>4 DEF Parked!Cycle

(* The operator: a letter is marked replayed only with its row taken up again.  *)
LEMMA ReplayKeepsLetters ==
  ASSUME LettersInv, Parked!Replay \/ Parked!ReplayOne
  PROVE  LettersInv'
<1> USE DEF LettersInv, LettersTypeInv
<1>1. CASE Parked!Replay
  <2>1. UNCHANGED <<table, letters, cycle>> /\ replaying' = Parked!Ascending(Parked!Eligible)
    BY <1>1 DEF Parked!Replay
  <2>2. PICK S : S = Parked!Eligible
    OBVIOUS
  <2>3. S \subseteq 1 .. Len(letters) /\ Len(letters) \in Nat
    BY <2>2 DEF Parked!Eligible
  <2>4. S \in SUBSET Nat /\ IsFiniteSet(S)
    <3>1. IsFiniteSet(1 .. Len(letters))
      BY <2>3, FS_Interval
    <3>2. IsFiniteSet(S)
      BY <2>3, <3>1, FS_Subset
    <3> QED BY <2>3, <3>2
  <2>5. Parked!Ascending(S) = Ascending(S)
    BY Zenon DEF Parked!Ascending, Ascending, Cardinality, Parked!Cardinality
  <2>8. Ascending(S) \in Seq(S)
    BY <2>4, FetchedMembers
  <2>9. replaying' \in Seq(1 .. Len(letters))
    <3>1. \A T, q : S \subseteq T => (q \in Seq(S) => q \in Seq(T))
      OBVIOUS
    <3>2. replaying' = Ascending(S)
      BY <2>1, <2>2, <2>5
    <3> QED BY <2>3, <2>8, <3>1, <3>2
  <2> QED BY <2>1, <2>9 DEF Parked!ParkedHasLetter
<1>2. CASE Parked!ReplayOne
  <2>1. PICK i : i = Head(replaying)
    OBVIOUS
  <2>2. replaying # <<>> /\ UNCHANGED cycle /\ replaying' = Tail(replaying)
    BY <1>2 DEF Parked!ReplayOne
  <2>3. i \in 1 .. Len(letters)
    BY <2>1, <2>2
  <2>4. letters' = [letters EXCEPT ![i].requeued = TRUE]
    BY <1>2, <2>1 DEF Parked!ReplayOne
  <2>5. table' = IF table[letters[i].row] = "dead_lettered"
                   THEN [table EXCEPT ![letters[i].row] = letters[i].action] ELSE table
    BY <1>2, <2>1 DEF Parked!ReplayOne
  <2>6. letters[i] \in LetterRows
    BY <2>3
  <2>7. [letters[i] EXCEPT !.requeued = TRUE] \in LetterRows
    BY <2>6 DEF LetterRows
  <2>8. /\ letters' \in Seq(LetterRows) /\ Len(letters') = Len(letters)
        /\ \A j \in 1 .. Len(letters) : j # i => letters'[j] = letters[j]
    BY <2>3, <2>4, <2>7
  <2>9. letters[i].row \in Rows /\ letters[i].action \in Parked!Wanted
    BY <2>6 DEF LetterRows
  <2>10. table' \in [Rows -> Actions]
    BY <2>5, <2>9 DEF Actions
  <2>11. replaying' \in Seq(1 .. Len(letters'))
    BY <2>2, <2>8
  <2>12. ASSUME NEW q \in Rows, table'[q] = "dead_lettered"
         PROVE  \E j \in DOMAIN letters' : letters'[j].row = q /\ ~letters'[j].requeued
    <3>1. q # letters[i].row
      BY <2>5, <2>9, <2>12 DEF Parked!Wanted
    <3>2. table[q] = "dead_lettered"
      BY <2>5, <2>12, <3>1
    <3>3. PICK j \in DOMAIN letters : letters[j].row = q /\ ~letters[j].requeued
      BY <3>2 DEF Parked!ParkedHasLetter
    <3> QED BY <3>1, <3>3, <2>8
  <2>13. Parked!ParkedHasLetter'
    BY <2>12 DEF Parked!ParkedHasLetter
  <2> QED BY <2>2, <2>8, <2>10, <2>11, <2>13
<1> QED BY <1>1, <1>2

(* The MDM writes an action, housekeeping removes letters from sight.           *)
LEMMA OthersKeepLetters ==
  ASSUME LettersInv,
         \/ Parked!AnHourPasses \/ Parked!PurgeAudit \/ Parked!PurgeLetters
         \/ \E r \in Rows : \/ Parked!TargetChanges(r)
                            \/ \E a \in Parked!Wanted \cup {"noop"} : Parked!MdmWrites(r, a)
  PROVE  LettersInv'
<1> USE DEF LettersInv, LettersTypeInv
<1>1. CASE Parked!AnHourPasses \/ Parked!PurgeAudit \/ \E r \in Rows : Parked!TargetChanges(r)
  <2>1. UNCHANGED <<table, letters, cycle, replaying>>
    BY <1>1 DEF Parked!AnHourPasses, Parked!PurgeAudit, Parked!TargetChanges
  <2> QED BY <2>1 DEF Parked!ParkedHasLetter
<1>2. CASE Parked!PurgeLetters
  <2>1. UNCHANGED <<table, cycle, replaying>>
    BY <1>2 DEF Parked!PurgeLetters
  <2>2. letters' = [i \in DOMAIN letters |-> [letters[i] EXCEPT !.gone = TRUE]]
    BY <1>2 DEF Parked!PurgeLetters
  <2>3. \A l \in LetterRows : /\ [l EXCEPT !.gone = TRUE] \in LetterRows
                              /\ [l EXCEPT !.gone = TRUE].row = l.row
                              /\ [l EXCEPT !.gone = TRUE].requeued = l.requeued
    BY DEF LetterRows
  <2>4. \A i \in 1 .. Len(letters) :
           /\ letters'[i] = [letters[i] EXCEPT !.gone = TRUE] /\ letters[i] \in LetterRows
    <3>1. DOMAIN letters = 1 .. Len(letters)
      OBVIOUS
    <3>2. \A i \in DOMAIN letters : letters'[i] = [letters[i] EXCEPT !.gone = TRUE]
      BY <2>2, Zenon
    <3>3. \A i \in 1 .. Len(letters) : letters[i] \in LetterRows
      OBVIOUS
    <3> QED BY <3>1, <3>2, <3>3
  <2>5. /\ DOMAIN letters' = 1 .. Len(letters)
        /\ letters' = [i \in 1 .. Len(letters) |-> letters'[i]]
    <3>1. DOMAIN letters = 1 .. Len(letters)
      OBVIOUS
    <3>2. letters' = [i \in 1 .. Len(letters) |-> [letters[i] EXCEPT !.gone = TRUE]]
      BY <2>2, <3>1
    <3> QED BY <3>2
  <2>6. \A i \in 1 .. Len(letters) :
           /\ letters'[i] \in LetterRows
           /\ letters'[i].row = letters[i].row /\ letters'[i].requeued = letters[i].requeued
    BY <2>3, <2>4
  <2>7. letters' \in Seq(LetterRows) /\ Len(letters') = Len(letters)
    <3>1. letters' \in [1 .. Len(letters) -> LetterRows] /\ Len(letters) \in Nat
      BY <2>5, <2>6
    <3> QED BY <3>1
  <2>8. Parked!ParkedHasLetter'
    BY <2>1, <2>6, <2>7 DEF Parked!ParkedHasLetter
  <2> QED BY <2>1, <2>7, <2>8
<1>3. ASSUME NEW r \in Rows, NEW a \in Parked!Wanted \cup {"noop"}, Parked!MdmWrites(r, a)
      PROVE  LettersInv'
  <2>1. table' = [table EXCEPT ![r] = a] /\ UNCHANGED <<letters, cycle, replaying>>
    BY <1>3 DEF Parked!MdmWrites
  <2>2. a # "dead_lettered"
    BY DEF Parked!Wanted
  <2> QED BY <2>1, <2>2 DEF Parked!ParkedHasLetter, Actions
<1> QED BY <1>1, <1>2, <1>3

(* A row that is parked has a letter that was not replayed, for any rows, any   *)
(* layout, retries and batches, however cycles, replays, the MDM and            *)
(* housekeeping interleave (dead_letter.py): so an operator can take it up.     *)
THEOREM ParkedRowsReturn == Parked!Spec => []ParkedHasLetter
<1>1. LettersInv /\ [Parked!Next]_Parked!vars => LettersInv'
  <2> SUFFICES ASSUME LettersInv, [Parked!Next]_Parked!vars PROVE LettersInv'
    OBVIOUS
  <2>1. CASE UNCHANGED Parked!vars
    BY <2>1 DEF Parked!vars, LettersInv, LettersTypeInv, Parked!ParkedHasLetter
  <2>2. CASE Parked!Next
    BY <2>2, CycleKeepsLetters, ReplayKeepsLetters, OthersKeepLetters DEF Parked!Next
  <2> QED BY <2>1, <2>2
<1>2. LettersInv => ParkedHasLetter
  BY DEF LettersInv, ParkedHasLetter
<1> QED BY LettersInit, <1>1, <1>2, PTL DEF Parked!Spec

----------------------------------------------------------------------------
(* The control table. *)

\* Each tool runs one daemon, and every command names the tool that can do it.
OneOfEach == \A d, e \in Daemons : ToolOf(d) = ToolOf(e) => d = e
Able(c) ==
  /\ c.tool \in {"ingestion", "writeback"} /\ c.kind \notin {"resync", "trigger"}
  /\ c.kind \in {"pause", "resume"} => c.tool = "ingestion"
EachToItsTool == \A c \in Issues : Able(c)

CommandRows == [status : {"pending", "acknowledged", "completed", "failed"}, kind : Kinds,
                key : Datatypes \cup {"*"}, tool : {"ingestion", "writeback", "any"}]
Pollers == [step : {"asleep", "fetched", "acknowledged", "executed"}, todo : Seq(Nat),
            outcome : {"none", "done", "error"}]

\* What nobody has taken up has not taken effect.
TableInv ==
  /\ control \in Seq(CommandRows) /\ effects \in Seq({0, 1}) /\ Len(effects) = Len(control)
  /\ \A i \in 1 .. Len(control) : /\ Able(control[i])
                                  /\ control[i].status = "pending" => effects[i] = 0

\* What the poller w of a tool holds of a table ctl: commands of its own, each once,
\* of which the first is taken up and the others are pending.
InHand(w, tool, ctl, eff) ==
  /\ w.step = "asleep" => w = Asleep
  /\ w.step # "asleep" => w.todo # <<>>
  /\ \A k \in DOMAIN w.todo : w.todo[k] \in DOMAIN ctl /\ ctl[w.todo[k]].tool = tool
  /\ \A k, l \in DOMAIN w.todo : w.todo[k] = w.todo[l] => k = l
  /\ \A k \in DOMAIN w.todo :
        ctl[w.todo[k]].status = IF k = 1 /\ w.step # "fetched" THEN "acknowledged" ELSE "pending"
  /\ w.step = "acknowledged" => eff[w.todo[1]] = 0
  /\ w.step = "executed" => w.outcome # "none" /\ (w.outcome = "done" => eff[w.todo[1]] = 1)

PollersInv == work \in [Daemons -> Pollers]
              /\ \A d \in Daemons : InHand(work[d], ToolOf(d), control, effects)

QueueInv == TableInv /\ PollersInv

(* What a poller holds stays so whatever happens to the commands of other tools. *)
LEMMA OthersStayInHand ==
  ASSUME NEW w, NEW tool, NEW ctl, NEW eff, NEW ctl2, NEW eff2,
         InHand(w, tool, ctl, eff), w \in Pollers,
         DOMAIN ctl \subseteq DOMAIN ctl2,
         \A j \in DOMAIN ctl : ctl[j].tool = tool => ctl2[j] = ctl[j] /\ eff2[j] = eff[j]
  PROVE  InHand(w, tool, ctl2, eff2)
<1>1. \A k \in DOMAIN w.todo : /\ w.todo[k] \in DOMAIN ctl2
                               /\ ctl2[w.todo[k]] = ctl[w.todo[k]]
                               /\ eff2[w.todo[k]] = eff[w.todo[k]]
  BY DEF InHand
<1>2. w.step # "asleep" => 1 \in DOMAIN w.todo
  <2>1. w.todo \in Seq(Nat)
    BY DEF Pollers
  <2>2. w.step # "asleep" => w.todo # <<>>
    BY DEF InHand
  <2> QED BY <2>1, <2>2
<1>3. /\ w.step = "asleep" => w = Asleep
      /\ w.step # "asleep" => w.todo # <<>>
      /\ \A k, l \in DOMAIN w.todo : w.todo[k] = w.todo[l] => k = l
  BY DEF InHand
<1>4. \A k \in DOMAIN w.todo : w.todo[k] \in DOMAIN ctl2 /\ ctl2[w.todo[k]].tool = tool
  BY <1>1 DEF InHand
<1>5. \A k \in DOMAIN w.todo :
        ctl2[w.todo[k]].status = IF k = 1 /\ w.step # "fetched" THEN "acknowledged" ELSE "pending"
  BY <1>1 DEF InHand
<1>6. w.step = "acknowledged" => eff2[w.todo[1]] = 0
  BY <1>1, <1>2 DEF InHand
<1>7. w.step = "executed" => w.outcome # "none" /\ (w.outcome = "done" => eff2[w.todo[1]] = 1)
  BY <1>1, <1>2 DEF InHand
<1> QED BY <1>3, <1>4, <1>5, <1>6, <1>7 DEF InHand

(* A step of one poller that leaves the other tools' commands alone keeps the   *)
(* invariant if it keeps the table and what that poller holds.                  *)
LEMMA OnePollerMoves ==
  ASSUME QueueInv, OneOfEach, NEW d \in Daemons, NEW w \in Pollers,
         work' = [work EXCEPT ![d] = w],
         DOMAIN control' = DOMAIN control,
         \A j \in DOMAIN control :
            control[j].tool # ToolOf(d) => control'[j] = control[j] /\ effects'[j] = effects[j],
         InHand(w, ToolOf(d), control', effects')
  PROVE  PollersInv'
<1>1. work' \in [Daemons -> Pollers]
  BY DEF QueueInv, PollersInv
<1>2. ASSUME NEW e \in Daemons, e # d
      PROVE  InHand(work'[e], ToolOf(e), control', effects')
  <2>1. work'[e] = work[e] /\ ToolOf(e) # ToolOf(d)
    BY <1>2 DEF OneOfEach, QueueInv, PollersInv
  <2>2. PICK v : v = work[e]
    OBVIOUS
  <2>3. InHand(v, ToolOf(e), control, effects) /\ v \in Pollers
    BY <2>2 DEF QueueInv, PollersInv
  <2>4. PICK ctl, eff, ctl2, eff2 : ctl = control /\ eff = effects /\ ctl2 = control' /\ eff2 = effects'
    OBVIOUS
  <2>5. InHand(v, ToolOf(e), ctl2, eff2)
    BY <2>1, <2>3, <2>4, OthersStayInHand
  <2> QED BY <2>1, <2>2, <2>4, <2>5
<1>3. work'[d] = w
  BY DEF QueueInv, PollersInv
<1>4. \A e \in Daemons : InHand(work'[e], ToolOf(e), control', effects')
  BY <1>2, <1>3
<1>5. ASSUME NEW e \in Daemons PROVE InHand(work[e], ToolOf(e), control, effects)'
  BY <1>4 DEF InHand, ToolOf
<1> QED BY <1>1, <1>5 DEF PollersInv

(* A new command is pending and nobody's.                                       *)
LEMMA IssueKeepsQueue ==
  ASSUME CommandsAssumption, EachToItsTool, QueueInv, NEW c \in Issues, Issue(c)
  PROVE  QueueInv'
<1> DEFINE r == [status |-> "pending", kind |-> c.kind, key |-> c.key, tool |-> c.tool]
<1>1. control' = Append(control, r) /\ effects' = Append(effects, 0) /\ work' = work
  BY DEF Issue
<1>2. r \in CommandRows /\ Able(r) /\ r.status = "pending"
  BY DEF CommandsAssumption, EachToItsTool, Able, CommandRows
<1>3. /\ control \in Seq(CommandRows) /\ effects \in Seq({0, 1}) /\ Len(effects) = Len(control)
      /\ Len(control) \in Nat
  BY DEF QueueInv, TableInv
<1> HIDE DEF r
<1>4. /\ control' \in Seq(CommandRows) /\ Len(control') = Len(control) + 1
      /\ \A i \in 1 .. Len(control) : control'[i] = control[i]
      /\ control'[Len(control) + 1] = r
  BY <1>1, <1>2, <1>3
<1>5. /\ effects' \in Seq({0, 1}) /\ Len(effects') = Len(control) + 1
      /\ \A i \in 1 .. Len(control) : effects'[i] = effects[i]
      /\ effects'[Len(control) + 1] = 0
  BY <1>1, <1>3
<1>6. ASSUME NEW i \in 1 .. Len(control')
      PROVE  Able(control'[i]) /\ (control'[i].status = "pending" => effects'[i] = 0)
  <2>1. CASE i \in 1 .. Len(control)
    BY <2>1, <1>4, <1>5 DEF QueueInv, TableInv
  <2>2. CASE i = Len(control) + 1
    BY <2>2, <1>2, <1>4, <1>5
  <2>3. i \in 1 .. Len(control) \/ i = Len(control) + 1
    BY <1>3, <1>4
  <2> QED BY <2>1, <2>2, <2>3
<1>7. TableInv'
  BY <1>4, <1>5, <1>6 DEF TableInv
<1>8. ASSUME NEW d \in Daemons PROVE InHand(work'[d], ToolOf(d), control', effects')
  <2>1. PICK v : v = work[d]
    OBVIOUS
  <2>2. PICK ctl, eff, ctl2, eff2 : ctl = control /\ eff = effects /\ ctl2 = control' /\ eff2 = effects'
    OBVIOUS
  <2>3. InHand(v, ToolOf(d), ctl, eff) /\ v \in Pollers
    BY <2>1, <2>2 DEF QueueInv, PollersInv
  <2>4. /\ DOMAIN ctl = 1 .. Len(control)
        /\ DOMAIN ctl \subseteq DOMAIN ctl2
        /\ \A j \in DOMAIN ctl : ctl2[j] = ctl[j] /\ eff2[j] = eff[j]
    BY <2>2, <1>3, <1>4, <1>5
  <2>5. InHand(v, ToolOf(d), ctl2, eff2)
    BY <2>3, <2>4, OthersStayInHand
  <2> QED BY <2>1, <2>2, <2>5, <1>1
<1>9. PollersInv'
  BY <1>1, <1>8 DEF InHand, ToolOf, QueueInv, PollersInv
<1> QED BY <1>7, <1>9 DEF QueueInv

(* A fetch takes pending commands of its tool, each of them once.               *)
LEMMA FetchKeepsQueue ==
  ASSUME CommandsAssumption, OneOfEach, QueueInv, NEW d \in Daemons, Fetch(d)
  PROVE  QueueInv'
<1> DEFINE S == {i \in DOMAIN control : Addressed(d, i)}
           rows == Ascending(S)
           n == Min({Batch, Len(rows)})
           todo == SubSeq(rows, 1, n)
           w == [step |-> "fetched", todo |-> todo, outcome |-> "none"]
<1>1. /\ rows # <<>> /\ UNCHANGED <<control, effects>>
      /\ work' = [work EXCEPT ![d] = w]
  <2>1. rows # <<>> /\ UNCHANGED <<control, effects>>
    BY DEF Fetch
  <2>2. work' = [work EXCEPT ![d] = w]
    BY Zenon DEF Fetch
  <2> QED BY <2>1, <2>2
<1>2. /\ control \in Seq(CommandRows) /\ Len(control) \in Nat
      /\ DOMAIN control = 1 .. Len(control)
  BY DEF QueueInv, TableInv
<1>3. S \in SUBSET Nat /\ IsFiniteSet(S)
  <2>1. IsFiniteSet(1 .. Len(control))
    BY <1>2, FS_Interval
  <2>2. S \subseteq 1 .. Len(control)
    BY <1>2
  <2>3. IsFiniteSet(S)
    <3> HIDE DEF S
    <3> QED BY <2>1, <2>2, FS_Subset
  <2> QED BY <2>2, <2>3, <1>2
<1>5. /\ rows \in Seq(S) /\ Len(rows) = Cardinality(S)
      /\ \A k, l \in 1 .. Cardinality(S) : rows[k] = rows[l] => k = l
  <2> HIDE DEF S, rows
  <2> QED BY <1>3, FetchedMembers DEF rows
<1>6. \A i \in S : /\ i \in DOMAIN control /\ control[i].status = "pending"
                   /\ control[i].tool = ToolOf(d)
  BY <1>2 DEF QueueInv, TableInv, Able, Addressed
<1> HIDE DEF S, rows
<1>7. Len(rows) \in Nat \ {0}
  BY <1>1, <1>5
<1>8. n \in 1 .. Len(rows)
  <2>1. Batch \in Nat \ {0}
    BY DEF CommandsAssumption
  <2>2. \E x \in {Batch, Len(rows)} : \A y \in {Batch, Len(rows)} : x =< y
    BY <2>1, <1>7
  <2>3. n \in {Batch, Len(rows)} /\ \A y \in {Batch, Len(rows)} : n =< y
    BY <2>2 DEF Min
  <2> HIDE DEF n
  <2> QED BY <2>1, <2>3, <1>7
<1> HIDE DEF n
<1>9. /\ todo \in Seq(S) /\ Len(todo) = n /\ DOMAIN todo = 1 .. n /\ todo # <<>>
      /\ \A k \in 1 .. n : todo[k] = rows[k]
  BY <1>5, <1>7, <1>8
<1> HIDE DEF todo
<1>10. todo \in Seq(Nat)
  <2>1. \A T, q : S \subseteq T => (q \in Seq(S) => q \in Seq(T))
    OBVIOUS
  <2> QED BY <2>1, <1>3, <1>9
<1>11. w \in Pollers
  BY <1>10 DEF Pollers
<1>12. \A k \in DOMAIN todo : todo[k] \in S
  BY <1>9
<1>13. \A k, l \in DOMAIN todo : todo[k] = todo[l] => k = l
  BY <1>5, <1>7, <1>8, <1>9
<1>14. InHand(w, ToolOf(d), control', effects')
  BY <1>1, <1>6, <1>9, <1>12, <1>13 DEF InHand
<1>15. PollersInv'
  <2> HIDE DEF w
  <2> QED BY <1>1, <1>11, <1>14, OnePollerMoves
<1> QED BY <1>1, <1>15 DEF QueueInv, TableInv

\* Command i of table ctl with another status.
Restated(ctl, i, status) == [ctl EXCEPT ![i].status = status]

LEMMA RestatedRow ==
  ASSUME NEW ctl, NEW i, NEW s, ctl \in Seq(CommandRows), i \in DOMAIN ctl,
         s \in {"pending", "acknowledged", "completed", "failed"}
  PROVE  /\ Restated(ctl, i, s) \in Seq(CommandRows)
         /\ Len(Restated(ctl, i, s)) = Len(ctl)
         /\ DOMAIN Restated(ctl, i, s) = DOMAIN ctl
         /\ \A j \in DOMAIN ctl : j # i => Restated(ctl, i, s)[j] = ctl[j]
         /\ Restated(ctl, i, s)[i].status = s
         /\ Restated(ctl, i, s)[i].tool = ctl[i].tool
         /\ Restated(ctl, i, s)[i].kind = ctl[i].kind
<1> DEFINE entry == [ctl[i] EXCEPT !.status = s]
<1>1. ctl[i] \in CommandRows
  OBVIOUS
<1>2. /\ entry \in CommandRows /\ entry.status = s
      /\ entry.tool = ctl[i].tool /\ entry.kind = ctl[i].kind
  BY <1>1 DEF CommandRows
<1>3. Restated(ctl, i, s) = [ctl EXCEPT ![i] = entry]
  BY DEF Restated
<1> HIDE DEF entry
<1>4. /\ Restated(ctl, i, s) \in Seq(CommandRows)
      /\ Len(Restated(ctl, i, s)) = Len(ctl)
      /\ DOMAIN Restated(ctl, i, s) = DOMAIN ctl
      /\ \A j \in DOMAIN ctl : j # i => Restated(ctl, i, s)[j] = ctl[j]
      /\ Restated(ctl, i, s)[i] = entry
  BY <1>2, <1>3
<1> QED BY <1>2, <1>4

(* What a poller that is not asleep has at hand.                                *)
LEMMA AtHand ==
  ASSUME QueueInv, NEW d \in Daemons, work[d].step # "asleep"
  PROVE  /\ work[d].todo \in Seq(Nat) /\ 1 \in DOMAIN work[d].todo
         /\ Current(d) = work[d].todo[1] /\ Current(d) \in DOMAIN control
         /\ DOMAIN control = 1 .. Len(control) /\ Len(control) \in Nat
         /\ control[Current(d)].tool = ToolOf(d)
         /\ control[Current(d)].status = IF work[d].step # "fetched" THEN "acknowledged" ELSE "pending"
         /\ work[d].step = "acknowledged" => effects[Current(d)] = 0
         /\ work[d].step = "executed" =>
              /\ work[d].outcome \in {"done", "error"}
              /\ work[d].outcome = "done" => effects[Current(d)] = 1
<1>1. work[d] \in Pollers /\ InHand(work[d], ToolOf(d), control, effects)
  BY DEF QueueInv, PollersInv
<1>2. PICK w : w = work[d]
  OBVIOUS
<1>3. w.todo \in Seq(Nat) /\ w.todo # <<>> /\ w.outcome \in {"none", "done", "error"}
  BY <1>1, <1>2 DEF Pollers, InHand
<1>4. 1 \in DOMAIN w.todo /\ Head(w.todo) = w.todo[1]
  BY <1>3
<1>5. Current(d) = w.todo[1]
  BY <1>2, <1>4 DEF Current
<1>6. DOMAIN control = 1 .. Len(control) /\ Len(control) \in Nat
  BY DEF QueueInv, TableInv
<1>7. InHand(w, ToolOf(d), control, effects)
  BY <1>1, <1>2
<1>8. /\ w.todo[1] \in DOMAIN control /\ control[w.todo[1]].tool = ToolOf(d)
      /\ control[w.todo[1]].status = IF w.step # "fetched" THEN "acknowledged" ELSE "pending"
      /\ w.step = "acknowledged" => effects[w.todo[1]] = 0
      /\ w.step = "executed" => /\ w.outcome # "none"
                                /\ w.outcome = "done" => effects[w.todo[1]] = 1
  BY <1>4, <1>7 DEF InHand
<1> QED BY <1>2, <1>3, <1>4, <1>5, <1>6, <1>8

(* Taking a command up or reporting on it keeps the table.                      *)
LEMMA RestatingKeepsTable ==
  ASSUME TableInv, NEW i \in DOMAIN control, NEW s \in {"acknowledged", "completed", "failed"},
         control' = Restated(control, i, s), effects' = effects
  PROVE  TableInv'
<1>1. /\ control \in Seq(CommandRows) /\ effects \in Seq({0, 1}) /\ Len(effects) = Len(control)
      /\ DOMAIN control = 1 .. Len(control)
  BY DEF TableInv
<1>2. /\ control' \in Seq(CommandRows) /\ Len(control') = Len(control)
      /\ \A j \in DOMAIN control : j # i => control'[j] = control[j]
      /\ control'[i].status = s /\ control'[i].tool = control[i].tool
      /\ control'[i].kind = control[i].kind
  <2>1. s \in {"pending", "acknowledged", "completed", "failed"}
    OBVIOUS
  <2>2. PICK t : t = control
    OBVIOUS
  <2>3. t \in Seq(CommandRows) /\ i \in DOMAIN t
    BY <2>2, <1>1
  <2>4. /\ Restated(t, i, s) \in Seq(CommandRows) /\ Len(Restated(t, i, s)) = Len(t)
        /\ \A j \in DOMAIN t : j # i => Restated(t, i, s)[j] = t[j]
        /\ Restated(t, i, s)[i].status = s /\ Restated(t, i, s)[i].tool = t[i].tool
        /\ Restated(t, i, s)[i].kind = t[i].kind
    BY <2>1, <2>3, RestatedRow
  <2> QED BY <2>2, <2>4
<1>3. ASSUME NEW j \in 1 .. Len(control)
      PROVE  Able(control'[j]) /\ (control'[j].status = "pending" => effects'[j] = 0)
  <2>1. Able(control[j]) /\ (control[j].status = "pending" => effects[j] = 0)
    BY DEF TableInv
  <2>2. CASE j = i
    BY <2>1, <2>2, <1>2 DEF Able
  <2>3. CASE j # i
    BY <2>1, <2>3, <1>1, <1>2
  <2> QED BY <2>2, <2>3
<1> QED BY <1>1, <1>2, <1>3 DEF TableInv

(* A poller that gives up its batch, by an error or because its daemon died.    *)
LEMMA GivingUpKeepsQueue ==
  ASSUME QueueInv, OneOfEach, NEW d \in Daemons,
         work' = [work EXCEPT ![d] = Asleep], UNCHANGED <<control, effects>>
  PROVE  QueueInv'
<1>1. PICK w : w = Asleep
  OBVIOUS
<1>2. w \in Pollers /\ w.todo = <<>> /\ w.step = "asleep"
  BY <1>1 DEF Pollers, Asleep
<1>3. InHand(w, ToolOf(d), control', effects')
  BY <1>1, <1>2 DEF InHand
<1>4. PollersInv'
  BY <1>1, <1>2, <1>3, OnePollerMoves
<1> QED BY <1>4 DEF QueueInv, TableInv

LEMMA AcknowledgeKeepsQueue ==
  ASSUME QueueInv, OneOfEach, NEW d \in Daemons, Acknowledge(d)
  PROVE  QueueInv'
<1>1. PICK i : i = Current(d)
  OBVIOUS
<1>2. PICK v : v = work[d]
  OBVIOUS
<1>3. v \in Pollers /\ InHand(v, ToolOf(d), control, effects) /\ v.step = "fetched"
  BY <1>2 DEF QueueInv, PollersInv, Acknowledge
<1>4. /\ i \in DOMAIN control /\ i = v.todo[1] /\ 1 \in DOMAIN v.todo
      /\ control[i].tool = ToolOf(d) /\ control[i].status = "pending"
      /\ DOMAIN control = 1 .. Len(control)
  BY <1>1, <1>2, <1>3, AtHand
<1>5. effects[i] = 0
  BY <1>4 DEF QueueInv, TableInv
<1>6. control' = Restated(control, i, "acknowledged") /\ effects' = effects
  BY <1>1 DEF Acknowledge, Marked, Restated
<1>7. /\ DOMAIN control' = DOMAIN control
      /\ \A j \in DOMAIN control : j # i => control'[j] = control[j]
      /\ control'[i].status = "acknowledged" /\ control'[i].tool = control[i].tool
  <2>1. control \in Seq(CommandRows)
    BY DEF QueueInv, TableInv
  <2>2. "acknowledged" \in {"pending", "acknowledged", "completed", "failed"}
    OBVIOUS
  <2>3. PICK t : t = Restated(control, i, "acknowledged")
    OBVIOUS
  <2>4. /\ DOMAIN t = DOMAIN control
        /\ \A j \in DOMAIN control : j # i => t[j] = control[j]
        /\ t[i].status = "acknowledged" /\ t[i].tool = control[i].tool
    BY <2>1, <2>2, <2>3, <1>4, RestatedRow
  <2> QED BY <2>3, <2>4, <1>6
<1>8. TableInv'
  BY <1>4, <1>6, RestatingKeepsTable DEF QueueInv
<1> DEFINE w == [step |-> "acknowledged", todo |-> v.todo, outcome |-> v.outcome]
<1>9. w \in Pollers /\ work' = [work EXCEPT ![d] = w]
  <2>1. work' = [work EXCEPT ![d] = [v EXCEPT !.step = "acknowledged"]]
    BY <1>2 DEF Acknowledge
  <2>2. w \in Pollers /\ [v EXCEPT !.step = "acknowledged"] = w
    BY <1>3 DEF Pollers
  <2> QED BY <2>1, <2>2
<1>10. \A k \in DOMAIN v.todo :
          /\ v.todo[k] \in DOMAIN control /\ control[v.todo[k]].tool = ToolOf(d)
          /\ control[v.todo[k]].status = "pending"
          /\ k # 1 => v.todo[k] # i
  BY <1>3, <1>4 DEF InHand
<1>11. \A k \in DOMAIN v.todo :
          /\ v.todo[k] \in DOMAIN control' /\ control'[v.todo[k]].tool = ToolOf(d)
          /\ control'[v.todo[k]].status = IF k = 1 THEN "acknowledged" ELSE "pending"
  BY <1>4, <1>7, <1>10
<1>12. InHand(w, ToolOf(d), control', effects')
  <2>1. v.todo # <<>> /\ \A k, l \in DOMAIN v.todo : v.todo[k] = v.todo[l] => k = l
    BY <1>3 DEF InHand
  <2> QED BY <2>1, <1>4, <1>5, <1>6, <1>11 DEF InHand
<1> HIDE DEF w
<1>13. PollersInv'
  BY <1>4, <1>6, <1>7, <1>9, <1>12, OnePollerMoves
<1> QED BY <1>8, <1>13 DEF QueueInv

(* Where every command is given to the tool that can do it, none is executed in  *)
(* vain.                                                                         *)
LEMMA NothingIsInVain ==
  ASSUME NEW d \in Daemons, NEW c, Able(c), c.tool = ToolOf(d)
  PROVE  Outcome(d, c) \in {"done", "error"}
<1>1. ~ResyncSkipped(d, c) /\ ~TriggerSkipped(c)
  BY DEF Able, ResyncSkipped, TriggerSkipped
<1>2. ~PauseUnread(d, c)
  BY DEF Able, PauseUnread, ToolOf
<1> QED BY <1>1, <1>2 DEF Outcome

(* The first command of the batch takes effect, or raises; effects i counts it.  *)
LEMMA ExecuteKeepsQueue ==
  ASSUME QueueInv, OneOfEach, NEW d \in Daemons, Execute(d)
  PROVE  QueueInv'
<1>1. PICK i : i = Current(d)
  OBVIOUS
<1>2. PICK v : v = work[d]
  OBVIOUS
<1>3. v \in Pollers /\ InHand(v, ToolOf(d), control, effects) /\ v.step = "acknowledged"
  BY <1>2 DEF QueueInv, PollersInv, Execute
<1>4. /\ i \in DOMAIN control /\ i = v.todo[1] /\ 1 \in DOMAIN v.todo
      /\ control[i].tool = ToolOf(d) /\ control[i].status = "acknowledged" /\ effects[i] = 0
      /\ DOMAIN control = 1 .. Len(control) /\ Len(control) \in Nat
  BY <1>1, <1>2, <1>3, AtHand
<1>5. PICK o : o = Outcome(d, control[i])
  OBVIOUS
<1>6. o \in {"done", "error"}
  BY <1>4, <1>5, NothingIsInVain DEF QueueInv, TableInv
<1>7. /\ UNCHANGED control
      /\ effects' = IF o = "done" THEN [effects EXCEPT ![i] = effects[i] + 1] ELSE effects
      /\ work' = [work EXCEPT ![d] = [work[d] EXCEPT !.step = "executed", !.outcome = o]]
  BY <1>1, <1>5, Zenon DEF Execute
<1>8. /\ effects' \in Seq({0, 1}) /\ Len(effects') = Len(effects)
      /\ \A j \in DOMAIN control : j # i => effects'[j] = effects[j]
      /\ o = "done" => effects'[i] = 1
  BY <1>4, <1>7 DEF QueueInv, TableInv
<1>9. TableInv'
  <2>1. \A j \in DOMAIN control : control[j].status = "pending" => j # i
    BY <1>4
  <2> QED BY <2>1, <1>4, <1>7, <1>8 DEF QueueInv, TableInv
<1> DEFINE w == [step |-> "executed", todo |-> v.todo, outcome |-> o]
<1>10. w \in Pollers /\ work' = [work EXCEPT ![d] = w]
  <2> DEFINE u == [step |-> "executed", todo |-> v.todo, outcome |-> v.outcome]
  <2>1. w \in Pollers /\ [v EXCEPT !.step = "executed", !.outcome = o] = w
    <3>1. u = [v EXCEPT !.step = "executed"]
      BY <1>3 DEF Pollers
    <3>2. w = [u EXCEPT !.outcome = o]
      OBVIOUS
    <3>3. w \in Pollers
      BY <1>3, <1>6 DEF Pollers
    <3> HIDE DEF u, w
    <3> QED BY <3>1, <3>2, <3>3
  <2> QED BY <2>1, <1>2, <1>7
<1>11. InHand(w, ToolOf(d), control', effects')
  BY <1>3, <1>4, <1>6, <1>7, <1>8 DEF InHand
<1> HIDE DEF w
<1>12. PollersInv'
  BY <1>4, <1>7, <1>8, <1>10, <1>11, OnePollerMoves
<1> QED BY <1>9, <1>12 DEF QueueInv

(* An error while a command is reported leaves it taken up, or as one that failed. *)
LEMMA ReportFailsKeepsQueue ==
  ASSUME QueueInv, OneOfEach, NEW d \in Daemons, ReportFails(d)
  PROVE  QueueInv'
<1>1. PICK v : v = work[d]
  OBVIOUS
<1>2. /\ v \in Pollers /\ InHand(v, ToolOf(d), control, effects) /\ v.step = "executed"
      /\ UNCHANGED <<control, effects>>
  BY <1>1 DEF QueueInv, PollersInv, ReportFails
<1>3. work' = [work EXCEPT ![d] = IF v.outcome = "error" THEN Asleep
                                                         ELSE [v EXCEPT !.outcome = "error"]]
  BY <1>1 DEF ReportFails
<1>4. CASE v.outcome = "error"
  BY <1>2, <1>3, <1>4, GivingUpKeepsQueue
<1>5. CASE v.outcome # "error"
  <2> DEFINE w == [step |-> "executed", todo |-> v.todo, outcome |-> "error"]
  <2>1. w \in Pollers /\ [v EXCEPT !.outcome = "error"] = w
    BY <1>2 DEF Pollers
  <2>2. work' = [work EXCEPT ![d] = w]
    BY <2>1, <1>3, <1>5
  <2>3. InHand(w, ToolOf(d), control', effects')
    BY <1>2 DEF InHand
  <2> HIDE DEF w
  <2>4. PollersInv'
    BY <1>2, <2>1, <2>2, <2>3, OnePollerMoves
  <2> QED BY <1>2, <2>4 DEF QueueInv, TableInv
<1> QED BY <1>4, <1>5

(* A report ends the first command of the batch; the next is pending as before.  *)
LEMMA ReportKeepsQueue ==
  ASSUME QueueInv, OneOfEach, NEW d \in Daemons, Report(d)
  PROVE  QueueInv'
<1>1. PICK i : i = Current(d)
  OBVIOUS
<1>2. PICK v : v = work[d]
  OBVIOUS
<1>3. v \in Pollers /\ InHand(v, ToolOf(d), control, effects) /\ v.step = "executed"
  BY <1>2 DEF QueueInv, PollersInv, Report
<1>4. /\ i \in DOMAIN control /\ i = v.todo[1] /\ 1 \in DOMAIN v.todo
      /\ v.todo \in Seq(Nat) /\ control[i].tool = ToolOf(d)
      /\ DOMAIN control = 1 .. Len(control)
  BY <1>1, <1>2, <1>3, AtHand
<1>5. PICK s \in {"completed", "failed"} : control' = Restated(control, i, s)
  BY <1>1 DEF Report, Marked, Restated
<1>6. effects' = effects
  BY DEF Report
<1>7. TableInv'
  BY <1>4, <1>5, <1>6, RestatingKeepsTable DEF QueueInv
<1>8. /\ DOMAIN control' = DOMAIN control
      /\ \A j \in DOMAIN control : j # i => control'[j] = control[j]
  <2>1. control \in Seq(CommandRows)
    BY DEF QueueInv, TableInv
  <2>2. s \in {"pending", "acknowledged", "completed", "failed"}
    OBVIOUS
  <2> QED BY <2>1, <2>2, <1>4, <1>5, RestatedRow
<1>9. work' = [work EXCEPT ![d] =
         IF Len(v.todo) = 1 THEN Asleep ELSE [step |-> "fetched", todo |-> Tail(v.todo), outcome |-> "none"]]
  BY <1>2 DEF Report
<1>10. CASE Len(v.todo) = 1
  <2>1. PICK w : w = Asleep
    OBVIOUS
  <2>2. w \in Pollers /\ w.todo = <<>> /\ w.step = "asleep"
    BY <2>1 DEF Pollers, Asleep
  <2>3. InHand(w, ToolOf(d), control', effects')
    BY <2>1, <2>2 DEF InHand
  <2>4. work' = [work EXCEPT ![d] = w]
    BY <2>1, <1>9, <1>10
  <2>5. PollersInv'
    BY <1>4, <1>6, <1>8, <2>2, <2>3, <2>4, OnePollerMoves
  <2> QED BY <1>7, <2>5 DEF QueueInv
<1>11. CASE Len(v.todo) # 1
  <2> DEFINE rest == Tail(v.todo)
             w == [step |-> "fetched", todo |-> rest, outcome |-> "none"]
  <2>1. /\ rest \in Seq(Nat) /\ rest # <<>> /\ 1 \in DOMAIN v.todo
        /\ \A k \in DOMAIN rest : rest[k] = v.todo[k + 1] /\ k + 1 \in DOMAIN v.todo /\ k + 1 # 1
        /\ \A k, l \in DOMAIN rest : k + 1 = l + 1 => k = l
    <3>1. Len(v.todo) \in Nat \ {0, 1} /\ DOMAIN v.todo = 1 .. Len(v.todo)
      BY <1>4, <1>11
    <3>2. /\ rest \in Seq(Nat) /\ Len(rest) = Len(v.todo) - 1
          /\ DOMAIN rest = 1 .. Len(v.todo) - 1
          /\ \A k \in 1 .. Len(v.todo) - 1 : rest[k] = v.todo[k + 1]
      BY <1>4, <3>1
    <3> HIDE DEF rest
    <3>3. rest # <<>>
      <4>1. Len(rest) # 0
        BY <3>1, <3>2
      <4> QED BY <4>1
    <3>4. \A k \in DOMAIN rest : k + 1 \in DOMAIN v.todo /\ k + 1 # 1
      BY <3>1, <3>2
    <3>5. \A k, l \in DOMAIN rest : k + 1 = l + 1 => k = l
      BY <3>1, <3>2
    <3> QED BY <1>4, <3>2, <3>3, <3>4, <3>5
  <2> HIDE DEF rest
  <2>2. w \in Pollers
    BY <2>1 DEF Pollers
  <2>3. \A k \in DOMAIN v.todo :
           /\ v.todo[k] \in DOMAIN control /\ control[v.todo[k]].tool = ToolOf(d)
           /\ k # 1 => v.todo[k] # i /\ control[v.todo[k]].status = "pending"
    BY <1>3, <1>4 DEF InHand
  <2>4. \A k \in DOMAIN rest :
           /\ rest[k] \in DOMAIN control' /\ control'[rest[k]].tool = ToolOf(d)
           /\ control'[rest[k]].status = "pending"
    BY <2>1, <2>3, <1>8
  <2>5. \A k, l \in DOMAIN rest : rest[k] = rest[l] => k = l
    <3>1. \A k, l \in DOMAIN v.todo : v.todo[k] = v.todo[l] => k = l
      BY <1>3 DEF InHand
    <3> QED BY <3>1, <2>1
  <2>6. InHand(w, ToolOf(d), control', effects')
    BY <2>1, <2>4, <2>5 DEF InHand
  <2>7. work' = [work EXCEPT ![d] = w]
    BY <1>9, <1>11 DEF rest
  <2> HIDE DEF w
  <2>8. PollersInv'
    BY <1>4, <1>6, <1>8, <2>2, <2>6, <2>7, OnePollerMoves
  <2> QED BY <1>7, <2>8 DEF QueueInv
<1> QED BY <1>10, <1>11

LEMMA QueueInit == Init => QueueInv
<1> SUFFICES ASSUME Init PROVE QueueInv
  OBVIOUS
<1>1. control = <<>> /\ effects = <<>> /\ work = [d \in Daemons |-> Asleep]
  BY DEF Init
<1>2. control \in Seq(CommandRows) /\ effects \in Seq({0, 1}) /\ Len(control) = 0 /\ Len(effects) = 0
  BY <1>1
<1>3. TableInv
  BY <1>2 DEF TableInv
<1>4. Asleep \in Pollers
  BY DEF Pollers, Asleep
<1>5. PICK w : w = Asleep
  OBVIOUS
<1>6. w.todo = <<>> /\ w.step = "asleep"
  BY <1>5 DEF Asleep
<1>7. \A d \in Daemons : InHand(w, ToolOf(d), control, effects)
  BY <1>5, <1>6 DEF InHand
<1>8. PollersInv
  BY <1>1, <1>4, <1>5, <1>7 DEF PollersInv
<1> QED BY <1>3, <1>8 DEF QueueInv

\* What the table and the pollers do not see of a step.
Elsewhere == UNCHANGED <<control, effects, work>>

(* A step is an operation on the table, a poller's giving up, or elsewhere.      *)
LEMMA StepsOfQueue ==
  ASSUME [Next]_vars
  PROVE  \/ \E c \in Issues : Issue(c)
         \/ \E d \in Daemons :
              \/ Poll(d) \/ ReportFails(d)
              \/ work' = [work EXCEPT ![d] = Asleep] /\ UNCHANGED <<control, effects>>
         \/ Elsewhere
<1>1. CASE UNCHANGED vars
  BY <1>1 DEF vars, Elsewhere
<1>2. ASSUME NEW d \in Daemons, AcknowledgeFails(d) \/ Restart(d)
      PROVE  work' = [work EXCEPT ![d] = Asleep] /\ UNCHANGED <<control, effects>>
  BY <1>2, Zenon DEF AcknowledgeFails, Restart
<1>3. ASSUME NEW d \in Daemons, NEW t \in Datatypes,
             StartSync(d, t) \/ StoreWatermark(d, t) \/ EndSync(d, t)
      PROVE  Elsewhere
  BY <1>3, Zenon DEF StartSync, StoreWatermark, EndSync, Elsewhere
<1> QED BY <1>1, <1>2, <1>3, Zenon DEF Next

LEMMA QueueInvStep ==
  ASSUME CommandsAssumption, OneOfEach, EachToItsTool, QueueInv, [Next]_vars
  PROVE  QueueInv'
<1>1. ASSUME NEW d \in Daemons, Poll(d) PROVE QueueInv'
  BY <1>1, FetchKeepsQueue, AcknowledgeKeepsQueue, ExecuteKeepsQueue, ReportKeepsQueue DEF Poll
<1>2. ASSUME Elsewhere PROVE QueueInv'
  BY <1>2 DEF Elsewhere, QueueInv, TableInv, PollersInv, InHand, ToolOf
<1> QED BY <1>1, <1>2, StepsOfQueue, IssueKeepsQueue, ReportFailsKeepsQueue, GivingUpKeepsQueue

\* A table as the operator sees it.
SeenOf(ctl, eff) == [i \in DOMAIN ctl |-> [status |-> ctl[i].status, effects |-> eff[i]]]
Seen == [i \in DOMAIN control |-> [status |-> control[i].status, effects |-> effects[i]]]

LEMMA SeenRestated ==
  ASSUME NEW ctl, NEW eff, NEW i, NEW s, ctl \in Seq(CommandRows), i \in DOMAIN ctl,
         s \in {"pending", "acknowledged", "completed", "failed"}
  PROVE  SeenOf(Restated(ctl, i, s), eff) = [SeenOf(ctl, eff) EXCEPT ![i].status = s]
<1> DEFINE new == Restated(ctl, i, s)
           old == SeenOf(ctl, eff)
<1>1. /\ DOMAIN new = DOMAIN ctl /\ new[i].status = s
      /\ \A j \in DOMAIN ctl : j # i => new[j] = ctl[j]
  BY RestatedRow
<1>2. old[i] = [status |-> ctl[i].status, effects |-> eff[i]] /\ DOMAIN old = DOMAIN ctl
  BY DEF SeenOf
<1>3. [old[i] EXCEPT !.status = s] = [status |-> s, effects |-> eff[i]]
  BY <1>2
<1>4. SeenOf(new, eff) = [j \in DOMAIN ctl |-> [status |-> new[j].status, effects |-> eff[j]]]
  BY <1>1 DEF SeenOf
<1>5. [old EXCEPT ![i] = [status |-> s, effects |-> eff[i]]]
        = [j \in DOMAIN ctl |-> [status |-> new[j].status, effects |-> eff[j]]]
  <2> HIDE DEF new
  <2> QED BY <1>1 DEF SeenOf
<1> QED BY <1>3, <1>4, <1>5

(* An operation of a poller is a step of the queue, or none.                    *)
LEMMA AcknowledgeIsSeen ==
  ASSUME QueueInv, NEW d \in Daemons, Acknowledge(d)
  PROVE  Queue!Next
<1>1. PICK i : i = Current(d)
  OBVIOUS
<1>2. /\ i \in DOMAIN control /\ control[i].status = "pending"
      /\ DOMAIN control = 1 .. Len(control) /\ control \in Seq(CommandRows)
  BY <1>1, AtHand DEF Acknowledge, QueueInv, TableInv
<1>3. effects[i] = 0
  BY <1>2 DEF QueueInv, TableInv
<1>4. control' = Restated(control, i, "acknowledged") /\ effects' = effects
  BY <1>1 DEF Acknowledge, Marked, Restated
<1>5. SeenOf(control', effects') = [SeenOf(control, effects) EXCEPT ![i].status = "acknowledged"]
  BY <1>2, <1>4, SeenRestated
<1>6. SeenOf(control, effects)[i] = [status |-> "pending", effects |-> 0]
  BY <1>2, <1>3 DEF SeenOf
<1>7. Queue!Acknowledge(i)
  BY <1>5, <1>6 DEF SeenOf, Queue!Acknowledge, Queue!Pending
<1> QED BY <1>2, <1>7 DEF Queue!Next

LEMMA ExecuteIsSeen ==
  ASSUME QueueInv, NEW d \in Daemons, Execute(d)
  PROVE  Queue!Next \/ UNCHANGED Seen
<1>1. PICK i : i = Current(d)
  OBVIOUS
<1>2. /\ i \in DOMAIN control /\ control[i].status = "acknowledged" /\ effects[i] = 0
      /\ DOMAIN control = 1 .. Len(control) /\ Len(effects) = Len(control)
      /\ effects \in Seq({0, 1})
  BY <1>1, AtHand DEF Execute, QueueInv, TableInv
<1>3. PICK o : o = Outcome(d, control[i])
  OBVIOUS
<1>4. /\ UNCHANGED control
      /\ effects' = IF o = "done" THEN [effects EXCEPT ![i] = effects[i] + 1] ELSE effects
  BY <1>1, <1>3, Zenon DEF Execute
<1>5. CASE o = "done"
  <2>1. effects' = [effects EXCEPT ![i] = 1]
    BY <1>2, <1>4, <1>5
  <2>2. SeenOf(control, effects)[i] = [status |-> "acknowledged", effects |-> 0]
    BY <1>2 DEF SeenOf
  <2>3. [SeenOf(control, effects)[i] EXCEPT !.effects = 1] = [status |-> "acknowledged", effects |-> 1]
    BY <2>2
  <2>4. SeenOf(control', effects') =
          [SeenOf(control, effects) EXCEPT ![i] = [status |-> "acknowledged", effects |-> 1]]
    <3>1. \A j \in DOMAIN control : effects'[j] = IF j = i THEN 1 ELSE effects[j]
      BY <2>1, <1>2
    <3> QED BY <3>1, <1>2, <1>4 DEF SeenOf
  <2>5. Queue!Effect(i)
    BY <2>2, <2>3, <2>4 DEF SeenOf, Queue!Effect
  <2> QED BY <1>2, <2>5 DEF Queue!Next
<1>6. CASE o # "done"
  BY <1>4, <1>6 DEF Seen
<1> QED BY <1>5, <1>6

LEMMA ReportIsSeen ==
  ASSUME QueueInv, NEW d \in Daemons, Report(d)
  PROVE  Queue!Next
<1>1. PICK i : i = Current(d)
  OBVIOUS
<1>2. /\ i \in DOMAIN control /\ control[i].status = "acknowledged"
      /\ work[d].outcome \in {"done", "error"} /\ (work[d].outcome = "done" => effects[i] = 1)
      /\ control \in Seq(CommandRows)
  BY <1>1, AtHand DEF Report, QueueInv, TableInv
<1>3. PICK s : s = IF work[d].outcome = "error" THEN "failed" ELSE "completed"
  OBVIOUS
<1>4. control' = Restated(control, i, s) /\ effects' = effects
  BY <1>1, <1>3 DEF Report, Marked, Restated
<1>5. SeenOf(control', effects') = [SeenOf(control, effects) EXCEPT ![i].status = s]
  BY <1>2, <1>3, <1>4, SeenRestated
<1>6. SeenOf(control, effects)[i] = [status |-> "acknowledged", effects |-> effects[i]]
  BY <1>2 DEF SeenOf
<1>7. s = "completed" => effects[i] = 1
  BY <1>2, <1>3
<1>8. Queue!Report(i)
  <2>1. SeenOf(control, effects)[i].status = "acknowledged"
    BY <1>6
  <2>2. CASE s = "failed"
    BY <2>1, <2>2, <1>5, Zenon DEF SeenOf, Queue!Report
  <2>3. CASE s = "completed"
    <3>1. SeenOf(control, effects)[i].effects = 1
      BY <1>6, <1>7, <2>3
    <3> QED BY <2>1, <2>3, <3>1, <1>5, Zenon DEF SeenOf, Queue!Report
  <2> QED BY <1>3, <2>2, <2>3
<1> QED BY <1>2, <1>8 DEF Queue!Next

LEMMA IssueIsSeen ==
  ASSUME QueueInv, NEW c \in Issues, Issue(c)
  PROVE  Queue!Next
<1> DEFINE r == [status |-> "pending", kind |-> c.kind, key |-> c.key, tool |-> c.tool]
<1>1. control' = Append(control, r) /\ effects' = Append(effects, 0)
  BY DEF Issue
<1>2. r.status = "pending"
  OBVIOUS
<1>3. /\ control \in Seq(CommandRows) /\ effects \in Seq({0, 1})
      /\ Len(effects) = Len(control) /\ Len(control) \in Nat /\ DOMAIN control = 1 .. Len(control)
  BY DEF QueueInv, TableInv
<1> HIDE DEF r
<1>4. /\ DOMAIN control' = 1 .. Len(control) + 1
      /\ \A i \in 1 .. Len(control) : control'[i] = control[i] /\ effects'[i] = effects[i]
      /\ control'[Len(control) + 1] = r /\ effects'[Len(control) + 1] = 0
  BY <1>1, <1>3
<1> DEFINE p == [status |-> "pending", effects |-> 0]
<1>5. Len(SeenOf(control, effects)) = Len(control)
  BY <1>3 DEF SeenOf
<1>6. SeenOf(control', effects') = Append(SeenOf(control, effects), p)
  BY <1>2, <1>3, <1>4, <1>5 DEF SeenOf
<1>7. Queue!Issue
  BY <1>6 DEF SeenOf, Queue!Issue, Queue!Pending
<1> QED BY <1>7 DEF Queue!Next

(* Where each tool runs one daemon and every command names the tool that can do   *)
(* it, the control table is the queue of CommandQueue, for any number of commands, *)
(* any batch size and any errors and restarts (control.py): taken up at most once, *)
(* effective at most once and only in between, completed only if it took effect.   *)
THEOREM TableIsQueue ==
  ASSUME CommandsAssumption, OneOfEach, EachToItsTool
  PROVE  Spec => QueueIsFollowed
<1>1. Init => Queue!Init
  BY DEF Init, Queue!Init
<1>2. QueueInv /\ [Next]_vars => [Queue!Next]_Seen
  <2> SUFFICES ASSUME QueueInv, [Next]_vars PROVE Queue!Next \/ UNCHANGED Seen
    OBVIOUS
  <2>1. UNCHANGED <<control, effects>> => UNCHANGED Seen
    BY DEF Seen
  <2>2. ASSUME NEW d \in Daemons, Fetch(d) \/ ReportFails(d)
        PROVE  UNCHANGED <<control, effects>>
    BY <2>2, Zenon DEF Fetch, ReportFails
  <2>3. ASSUME NEW d \in Daemons, Poll(d) PROVE Queue!Next \/ UNCHANGED Seen
    BY <2>1, <2>2, <2>3, AcknowledgeIsSeen, ExecuteIsSeen, ReportIsSeen DEF Poll
  <2> QED BY <2>1, <2>2, <2>3, IssueIsSeen, StepsOfQueue DEF Elsewhere
<1>3. QueueInv /\ [Next]_vars => QueueInv'
  BY QueueInvStep
<1> QED BY QueueInit, <1>1, <1>2, <1>3, PTL DEF Spec, QueueIsFollowed, Queue!Spec, Seen
===============================================================================
