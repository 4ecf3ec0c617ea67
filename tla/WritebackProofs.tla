---------------------------- MODULE WritebackProofs ----------------------------
(* What a writeback cycle keeps true for any number of instances, records,      *)
(* edits and failures: its types, that last-written state is a state the record *)
(* has been in, and, for conditional updates, that a write replaces neither a   *)
(* state nobody has recorded nor a newer one; and that the rows of a batch are  *)
(* written after those they name, and refused only for a circle.                *)
EXTENDS MCWriteback, NaturalFacts, FiniteSetTheorems, SequenceTheorems, TLAPS

(* A cycle marks rows when all of them have ended, and has no rows before it    *)
(* starts.                                                                      *)
LocalInv ==
    \A w \in Workers :
        /\ pc[w] = "marking" => \A i \in DOMAIN task[w] : task[w][i].at \in Ended
        /\ pc[w] = "idle" => batch[w] = Nothing

TypeInv == TypeOK /\ LocalInv

(* Only the holder of the lock is in a cycle, as long as no lock is lost.      *)
OneCycle == \A w \in Workers : pc[w] # "idle" => lock = w

(* A row that has been written has put its data into the record's past, and so *)
(* has everything in last-written state.                                       *)
RealInv ==
    /\ \A i \in Ids : remote[i] \in been[i]
    /\ \A w \in Workers : \A i \in DOMAIN task[w] :
          task[w][i].at = "written" /\ batch[w][i].action # "delete"
              => batch[w][i].data \in been[i]
    /\ LwstateIsReal

(* A look-up is not answered with an error: it would be taken for {}.          *)
LookupsAnswer == "lookup_5xx" \notin Faults

(* The runs with conditional updates: the target has ETags, the lookup does not *)
(* fail, there is one lookup, and the MDM asks for updates only.                *)
Conditional ==
    /\ ETags /\ ~Optimistic /\ Actions \subseteq {"update"}
    /\ Faults \cap {"lookup_raises", "lookup_5xx"} = {}

(* The ETag of a request is a recorded state, and a request without one is for *)
(* a record that is gone for good.                                             *)
Guarded(i, etag) == IF etag = 0 THEN remote[i] = 0 ELSE etag \in known[i]

RowsRecorded ==
    \A i \in Ids :
        /\ mirror[i] \in known[i]
        /\ lwstate[i] # Unwritten => lwstate[i] \in known[i]
        /\ dst[i].action \in {"none", "noop", "update"}
        /\ dst[i].action # "none" => dst[i].base \in known[i]

BatchesRecorded ==
    \A w \in Workers : \A i \in DOMAIN batch[w] :
        batch[w][i].action = "update" /\ batch[w][i].base \in known[i]

TasksGuarded ==
    \A w \in Workers : \A i \in DOMAIN task[w] :
        /\ task[w][i].at # "checked"
        /\ task[w][i].at = "ready" => Guarded(i, task[w][i].etag)

LateGuarded == \A r \in late : r.action = "update" /\ Guarded(r.id, r.etag)

GuardedInv == RowsRecorded /\ BatchesRecorded /\ TasksGuarded /\ LateGuarded

(* The states the MDM asked for come in order: what a request carries is not    *)
(* older than a state of the MDM's that it replaces, and no request that is     *)
(* left over is newer than the batch of the instance at work.                   *)
RowsInOrder ==
    /\ \A s \in made : s <= edits
    /\ \A i \in Ids :
          /\ remote[i] <= edits
          /\ dst[i].action # "none" =>
                dst[i].data <= edits /\ (remote[i] \in made => remote[i] <= dst[i].data)

BatchesInOrder ==
    \A w \in Workers : \A i \in DOMAIN batch[w] :
        /\ batch[w][i].data <= edits
        /\ dst[i].action # "none" => batch[w][i].data <= dst[i].data
        /\ remote[i] \in made => remote[i] <= batch[w][i].data

TasksInOrder ==
    \A w \in Workers : \A i \in DOMAIN task[w] :
        task[w][i].at = "ready" =>
            /\ task[w][i].etag <= edits
            /\ task[w][i].etag \in made => task[w][i].etag <= batch[w][i].data

LateInOrder ==
    \A r \in late :
        /\ r.data <= edits /\ r.etag <= edits
        /\ r.etag \in made => r.etag <= r.data
        /\ dst[r.id].action # "none" => r.data <= dst[r.id].data
        /\ \A w \in Workers : r.id \in DOMAIN batch[w] => r.data <= batch[w][r.id].data

OrderInv == RowsInOrder /\ BatchesInOrder /\ TasksInOrder /\ LateInOrder

-----------------------------------------------------------------------------
(* The pure operators and the parts of actions. *)

(* A partial function is a function on some of the set.                        *)
LEMMA PartialIs ==
  ASSUME NEW S, NEW T, NEW f
  PROVE  f \in Partial(S, T) <=> DOMAIN f \subseteq S /\ f \in [DOMAIN f -> T]
BY DEF Partial

(* States are the numbers up to the bound, and the counter can reach 1.        *)
LEMMA StatesAre == MaxEdits \in Nat /\ 0 \in States /\ 1 \in States /\ States \subseteq Nat
BY WritebackAssumption DEF States

(* Moving a row changes the task of that row and no other.                     *)
LEMMA MovesFacts ==
  ASSUME TypeOK, NEW w \in Workers, NEW i \in DOMAIN task[w],
         NEW at \in {"todo", "checked", "ready", "written"} \cup Ended, NEW etag \in States,
         Moves(w, i, at, etag)
  PROVE  /\ task' \in [Workers -> Partial(Ids, Tasks)]
         /\ \A v \in Workers : DOMAIN task'[v] = DOMAIN task[v]
         /\ task'[w][i] = [at |-> at, etag |-> etag]
         /\ \A v \in Workers : \A j \in DOMAIN task[v] :
               v # w \/ j # i => task'[v][j] = task[v][j]
<1>1. task \in [Workers -> Partial(Ids, Tasks)]
  BY DEF TypeOK
<1>2. [at |-> at, etag |-> etag] \in Tasks
  BY DEF Tasks
<1> DEFINE t == [task[w] EXCEPT ![i] = [at |-> at, etag |-> etag]]
<1>3. t \in Partial(Ids, Tasks) /\ DOMAIN t = DOMAIN task[w]
  <2>1. task[w] \in [DOMAIN task[w] -> Tasks] /\ DOMAIN task[w] \subseteq Ids
    BY <1>1, PartialIs
  <2>2. t \in [DOMAIN task[w] -> Tasks]
    BY <1>2, <2>1
  <2> HIDE DEF t
  <2> QED BY <2>1, <2>2, PartialIs
<1>4. \A j \in DOMAIN task[w] :
        t[j] = IF j = i THEN [at |-> at, etag |-> etag] ELSE task[w][j]
  OBVIOUS
<1>5. task' = [task EXCEPT ![w] = t]
  BY DEF Moves
<1> HIDE DEF t
<1> QED BY <1>1, <1>3, <1>4, <1>5

(* The rows of a batch, one by one.                                            *)
LEMMA BatchFacts ==
  ASSUME TypeOK, NEW w \in Workers
  PROVE  /\ DOMAIN task[w] \subseteq DOMAIN batch[w] /\ DOMAIN batch[w] \subseteq Ids
         /\ \A i \in DOMAIN batch[w] : batch[w][i] \in Fetched
         /\ \A i \in DOMAIN task[w] : task[w][i] \in Tasks
<1>1. batch[w] \in Partial(Ids, Fetched) /\ task[w] \in Partial(Ids, Tasks)
      /\ DOMAIN task[w] \subseteq DOMAIN batch[w]
  BY DEF TypeOK
<1>2. batch[w] \in [DOMAIN batch[w] -> Fetched] /\ DOMAIN batch[w] \subseteq Ids
      /\ task[w] \in [DOMAIN task[w] -> Tasks]
  BY <1>1, PartialIs
<1> QED BY <1>1, <1>2

(* A row that is dispatched has a request.                                     *)
LEMMA RequestFacts ==
  ASSUME TypeOK, NEW w \in Workers, NEW i \in DOMAIN task[w]
  PROVE  Request(w, i) \in Requests
BY BatchFacts DEF Request, Requests, Fetched, Tasks

(* What a request does to its record, and that it does nothing to others.      *)
LEMMA PerformedFacts ==
  ASSUME TypeOK, NEW r \in Requests, Performed(r)
  PROVE  /\ remote' \in [Ids -> States] /\ been' \in [Ids -> SUBSET States]
         /\ created' \in [Ids -> 0 .. 2]
         /\ \A i \in Ids : been[i] \subseteq been'[i]
         /\ \A i \in Ids : remote'[i] # remote[i] =>
               /\ i = r.id /\ remote'[i] \in been'[i]
               /\ \/ r.action = "delete"
                  \/ r.action = "update" /\ remote'[i] = r.data /\ Takes(r)
                  \/ r.action = "insert" /\ remote'[i] = r.data /\ remote[i] = 0
         /\ r.action = "insert" \/ (r.action = "update" /\ Takes(r))
               => r.data \in been'[r.id]
<1> USE DEF TypeOK
<1>0. /\ r.id \in Ids /\ r.data \in States /\ 0 \in States
      /\ r.action \in {"insert", "update", "delete"}
  BY StatesAre DEF Requests, Sent
<1>1. CASE r.action = "update" /\ Takes(r) /\ Becomes(r.id, r.data) /\ UNCHANGED created
  BY <1>0, <1>1 DEF Becomes
<1>2. CASE r.action = "update" /\ ~Takes(r) /\ UNCHANGED target
  BY <1>0, <1>2 DEF target
<1>3. CASE r.action = "delete" /\ Becomes(r.id, 0) /\ UNCHANGED created
  BY <1>0, <1>3 DEF Becomes
<1>4. CASE /\ r.action = "insert"
           /\ created' = [created EXCEPT ![r.id] = IF @ = 0 THEN 1 ELSE 2]
           /\ remote' = [remote EXCEPT ![r.id] = IF @ = 0 THEN r.data ELSE @]
           /\ been' = [been EXCEPT ![r.id] = @ \cup {r.data}]
  <2>1. /\ remote' \in [Ids -> States] /\ been' \in [Ids -> SUBSET States]
        /\ created' \in [Ids -> 0 .. 2]
    BY <1>0, <1>4
  <2>2. /\ r.data \in been'[r.id] /\ \A i \in Ids : been[i] \subseteq been'[i]
        /\ \A i \in Ids : remote'[i] # remote[i] =>
              i = r.id /\ remote'[i] = r.data /\ remote[i] = 0
    BY <1>0, <1>4
  <2> QED BY <1>4, <2>1, <2>2
<1> QED BY <1>0, <1>1, <1>2, <1>3, <1>4 DEF Performed

(* A partial function has at least the types of the empty one.                 *)
LEMMA NothingFacts == /\ Nothing \in Partial(Ids, Fetched) /\ Nothing \in Partial(Ids, Tasks)
                      /\ DOMAIN Nothing = {}
BY PartialIs DEF Nothing

(* Leaving a cycle drops its batch and its tasks.                              *)
LEMMA LeavesFacts ==
  ASSUME TypeOK, NEW w \in Workers, Leaves(w)
  PROVE  /\ lock' \in Workers \cup {Nobody}
         /\ pc' \in [Workers -> {"idle", "dispatching", "marking"}]
         /\ batch' \in [Workers -> Partial(Ids, Fetched)]
         /\ task' \in [Workers -> Partial(Ids, Tasks)]
         /\ \A v \in Workers : DOMAIN task'[v] \subseteq DOMAIN batch'[v]
         /\ pc'[w] = "idle" /\ batch'[w] = Nothing /\ task'[w] = Nothing
         /\ \A v \in Workers \ {w} :
               batch'[v] = batch[v] /\ task'[v] = task[v] /\ pc'[v] = pc[v]
BY NothingFacts DEF Leaves, TypeOK

(* A cycle starts with the rows that are due, none of them touched.            *)
LEMMA StartFacts ==
  ASSUME TypeOK, NEW w \in Workers, StartCycle(w)
  PROVE  /\ batch' \in [Workers -> Partial(Ids, Fetched)]
         /\ task' \in [Workers -> Partial(Ids, Tasks)]
         /\ DOMAIN task'[w] = DOMAIN batch'[w] /\ DOMAIN batch'[w] \subseteq Pending
         /\ \A i \in DOMAIN batch'[w] : batch'[w][i] = dst[i] /\ task'[w][i] = Waiting
         /\ \A v \in Workers \ {w} :
               batch'[v] = batch[v] /\ task'[v] = task[v]
<1> DEFINE due == {i \in Pending : ~AlreadySent(i)}
           b == [i \in due |-> dst[i]]
           t == [i \in due |-> Waiting]
<1>1. batch' = [batch EXCEPT ![w] = b] /\ task' = [task EXCEPT ![w] = t]
  BY DEF StartCycle
<1>2. due \subseteq Ids /\ due \subseteq Pending
  BY DEF Pending
<1>3. \A i \in due : dst[i] \in Fetched
  BY <1>2 DEF Pending, TypeOK, Rows, Fetched
<1>4. Waiting \in Tasks
  BY StatesAre DEF Waiting, Tasks
<1>5. b \in Partial(Ids, Fetched) /\ t \in Partial(Ids, Tasks)
  BY <1>2, <1>3, <1>4, PartialIs
<1> QED BY <1>1, <1>2, <1>5 DEF TypeOK

(* The places of the dispatch and the statuses are those of the types.         *)
LEMMA CompareFacts ==
  ASSUME TypeOK, NEW w \in Workers, NEW i \in DOMAIN task[w], NEW seen \in States,
         Compare(w, i, seen)
  PROVE  \E at \in {"checked", "ready"} \cup Ended :
           /\ Moves(w, i, at, ETagOf(w, i, seen, TRUE))
           /\ at = "checked" => Optimistic
           /\ ETagOf(w, i, seen, TRUE) = IF ETags THEN seen ELSE 0
           /\ \/ UNCHANGED <<lwstate, known>>
              \/ SaveLwstate(i, seen)
           /\ \/ seen = batch[w][i].base \/ seen = LastWritten(i)
              \/ SaveLwstate(i, seen)
<1> DEFINE safe == seen = batch[w][i].base \/ seen = LastWritten(i)
           position == IF safe \/ Resolution = "last_writer_wins" THEN
                           IF Optimistic THEN "checked" ELSE "ready"
                       ELSE IF Resolution = "dead_letter" THEN "failed" ELSE "skipped"
<1>1. /\ IF safe THEN UNCHANGED <<lwstate, known>> ELSE SaveLwstate(i, Observed(w, i, seen))
      /\ Moves(w, i, position, ETagOf(w, i, seen, safe))
  BY DEF Compare
<1>2. /\ ETagOf(w, i, seen, safe) = ETagOf(w, i, seen, TRUE)
      /\ ETagOf(w, i, seen, TRUE) = IF ETags THEN seen ELSE 0
  BY DEF ETagOf
<1>3. position \in {"checked", "ready"} \cup Ended /\ (position = "checked" => Optimistic)
  BY DEF Ended
<1> HIDE DEF position
<1> QED BY <1>1, <1>2, <1>3 DEF Observed

-----------------------------------------------------------------------------
(* The types. *)

(* The engine starts well typed.                                               *)
LEMMA TypeInit == Init => TypeInv
<1> SUFFICES ASSUME Init PROVE TypeInv
  OBVIOUS
<1>1. edits \in States /\ 0 \in States /\ remote \in [Ids -> States]
  BY StatesAre DEF Init
<1>2. /\ dst \in [Ids -> Rows] /\ lwstate \in [Ids -> States \cup {Unwritten}]
      /\ mirror \in [Ids -> States] /\ faults \in 0 .. MaxFaults
      /\ okAudit \subseteq Ids \X Sent /\ lock \in Workers \cup {Nobody}
      /\ pc \in [Workers -> {"idle", "dispatching", "marking"}]
      /\ late \subseteq Requests /\ made \subseteq States
      /\ created \in [Ids -> 0 .. 2]
  BY <1>1, WritebackAssumption DEF Init, NoRow, Rows
<1>3. /\ batch \in [Workers -> Partial(Ids, Fetched)] /\ task \in [Workers -> Partial(Ids, Tasks)]
      /\ \A w \in Workers : DOMAIN task[w] \subseteq DOMAIN batch[w]
  BY NothingFacts DEF Init
<1>4. been \in [Ids -> SUBSET States] /\ known \in [Ids -> SUBSET States]
  BY <1>1 DEF Init
<1> QED BY <1>1, <1>2, <1>3, <1>4 DEF TypeInv, TypeOK, LocalInv, Init

(* The faults that a step counts stay within the bound.                        *)
LEMMA FaultFacts ==
  ASSUME TypeOK, NEW kind, Fault(kind)
  PROVE  faults' \in 0 .. MaxFaults /\ kind \in Faults
BY WritebackAssumption DEF Fault, TypeOK

(* A dispatched row that moves, with what it may store and send on the way.    *)
Dispatched(w, i, at, etag) ==
    /\ pc[w] = "dispatching" /\ i \in DOMAIN task[w]
    /\ Moves(w, i, at, etag)
    /\ UNCHANGED OfThisRow

(* It has not ended its cycle, and the other rows stay where they are.         *)
LEMMA DispatchedFacts ==
  ASSUME TypeOK, NEW w \in Workers, NEW i,
         NEW at \in {"todo", "checked", "ready", "written"} \cup Ended, NEW etag \in States,
         Dispatched(w, i, at, etag)
  PROVE  /\ i \in DOMAIN task[w] /\ i \in DOMAIN batch[w] /\ i \in Ids
         /\ UNCHANGED OfThisRow
         /\ task' \in [Workers -> Partial(Ids, Tasks)]
         /\ \A v \in Workers : DOMAIN task'[v] = DOMAIN task[v]
         /\ task'[w][i] = [at |-> at, etag |-> etag]
<1>1. i \in DOMAIN task[w] /\ Moves(w, i, at, etag)
  BY DEF Dispatched
<1>2. i \in DOMAIN batch[w] /\ i \in Ids
  BY <1>1, BatchFacts
<1>3. task' \in [Workers -> Partial(Ids, Tasks)]
  BY <1>1, <1>2, MovesFacts
<1>4. \A v \in Workers : DOMAIN task'[v] = DOMAIN task[v]
  BY <1>1, <1>2, MovesFacts
<1>5. task'[w][i] = [at |-> at, etag |-> etag]
  BY <1>1, <1>2, MovesFacts
<1> QED BY <1>1, <1>2, <1>3, <1>4, <1>5 DEF Dispatched

LEMMA OthersStay ==
  ASSUME TypeOK, NEW w \in Workers, NEW i,
         NEW at \in {"todo", "checked", "ready", "written"} \cup Ended, NEW etag \in States,
         Dispatched(w, i, at, etag)
  PROVE  \A v \in Workers : \A j \in DOMAIN task[v] :
            v # w \/ j # i => task'[v][j] = task[v][j]
<1>1. i \in DOMAIN task[w] /\ Moves(w, i, at, etag)
  BY DEF Dispatched
<1> QED BY <1>1, MovesFacts

LEMMA DispatchedLocal ==
  ASSUME TypeInv, NEW w \in Workers, NEW i,
         NEW at \in {"todo", "checked", "ready", "written"} \cup Ended, NEW etag \in States,
         Dispatched(w, i, at, etag)
  PROVE  LocalInv'
<1>0. TypeOK /\ LocalInv
  BY DEF TypeInv
<1>1. UNCHANGED <<pc, batch>> /\ pc[w] = "dispatching"
  BY DEF Dispatched, OfThisRow
<1>2. \A v \in Workers : DOMAIN task'[v] = DOMAIN task[v]
  BY <1>0, DispatchedFacts
<1>3. \A v \in Workers : \A j \in DOMAIN task[v] :
         v # w \/ j # i => task'[v][j] = task[v][j]
  <2>1. i \in DOMAIN task[w] /\ Moves(w, i, at, etag)
    BY DEF Dispatched
  <2> QED BY <1>0, <2>1, MovesFacts
<1>4. ASSUME NEW v \in Workers, pc'[v] = "marking", NEW j \in DOMAIN task'[v]
      PROVE  task'[v][j].at \in Ended
  <2>1. v # w /\ pc[v] = "marking"
    BY <1>1, <1>4
  <2> QED BY <1>0, <1>2, <1>3, <1>4, <2>1 DEF LocalInv
<1> QED BY <1>0, <1>1, <1>4 DEF LocalInv

(* A dispatched row that moves leaves every type as it was.                    *)
LEMMA DispatchedTyped ==
  ASSUME TypeInv, NEW w \in Workers, NEW i,
         NEW at \in {"todo", "checked", "ready", "written"} \cup Ended, NEW etag \in States,
         Dispatched(w, i, at, etag),
         remote' \in [Ids -> States], been' \in [Ids -> SUBSET States],
         created' \in [Ids -> 0 .. 2], lwstate' \in [Ids -> States \cup {Unwritten}],
         known' \in [Ids -> SUBSET States], late' \subseteq Requests,
         faults' \in 0 .. MaxFaults, made' = made
  PROVE  TypeInv'
<1>1. TypeOK
  BY DEF TypeInv
<1>2. TypeOK'
  BY <1>1, DispatchedFacts DEF OfThisRow, TypeOK
<1> QED BY <1>2, DispatchedLocal DEF TypeInv

(* Every step of every actor keeps the types.                                  *)
LEMMA TypeStep == TypeInv /\ [Next]_vars => TypeInv'
<1> SUFFICES ASSUME TypeInv, [Next]_vars PROVE TypeInv'
  OBVIOUS
<1>0. TypeOK /\ LocalInv
  BY DEF TypeInv
<1> USE StatesAre DEF target, history, cycle
<1>1. ASSUME NEW i \in Ids, TargetEdited(i) PROVE TypeInv'
  <2>1. edits' \in States
    BY <1>0, <1>1 DEF TargetEdited, TypeOK, States
  <2>2. remote' \in [Ids -> States] /\ been' \in [Ids -> SUBSET States]
    BY <1>0, <1>1, <2>1 DEF TargetEdited, Becomes, TypeOK
  <2> QED BY <1>0, <1>1, <2>1, <2>2 DEF TargetEdited, TypeOK, LocalInv, TypeInv
<1>2. ASSUME NEW i \in Ids, Ingest(i) PROVE TypeInv'
  BY <1>0, <1>2 DEF Ingest, TypeOK, LocalInv, TypeInv
<1>3. ASSUME NEW i \in Ids, NEW action \in Actions, Produce(i, action) PROVE TypeInv'
  <2>1. edits' \in States /\ action \in Sent
    BY <1>0, <1>3, WritebackAssumption DEF Produce, TypeOK, States, Sent
  <2>2. dst' \in [Ids -> Rows] /\ made' \subseteq States
    BY <1>0, <1>3, <2>1 DEF Produce, TypeOK, Rows
  <2> QED BY <1>0, <1>3, <2>1, <2>2 DEF Produce, TypeOK, LocalInv, TypeInv
<1>4. ASSUME NEW i \in Ids, Recompute(i) PROVE TypeInv'
  <2>1. dst' \in [Ids -> Rows]
    <3>1. dst[i] \in Rows /\ mirror[i] \in States
      BY <1>0 DEF TypeOK
    <3> QED BY <1>0, <1>4, <3>1 DEF Recompute, TypeOK, Rows, Sent
  <2> QED BY <1>0, <1>4, <2>1 DEF Recompute, TypeOK, LocalInv, TypeInv
<1>5. ASSUME NEW i \in Ids, Purge(i) PROVE TypeInv'
  <2>1. dst' \in [Ids -> Rows]
    BY <1>0, <1>5 DEF Purge, TypeOK, Rows, NoRow
  <2> QED BY <1>0, <1>5, <2>1 DEF Purge, TypeOK, LocalInv, TypeInv
<1>6. ASSUME NEW r \in late, ArrivesLate(r) PROVE TypeInv'
  <2>1. r \in Requests /\ late' \subseteq Requests
    BY <1>0, <1>6 DEF ArrivesLate, TypeOK
  <2>2. /\ remote' \in [Ids -> States] /\ been' \in [Ids -> SUBSET States]
        /\ created' \in [Ids -> 0 .. 2]
    <3>1. CASE Performed(r)
      BY <1>0, <2>1, <3>1, PerformedFacts
    <3>2. CASE UNCHANGED target
      BY <1>0, <3>2 DEF TypeOK
    <3> QED BY <1>6, <3>1, <3>2 DEF ArrivesLate
  <2> QED BY <1>0, <1>6, <2>1, <2>2 DEF ArrivesLate, TypeOK, LocalInv, TypeInv
<1>7. ASSUME NEW e \in okAudit, AuditAges(e) PROVE TypeInv'
  BY <1>0, <1>7 DEF AuditAges, TypeOK, LocalInv, TypeInv
<1>8. ASSUME NEW w \in Workers, StartCycle(w) PROVE TypeInv'
  <2>1. TypeOK'
    BY <1>0, <1>8, StartFacts DEF StartCycle, TypeOK
  <2> QED BY <1>0, <1>8, <2>1, StartFacts DEF StartCycle, TypeOK, LocalInv, TypeInv
<1>9. ASSUME NEW w \in Workers, WriteFeedback(w) PROVE TypeInv'
  <2>1. okAudit' \subseteq Ids \X Sent
    <3>1. \A i \in DOMAIN batch[w] : <<i, batch[w][i].action>> \in Ids \X Sent
      BY <1>0, <1>9, BatchFacts DEF Fetched
    <3> QED BY <1>0, <1>9, <3>1 DEF WriteFeedback, TypeOK
  <2> QED BY <1>0, <1>9, <2>1 DEF WriteFeedback, TypeOK, LocalInv, TypeInv
<1>10. ASSUME NEW w \in Workers, Unlock(w) PROVE TypeInv'
  <2>1. TypeOK'
    BY <1>0, <1>10, LeavesFacts DEF Unlock, TypeOK
  <2> QED BY <1>0, <1>10, <2>1, LeavesFacts DEF Unlock, LocalInv, TypeInv
<1>11. ASSUME NEW w \in Workers, Crash(w) PROVE TypeInv'
  <2>1. late' \subseteq Requests
    BY <1>0, <1>11, RequestFacts DEF Crash, TypeOK
  <2>2. TypeOK'
    BY <1>0, <1>11, <2>1, LeavesFacts, FaultFacts DEF Crash, TypeOK
  <2> QED BY <1>0, <1>11, <2>2, LeavesFacts DEF Crash, LocalInv, TypeInv
<1>12. ASSUME NEW w \in Workers, LoseLock(w) PROVE TypeInv'
  BY <1>0, <1>12, FaultFacts DEF LoseLock, TypeOK, LocalInv, TypeInv
<1>13. ASSUME NEW w \in Workers, NEW i \in Ids, MarkRow(w, i) PROVE TypeInv'
  <2>1. i \in DOMAIN task[w] /\ task[w][i] \in Tasks /\ task[w][i].at \in Ended
    BY <1>0, <1>13, BatchFacts DEF MarkRow, LocalInv
  <2>2. StatusOf(task[w][i].at) \in {"pending", "processed", "failed", "skipped"}
    BY <2>1 DEF StatusOf, Ended
  <2>3. dst' \in [Ids -> Rows]
    <3> DEFINE status == StatusOf(task[w][i].at)
    <3>1. dst' = dst \/ dst' = [dst EXCEPT ![i].status = status]
      BY <1>13 DEF MarkRow
    <3>2. dst \in [Ids -> Rows] /\ dst[i] \in Rows
      BY <1>0 DEF TypeOK
    <3> HIDE DEF status
    <3>3. [dst[i] EXCEPT !.status = status] \in Rows
      BY <2>2, <3>2 DEF Rows, status
    <3> QED BY <3>1, <3>2, <3>3
  <2> DEFINE rest == [j \in DOMAIN task[w] \ {i} |-> task[w][j]]
  <2>4. rest \in Partial(Ids, Tasks) /\ DOMAIN rest \subseteq DOMAIN batch[w]
    BY <1>0, BatchFacts, PartialIs
  <2>5. task' = [task EXCEPT ![w] = rest]
    BY <1>13 DEF MarkRow
  <2>6. \A j \in DOMAIN rest : rest[j] = task[w][j]
    OBVIOUS
  <2>7. DOMAIN rest \subseteq DOMAIN task[w]
    OBVIOUS
  <2> HIDE DEF rest
  <2>8. TypeOK'
    BY <1>0, <1>13, <2>3, <2>4, <2>5 DEF MarkRow, TypeOK
  <2> QED BY <1>0, <1>13, <2>5, <2>6, <2>7, <2>8 DEF MarkRow, TypeOK, LocalInv, TypeInv
<1>14. ASSUME NEW w \in Workers, NEW i \in Ids, Preflight(w, i) \/ PreflightFails(w, i)
       PROVE  TypeInv'
  <2>1. PICK seen \in States : Compare(w, i, seen)
    BY <1>0, <1>14 DEF Preflight, PreflightFails, TypeOK
  <2>2. /\ i \in DOMAIN task[w] /\ pc[w] = "dispatching"
        /\ faults' \in 0 .. MaxFaults
        /\ UNCHANGED <<target, OfThisRow, late, made>>
    BY <1>0, <1>14, FaultFacts DEF Preflight, PreflightFails, At, TypeOK
  <2>3. PICK at \in {"checked", "ready"} \cup Ended :
          /\ Moves(w, i, at, ETagOf(w, i, seen, TRUE))
          /\ UNCHANGED <<lwstate, known>> \/ SaveLwstate(i, seen)
    BY <1>0, <2>1, <2>2, CompareFacts
  <2>4. ETagOf(w, i, seen, TRUE) \in States
    BY <2>1 DEF ETagOf
  <2>5. lwstate' \in [Ids -> States \cup {Unwritten}] /\ known' \in [Ids -> SUBSET States]
    BY <1>0, <2>1, <2>3 DEF SaveLwstate, TypeOK
  <2>6. Dispatched(w, i, at, ETagOf(w, i, seen, TRUE))
    BY <2>2, <2>3 DEF Dispatched
  <2> QED BY <1>0, <2>2, <2>4, <2>5, <2>6, DispatchedTyped DEF TypeOK
<1>15. ASSUME NEW w \in Workers, NEW i \in Ids, Write(w, i) PROVE TypeInv'
  <2> DEFINE r == Request(w, i)
  <2>1. i \in DOMAIN task[w] /\ r \in Requests /\ r.etag \in States
    BY <1>0, <1>15, RequestFacts DEF Write, At, Requests
  <2>2. PICK at \in {"written"} \cup Ended : Moves(w, i, at, r.etag)
    BY <1>15 DEF Write, Ended
  <2>3. Performed(r) /\ Dispatched(w, i, at, r.etag)
    BY <1>15, <2>1, <2>2 DEF Write, At, Dispatched
  <2> HIDE DEF r
  <2> QED BY <1>0, <1>15, <2>1, <2>3, PerformedFacts, DispatchedTyped DEF Write, TypeOK
<1>16. ASSUME NEW w \in Workers, NEW i \in Ids, Record(w, i) PROVE TypeInv'
  <2>1. i \in DOMAIN task[w] /\ batch[w][i].data \in States
    BY <1>0, <1>16, BatchFacts DEF Record, At, Fetched
  <2>2. lwstate' \in [Ids -> States \cup {Unwritten}] /\ known' \in [Ids -> SUBSET States]
    BY <1>0, <1>16, <2>1 DEF Record, SaveLwstate, TypeOK
  <2>3. Dispatched(w, i, "ok", 0)
    BY <1>16 DEF Record, At, Dispatched
  <2> QED BY <1>0, <1>16, <2>2, <2>3, DispatchedTyped DEF Record, Ended, TypeOK
<1>17. ASSUME NEW w \in Workers, NEW i \in Ids, WriteTimesOut(w, i) PROVE TypeInv'
  <2>1. i \in DOMAIN task[w] /\ Request(w, i) \in Requests
    BY <1>0, <1>17, RequestFacts DEF WriteTimesOut, At
  <2>2. late' \subseteq Requests
    BY <1>0, <1>17, <2>1 DEF WriteTimesOut, TypeOK
  <2>3. CASE UNCHANGED task
    BY <1>0, <1>17, <2>2, <2>3, FaultFacts
       DEF WriteTimesOut, OfThisRow, TypeOK, LocalInv, TypeInv
  <2>4. CASE Moves(w, i, "failed", 0)
    <3>1. Dispatched(w, i, "failed", 0)
      BY <1>17, <2>4 DEF WriteTimesOut, At, Dispatched
    <3> QED BY <1>0, <1>17, <2>2, <3>1, FaultFacts, DispatchedTyped
            DEF WriteTimesOut, Ended, TypeOK
  <2> QED BY <1>17, <2>3, <2>4 DEF WriteTimesOut
<1>18. ASSUME NEW w \in Workers, NEW i \in Ids,
              \/ BreakerRejects(w, i) \/ SendUnread(w, i) \/ PreflightRaises(w, i)
              \/ Relookup(w, i) \/ RelookupFails(w, i) \/ RecordFails(w, i)
       PROVE  TypeInv'
  <2>1. /\ faults' \in 0 .. MaxFaults
        /\ UNCHANGED <<target, OfThisRow, lwstate, late, history>>
    BY <1>0, <1>18, FaultFacts DEF BreakerRejects, SendUnread, PreflightRaises, Relookup,
       RelookupFails, RecordFails, TypeOK
  <2>2. PICK at \in {"checked", "ready"} \cup Ended, etag \in States :
          Dispatched(w, i, at, etag)
    BY <1>0, <1>18 DEF BreakerRejects, SendUnread, PreflightRaises, Relookup,
       RelookupFails, RecordFails, At, Dispatched, Ended, TypeOK
  <2> QED BY <1>0, <2>1, <2>2, DispatchedTyped DEF TypeOK
<1>19. CASE UNCHANGED vars
  BY <1>0, <1>19 DEF vars, TypeOK, LocalInv, TypeInv
<1> QED
  BY <1>1, <1>2, <1>3, <1>4, <1>5, <1>6, <1>7, <1>8, <1>9, <1>10, <1>11, <1>12, <1>13,
     <1>14, <1>15, <1>16, <1>17, <1>18, <1>19 DEF Next, Work, Failures, Dispatch

(* Whatever the instances, the other actors and the failures do, every row,     *)
(* request and record keeps its type.                                           *)
THEOREM TypeCorrect == Spec => []TypeOK
<1>1. TypeInv => TypeOK
  BY DEF TypeInv
<1> QED BY TypeInit, TypeStep, <1>1, PTL DEF Spec

-----------------------------------------------------------------------------
(* Last-written state. *)

LEMMA RealInit == Init => RealInv
BY DEF Init, RealInv, LwstateIsReal, Nothing

(* A dispatched row keeps the past complete if its own step does.              *)
LEMMA DispatchedReal ==
  ASSUME TypeInv, RealInv, NEW w \in Workers, NEW i,
         NEW at \in {"todo", "checked", "ready", "written"} \cup Ended, NEW etag \in States,
         Dispatched(w, i, at, etag),
         \A j \in Ids : remote'[j] \in been'[j] /\ been[j] \subseteq been'[j],
         at = "written" /\ batch[w][i].action # "delete" => batch[w][i].data \in been'[i],
         LwstateIsReal'
  PROVE  RealInv'
<1>0. TypeOK /\ batch' = batch
  BY DEF TypeInv, Dispatched, OfThisRow
<1>1. ASSUME NEW v \in Workers, NEW j \in DOMAIN task'[v], task'[v][j].at = "written",
             batch'[v][j].action # "delete"
      PROVE  batch'[v][j].data \in been'[j]
  <2>1. DOMAIN task'[v] = DOMAIN task[v] /\ task'[w][i] = [at |-> at, etag |-> etag]
    BY <1>0, DispatchedFacts
  <2>2. \A u \in Workers : \A k \in DOMAIN task[u] :
           u # w \/ k # i => task'[u][k] = task[u][k]
    BY <1>0, OthersStay
  <2>3. j \in Ids
    BY <1>0, <1>1, <2>1, BatchFacts
  <2>4. CASE v = w /\ j = i
    BY <1>0, <1>1, <2>1, <2>4
  <2>5. CASE v # w \/ j # i
    BY <1>0, <1>1, <2>1, <2>2, <2>3, <2>5 DEF RealInv
  <2> QED BY <2>4, <2>5
<1> QED BY <1>1 DEF RealInv

(* A step that neither touches a record, a batch nor last-written state, and    *)
(* moves no row to "written", keeps the past complete.                          *)
LEMMA ElsewhereReal ==
  ASSUME RealInv, UNCHANGED <<remote, been, lwstate>>,
         \A w \in Workers : \A i \in DOMAIN task'[w] :
            task'[w][i].at = "written" =>
               i \in DOMAIN task[w] /\ task[w][i].at = "written" /\ batch'[w][i] = batch[w][i]
  PROVE  RealInv'
BY DEF RealInv, LwstateIsReal

LEMMA RealStep ==
  ASSUME LookupsAnswer
  PROVE  TypeInv /\ RealInv /\ [Next]_vars => RealInv'
<1> SUFFICES ASSUME TypeInv, RealInv, [Next]_vars PROVE RealInv'
  OBVIOUS
<1>0. TypeOK
  BY DEF TypeInv
<1> USE StatesAre DEF target, history, cycle
<1>1. ASSUME NEW i \in Ids, TargetEdited(i) PROVE RealInv'
  <2>1. \A j \in Ids : remote'[j] \in been'[j] /\ been[j] \subseteq been'[j]
    <3>1. PICK s \in States : Becomes(i, s)
      <4>1. edits' \in States
        BY <1>0, <1>1 DEF TargetEdited, TypeOK, States
      <4> QED BY <1>1, <4>1 DEF TargetEdited
    <3> QED BY <1>0, <3>1 DEF Becomes, TypeOK, RealInv
  <2>2. \A v \in Workers : \A j \in DOMAIN task[v] : j \in Ids
    BY <1>0, BatchFacts
  <2> QED BY <1>1, <2>1, <2>2 DEF TargetEdited, RealInv, LwstateIsReal
<1>2. ASSUME NEW r \in late, ArrivesLate(r) PROVE RealInv'
  <2>1. r \in Requests
    BY <1>0 DEF TypeOK
  <2>2. CASE Performed(r)
    <3>1. /\ \A j \in Ids : been[j] \subseteq been'[j]
          /\ \A j \in Ids : remote'[j] # remote[j] => remote'[j] \in been'[j]
      BY <1>0, <2>1, <2>2, PerformedFacts
    <3>2. \A v \in Workers : \A j \in DOMAIN task[v] : j \in Ids
      BY <1>0, BatchFacts
    <3> QED BY <1>2, <3>1, <3>2 DEF ArrivesLate, RealInv, LwstateIsReal
  <2>3. CASE UNCHANGED target
    BY <1>2, <2>3 DEF ArrivesLate, RealInv, LwstateIsReal
  <2> QED BY <1>2, <2>2, <2>3 DEF ArrivesLate
<1>3. ASSUME NEW w \in Workers, StartCycle(w) PROVE RealInv'
  <2>1. ASSUME NEW v \in Workers, NEW i \in DOMAIN task'[v], task'[v][i].at = "written"
        PROVE  i \in DOMAIN task[v] /\ task[v][i].at = "written" /\ batch'[v][i] = batch[v][i]
    BY <1>0, <1>3, <2>1, StartFacts DEF Waiting
  <2> QED BY <1>3, <2>1, ElsewhereReal DEF StartCycle
<1>4. ASSUME NEW w \in Workers, Unlock(w) \/ Crash(w) PROVE RealInv'
  <2>1. Leaves(w) /\ UNCHANGED <<remote, been, lwstate>>
    BY <1>4 DEF Unlock, Crash
  <2>2. ASSUME NEW v \in Workers, NEW i \in DOMAIN task'[v], task'[v][i].at = "written"
        PROVE  i \in DOMAIN task[v] /\ task[v][i].at = "written" /\ batch'[v][i] = batch[v][i]
    BY <1>0, <2>1, <2>2, LeavesFacts, NothingFacts
  <2> QED BY <2>1, <2>2, ElsewhereReal
<1>5. ASSUME NEW w \in Workers, NEW i \in Ids, MarkRow(w, i) PROVE RealInv'
  <2>1. ASSUME NEW v \in Workers, NEW j \in DOMAIN task'[v]
        PROVE  j \in DOMAIN task[v] /\ task'[v][j] = task[v][j]
    BY <1>0, <1>5, <2>1 DEF MarkRow, TypeOK
  <2> QED BY <1>5, <2>1, ElsewhereReal DEF MarkRow
<1>6. ASSUME NEW w \in Workers, NEW i \in Ids, Preflight(w, i) \/ PreflightFails(w, i)
      PROVE  RealInv'
  <2>1. PICK seen \in States : Compare(w, i, seen) /\ seen = remote[i]
    BY <1>0, <1>6, LookupsAnswer DEF Preflight, PreflightFails, Fault, LookupsAnswer, TypeOK
  <2>2. /\ i \in DOMAIN task[w] /\ pc[w] = "dispatching"
        /\ UNCHANGED <<target, OfThisRow>>
    BY <1>6 DEF Preflight, PreflightFails, At
  <2>3. PICK at \in {"checked", "ready"} \cup Ended :
          /\ Moves(w, i, at, ETagOf(w, i, seen, TRUE))
          /\ UNCHANGED <<lwstate, known>> \/ SaveLwstate(i, seen)
    BY <1>0, <2>1, <2>2, CompareFacts
  <2>4. ETagOf(w, i, seen, TRUE) \in States /\ at # "written"
    BY <2>1 DEF ETagOf, Ended
  <2>5. LwstateIsReal'
    BY <1>0, <2>1, <2>2, <2>3 DEF SaveLwstate, TypeOK, LwstateIsReal, RealInv
  <2>6. Dispatched(w, i, at, ETagOf(w, i, seen, TRUE))
    BY <2>2, <2>3 DEF Dispatched
  <2>7. \A j \in Ids : remote'[j] \in been'[j] /\ been[j] \subseteq been'[j]
    BY <2>2 DEF RealInv
  <2> QED BY <2>4, <2>5, <2>6, <2>7, DispatchedReal
<1>7. ASSUME NEW w \in Workers, NEW i \in Ids, Write(w, i) PROVE RealInv'
  <2> DEFINE r == Request(w, i)
  <2>1. /\ i \in DOMAIN task[w] /\ r \in Requests /\ r.etag \in States
        /\ r.id = i /\ r.action = batch[w][i].action /\ r.data = batch[w][i].data
        /\ r.action \in Sent
    BY <1>0, <1>7, RequestFacts DEF Write, At, Requests, Request
  <2>2. PICK at \in {"written"} \cup Ended :
          /\ Moves(w, i, at, r.etag)
          /\ at = "written" => r.action = "insert" \/ Takes(r) \/ r.action = "delete"
    BY <1>7 DEF Write, Ended
  <2>3. Performed(r) /\ Dispatched(w, i, at, r.etag) /\ UNCHANGED lwstate
    BY <1>7, <2>1, <2>2 DEF Write, At, Dispatched
  <2> HIDE DEF r
  <2>4. /\ \A j \in Ids : been[j] \subseteq been'[j]
        /\ \A j \in Ids : remote'[j] # remote[j] => remote'[j] \in been'[j]
    BY <1>0, <2>1, <2>3, PerformedFacts
  <2>5. \A j \in Ids : remote'[j] \in been'[j] /\ been[j] \subseteq been'[j]
    BY <2>4 DEF RealInv
  <2>6. r.action = "insert" \/ (r.action = "update" /\ Takes(r)) => r.data \in been'[i]
    BY <1>0, <2>1, <2>3, PerformedFacts
  <2>7. at = "written" /\ batch[w][i].action # "delete" => batch[w][i].data \in been'[i]
    BY <2>1, <2>2, <2>6 DEF Sent
  <2>8. LwstateIsReal'
    BY <2>3, <2>4 DEF LwstateIsReal, RealInv
  <2> QED BY <2>1, <2>3, <2>5, <2>7, <2>8, DispatchedReal
<1>8. ASSUME NEW w \in Workers, NEW i \in Ids, Record(w, i) PROVE RealInv'
  <2>1. i \in DOMAIN task[w] /\ task[w][i].at = "written" /\ UNCHANGED target
    BY <1>8 DEF Record, At
  <2>2. Dispatched(w, i, "ok", 0)
    BY <1>8 DEF Record, At, Dispatched
  <2>3. LwstateIsReal'
    BY <1>0, <1>8, <2>1 DEF Record, SaveLwstate, TypeOK, LwstateIsReal, RealInv
  <2>4. \A j \in Ids : remote'[j] \in been'[j] /\ been[j] \subseteq been'[j]
    BY <2>1 DEF RealInv
  <2> QED BY <2>2, <2>3, <2>4, DispatchedReal DEF Ended
<1>9. ASSUME NEW w \in Workers, NEW i \in Ids,
             \/ BreakerRejects(w, i) \/ SendUnread(w, i) \/ PreflightRaises(w, i)
             \/ Relookup(w, i) \/ RelookupFails(w, i) \/ RecordFails(w, i)
      PROVE  RealInv'
  <2>1. UNCHANGED <<target, lwstate>>
    BY <1>9 DEF BreakerRejects, SendUnread, PreflightRaises, Relookup, RelookupFails,
       RecordFails
  <2>2. PICK at \in {"checked", "ready"} \cup Ended, etag \in States :
          Dispatched(w, i, at, etag)
    BY <1>0, <1>9 DEF BreakerRejects, SendUnread, PreflightRaises, Relookup,
       RelookupFails, RecordFails, At, Dispatched, Ended, TypeOK
  <2>3. at # "written"
    BY DEF Ended
  <2>4. \A j \in Ids : remote'[j] \in been'[j] /\ been[j] \subseteq been'[j]
    BY <2>1 DEF RealInv
  <2>5. LwstateIsReal'
    BY <2>1 DEF LwstateIsReal, RealInv
  <2> QED BY <2>2, <2>3, <2>4, <2>5, DispatchedReal
<1>10. ASSUME NEW w \in Workers, NEW i \in Ids, WriteTimesOut(w, i) PROVE RealInv'
  <2>1. UNCHANGED <<target, OfThisRow, lwstate>>
    BY <1>10 DEF WriteTimesOut
  <2>2. CASE UNCHANGED task
    BY <2>1, <2>2, ElsewhereReal DEF OfThisRow
  <2>3. CASE Moves(w, i, "failed", 0)
    <3>1. Dispatched(w, i, "failed", 0)
      BY <1>10, <2>3 DEF WriteTimesOut, At, Dispatched
    <3>2. /\ \A j \in Ids : remote'[j] \in been'[j] /\ been[j] \subseteq been'[j]
          /\ LwstateIsReal'
      BY <2>1 DEF RealInv, LwstateIsReal
    <3> QED BY <3>1, <3>2, DispatchedReal DEF Ended
  <2> QED BY <1>10, <2>2, <2>3 DEF WriteTimesOut
<1>11. CASE \/ \E w \in Workers : WriteFeedback(w) \/ LoseLock(w)
            \/ \E i \in Ids : \/ Ingest(i) \/ Recompute(i) \/ Purge(i)
                              \/ \E action \in Actions : Produce(i, action)
            \/ \E e \in okAudit : AuditAges(e)
            \/ UNCHANGED vars
  <2>1. UNCHANGED <<remote, been, lwstate, batch, task>>
    BY <1>11 DEF WriteFeedback, LoseLock, Ingest, Recompute, Purge, Produce, AuditAges, vars
  <2> QED BY <2>1, ElsewhereReal
<1> QED
  BY <1>1, <1>2, <1>3, <1>4, <1>5, <1>6, <1>7, <1>8, <1>9, <1>10, <1>11
     DEF Next, Work, Failures, Dispatch

(* Unless a look-up is answered with an error, last-written state never holds    *)
(* what was only meant, nor an absence nobody saw: for any number of instances,  *)
(* edits and failures it is a state its record has really been in.               *)
THEOREM LwstateReal == ASSUME LookupsAnswer PROVE Spec => []LwstateIsReal
<1>1. RealInv => LwstateIsReal
  BY DEF RealInv
<1> QED BY TypeInit, TypeStep, RealInit, RealStep, <1>1, PTL DEF Spec

-----------------------------------------------------------------------------
(* Conditional writes. *)

LEMMA GuardedInit == ASSUME Conditional PROVE Init => GuardedInv
BY DEF Init, GuardedInv, RowsRecorded, BatchesRecorded, TasksGuarded, LateGuarded, NoRow,
       Nothing

(* Marking a row changes its status only, and forgets its task.                *)
LEMMA MarkFacts ==
  ASSUME TypeOK, NEW w \in Workers, NEW i \in Ids, MarkRow(w, i)
  PROVE  /\ \A j \in Ids : /\ dst'[j].action = dst[j].action
                           /\ dst'[j].data = dst[j].data /\ dst'[j].base = dst[j].base
         /\ \A v \in Workers : \A j \in DOMAIN task'[v] :
               j \in DOMAIN task[v] /\ task'[v][j] = task[v][j]
<1> DEFINE status == StatusOf(task[w][i].at)
<1>1. dst' = IF dst[i].action = "none" THEN dst ELSE [dst EXCEPT ![i].status = status]
  BY DEF MarkRow
<1> HIDE DEF status
<1>2. dst \in [Ids -> Rows]
  BY DEF TypeOK
<1>3. \A j \in Ids : /\ dst'[j].action = dst[j].action
                     /\ dst'[j].data = dst[j].data /\ dst'[j].base = dst[j].base
  BY <1>1, <1>2 DEF Rows
<1>4. \A v \in Workers : \A j \in DOMAIN task'[v] :
         j \in DOMAIN task[v] /\ task'[v][j] = task[v][j]
  BY DEF MarkRow, TypeOK
<1> QED BY <1>3, <1>4

(* The lookup is one read of the record, and what it finds is recorded when it  *)
(* is not what was expected.                                                    *)
LEMMA PreflightFacts ==
  ASSUME Conditional, TypeOK, NEW w \in Workers, NEW i \in Ids, Preflight(w, i)
  PROVE  /\ \E at \in {"ready"} \cup Ended : Dispatched(w, i, at, remote[i])
         /\ UNCHANGED <<target, edits, mirror, dst, batch, late, made>>
         /\ UNCHANGED <<lwstate, known>> \/ SaveLwstate(i, remote[i])
         /\ \/ remote[i] = batch[w][i].base \/ remote[i] = LastWritten(i)
            \/ SaveLwstate(i, remote[i])
<1>1. /\ i \in DOMAIN task[w] /\ pc[w] = "dispatching" /\ Compare(w, i, remote[i])
      /\ remote[i] \in States /\ UNCHANGED <<target, OfThisRow, late, made>>
  BY DEF Preflight, At, TypeOK
<1>2. PICK at \in {"checked", "ready"} \cup Ended :
        /\ Moves(w, i, at, ETagOf(w, i, remote[i], TRUE))
        /\ at = "checked" => Optimistic
        /\ ETagOf(w, i, remote[i], TRUE) = IF ETags THEN remote[i] ELSE 0
        /\ UNCHANGED <<lwstate, known>> \/ SaveLwstate(i, remote[i])
        /\ \/ remote[i] = batch[w][i].base \/ remote[i] = LastWritten(i)
           \/ SaveLwstate(i, remote[i])
  BY <1>1, CompareFacts
<1>3. at \in {"ready"} \cup Ended
  BY <1>2 DEF Conditional
<1>4. Dispatched(w, i, at, remote[i])
  BY <1>1, <1>2 DEF Dispatched, Conditional
<1> QED BY <1>1, <1>2, <1>3, <1>4 DEF OfThisRow

(* How rows move through a cycle: a row gets ready to be written by its          *)
(* pre-flight read and in no other way.                                          *)
LEMMA TaskSteps ==
  ASSUME Conditional, TypeInv, GuardedInv, [Next]_vars
  PROVE  \/ UNCHANGED <<batch, task>>
         \/ \E w \in Workers : \/ StartCycle(w)
                               \/ Leaves(w) /\ UNCHANGED <<remote, edits, dst, made, known>>
         \/ \E w \in Workers, i \in Ids :
               \/ MarkRow(w, i)
               \/ Preflight(w, i)
               \/ \E at \in {"written"} \cup Ended, etag \in States :
                     Dispatched(w, i, at, etag)
<1>0. TypeOK
  BY DEF TypeInv
<1> USE StatesAre DEF target, history, cycle
<1>1. ASSUME NEW w \in Workers, NEW i \in Ids,
             \/ SendUnread(w, i) \/ PreflightFails(w, i) \/ PreflightRaises(w, i)
             \/ Relookup(w, i) \/ RelookupFails(w, i)
      PROVE  FALSE
  BY <1>0, <1>1, BatchFacts
     DEF SendUnread, PreflightFails, PreflightRaises, Relookup, RelookupFails, At, Fault,
         Conditional, GuardedInv, TasksGuarded, BatchesRecorded
<1>2. ASSUME NEW w \in Workers, NEW i \in Ids, Write(w, i)
      PROVE  \E at \in {"written"} \cup Ended, etag \in States : Dispatched(w, i, at, etag)
  <2>1. i \in DOMAIN task[w] /\ Request(w, i).etag \in States
    BY <1>0, <1>2, RequestFacts DEF Write, At, Requests
  <2>2. \E at \in {"written"} \cup Ended : Moves(w, i, at, Request(w, i).etag)
    BY <1>2 DEF Write, Ended
  <2>3. pc[w] = "dispatching" /\ UNCHANGED OfThisRow
    BY <1>2 DEF Write, At
  <2> QED BY <2>1, <2>2, <2>3 DEF Dispatched
<1>3. ASSUME NEW w \in Workers, NEW i \in Ids,
             Record(w, i) \/ RecordFails(w, i) \/ BreakerRejects(w, i)
      PROVE  \E at \in {"written"} \cup Ended, etag \in States : Dispatched(w, i, at, etag)
  BY <1>3 DEF Record, RecordFails, BreakerRejects, At, Dispatched, Ended
<1>4. ASSUME NEW w \in Workers, NEW i \in Ids, WriteTimesOut(w, i)
      PROVE  \/ UNCHANGED <<batch, task>>
             \/ \E at \in {"written"} \cup Ended, etag \in States :
                   Dispatched(w, i, at, etag)
  BY <1>4 DEF WriteTimesOut, At, Dispatched, Ended, OfThisRow
<1>5. ASSUME NEW w \in Workers, Unlock(w) \/ Crash(w)
      PROVE  Leaves(w) /\ UNCHANGED <<remote, edits, dst, made, known>>
  BY <1>5 DEF Unlock, Crash
<1>6. CASE \/ \E w \in Workers : WriteFeedback(w) \/ LoseLock(w)
           \/ \E i \in Ids : \/ TargetEdited(i) \/ Ingest(i) \/ Recompute(i) \/ Purge(i)
                             \/ \E action \in Actions : Produce(i, action)
           \/ \E r \in late : ArrivesLate(r)
           \/ \E e \in okAudit : AuditAges(e)
           \/ UNCHANGED vars
  BY <1>6 DEF WriteFeedback, LoseLock, TargetEdited, Ingest, Recompute, Purge, Produce,
              ArrivesLate, AuditAges, vars
<1> QED
  BY <1>1, <1>2, <1>3, <1>4, <1>5, <1>6 DEF Next, Work, Failures, Dispatch

(* How records change: somebody edits one, or it takes an update whose ETag is   *)
(* its state.                                                                    *)
LEMMA RecordSteps ==
  ASSUME Conditional, TypeInv, GuardedInv, [Next]_vars
  PROVE  \/ UNCHANGED remote
         \/ \E i \in Ids : TargetEdited(i)
         \/ \E r \in Requests :
               /\ \/ r \in late
                  \/ \E w \in Workers : /\ r.id \in DOMAIN task[w]
                                        /\ task[w][r.id].at = "ready"
                                        /\ pc[w] # "idle"
                                        /\ r = Request(w, r.id)
               /\ remote[r.id] # 0 /\ r.etag = remote[r.id] /\ remote'[r.id] = r.data
               /\ \A i \in Ids : i # r.id => remote'[i] = remote[i]
               /\ UNCHANGED <<edits, dst, batch, made, known>>
<1>0. TypeOK
  BY DEF TypeInv
<1> USE DEF target, history, cycle
<1>1. ASSUME NEW r \in Requests, Performed(r), r.action = "update", Guarded(r.id, r.etag)
      PROVE  \/ UNCHANGED remote
             \/ /\ remote[r.id] # 0 /\ r.etag = remote[r.id] /\ remote'[r.id] = r.data
                /\ \A i \in Ids : i # r.id => remote'[i] = remote[i]
  BY <1>0, <1>1 DEF Performed, Takes, Accepts, Becomes, Guarded, Requests, TypeOK
<1>2. ASSUME NEW r \in late, ArrivesLate(r)
      PROVE  \/ UNCHANGED remote
             \/ /\ remote[r.id] # 0 /\ r.etag = remote[r.id] /\ remote'[r.id] = r.data
                /\ \A i \in Ids : i # r.id => remote'[i] = remote[i]
                /\ r \in Requests /\ UNCHANGED <<edits, dst, batch, made, known>>
  BY <1>0, <1>1, <1>2 DEF ArrivesLate, GuardedInv, LateGuarded, TypeOK
<1>3. ASSUME NEW w \in Workers, NEW i \in Ids, Write(w, i)
      PROVE  LET r == Request(w, i)
             IN  \/ UNCHANGED remote
                 \/ /\ r.id = i /\ i \in DOMAIN task[w] /\ task[w][i].at = "ready"
                    /\ pc[w] # "idle"
                    /\ remote[r.id] # 0 /\ r.etag = remote[r.id] /\ remote'[r.id] = r.data
                    /\ \A j \in Ids : j # r.id => remote'[j] = remote[j]
                    /\ r \in Requests /\ UNCHANGED <<edits, dst, batch, made, known>>
  <2> DEFINE r == Request(w, i)
  <2>1. /\ i \in DOMAIN task[w] /\ task[w][i].at = "ready" /\ pc[w] # "idle"
        /\ r \in Requests /\ r.id = i /\ r.etag = task[w][i].etag
        /\ r.action = batch[w][i].action /\ Performed(r) /\ i \in DOMAIN batch[w]
        /\ UNCHANGED <<edits, dst, batch, made, known>>
    BY <1>0, <1>3, RequestFacts, BatchFacts DEF Write, At, Request, OfThisRow
  <2>2. r.action = "update" /\ Guarded(r.id, r.etag)
    BY <2>1 DEF GuardedInv, TasksGuarded, BatchesRecorded
  <2> HIDE DEF r
  <2>3. \/ UNCHANGED remote
        \/ /\ remote[r.id] # 0 /\ r.etag = remote[r.id] /\ remote'[r.id] = r.data
           /\ \A j \in Ids : j # r.id => remote'[j] = remote[j]
    BY <1>1, <2>1, <2>2
  <2> QED BY <2>1, <2>3 DEF r
<1>4. CASE \/ \E w \in Workers : StartCycle(w) \/ WriteFeedback(w) \/ LoseLock(w)
                                 \/ Unlock(w) \/ Crash(w)
           \/ \E i \in Ids : \/ Ingest(i) \/ Recompute(i) \/ Purge(i)
                             \/ \E action \in Actions : Produce(i, action)
           \/ \E e \in okAudit : AuditAges(e)
           \/ UNCHANGED vars
  BY <1>4 DEF StartCycle, WriteFeedback, LoseLock, Unlock, Crash, Ingest, Recompute, Purge,
              Produce, AuditAges, vars
<1>5. ASSUME NEW w \in Workers, NEW i \in Ids,
             \/ MarkRow(w, i) \/ SendUnread(w, i) \/ Preflight(w, i) \/ PreflightFails(w, i)
             \/ PreflightRaises(w, i) \/ Relookup(w, i) \/ RelookupFails(w, i)
             \/ Record(w, i) \/ RecordFails(w, i) \/ BreakerRejects(w, i)
             \/ WriteTimesOut(w, i)
      PROVE  UNCHANGED remote
  BY <1>5 DEF MarkRow, SendUnread, Preflight, PreflightFails, PreflightRaises, Relookup,
              RelookupFails, Record, RecordFails, BreakerRejects, WriteTimesOut
<1> QED
  BY <1>2, <1>3, <1>4, <1>5 DEF Next, Work, Failures, Dispatch

(* Nothing recorded is forgotten, and nothing that is gone comes back.         *)
LEMMA GuardStays ==
  ASSUME Conditional, TypeInv, GuardedInv, [Next]_vars
  PROVE  /\ \A i \in Ids : known[i] \subseteq known'[i]
         /\ \A i \in Ids : \A etag : Guarded(i, etag) => Guarded(i, etag)'
<1>0. TypeOK /\ TypeOK'
  BY TypeStep DEF TypeInv
<1> USE DEF history, cycle
<1> DEFINE Grows == \A i \in Ids : known[i] \subseteq known'[i]
           Gone == \A i \in Ids : remote[i] = 0 => remote'[i] = 0
<1>1. Grows
  <2>1. ASSUME NEW w \in Workers, NEW i \in Ids, Preflight(w, i) PROVE Grows
    <3>1. UNCHANGED known \/ SaveLwstate(i, remote[i])
      BY <1>0, <2>1, PreflightFacts
    <3> QED BY <1>0, <3>1 DEF SaveLwstate, TypeOK
  <2>2. ASSUME NEW w \in Workers, NEW i \in Ids, Record(w, i) PROVE Grows
    BY <1>0, <2>2 DEF Record, SaveLwstate, TypeOK
  <2>3. ASSUME NEW w \in Workers, NEW i \in Ids, PreflightFails(w, i) PROVE FALSE
    BY <2>3 DEF PreflightFails, Fault, Conditional
  <2>4. ASSUME NEW i \in Ids, Ingest(i) PROVE Grows
    BY <1>0, <2>4 DEF Ingest, TypeOK
  <2>5. CASE UNCHANGED known
    BY <2>5
  <2>6. ASSUME NEW w \in Workers, NEW i \in Ids,
               \/ MarkRow(w, i) \/ SendUnread(w, i) \/ PreflightRaises(w, i) \/ Write(w, i)
               \/ Relookup(w, i) \/ RelookupFails(w, i) \/ RecordFails(w, i)
               \/ BreakerRejects(w, i) \/ WriteTimesOut(w, i)
        PROVE  UNCHANGED known
    BY <2>6 DEF MarkRow, SendUnread, PreflightRaises, Write, Relookup, RelookupFails,
                RecordFails, BreakerRejects, WriteTimesOut
  <2>7. CASE \/ \E w \in Workers : StartCycle(w) \/ WriteFeedback(w) \/ LoseLock(w)
                                   \/ Unlock(w) \/ Crash(w)
             \/ \E i \in Ids : \/ TargetEdited(i) \/ Recompute(i) \/ Purge(i)
                               \/ \E action \in Actions : Produce(i, action)
             \/ \E r \in late : ArrivesLate(r)
             \/ \E e \in okAudit : AuditAges(e)
             \/ UNCHANGED vars
    <3>1. UNCHANGED known
      BY <2>7 DEF StartCycle, WriteFeedback, LoseLock, Unlock, Crash, TargetEdited,
                  Recompute, Purge, Produce, ArrivesLate, AuditAges, vars
    <3> QED BY <3>1
  <2> QED
    BY <2>1, <2>2, <2>3, <2>4, <2>5, <2>6, <2>7 DEF Next, Work, Failures, Dispatch
<1>2. Gone
  <2>1. CASE UNCHANGED remote
    BY <2>1
  <2>2. ASSUME NEW i \in Ids, TargetEdited(i) PROVE Gone
    BY <1>0, <2>2 DEF TargetEdited, Becomes, TypeOK
  <2>3. CASE \E r \in Requests : remote[r.id] # 0 /\ \A i \in Ids : i # r.id => remote'[i] = remote[i]
    BY <2>3
  <2> QED BY <2>1, <2>2, <2>3, RecordSteps
<1> QED BY <1>1, <1>2 DEF Guarded

LEMMA RowsStep ==
  ASSUME Conditional, TypeInv, GuardedInv, [Next]_vars
  PROVE  RowsRecorded'
<1>0. TypeOK /\ RowsRecorded /\ \A i \in Ids : known[i] \subseteq known'[i]
  BY GuardStays DEF TypeInv, GuardedInv
<1> USE DEF history, cycle, target
<1>1. ASSUME NEW i \in Ids, Ingest(i) PROVE RowsRecorded'
  BY <1>0, <1>1 DEF Ingest, TypeOK, RowsRecorded
<1>2. ASSUME NEW i \in Ids, NEW action \in Actions, Produce(i, action) PROVE RowsRecorded'
  BY <1>0, <1>2 DEF Produce, TypeOK, RowsRecorded, Conditional
<1>3. ASSUME NEW i \in Ids, Recompute(i) PROVE RowsRecorded'
  BY <1>0, <1>3 DEF Recompute, TypeOK, RowsRecorded
<1>4. ASSUME NEW i \in Ids, Purge(i) PROVE RowsRecorded'
  BY <1>0, <1>4 DEF Purge, NoRow, TypeOK, RowsRecorded
<1>5. ASSUME NEW w \in Workers, NEW i \in Ids, MarkRow(w, i) PROVE RowsRecorded'
  BY <1>0, <1>5, MarkFacts DEF MarkRow, RowsRecorded
<1>6. ASSUME NEW w \in Workers, NEW i \in Ids, Preflight(w, i) PROVE RowsRecorded'
  <2>1. UNCHANGED <<mirror, dst>> /\ (UNCHANGED lwstate \/ SaveLwstate(i, remote[i]))
    BY <1>0, <1>6, PreflightFacts
  <2> QED BY <1>0, <2>1 DEF SaveLwstate, TypeOK, RowsRecorded
<1>7. ASSUME NEW w \in Workers, NEW i \in Ids, Record(w, i) PROVE RowsRecorded'
  <2>1. UNCHANGED <<mirror, dst>>
        /\ (UNCHANGED lwstate \/ SaveLwstate(i, batch[w][i].data))
    BY <1>7 DEF Record, OfThisRow
  <2> QED BY <1>0, <2>1 DEF SaveLwstate, TypeOK, RowsRecorded
<1>8. ASSUME NEW w \in Workers, NEW i \in Ids, PreflightFails(w, i) PROVE FALSE
  BY <1>8 DEF PreflightFails, Fault, Conditional
<1>9. ASSUME NEW w \in Workers, NEW i \in Ids,
             \/ SendUnread(w, i) \/ PreflightRaises(w, i) \/ Write(w, i)
             \/ Relookup(w, i) \/ RelookupFails(w, i) \/ RecordFails(w, i)
             \/ BreakerRejects(w, i) \/ WriteTimesOut(w, i)
      PROVE  UNCHANGED <<mirror, dst, lwstate>>
  BY <1>9 DEF SendUnread, PreflightRaises, Write, Relookup, RelookupFails,
              RecordFails, BreakerRejects, WriteTimesOut, OfThisRow
<1>10. CASE \/ \E w \in Workers : StartCycle(w) \/ WriteFeedback(w) \/ LoseLock(w)
                                  \/ Unlock(w) \/ Crash(w)
            \/ \E i \in Ids : TargetEdited(i)
            \/ \E r \in late : ArrivesLate(r)
            \/ \E e \in okAudit : AuditAges(e)
            \/ UNCHANGED vars
  <2>1. UNCHANGED <<mirror, dst, lwstate>>
    BY <1>10 DEF StartCycle, WriteFeedback, LoseLock, Unlock, Crash, TargetEdited,
                ArrivesLate, AuditAges, vars
  <2> QED BY <1>0, <2>1 DEF RowsRecorded
<1>11. CASE UNCHANGED <<mirror, dst, lwstate>>
  BY <1>0, <1>11 DEF RowsRecorded
<1> QED
  BY <1>1, <1>2, <1>3, <1>4, <1>5, <1>6, <1>7, <1>8, <1>9, <1>10, <1>11
     DEF Next, Work, Failures, Dispatch

LEMMA BatchesStep ==
  ASSUME Conditional, TypeInv, GuardedInv, [Next]_vars
  PROVE  BatchesRecorded'
<1>0. /\ TypeOK /\ RowsRecorded /\ BatchesRecorded
      /\ \A i \in Ids : known[i] \subseteq known'[i]
      /\ \A w \in Workers : DOMAIN batch[w] \subseteq Ids
  BY GuardStays, BatchFacts DEF TypeInv, GuardedInv
<1>1. ASSUME UNCHANGED batch PROVE BatchesRecorded'
  BY <1>0, <1>1 DEF BatchesRecorded
<1>2. ASSUME NEW w \in Workers, StartCycle(w) PROVE BatchesRecorded'
  <2>1. /\ \A i \in DOMAIN batch'[w] : batch'[w][i] = dst[i] /\ i \in Pending
        /\ \A v \in Workers \ {w} : batch'[v] = batch[v]
    BY <1>0, <1>2, StartFacts
  <2> QED BY <1>0, <2>1 DEF Pending, RowsRecorded, BatchesRecorded
<1>3. ASSUME NEW w \in Workers, Leaves(w) PROVE BatchesRecorded'
  <2>1. batch'[w] = Nothing /\ \A v \in Workers \ {w} : batch'[v] = batch[v]
    BY <1>0, <1>3, LeavesFacts
  <2> QED BY <1>0, <2>1 DEF Nothing, BatchesRecorded
<1>4. ASSUME NEW w \in Workers, NEW i \in Ids,
             \/ MarkRow(w, i) \/ Preflight(w, i)
             \/ \E at \in {"written"} \cup Ended, etag \in States : Dispatched(w, i, at, etag)
      PROVE  UNCHANGED batch
  BY <1>4 DEF MarkRow, Preflight, Dispatched, OfThisRow
<1> QED BY <1>1, <1>2, <1>3, <1>4, TaskSteps

LEMMA TasksStep ==
  ASSUME Conditional, TypeInv, GuardedInv, [Next]_vars
  PROVE  TasksGuarded'
<1>0. /\ TypeOK /\ TasksGuarded
      /\ \A i \in Ids : \A etag : Guarded(i, etag) => Guarded(i, etag)'
      /\ \A w \in Workers : DOMAIN task[w] \subseteq Ids
  BY GuardStays, BatchFacts DEF TypeInv, GuardedInv
<1>1. ASSUME \A w \in Workers : \A i \in DOMAIN task'[w] :
                \/ i \in DOMAIN task[w] /\ task'[w][i] = task[w][i]
                \/ /\ task'[w][i].at # "checked"
                   /\ task'[w][i].at = "ready" => Guarded(i, task[w][i].etag)'
      PROVE TasksGuarded'
  <2> SUFFICES ASSUME NEW w \in Workers, NEW i \in DOMAIN task'[w]
               PROVE  /\ task'[w][i].at # "checked"
                      /\ task'[w][i].at = "ready" => Guarded(i, task[w][i].etag)'
    BY DEF TasksGuarded
  <2>1. CASE i \in DOMAIN task[w] /\ task'[w][i] = task[w][i]
    <3>1. /\ task[w][i].at # "checked"
          /\ task[w][i].at = "ready" => Guarded(i, task[w][i].etag)
      BY <1>0, <2>1 DEF TasksGuarded
    <3>2. i \in Ids
      BY <1>0, <2>1
    <3> QED BY <1>0, <2>1, <3>1, <3>2 DEF Guarded
  <2> QED BY <1>1, <2>1
<1>2. CASE UNCHANGED task
  BY <1>1, <1>2
<1>3. ASSUME NEW w \in Workers, StartCycle(w) PROVE TasksGuarded'
  BY <1>0, <1>1, <1>3, StartFacts DEF Waiting
<1>4. ASSUME NEW w \in Workers, Leaves(w) PROVE TasksGuarded'
  BY <1>0, <1>1, <1>4, LeavesFacts, NothingFacts
<1>5. ASSUME NEW w \in Workers, NEW i \in Ids, MarkRow(w, i) PROVE TasksGuarded'
  BY <1>0, <1>1, <1>5, MarkFacts
<1>6. ASSUME NEW w \in Workers, NEW i \in Ids,
             NEW at \in {"ready", "written"} \cup Ended, NEW etag \in States,
             Dispatched(w, i, at, etag), at = "ready" => Guarded(i, etag)'
      PROVE TasksGuarded'
  <2>0. at \in {"todo", "checked", "ready", "written"} \cup Ended /\ at # "checked"
    BY DEF Ended
  <2>1. \A v \in Workers : DOMAIN task'[v] = DOMAIN task[v]
    BY <1>0, <1>6, <2>0, DispatchedFacts
  <2>2. task'[w][i] = [at |-> at, etag |-> etag]
    BY <1>0, <1>6, <2>0, DispatchedFacts
  <2>3. \A v \in Workers : \A j \in DOMAIN task[v] :
           v # w \/ j # i => task'[v][j] = task[v][j]
    BY <1>0, <1>6, <2>0, OthersStay
  <2>4. task'[w][i].at = at /\ task'[w][i].etag = etag
    BY <2>2
  <2>5. ASSUME NEW v \in Workers, NEW j \in DOMAIN task'[v]
        PROVE  \/ j \in DOMAIN task[v] /\ task'[v][j] = task[v][j]
               \/ /\ task'[v][j].at # "checked"
                  /\ task'[v][j].at = "ready" => Guarded(j, task[v][j].etag)'
    <3>1. CASE v = w /\ j = i
      BY <1>6, <2>0, <2>4, <3>1
    <3>2. CASE v # w \/ j # i
      BY <2>1, <2>3, <3>2
    <3> QED BY <3>1, <3>2
  <2> QED BY <1>1, <2>5
<1>7. ASSUME NEW w \in Workers, NEW i \in Ids, Preflight(w, i) PROVE TasksGuarded'
  <2>1. PICK at \in {"ready"} \cup Ended : Dispatched(w, i, at, remote[i])
    BY <1>0, <1>7, PreflightFacts
  <2>2. /\ remote'[i] = remote[i] /\ remote[i] \in States /\ i \in DOMAIN batch[w]
        /\ batch' = batch
    BY <1>0, <1>7, BatchFacts DEF Preflight, target, OfThisRow, At, TypeOK
  <2>3. Guarded(i, remote[i])'
    <3>1. CASE remote[i] = batch[w][i].base
      BY <2>2, <3>1, BatchesStep DEF BatchesRecorded, Guarded
    <3>2. CASE remote[i] = LastWritten(i)
      <4>1. CASE lwstate[i] = Unwritten
        BY <2>2, <3>2, <4>1 DEF LastWritten, Guarded
      <4>2. CASE lwstate[i] # Unwritten
        <5>1. remote[i] \in known[i] /\ known[i] \subseteq known'[i]
          BY <3>2, <4>2, GuardStays DEF LastWritten, GuardedInv, RowsRecorded
        <5> QED BY <2>2, <5>1 DEF Guarded
      <4> QED BY <4>1, <4>2
    <3>3. CASE SaveLwstate(i, remote[i])
      BY <1>0, <2>2, <3>3 DEF SaveLwstate, Guarded, TypeOK
    <3> QED BY <1>0, <1>7, <3>1, <3>2, <3>3, PreflightFacts
  <2> QED BY <1>6, <2>1, <2>2, <2>3
<1>8. ASSUME NEW w \in Workers, NEW i \in Ids, NEW at \in {"written"} \cup Ended,
             NEW etag \in States, Dispatched(w, i, at, etag)
      PROVE  TasksGuarded'
  BY <1>6, <1>8 DEF Ended
<1> QED BY <1>2, <1>3, <1>4, <1>5, <1>7, <1>8, TaskSteps

(* Requests that are given up carry the ETag of a row that was ready.          *)
LEMMA LateSteps ==
  ASSUME [Next]_vars, NEW r \in late' \ late
  PROVE  \E w \in Workers : \E i \in DOMAIN task[w] :
            task[w][i].at = "ready" /\ r = Request(w, i)
<1> DEFINE Given == \E w \in Workers : \E i \in DOMAIN task[w] :
                       task[w][i].at = "ready" /\ r = Request(w, i)
<1>1. ASSUME NEW w \in Workers, Crash(w) PROVE Given
  BY <1>1 DEF Crash, At
<1>2. ASSUME NEW w \in Workers, NEW i \in Ids, WriteTimesOut(w, i) PROVE Given
  BY <1>2 DEF WriteTimesOut, At
<1>3. late' \subseteq late => FALSE
  OBVIOUS
<1>4. ASSUME NEW w \in Workers, NEW i \in Ids,
             \/ MarkRow(w, i) \/ SendUnread(w, i) \/ Preflight(w, i) \/ PreflightFails(w, i)
             \/ PreflightRaises(w, i) \/ Relookup(w, i) \/ RelookupFails(w, i) \/ Write(w, i)
             \/ Record(w, i) \/ RecordFails(w, i) \/ BreakerRejects(w, i)
      PROVE  late' \subseteq late
  BY <1>4 DEF MarkRow, SendUnread, Preflight, PreflightFails, PreflightRaises, Relookup,
              RelookupFails, Write, Record, RecordFails, BreakerRejects
<1>5. CASE \/ \E w \in Workers : StartCycle(w) \/ WriteFeedback(w) \/ LoseLock(w)
                                 \/ Unlock(w)
           \/ \E i \in Ids : \/ TargetEdited(i) \/ Ingest(i) \/ Recompute(i) \/ Purge(i)
                             \/ \E action \in Actions : Produce(i, action)
           \/ \E q \in late : ArrivesLate(q)
           \/ \E e \in okAudit : AuditAges(e)
           \/ UNCHANGED vars
  <2>1. late' \subseteq late
    BY <1>5 DEF StartCycle, WriteFeedback, LoseLock, Unlock, TargetEdited, Ingest, Recompute,
                Purge, Produce, ArrivesLate, AuditAges, vars
  <2> QED BY <1>3, <2>1
<1> QED
  BY <1>1, <1>2, <1>3, <1>4, <1>5 DEF Next, Work, Failures, Dispatch

LEMMA LateStep ==
  ASSUME Conditional, TypeInv, GuardedInv, [Next]_vars
  PROVE  LateGuarded'
<1>0. /\ TypeOK /\ LateGuarded /\ TasksGuarded /\ BatchesRecorded
      /\ \A i \in Ids : \A etag : Guarded(i, etag) => Guarded(i, etag)'
  BY GuardStays DEF TypeInv, GuardedInv
<1>1. ASSUME NEW r \in late', r \in late PROVE r.action = "update" /\ Guarded(r.id, r.etag)'
  <2>1. r.id \in Ids
    BY <1>0, <1>1 DEF TypeOK, Requests
  <2> QED BY <1>0, <1>1, <2>1 DEF LateGuarded
<1>2. ASSUME NEW r \in late', r \notin late
      PROVE r.action = "update" /\ Guarded(r.id, r.etag)'
  <2>1. PICK w \in Workers : \E i \in DOMAIN task[w] :
           task[w][i].at = "ready" /\ r = Request(w, i)
    BY <1>2, LateSteps
  <2>2. PICK i \in DOMAIN task[w] : task[w][i].at = "ready" /\ r = Request(w, i)
    BY <2>1
  <2>3. i \in Ids /\ i \in DOMAIN batch[w]
    BY <1>0, BatchFacts
  <2>4. r.id = i /\ r.action = batch[w][i].action /\ r.etag = task[w][i].etag
    BY <2>2 DEF Request
  <2> QED BY <1>0, <2>2, <2>3, <2>4 DEF TasksGuarded, BatchesRecorded
<1> QED BY <1>1, <1>2 DEF LateGuarded

LEMMA GuardedStep ==
  ASSUME Conditional PROVE TypeInv /\ GuardedInv /\ [Next]_vars => GuardedInv'
BY RowsStep, BatchesStep, TasksStep, LateStep DEF GuardedInv

(* With ETags and a lookup that answers, a conditional update replaces only a    *)
(* state that ingestion or last-written state has recorded: for any number of    *)
(* instances, records and edits, with late requests, crashes and lost locks.     *)
THEOREM ConditionalWrites == ASSUME Conditional PROVE Spec => NoBlindOverwrite
<1>1. TypeInv /\ GuardedInv /\ [Next]_vars =>
        [\A i \in Ids : (ToolWrites(i) /\ remote[i] # 0) => remote[i] \in known[i]]_vars
  <2> SUFFICES ASSUME TypeInv, GuardedInv, [Next]_vars, NEW i \in Ids,
                      edits' = edits, remote'[i] # remote[i], remote[i] # 0
               PROVE  remote[i] \in known[i]
    BY DEF ToolWrites
  <2>0. TypeOK
    BY DEF TypeInv
  <2>1. CASE UNCHANGED remote
    BY <2>1
  <2>2. ASSUME NEW j \in Ids, TargetEdited(j) PROVE FALSE
    BY <2>0, <2>2 DEF TargetEdited, TypeOK, States
  <2>3. ASSUME NEW r \in Requests,
               \/ r \in late
               \/ \E w \in Workers : /\ r.id \in DOMAIN task[w]
                                     /\ task[w][r.id].at = "ready"
                                     /\ r = Request(w, r.id),
               r.etag = remote[r.id],
               \A j \in Ids : j # r.id => remote'[j] = remote[j]
        PROVE  remote[i] \in known[i]
    <3>1. i = r.id
      BY <2>3
    <3>2. Guarded(i, r.etag)
      BY <2>3, <3>1 DEF GuardedInv, LateGuarded, TasksGuarded, Request
    <3> QED BY <2>3, <3>1, <3>2 DEF Guarded
  <2> QED BY <2>1, <2>2, <2>3, RecordSteps
<1> QED
  BY <1>1, TypeInit, TypeStep, GuardedInit, GuardedStep, PTL DEF Spec, NoBlindOverwrite

-----------------------------------------------------------------------------
(* The order of what the MDM asks for. *)

(* No session that holds the lock is ended by the server.                      *)
LocksHold == "lock_loss" \notin Faults

LEMMA CycleInit == Init => OneCycle
BY DEF Init, OneCycle

LEMMA CycleStep == ASSUME LocksHold PROVE TypeInv /\ OneCycle /\ [Next]_vars => OneCycle'
<1> SUFFICES ASSUME TypeInv, OneCycle, [Next]_vars PROVE OneCycle'
  OBVIOUS
<1>0. TypeOK
  BY DEF TypeInv
<1> USE DEF target, history, cycle, OfThisRow
<1>1. ASSUME NEW w \in Workers, StartCycle(w) PROVE OneCycle'
  BY <1>0, <1>1, WritebackAssumption DEF StartCycle, OneCycle, TypeOK
<1>2. ASSUME NEW w \in Workers, WriteFeedback(w) PROVE OneCycle'
  BY <1>0, <1>2 DEF WriteFeedback, OneCycle, TypeOK
<1>3. ASSUME NEW w \in Workers, Unlock(w) \/ Crash(w) PROVE OneCycle'
  <2>1. Leaves(w) /\ pc[w] # "idle"
    BY <1>3 DEF Unlock, Crash
  <2> QED BY <1>0, <2>1 DEF Leaves, OneCycle, TypeOK
<1>4. ASSUME NEW w \in Workers, LoseLock(w) PROVE FALSE
  BY <1>4 DEF LoseLock, Fault, LocksHold
<1>5. CASE UNCHANGED <<lock, pc>>
  BY <1>5 DEF OneCycle
<1>6. ASSUME NEW w \in Workers, NEW i \in Ids,
             \/ MarkRow(w, i) \/ SendUnread(w, i) \/ Preflight(w, i) \/ PreflightFails(w, i)
             \/ PreflightRaises(w, i) \/ Relookup(w, i) \/ RelookupFails(w, i) \/ Write(w, i)
             \/ Record(w, i) \/ RecordFails(w, i) \/ BreakerRejects(w, i)
             \/ WriteTimesOut(w, i)
      PROVE  UNCHANGED <<lock, pc>>
  BY <1>6 DEF MarkRow, SendUnread, Preflight, PreflightFails, PreflightRaises, Relookup,
              RelookupFails, Write, Record, RecordFails, BreakerRejects, WriteTimesOut
<1>7. CASE \/ \E i \in Ids : \/ TargetEdited(i) \/ Ingest(i) \/ Recompute(i) \/ Purge(i)
                             \/ \E action \in Actions : Produce(i, action)
           \/ \E r \in late : ArrivesLate(r)
           \/ \E e \in okAudit : AuditAges(e)
           \/ UNCHANGED vars
  <2>1. UNCHANGED <<lock, pc>>
    BY <1>7 DEF TargetEdited, Ingest, Recompute, Purge, Produce, ArrivesLate, AuditAges, vars
  <2> QED BY <1>5, <2>1
<1> QED
  BY <1>1, <1>2, <1>3, <1>4, <1>5, <1>6, <1>7 DEF Next, Work, Failures, Dispatch

(* An instance that has rows or tasks is in a cycle, and it is the only one.   *)
LEMMA OneBatch ==
  ASSUME TypeInv, OneCycle, NEW v \in Workers, NEW w \in Workers,
         DOMAIN batch[v] # {}, DOMAIN batch[w] # {}
  PROVE  v = w /\ lock = w
<1>1. pc[v] # "idle" /\ pc[w] # "idle"
  BY NothingFacts DEF TypeInv, LocalInv
<1> QED BY <1>1 DEF OneCycle

LEMMA OrderInit == ASSUME Conditional PROVE Init => OrderInv
<1>1. Init => edits \in {0, 1}
  BY DEF Init
<1> QED
  BY <1>1 DEF Init, OrderInv, RowsInOrder, BatchesInOrder, TasksInOrder, LateInOrder, NoRow,
              Nothing

(* A new state gets a number of its own.                                       *)
LEMMA MadeSteps ==
  ASSUME Conditional, TypeInv, [Next]_vars
  PROVE  /\ edits \in Nat /\ edits' \in Nat /\ edits <= edits'
         /\ made' = made \/ (edits' = edits + 1 /\ made' = made \cup {edits'})
<1>0. TypeOK
  BY DEF TypeInv
<1> USE DEF target, history, cycle, OfThisRow
<1>1. ASSUME NEW i \in Ids, NEW action \in Actions, Produce(i, action)
      PROVE  edits' = edits + 1 /\ made' = made \cup {edits'}
  BY <1>1 DEF Produce, Conditional
<1>2. ASSUME NEW i \in Ids, TargetEdited(i) PROVE edits' = edits + 1 /\ made' = made
  BY <1>2 DEF TargetEdited
<1>3. CASE UNCHANGED <<edits, made>>
  BY <1>0, <1>3 DEF TypeOK, States
<1>4. ASSUME NEW w \in Workers, NEW i \in Ids,
             \/ MarkRow(w, i) \/ SendUnread(w, i) \/ Preflight(w, i) \/ PreflightFails(w, i)
             \/ PreflightRaises(w, i) \/ Relookup(w, i) \/ RelookupFails(w, i) \/ Write(w, i)
             \/ Record(w, i) \/ RecordFails(w, i) \/ BreakerRejects(w, i)
             \/ WriteTimesOut(w, i)
      PROVE  UNCHANGED <<edits, made>>
  BY <1>4 DEF MarkRow, SendUnread, Preflight, PreflightFails, PreflightRaises, Relookup,
              RelookupFails, Write, Record, RecordFails, BreakerRejects, WriteTimesOut
<1>5. CASE \/ \E w \in Workers : StartCycle(w) \/ WriteFeedback(w) \/ LoseLock(w)
                                 \/ Unlock(w) \/ Crash(w)
           \/ \E i \in Ids : Ingest(i) \/ Recompute(i) \/ Purge(i)
           \/ \E r \in late : ArrivesLate(r)
           \/ \E e \in okAudit : AuditAges(e)
           \/ UNCHANGED vars
  <2>1. UNCHANGED <<edits, made>>
    BY <1>5 DEF StartCycle, WriteFeedback, LoseLock, Unlock, Crash, Ingest, Recompute,
                Purge, ArrivesLate, AuditAges, vars
  <2> QED BY <1>3, <2>1
<1>6. edits \in Nat
  BY <1>0 DEF TypeOK, States
<1> QED
  BY <1>1, <1>2, <1>3, <1>4, <1>5, <1>6 DEF Next, Work, Failures, Dispatch

(* A desired state keeps its data until the MDM asks for something newer.      *)
LEMMA DesiredSteps ==
  ASSUME Conditional, TypeInv, [Next]_vars, NEW i \in Ids, dst'[i].action # "none"
  PROVE  \/ dst[i].action # "none" /\ dst'[i].data = dst[i].data
         \/ dst'[i].data = edits' /\ edits' = edits + 1 /\ UNCHANGED <<remote, batch, late>>
<1> DEFINE Kept == dst[i].action # "none" /\ dst'[i].data = dst[i].data
<1>0. TypeOK
  BY DEF TypeInv
<1> USE DEF target, history, cycle
<1>1. ASSUME NEW j \in Ids, NEW action \in Actions, Produce(j, action)
      PROVE  \/ Kept
             \/ /\ dst'[i].data = edits' /\ edits' = edits + 1
                /\ UNCHANGED <<remote, batch, late>>
  BY <1>0, <1>1 DEF Produce, Conditional, TypeOK
<1>2. ASSUME NEW j \in Ids, Recompute(j) PROVE Kept
  <2>1. dst[i] \in Rows /\ dst[j] \in Rows
    BY <1>0 DEF TypeOK
  <2> QED BY <1>0, <1>2, <2>1 DEF Recompute, TypeOK
<1>3. ASSUME NEW j \in Ids, Purge(j) PROVE Kept
  BY <1>0, <1>3 DEF Purge, NoRow, TypeOK
<1>4. ASSUME NEW w \in Workers, NEW j \in Ids, MarkRow(w, j) PROVE Kept
  BY <1>0, <1>4, MarkFacts
<1>5. CASE UNCHANGED dst
  BY <1>5
<1>6. ASSUME NEW w \in Workers, NEW j \in Ids,
             \/ SendUnread(w, j) \/ Preflight(w, j) \/ PreflightFails(w, j)
             \/ PreflightRaises(w, j) \/ Relookup(w, j) \/ RelookupFails(w, j) \/ Write(w, j)
             \/ Record(w, j) \/ RecordFails(w, j) \/ BreakerRejects(w, j)
             \/ WriteTimesOut(w, j)
      PROVE  UNCHANGED dst
  BY <1>6 DEF SendUnread, Preflight, PreflightFails, PreflightRaises, Relookup,
              RelookupFails, Write, Record, RecordFails, BreakerRejects, WriteTimesOut,
              OfThisRow
<1>7. CASE \/ \E w \in Workers : StartCycle(w) \/ WriteFeedback(w) \/ LoseLock(w)
                                 \/ Unlock(w) \/ Crash(w)
           \/ \E j \in Ids : TargetEdited(j) \/ Ingest(j)
           \/ \E r \in late : ArrivesLate(r)
           \/ \E e \in okAudit : AuditAges(e)
           \/ UNCHANGED vars
  <2>1. UNCHANGED dst
    BY <1>7 DEF StartCycle, WriteFeedback, LoseLock, Unlock, Crash, TargetEdited, Ingest,
                ArrivesLate, AuditAges, vars
  <2> QED BY <1>5, <2>1
<1> QED
  BY <1>1, <1>2, <1>3, <1>4, <1>5, <1>6, <1>7 DEF Next, Work, Failures, Dispatch

(* A record gets a number nobody has asked for, 0, or the data of a request     *)
(* that is not newer than the batch at work.                                    *)
LEMMA ReplacedInOrder ==
  ASSUME Conditional, TypeInv, GuardedInv, OneCycle, OrderInv, [Next]_vars, NEW i \in Ids,
         remote'[i] # remote[i]
  PROVE  /\ remote'[i] \in Nat /\ remote'[i] <= edits' /\ UNCHANGED <<dst, batch, made>>
         /\ remote'[i] \in made =>
               /\ dst[i].action # "none" => remote'[i] <= dst[i].data
               /\ \A w \in Workers : i \in DOMAIN batch[w] => remote'[i] <= batch[w][i].data
<1>0. /\ TypeOK /\ RowsInOrder /\ BatchesInOrder /\ LateInOrder
      /\ dst \in [Ids -> Rows] /\ \A s \in States : s \in Nat
  BY StatesAre DEF TypeInv, OrderInv, TypeOK
<1>1. ASSUME NEW j \in Ids, TargetEdited(j)
      PROVE  /\ remote'[i] \in Nat /\ remote'[i] <= edits' /\ UNCHANGED <<dst, batch, made>>
             /\ remote'[i] = 0 \/ remote'[i] \notin made
  <2>1. edits' = edits + 1 /\ edits \in Nat /\ UNCHANGED <<dst, batch, made>>
    BY <1>0, <1>1 DEF TargetEdited, TypeOK, cycle, history
  <2>2. remote'[i] = edits' \/ remote'[i] = 0
    BY <1>0, <1>1 DEF TargetEdited, Becomes, TypeOK
  <2>3. edits' \notin made
    <3>1. \A s \in made : s \in Nat /\ s <= edits
      BY <1>0 DEF RowsInOrder, TypeOK
    <3> QED BY <2>1, <3>1
  <2> QED BY <2>1, <2>2, <2>3
<1>2. ASSUME NEW j \in Ids, TargetEdited(j), remote'[i] = 0
      PROVE  /\ dst[i].action # "none" => remote'[i] <= dst[i].data
             /\ \A w \in Workers : i \in DOMAIN batch[w] => remote'[i] <= batch[w][i].data
  <2>1. dst[i].data \in Nat
    BY <1>0 DEF Rows
  <2>2. ASSUME NEW w \in Workers, i \in DOMAIN batch[w] PROVE batch[w][i].data \in Nat
    BY <1>0, <2>2, BatchFacts DEF Fetched
  <2> QED BY <1>2, <2>1, <2>2
<1>3. ASSUME NEW r \in Requests,
             \/ r \in late
             \/ \E w \in Workers : /\ r.id \in DOMAIN task[w]
                                   /\ task[w][r.id].at = "ready"
                                   /\ pc[w] # "idle"
                                   /\ r = Request(w, r.id),
             remote'[r.id] = r.data,
             \A j \in Ids : j # r.id => remote'[j] = remote[j],
             UNCHANGED <<edits, dst, batch, made, known>>
      PROVE  /\ remote'[i] \in Nat /\ remote'[i] <= edits'
             /\ dst[i].action # "none" => remote'[i] <= dst[i].data
             /\ \A w \in Workers : i \in DOMAIN batch[w] => remote'[i] <= batch[w][i].data
  <2>1. i = r.id /\ remote'[i] = r.data /\ r.data \in Nat /\ edits' = edits
    BY <1>0, <1>3 DEF Requests
  <2>2. CASE r \in late
    BY <1>0, <2>1, <2>2 DEF LateInOrder
  <2>3. ASSUME NEW v \in Workers, i \in DOMAIN task[v], r = Request(v, i)
        PROVE  /\ remote'[i] <= edits
               /\ dst[i].action # "none" => remote'[i] <= dst[i].data
               /\ \A w \in Workers : i \in DOMAIN batch[w] => remote'[i] <= batch[w][i].data
    <3>1. i \in DOMAIN batch[v] /\ r.data = batch[v][i].data
      BY <1>0, <2>3, BatchFacts DEF Request
    <3>2. \A w \in Workers : i \in DOMAIN batch[w] => w = v
      BY <3>1, OneBatch
    <3> QED BY <1>0, <2>1, <3>1, <3>2 DEF BatchesInOrder
  <2> QED BY <1>3, <2>1, <2>2, <2>3
<1>4. CASE UNCHANGED remote
  BY <1>4
<1> QED BY <1>1, <1>2, <1>3, <1>4, RecordSteps

LEMMA RowsOrderStep ==
  ASSUME Conditional, TypeInv, GuardedInv, OneCycle, OrderInv, [Next]_vars
  PROVE  RowsInOrder'
<1>0. /\ TypeOK /\ RowsInOrder /\ edits \in Nat /\ edits' \in Nat /\ edits <= edits'
      /\ made \subseteq Nat /\ remote \in [Ids -> States] /\ dst \in [Ids -> Rows]
      /\ \A s \in States : s \in Nat
  BY MadeSteps, StatesAre DEF TypeInv, OrderInv, TypeOK
<1>1. \A s \in Nat : s <= edits /\ s \in made' => s \in made
  BY <1>0, MadeSteps
<1>2. \A s \in made' : s <= edits'
  <2>1. \A s \in made : s \in Nat /\ s <= edits
    BY <1>0 DEF RowsInOrder
  <2>2. \A s \in made' : s \in made \/ s = edits'
    BY MadeSteps
  <2>3. edits \in Nat /\ edits' \in Nat /\ edits <= edits'
    BY <1>0
  <2> QED BY <2>1, <2>2, <2>3
<1>3. ASSUME NEW i \in Ids PROVE remote'[i] <= edits'
  <2>1. remote[i] \in Nat /\ remote[i] <= edits
    BY <1>0 DEF RowsInOrder
  <2> QED BY <1>0, <2>1, ReplacedInOrder
<1>4. ASSUME NEW i \in Ids, dst'[i].action # "none"
      PROVE  /\ dst'[i].data <= edits'
             /\ remote'[i] \in made' => remote'[i] <= dst'[i].data
  <2>1. remote[i] \in Nat /\ remote[i] <= edits /\ dst[i].data \in Nat
    BY <1>0 DEF RowsInOrder, Rows
  <2>2. CASE dst[i].action # "none" /\ dst'[i].data = dst[i].data
    <3>1. dst[i].data <= edits /\ (remote[i] \in made => remote[i] <= dst[i].data)
      BY <1>0, <2>2 DEF RowsInOrder
    <3>2. CASE remote'[i] = remote[i]
      BY <1>0, <1>1, <2>1, <2>2, <3>1, <3>2
    <3>3. CASE remote'[i] # remote[i]
      BY <1>0, <2>1, <2>2, <3>1, <3>3, ReplacedInOrder
    <3> QED BY <3>2, <3>3
  <2>3. CASE dst'[i].data = edits' /\ edits' = edits + 1 /\ UNCHANGED <<remote, batch>>
    BY <1>0, <2>1, <2>3
  <2> QED BY <1>4, <2>2, <2>3, DesiredSteps
<1> QED BY <1>2, <1>3, <1>4 DEF RowsInOrder

(* What happens to the batches: they stay, or one instance starts or leaves.   *)
LEMMA BatchSteps ==
  ASSUME Conditional, TypeInv, GuardedInv, [Next]_vars
  PROVE  \/ UNCHANGED batch
         \/ \E w \in Workers :
               /\ \A v \in Workers \ {w} : batch'[v] = batch[v]
               /\ UNCHANGED <<remote, edits, dst, made>>
               /\ \/ batch'[w] = Nothing
                  \/ /\ lock = Nobody /\ UNCHANGED late
                     /\ \A i \in DOMAIN batch'[w] :
                           batch'[w][i] = dst[i] /\ i \in Pending
<1>0. TypeOK
  BY DEF TypeInv
<1>1. ASSUME NEW w \in Workers, StartCycle(w)
      PROVE  /\ \A v \in Workers \ {w} : batch'[v] = batch[v]
             /\ UNCHANGED <<remote, edits, dst, made, late>> /\ lock = Nobody
             /\ \A i \in DOMAIN batch'[w] : batch'[w][i] = dst[i] /\ i \in Pending
  <2>1. /\ \A v \in Workers \ {w} : batch'[v] = batch[v]
        /\ \A i \in DOMAIN batch'[w] : batch'[w][i] = dst[i] /\ i \in Pending
    BY <1>0, <1>1, StartFacts
  <2>2. UNCHANGED <<remote, edits, dst, made, late>> /\ lock = Nobody
    BY <1>1 DEF StartCycle, target, history
  <2> QED BY <2>1, <2>2
<1>2. ASSUME NEW w \in Workers, Leaves(w)
      PROVE  batch'[w] = Nothing /\ \A v \in Workers \ {w} : batch'[v] = batch[v]
  BY <1>0, <1>2, LeavesFacts
<1>3. ASSUME NEW w \in Workers, NEW i \in Ids,
             \/ MarkRow(w, i) \/ Preflight(w, i)
             \/ \E at \in {"written"} \cup Ended, etag \in States : Dispatched(w, i, at, etag)
      PROVE  UNCHANGED batch
  BY <1>3 DEF MarkRow, Preflight, Dispatched, OfThisRow
<1> QED BY <1>1, <1>2, <1>3, TaskSteps

LEMMA BatchesOrderStep ==
  ASSUME Conditional, TypeInv, GuardedInv, OneCycle, OrderInv, [Next]_vars
  PROVE  BatchesInOrder'
<1>0. /\ TypeOK /\ RowsInOrder /\ BatchesInOrder
      /\ edits \in Nat /\ edits' \in Nat /\ edits <= edits'
      /\ made \subseteq Nat /\ remote \in [Ids -> States] /\ dst \in [Ids -> Rows]
      /\ \A s \in States : s \in Nat
  BY MadeSteps, StatesAre DEF TypeInv, OrderInv, TypeOK
<1>1. \A s \in Nat : s <= edits /\ s \in made' => s \in made
  BY <1>0, MadeSteps
<1>2. ASSUME NEW w \in Workers, NEW i \in DOMAIN batch'[w], batch'[w] = batch[w]
      PROVE  /\ batch'[w][i].data <= edits'
             /\ dst'[i].action # "none" => batch'[w][i].data <= dst'[i].data
             /\ remote'[i] \in made' => remote'[i] <= batch'[w][i].data
  <2>1. /\ i \in Ids /\ batch[w][i].data \in Nat /\ i \in DOMAIN batch[w]
        /\ remote[i] \in Nat /\ dst[i].data \in Nat
    BY <1>0, <1>2, BatchFacts DEF Fetched, Rows
  <2>2. /\ batch[w][i].data <= edits /\ remote[i] <= edits
        /\ dst[i].action # "none" => batch[w][i].data <= dst[i].data
        /\ remote[i] \in made => remote[i] <= batch[w][i].data
    BY <1>0, <2>1 DEF BatchesInOrder, RowsInOrder
  <2>3. dst'[i].action # "none" => batch'[w][i].data <= dst'[i].data
    BY <1>0, <1>2, <2>1, <2>2, DesiredSteps
  <2>4. CASE remote'[i] = remote[i]
    BY <1>0, <1>1, <1>2, <2>1, <2>2, <2>3, <2>4
  <2>5. CASE remote'[i] # remote[i]
    <3>1. remote'[i] \in made => remote'[i] <= batch[w][i].data
      BY <2>1, <2>5, ReplacedInOrder
    <3>2. UNCHANGED made
      BY <2>1, <2>5, ReplacedInOrder
    <3> QED BY <1>0, <1>2, <2>1, <2>2, <2>3, <3>1, <3>2
  <2> QED BY <2>4, <2>5
<1>3. ASSUME NEW w \in Workers, UNCHANGED <<remote, edits, dst, made>>,
             \A i \in DOMAIN batch'[w] : batch'[w][i] = dst[i] /\ i \in Pending
      PROVE  \A i \in DOMAIN batch'[w] :
             /\ batch'[w][i].data <= edits'
             /\ dst'[i].action # "none" => batch'[w][i].data <= dst'[i].data
             /\ remote'[i] \in made' => remote'[i] <= batch'[w][i].data
  BY <1>0, <1>3 DEF Pending, RowsInOrder, Rows
<1>4. CASE UNCHANGED batch
  BY <1>2, <1>4 DEF BatchesInOrder
<1>5. ASSUME NEW w \in Workers, \A v \in Workers \ {w} : batch'[v] = batch[v],
             UNCHANGED <<remote, edits, dst, made>>,
             \/ batch'[w] = Nothing
             \/ \A i \in DOMAIN batch'[w] : batch'[w][i] = dst[i] /\ i \in Pending
      PROVE  BatchesInOrder'
  BY <1>2, <1>3, <1>5, NothingFacts DEF BatchesInOrder
<1> QED BY <1>4, <1>5, BatchSteps

LEMMA TasksOrderStep ==
  ASSUME Conditional, TypeInv, GuardedInv, OneCycle, OrderInv, [Next]_vars
  PROVE  TasksInOrder'
<1>0. /\ TypeOK /\ RowsInOrder /\ BatchesInOrder /\ TasksInOrder
      /\ edits \in Nat /\ edits' \in Nat /\ edits <= edits'
      /\ \A s \in States : s \in Nat
  BY MadeSteps, StatesAre DEF TypeInv, OrderInv, TypeOK
<1>1. \A s \in Nat : s <= edits /\ s \in made' => s \in made
  BY <1>0, MadeSteps
<1>2. ASSUME \A w \in Workers : \A i \in DOMAIN task'[w] :
                \/ task'[w][i].at # "ready"
                \/ /\ i \in DOMAIN task[w] /\ task'[w][i] = task[w][i]
                   /\ batch'[w] = batch[w]
                \/ /\ i \in DOMAIN batch[w] /\ task'[w][i].etag = remote[i]
                   /\ UNCHANGED <<remote, edits, made, batch>>
      PROVE TasksInOrder'
  <2> SUFFICES ASSUME NEW w \in Workers, NEW i \in DOMAIN task'[w], task'[w][i].at = "ready"
               PROVE  /\ task'[w][i].etag <= edits'
                      /\ task'[w][i].etag \in made' => task'[w][i].etag <= batch'[w][i].data
    BY DEF TasksInOrder
  <2>1. CASE i \in DOMAIN task[w] /\ task'[w][i] = task[w][i] /\ batch'[w] = batch[w]
    <3>1. /\ task[w][i].etag <= edits
          /\ task[w][i].etag \in made => task[w][i].etag <= batch[w][i].data
      BY <1>0, <2>1 DEF TasksInOrder
    <3>2. task[w][i].etag \in Nat
      BY <1>0, <2>1, BatchFacts DEF Tasks
    <3> QED BY <1>0, <1>1, <2>1, <3>1, <3>2
  <2>2. CASE /\ i \in DOMAIN batch[w] /\ task'[w][i].etag = remote[i]
             /\ UNCHANGED <<remote, edits, made, batch>>
    <3>1. i \in Ids
      BY <1>0, <2>2, BatchFacts
    <3> QED BY <1>0, <2>2, <3>1 DEF RowsInOrder, BatchesInOrder
  <2> QED BY <1>2, <2>1, <2>2
<1>3. CASE UNCHANGED <<batch, task>>
  BY <1>2, <1>3
<1>4. ASSUME NEW w \in Workers, StartCycle(w) PROVE TasksInOrder'
  <2>1. /\ \A i \in DOMAIN task'[w] : task'[w][i] = Waiting
        /\ \A v \in Workers \ {w} : batch'[v] = batch[v] /\ task'[v] = task[v]
    BY <1>0, <1>4, StartFacts
  <2> QED BY <1>2, <2>1 DEF Waiting
<1>5. ASSUME NEW w \in Workers, Leaves(w) PROVE TasksInOrder'
  <2>1. /\ DOMAIN task'[w] = {}
        /\ \A v \in Workers \ {w} : batch'[v] = batch[v] /\ task'[v] = task[v]
    BY <1>0, <1>5, LeavesFacts, NothingFacts
  <2> QED BY <1>2, <2>1
<1>6. ASSUME NEW w \in Workers, NEW i \in Ids, MarkRow(w, i) PROVE TasksInOrder'
  <2>1. /\ \A v \in Workers : \A j \in DOMAIN task'[v] :
              j \in DOMAIN task[v] /\ task'[v][j] = task[v][j]
        /\ UNCHANGED batch
    BY <1>0, <1>6, MarkFacts DEF MarkRow
  <2> QED BY <1>2, <2>1
<1>7. ASSUME NEW w \in Workers, NEW i \in Ids,
             NEW at \in {"ready", "written"} \cup Ended, NEW etag \in States,
             Dispatched(w, i, at, etag),
             at = "ready" => etag = remote[i] /\ UNCHANGED <<remote, edits, made>>
      PROVE TasksInOrder'
  <2>0. at \in {"todo", "checked", "ready", "written"} \cup Ended /\ UNCHANGED batch
    BY <1>7 DEF Dispatched, OfThisRow
  <2>1. (\A v \in Workers : DOMAIN task'[v] = DOMAIN task[v]) /\ i \in DOMAIN batch[w]
    BY <1>0, <1>7, <2>0, DispatchedFacts
  <2>2. task'[w][i] = [at |-> at, etag |-> etag]
    BY <1>0, <1>7, <2>0, DispatchedFacts
  <2>3. \A v \in Workers : \A j \in DOMAIN task[v] :
           v # w \/ j # i => task'[v][j] = task[v][j]
    BY <1>0, <1>7, <2>0, OthersStay
  <2>4. task'[w][i].at = at /\ task'[w][i].etag = etag
    BY <2>2
  <2>5. ASSUME NEW v \in Workers, NEW j \in DOMAIN task'[v]
        PROVE  \/ task'[v][j].at # "ready"
               \/ j \in DOMAIN task[v] /\ task'[v][j] = task[v][j] /\ batch'[v] = batch[v]
               \/ /\ j \in DOMAIN batch[v] /\ task'[v][j].etag = remote[j]
                  /\ UNCHANGED <<remote, edits, made, batch>>
    <3>1. CASE v = w /\ j = i
      BY <1>7, <2>0, <2>1, <2>4, <3>1
    <3>2. CASE v # w \/ j # i
      BY <2>0, <2>1, <2>3, <3>2
    <3> QED BY <3>1, <3>2
  <2> QED BY <1>2, <2>5
<1>8. ASSUME NEW w \in Workers, NEW i \in Ids, Preflight(w, i) PROVE TasksInOrder'
  <2>1. PICK at \in {"ready"} \cup Ended : Dispatched(w, i, at, remote[i])
    BY <1>0, <1>8, PreflightFacts
  <2>2. UNCHANGED <<remote, edits, made>> /\ remote[i] \in States
    BY <1>0, <1>8, PreflightFacts DEF target, TypeOK
  <2> QED BY <1>7, <2>1, <2>2
<1>9. ASSUME NEW w \in Workers, NEW i \in Ids, NEW at \in {"written"} \cup Ended,
             NEW etag \in States, Dispatched(w, i, at, etag)
      PROVE  TasksInOrder'
  BY <1>7, <1>9 DEF Ended
<1> QED BY <1>3, <1>4, <1>5, <1>6, <1>8, <1>9, TaskSteps

LEMMA LateOrderStep ==
  ASSUME Conditional, TypeInv, GuardedInv, OneCycle, OrderInv, [Next]_vars
  PROVE  LateInOrder'
<1>0. /\ TypeOK /\ BatchesInOrder /\ TasksInOrder /\ LateInOrder /\ RowsInOrder
      /\ edits \in Nat /\ edits' \in Nat /\ edits <= edits'
      /\ dst \in [Ids -> Rows] /\ \A s \in States : s \in Nat
  BY MadeSteps, StatesAre DEF TypeInv, OrderInv, TypeOK
<1>1. \A s \in Nat : s <= edits /\ s \in made' => s \in made
  BY <1>0, MadeSteps
<1> SUFFICES ASSUME NEW r \in late'
             PROVE  /\ r.data <= edits' /\ r.etag <= edits'
                    /\ r.etag \in made' => r.etag <= r.data
                    /\ dst'[r.id].action # "none" => r.data <= dst'[r.id].data
                    /\ \A w \in Workers : r.id \in DOMAIN batch'[w]
                                             => r.data <= batch'[w][r.id].data
  BY DEF LateInOrder
(* What holds of a request that is late, or about to be, before the step.      *)
<1>2. ASSUME r.id \in Ids, r.data \in Nat, r.etag \in Nat,
             r.data <= edits, r.etag <= edits, r.etag \in made => r.etag <= r.data,
             dst[r.id].action # "none" => r.data <= dst[r.id].data,
             \A w \in Workers : r.id \in DOMAIN batch[w] => r.data <= batch[w][r.id].data,
             \/ r \in late
             \/ \E w \in Workers : r.id \in DOMAIN batch[w] /\ lock = w
      PROVE  /\ r.data <= edits' /\ r.etag <= edits'
             /\ r.etag \in made' => r.etag <= r.data
             /\ dst'[r.id].action # "none" => r.data <= dst'[r.id].data
             /\ \A w \in Workers : r.id \in DOMAIN batch'[w]
                                      => r.data <= batch'[w][r.id].data
  <2>1. /\ r.data <= edits' /\ r.etag <= edits'
        /\ r.etag \in made' => r.etag <= r.data
    BY <1>0, <1>1, <1>2
  <2>2. dst'[r.id].action # "none" => r.data <= dst'[r.id].data
    BY <1>0, <1>2, DesiredSteps
  <2>3. CASE UNCHANGED batch
    BY <1>2, <2>1, <2>2, <2>3
  <2>4. ASSUME NEW w \in Workers, \A v \in Workers \ {w} : batch'[v] = batch[v],
               \/ batch'[w] = Nothing
               \/ \A i \in DOMAIN batch'[w] : batch'[w][i] = dst[i] /\ i \in Pending
        PROVE  \A v \in Workers : r.id \in DOMAIN batch'[v] => r.data <= batch'[v][r.id].data
    BY <1>2, <2>4, NothingFacts DEF Pending
  <2> QED BY <2>1, <2>2, <2>3, <2>4, BatchSteps
<1>3. CASE r \in late
  <2>1. /\ r.id \in Ids /\ r.data \in Nat /\ r.etag \in Nat
    BY <1>0, <1>3 DEF TypeOK, Requests
  <2> QED BY <1>0, <1>2, <1>3, <2>1 DEF LateInOrder
<1>4. CASE r \notin late
  <2>1. PICK w \in Workers : \E i \in DOMAIN task[w] :
           task[w][i].at = "ready" /\ r = Request(w, i)
    BY <1>4, LateSteps
  <2>2. PICK i \in DOMAIN task[w] : task[w][i].at = "ready" /\ r = Request(w, i)
    BY <2>1
  <2>3. /\ i \in Ids /\ i \in DOMAIN batch[w] /\ r.id = i
        /\ r.data = batch[w][i].data /\ r.etag = task[w][i].etag
        /\ batch[w][i] \in Fetched /\ task[w][i] \in Tasks
    BY <1>0, <2>2, BatchFacts DEF Request
  <2>4. r.data \in Nat /\ r.etag \in Nat
    BY <1>0, <2>3 DEF Fetched, Tasks
  <2>5. \A v \in Workers : i \in DOMAIN batch[v] => v = w
    BY <2>3, OneBatch
  <2>6. lock = w
    BY <2>3, OneBatch
  <2>7. /\ r.data <= edits
        /\ dst[r.id].action # "none" => r.data <= dst[r.id].data
    BY <1>0, <2>3 DEF BatchesInOrder
  <2>8. /\ r.etag <= edits /\ (r.etag \in made => r.etag <= r.data)
    BY <1>0, <2>2, <2>3 DEF TasksInOrder
  <2>9. \A v \in Workers : r.id \in DOMAIN batch[v] => r.data <= batch[v][r.id].data
    BY <2>3, <2>4, <2>5
  <2> QED BY <1>2, <2>3, <2>4, <2>6, <2>7, <2>8, <2>9
<1> QED BY <1>3, <1>4

LEMMA OrderStep ==
  ASSUME Conditional
  PROVE  TypeInv /\ GuardedInv /\ OneCycle /\ OrderInv /\ [Next]_vars => OrderInv'
BY RowsOrderStep, BatchesOrderStep, TasksOrderStep, LateOrderStep DEF OrderInv

(* If no lock is lost besides, no write replaces a state that the MDM asked for  *)
(* by an older one, whichever instances and late requests are at work.           *)
THEOREM WritesInOrder ==
  ASSUME Conditional, LocksHold PROVE Spec => NewerNotOverwritten
<1>1. TypeInv /\ GuardedInv /\ OneCycle /\ OrderInv /\ [Next]_vars =>
        [\A i \in Ids : (ToolWrites(i) /\ remote[i] \in made) => remote'[i] >= remote[i]]_vars
  <2> SUFFICES ASSUME TypeInv, GuardedInv, OneCycle, OrderInv, [Next]_vars, NEW i \in Ids,
                      edits' = edits, remote'[i] # remote[i], remote[i] \in made
               PROVE  remote'[i] >= remote[i]
    BY DEF ToolWrites
  <2>0. /\ TypeOK /\ TasksInOrder /\ LateInOrder
        /\ \A s \in States : s \in Nat
    BY StatesAre DEF TypeInv, OrderInv
  <2>1. CASE UNCHANGED remote
    BY <2>1
  <2>2. ASSUME NEW j \in Ids, TargetEdited(j) PROVE FALSE
    BY <2>0, <2>2 DEF TargetEdited, TypeOK, States
  <2>3. ASSUME NEW r \in Requests,
               \/ r \in late
               \/ \E w \in Workers : /\ r.id \in DOMAIN task[w]
                                     /\ task[w][r.id].at = "ready"
                                     /\ r = Request(w, r.id),
               r.etag = remote[r.id], remote'[r.id] = r.data,
               \A j \in Ids : j # r.id => remote'[j] = remote[j]
        PROVE  remote'[i] >= remote[i]
    <3>1. i = r.id
      BY <2>3
    <3>2. r.etag <= r.data
      BY <2>0, <2>3, <3>1 DEF LateInOrder, TasksInOrder, Request
    <3> QED BY <2>0, <2>3, <3>1, <3>2 DEF Requests
  <2> QED BY <2>1, <2>2, <2>3, RecordSteps
<1> QED
  BY <1>1, TypeInit, TypeStep, GuardedInit, GuardedStep, CycleInit, CycleStep, OrderInit,
     OrderStep, PTL DEF Spec, NewerNotOverwritten

----------------------------------------------------------------------------
(* WriteOrder: its helpers are those of Ordered, seen through the instance. *)

LEMMA SameOrder ==
  /\ \A S : Order!Cardinality(S) = Cardinality(S) /\ Order!IsFiniteSet(S) = IsFiniteSet(S)
  /\ \A S : Order!Ascending(S) = Ascending(S) /\ \A s : Order!Picked(s, S) = Picked(s, S)
  /\ \A s : Order!Range(s) = Elements(s)
<1>0. ASSUME NEW S
      PROVE  Order!Cardinality(S) = Cardinality(S) /\ Order!IsFiniteSet(S) = IsFiniteSet(S)
  BY Zenon DEF Order!Cardinality, Cardinality, Order!IsFiniteSet, IsFiniteSet
<1>1. ASSUME NEW S
      PROVE  Order!Ascending(S) = Ascending(S)
  BY Zenon DEF Order!Ascending, Ascending, Order!Cardinality, Cardinality
<1>2. ASSUME NEW S, NEW s
      PROVE  Order!Picked(s, S) = Picked(s, S)
  <2>1. Order!Cardinality(S) = Cardinality(S) /\ Order!Ascending(S) = Ascending(S)
    BY <1>0, <1>1, Zenon
  <2> QED BY <2>1, Zenon DEF Order!Picked, Picked
<1>3. \A s : Order!Range(s) = Elements(s)
  BY Zenon DEF Order!Range, Elements
<1> QED BY <1>0, <1>1, <1>2, <1>3

(* A graph of parents, and its circles: ids of which each has a parent among them. *)
Graph(N, parents) == IsFiniteSet(N) /\ parents \in [N -> SUBSET N]
Circle(parents, S) == S # {} /\ \A n \in S : parents[n] \cap S # {}

----------------------------------------------------------------------------
(* The walk of detect_dependency_cycle. *)

(* The calls of the walk, what it returns, and the two calls it makes itself. *)
Calls(N) == [path : SUBSET N, visited : SUBSET N, todo : SUBSET N]
Answers(N) == [found : BOOLEAN, visited : SUBSET N]
Pick(a) == CHOOSE n \in a.todo : TRUE
Under(parents, a) == [path |-> a.path \cup {Pick(a)}, visited |-> a.visited \cup {Pick(a)},
                      todo |-> parents[Pick(a)]]
Onward(a, visited) == [path |-> a.path, visited |-> visited, todo |-> a.todo \ {Pick(a)}]

\* What the walk does with one id.
Look(parents, look, a) ==
  IF a.todo = {} THEN [found |-> FALSE, visited |-> a.visited]
  ELSE CASE Pick(a) \in a.path -> [found |-> TRUE, visited |-> a.visited]
         [] Pick(a) \in a.visited \ a.path -> look[Onward(a, a.visited)]
         [] OTHER -> IF look[Under(parents, a)].found THEN look[Under(parents, a)]
                     ELSE look[Onward(a, look[Under(parents, a)].visited)]

(* A call is heavier than those it makes: ids are left, or are still to be visited. *)
Weight(N, a) == (Cardinality(N) + 1) * Cardinality(N \ a.visited) + Cardinality(a.todo)

Walks(N, parents, look, k) ==
  \A a \in Calls(N) : Weight(N, a) < k => look[a] = Look(parents, look, a)

LEMMA CallsWeigh ==
  ASSUME NEW N, IsFiniteSet(N), NEW a \in Calls(N)
  PROVE  /\ Weight(N, a) \in Nat
         /\ Weight(N, a) <= (Cardinality(N) + 1) * Cardinality(N) + Cardinality(N)
         /\ \A b \in Calls(N) : b.visited = a.visited /\ Cardinality(b.todo) < Cardinality(a.todo)
              => Weight(N, b) < Weight(N, a)
         /\ \A b \in Calls(N) : a.visited \subseteq b.visited /\ a.visited # b.visited
              => Weight(N, b) < Weight(N, a)
<1> DEFINE c == Cardinality(N)
<1>0. c \in Nat
  BY FS_CardinalityType
<1>1. \A b \in Calls(N) :
        /\ IsFiniteSet(N \ b.visited) /\ Cardinality(N \ b.visited) \in Nat
        /\ Cardinality(N \ b.visited) <= c
        /\ IsFiniteSet(b.todo) /\ Cardinality(b.todo) \in Nat /\ Cardinality(b.todo) <= c
  <2> TAKE b \in Calls(N)
  <2>1. N \ b.visited \in SUBSET N /\ b.todo \in SUBSET N
    BY DEF Calls
  <2> QED BY <2>1, FS_Subset, FS_CardinalityType
<1>2. ASSUME NEW b \in Calls(N), NEW d \in Calls(N), b.visited \subseteq d.visited, b.visited # d.visited
      PROVE  Cardinality(N \ d.visited) < Cardinality(N \ b.visited)
  <2>1. N \ d.visited \in SUBSET (N \ b.visited) /\ N \ d.visited # N \ b.visited
    BY <1>2 DEF Calls
  <2> QED BY <2>1, <1>1, FS_Subset
<1> HIDE DEF c
<1>3. \A b \in Calls(N) : /\ (c + 1) * Cardinality(N \ b.visited) \in Nat
                          /\ (c + 1) * Cardinality(N \ b.visited) <= (c + 1) * c
  <2> TAKE b \in Calls(N)
  <2>1. PICK x \in Nat : x = Cardinality(N \ b.visited)
    BY <1>1
  <2>2. x <= c
    BY <1>1, <2>1
  <2>3. c + 1 \in Nat
    BY <1>0
  <2>4. CASE x = c
    <3>1. (c + 1) * x \in Nat
      BY <2>3
    <3> QED BY <2>1, <2>4, <3>1, <1>0
  <2>5. CASE x < c
    BY <2>1, <2>3, <2>5, <1>0, Heavier
  <2> QED BY <2>2, <2>4, <2>5, <1>0
<1>4. Weight(N, a) \in Nat /\ Weight(N, a) <= (c + 1) * c + c
  <2>1. PICK u \in Nat : u = (c + 1) * Cardinality(N \ a.visited)
    BY <1>3
  <2>2. PICK w \in Nat : w = Cardinality(a.todo)
    BY <1>1
  <2>3. PICK z \in Nat : z = (c + 1) * c
    BY <1>0
  <2>4. u <= z /\ w <= c
    BY <1>1, <1>3, <2>1, <2>2, <2>3
  <2>5. Weight(N, a) = u + w
    BY <2>1, <2>2 DEF Weight, c
  <2> QED BY <2>3, <2>4, <2>5, <1>0
<1>5. ASSUME NEW b \in Calls(N), b.visited = a.visited, Cardinality(b.todo) < Cardinality(a.todo)
      PROVE  Weight(N, b) < Weight(N, a)
  <2>1. PICK u \in Nat : u = (c + 1) * Cardinality(N \ a.visited)
    BY <1>3
  <2>2. Weight(N, b) = u + Cardinality(b.todo) /\ Weight(N, a) = u + Cardinality(a.todo)
    BY <2>1, <1>5 DEF Weight, c
  <2>3. Cardinality(b.todo) \in Nat /\ Cardinality(a.todo) \in Nat
    BY <1>1
  <2> QED BY <1>5, <2>2, <2>3
<1>6. ASSUME NEW b \in Calls(N), a.visited \subseteq b.visited, a.visited # b.visited
      PROVE  Weight(N, b) < Weight(N, a)
  <2>1. PICK x \in Nat, y \in Nat : x = Cardinality(N \ b.visited) /\ y = Cardinality(N \ a.visited) /\ x < y
    BY <1>1, <1>2, <1>6
  <2>2. PICK u \in Nat, v \in Nat : u = (c + 1) * x /\ v = (c + 1) * y /\ u + c + 1 <= v
    <3>1. c + 1 \in Nat
      BY <1>0
    <3>2. (c + 1) * x + (c + 1) <= (c + 1) * y /\ (c + 1) * x \in Nat /\ (c + 1) * y \in Nat
      BY <3>1, <2>1, Heavier
    <3>3. PICK u \in Nat, v \in Nat : u = (c + 1) * x /\ v = (c + 1) * y
      BY <3>2
    <3>4. u + (c + 1) <= v
      BY <3>2, <3>3
    <3> QED BY <3>3, <3>4, <1>0
  <2>3. Weight(N, b) = u + Cardinality(b.todo) /\ Weight(N, a) = v + Cardinality(a.todo)
    BY <2>1, <2>2 DEF Weight, c
  <2>4. Cardinality(b.todo) \in Nat /\ Cardinality(a.todo) \in Nat /\ Cardinality(b.todo) <= c
    BY <1>1
  <2> QED BY <2>2, <2>3, <2>4, <1>0
<1> QED BY <1>4, <1>5, <1>6 DEF c

LEMMA CallsMade ==
  ASSUME NEW N, NEW parents, Graph(N, parents), NEW a \in Calls(N), a.todo # {}
  PROVE  /\ Pick(a) \in a.todo /\ Pick(a) \in N /\ Under(parents, a) \in Calls(N)
         /\ Pick(a) \notin a.visited => Weight(N, Under(parents, a)) < Weight(N, a)
         /\ \A v \in SUBSET N : Onward(a, v) \in Calls(N)
         /\ \A v \in SUBSET N : a.visited \subseteq v => Weight(N, Onward(a, v)) < Weight(N, a)
<1> DEFINE n == Pick(a)
<1>0. IsFiniteSet(N) /\ parents \in [N -> SUBSET N]
  BY DEF Graph
<1>1. n \in a.todo /\ n \in N
  BY DEF Pick, Calls
<1>2. Under(parents, a) \in Calls(N)
  BY <1>0, <1>1 DEF Under, Calls
<1>3. \A v \in SUBSET N : Onward(a, v) \in Calls(N)
  BY DEF Onward, Calls
<1>4. n \notin a.visited => Weight(N, Under(parents, a)) < Weight(N, a)
  <2>1. n \notin a.visited => a.visited \subseteq Under(parents, a).visited /\ a.visited # Under(parents, a).visited
    BY DEF Under
  <2> QED BY <1>0, <1>2, <2>1, CallsWeigh
<1>5. Cardinality(a.todo \ {n}) < Cardinality(a.todo)
  <2>1. IsFiniteSet(a.todo)
    BY <1>0, FS_Subset DEF Calls
  <2>2. a.todo \ {n} \in SUBSET a.todo /\ a.todo \ {n} # a.todo
    BY <1>1
  <2>3. Cardinality(a.todo \ {n}) \in Nat /\ Cardinality(a.todo) \in Nat
    BY <2>1, <2>2, FS_Subset, FS_CardinalityType
  <2> QED BY <2>1, <2>2, <2>3, FS_Subset
<1>6. ASSUME NEW v \in SUBSET N, a.visited \subseteq v
      PROVE  Weight(N, Onward(a, v)) < Weight(N, a)
  <2>1. Onward(a, v).visited = v /\ Onward(a, v).todo = a.todo \ {n}
    BY DEF Onward
  <2> QED BY <1>0, <1>3, <1>5, <1>6, <2>1, CallsWeigh
<1> QED BY <1>1, <1>2, <1>3, <1>4, <1>6

(* A walk visits ids and forgets none. *)
LEMMA WalkGrows ==
  ASSUME NEW N, NEW parents, Graph(N, parents), NEW look, NEW k \in Nat, Walks(N, parents, look, k),
         NEW a \in Calls(N), Weight(N, a) < k
  PROVE  look[a] \in Answers(N) /\ a.visited \subseteq look[a].visited
<1> DEFINE Good(b) == look[b] \in Answers(N) /\ b.visited \subseteq look[b].visited
           Bad == {m \in Nat : \E b \in Calls(N) : m = Weight(N, b) /\ m < k /\ ~Good(b)}
<1>0. \A b \in Calls(N) : Weight(N, b) \in Nat
  BY CallsWeigh DEF Graph
<1> SUFFICES ASSUME Bad # {} PROVE FALSE
  BY <1>0
<1>1. PICK m \in Bad : \A l \in Bad : m <= l
  BY LeastNatural, Bad \subseteq Nat
<1>2. PICK b \in Calls(N) : m = Weight(N, b) /\ m < k /\ ~Good(b)
  OBVIOUS
<1>3. \A d \in Calls(N) : Weight(N, d) < m /\ Weight(N, d) < k => Good(d)
  BY <1>0, <1>1
<1>3a. \A d \in Calls(N) : Weight(N, d) < m => Good(d)
  BY <1>0, <1>2, <1>3
<1>4. look[b] = Look(parents, look, b)
  BY <1>2 DEF Walks
<1>5. b.visited \in SUBSET N
  BY DEF Calls
<1> HIDE DEF Bad
<1>6. CASE b.todo = {}
  BY <1>2, <1>4, <1>5, <1>6 DEF Look, Answers
<1>7. CASE b.todo # {}
  <2>1. /\ Under(parents, b) \in Calls(N)
        /\ Pick(b) \notin b.visited => Good(Under(parents, b))
        /\ \A v \in SUBSET N : b.visited \subseteq v =>
             Onward(b, v) \in Calls(N) /\ Good(Onward(b, v)) /\ Onward(b, v).visited = v
    <3>1. \A v : Onward(b, v).visited = v
      BY DEF Onward
    <3> HIDE DEF Good
    <3> QED BY <1>2, <1>3a, <1>7, <3>1, CallsMade
  <2>2. CASE Pick(b) \in b.path
    BY <1>2, <1>4, <1>5, <1>7, <2>2 DEF Look, Answers
  <2>3. CASE Pick(b) \in b.visited \ b.path
    <3>1. look[b] = look[Onward(b, b.visited)]
      BY <1>4, <1>7, <2>3 DEF Look
    <3> QED BY <3>1, <2>1, <1>2, <1>5
  <2>4. CASE Pick(b) \notin b.visited /\ Pick(b) \notin b.path
    <3> DEFINE d == Under(parents, b)
    <3>1. look[d] \in Answers(N) /\ b.visited \subseteq look[d].visited
      BY <2>1, <2>4 DEF Under
    <3>2. look[d].visited \in SUBSET N
      BY <3>1 DEF Answers
    <3>3. Good(Onward(b, look[d].visited)) /\ Onward(b, look[d].visited).visited = look[d].visited
      BY <2>1, <3>1, <3>2
    <3>4. look[b] = IF look[d].found THEN look[d] ELSE look[Onward(b, look[d].visited)]
      BY <1>4, <1>7, <2>4 DEF Look
    <3> QED BY <1>2, <3>1, <3>3, <3>4
  <2> QED BY <2>2, <2>3, <2>4
<1> QED BY <1>6, <1>7

(* Look asks about lighter calls only. *)
LEMMA LookIsLocal ==
  ASSUME NEW N, NEW parents, Graph(N, parents), NEW f, NEW g, NEW k \in Nat, Walks(N, parents, f, k),
         NEW a \in Calls(N), Weight(N, a) <= k,
         \A b \in Calls(N) : Weight(N, b) < Weight(N, a) => g[b] = f[b]
  PROVE  Look(parents, g, a) = Look(parents, f, a)
<1>0. \A b \in Calls(N) : Weight(N, b) \in Nat
  BY CallsWeigh DEF Graph
<1>1. CASE a.todo = {}
  BY <1>1 DEF Look
<1>2. CASE a.todo # {} /\ Pick(a) \in a.path
  BY <1>2 DEF Look
<1>3. CASE a.todo # {} /\ Pick(a) \in a.visited \ a.path
  <2>1. g[Onward(a, a.visited)] = f[Onward(a, a.visited)]
    BY <1>3, CallsMade DEF Calls
  <2> QED BY <1>3, <2>1 DEF Look
<1>4. CASE a.todo # {} /\ Pick(a) \notin a.visited /\ Pick(a) \notin a.path
  <2> DEFINE b == Under(parents, a)
  <2>1. b \in Calls(N) /\ Weight(N, b) < Weight(N, a) /\ g[b] = f[b]
    BY <1>4, CallsMade
  <2>2. f[b] \in Answers(N) /\ b.visited \subseteq f[b].visited
    <3>1. Weight(N, b) < k
      BY <1>0, <2>1
    <3> HIDE DEF b
    <3> QED BY <2>1, <3>1, WalkGrows
  <2>3. f[b].visited \in SUBSET N /\ a.visited \subseteq f[b].visited
    BY <2>2 DEF Answers, Under
  <2>4. g[Onward(a, f[b].visited)] = f[Onward(a, f[b].visited)]
    BY <1>4, <2>3, CallsMade
  <2> QED BY <1>4, <2>1, <2>4 DEF Look
<1> QED BY <1>1, <1>2, <1>3, <1>4

(* So there is a function that does it at every call, and Dfs is one. *)
LEMMA WalkExists ==
  ASSUME NEW N, NEW parents, Graph(N, parents), NEW k \in Nat
  PROVE  \E f \in [Calls(N) -> Answers(N)] : Walks(N, parents, f, k)
<1> DEFINE Ok(m) == \E f \in [Calls(N) -> Answers(N)] : Walks(N, parents, f, m)
           Bad == {m \in Nat : ~Ok(m)}
<1>0. \A b \in Calls(N) : Weight(N, b) \in Nat
  BY CallsWeigh DEF Graph
<1> SUFFICES ASSUME Bad # {} PROVE FALSE
  OBVIOUS
<1>1. PICK m \in Bad : \A l \in Bad : m <= l
  BY LeastNatural, Bad \subseteq Nat
<1>2. Ok(0)
  <2>1. \A b \in Calls(N) : ~(Weight(N, b) < 0)
    BY <1>0
  <2>2. [b \in Calls(N) |-> [found |-> FALSE, visited |-> {}]] \in [Calls(N) -> Answers(N)]
    BY DEF Answers
  <2> QED BY <2>1, <2>2 DEF Walks
<1>3. m # 0 /\ m - 1 \in Nat /\ m - 1 < m /\ m \in Nat /\ ~Ok(m)
  BY <1>2
<1>4. Ok(m - 1)
  BY <1>1, <1>3
<1> HIDE DEF Bad
<1>5. PICK f \in [Calls(N) -> Answers(N)] : Walks(N, parents, f, m - 1)
  BY <1>4
<1> DEFINE g == [b \in Calls(N) |-> IF Weight(N, b) < m THEN Look(parents, f, b) ELSE f[b]]
<1>6. ASSUME NEW b \in Calls(N)
      PROVE  Look(parents, f, b) \in Answers(N)
  <2>1. \A d \in Calls(N) : f[d] \in Answers(N) /\ f[d].visited \in SUBSET N /\ d.visited \in SUBSET N
    BY <1>5 DEF Answers, Calls
  <2>2. CASE b.todo = {}
    BY <2>1, <2>2 DEF Look, Answers
  <2>3. CASE b.todo # {}
    <3>1. Under(parents, b) \in Calls(N) /\ \A v \in SUBSET N : Onward(b, v) \in Calls(N)
      BY <2>3, CallsMade
    <3>2. Onward(b, b.visited) \in Calls(N) /\ Onward(b, f[Under(parents, b)].visited) \in Calls(N)
      BY <3>1, <2>1
    <3>3. [found |-> TRUE, visited |-> b.visited] \in Answers(N)
      BY <2>1 DEF Answers
    <3> QED BY <2>1, <2>3, <3>1, <3>2, <3>3 DEF Look
  <2> QED BY <2>2, <2>3
<1>7. g \in [Calls(N) -> Answers(N)]
  BY <1>5, <1>6
<1>8. \A b \in Calls(N) : Weight(N, b) < m - 1 => g[b] = f[b]
  <2> TAKE b \in Calls(N)
  <2>1. Weight(N, b) < m - 1 => Weight(N, b) < m
    BY <1>0, <1>3
  <2> QED BY <1>5, <2>1 DEF Walks
<1>9. ASSUME NEW b \in Calls(N), Weight(N, b) < m
      PROVE  g[b] = Look(parents, g, b)
  <2>1. g[b] = Look(parents, f, b)
    BY <1>9
  <2>2. Weight(N, b) <= m - 1
    BY <1>0, <1>3, <1>9
  <2>3. \A d \in Calls(N) : Weight(N, d) < Weight(N, b) => g[d] = f[d]
    <3> TAKE d \in Calls(N)
    <3>1. Weight(N, d) < Weight(N, b) => Weight(N, d) < m - 1
      BY <1>0, <1>3, <2>2
    <3> QED BY <1>8, <3>1
  <2> HIDE DEF g
  <2> QED BY <1>3, <1>5, <2>1, <2>2, <2>3, LookIsLocal
<1>10. Walks(N, parents, g, m)
  BY <1>9 DEF Walks
<1> HIDE DEF g
<1> QED BY <1>3, <1>7, <1>10

LEMMA DfsWalks ==
  ASSUME NEW N, NEW parents, Graph(N, parents), NEW k \in Nat
  PROVE  Walks(N, parents, Order!Dfs(parents), k)
<1> DEFINE top == (Cardinality(N) + 1) * Cardinality(N) + Cardinality(N)
<1>1. IsFiniteSet(N) /\ DOMAIN parents = N
  BY DEF Graph
<1>2. top \in Nat /\ top + 1 \in Nat
  <2>1. Cardinality(N) \in Nat
    BY <1>1, FS_CardinalityType
  <2> QED BY <2>1
<1> HIDE DEF top
<1>3. PICK f \in [Calls(N) -> Answers(N)] : Walks(N, parents, f, top + 1)
  BY <1>2, WalkExists
<1>4. \A a \in Calls(N) : Weight(N, a) < top + 1
  <2> TAKE a \in Calls(N)
  <2>1. Weight(N, a) \in Nat /\ Weight(N, a) <= top
    BY <1>1, CallsWeigh DEF top
  <2> QED BY <1>2, <2>1
<1>5. f = [a \in Calls(N) |-> Look(parents, f, a)]
  BY <1>3, <1>4 DEF Walks
<1>6. Order!Dfs(parents) = CHOOSE look : look = [a \in Calls(N) |-> Look(parents, look, a)]
  <2> DEFINE Deep(look, a) ==
               LET n == CHOOSE n \in a.todo : TRUE
                   rest == [a EXCEPT !.todo = @ \ {n}]
                   below == look[[path |-> a.path \cup {n}, visited |-> a.visited \cup {n},
                                  todo |-> parents[n]]]
               IN  IF a.todo = {} THEN [found |-> FALSE, visited |-> a.visited]
                   ELSE CASE n \in a.path -> [found |-> TRUE, visited |-> a.visited]
                          [] n \in a.visited \ a.path -> look[rest]
                          [] OTHER -> IF below.found THEN below
                                      ELSE look[[rest EXCEPT !.visited = below.visited]]
  <2>1. Order!Dfs(parents) = CHOOSE look : look = [a \in Calls(DOMAIN parents) |-> Deep(look, a)]
    BY Zenon DEF Order!Dfs, Calls
  <2>2. ASSUME NEW look, NEW a \in Calls(N)
        PROVE  Deep(look, a) = Look(parents, look, a)
    <3>1. a = [path |-> a.path, visited |-> a.visited, todo |-> a.todo]
      BY DEF Calls
    <3>2. PICK p, u, w : a = [path |-> p, visited |-> u, todo |-> w]
      BY <3>1
    <3>3. [a EXCEPT !.todo = @ \ {Pick(a)}] = Onward(a, a.visited)
      BY <3>2 DEF Onward
    <3>4. ASSUME NEW v
          PROVE  [[a EXCEPT !.todo = @ \ {Pick(a)}] EXCEPT !.visited = v] = Onward(a, v)
      <4>1. [a EXCEPT !.todo = @ \ {Pick(a)}] = [path |-> p, visited |-> u, todo |-> w \ {Pick(a)}]
        BY <3>2, <3>3 DEF Onward
      <4>2. Onward(a, v) = [path |-> p, visited |-> v, todo |-> w \ {Pick(a)}]
        BY <3>2 DEF Onward
      <4>3. \A r : r = [path |-> p, visited |-> u, todo |-> w \ {Pick(a)}]
                     => [r EXCEPT !.visited = v] = [path |-> p, visited |-> v, todo |-> w \ {Pick(a)}]
        OBVIOUS
      <4> QED BY <4>1, <4>2, <4>3, Zenon
    <3> QED BY <3>3, <3>4, Zenon DEF Look, Pick, Under
  <2> HIDE DEF Deep
  <2>3. ASSUME NEW look
        PROVE  [a \in Calls(N) |-> Deep(look, a)] = [a \in Calls(N) |-> Look(parents, look, a)]
    BY <2>2, Zenon
  <2> QED BY <1>1, <2>1, <2>3, Zenon
<1>7. \E look : look = [a \in Calls(N) |-> Look(parents, look, a)]
  BY <1>5
<1>8. Order!Dfs(parents) = [a \in Calls(N) |-> Look(parents, Order!Dfs(parents), a)]
  BY <1>6, <1>7, Zenon
<1> QED BY <1>8, Zenon DEF Walks

(* Ids whose parents are among them and that have no circle. *)
Settled(parents, D) ==
  /\ \A n \in D : parents[n] \subseteq D
  /\ \A S \in SUBSET D : ~Circle(parents, S)

LEMMA SettledGrows ==
  ASSUME NEW N, NEW parents, Graph(N, parents), NEW D \in SUBSET N, NEW n \in N, n \notin D,
         parents[n] \subseteq D, Settled(parents, D)
  PROVE  Settled(parents, D \cup {n})
<1>1. ASSUME NEW S \in SUBSET (D \cup {n}), Circle(parents, S) PROVE FALSE
  <2>1. \A x \in S \cap D : parents[x] \cap (S \cap D) # {}
    BY <1>1 DEF Circle, Settled
  <2>2. S \cap D # {}
    BY <1>1 DEF Circle
  <2>3. Circle(parents, S \cap D) /\ S \cap D \in SUBSET D
    BY <2>1, <2>2 DEF Circle
  <2> QED BY <2>3 DEF Settled
<1> QED BY <1>1 DEF Settled

(* If the walk finds nothing, what it has visited is settled, but for the path *)
(* it is on.                                                                   *)
LEMMA NothingFound ==
  ASSUME NEW N, NEW parents, Graph(N, parents), NEW a \in Calls(N),
         a.path \subseteq a.visited, Settled(parents, a.visited \ a.path),
         ~Order!Dfs(parents)[a].found
  PROVE  /\ a.todo \subseteq Order!Dfs(parents)[a].visited \ a.path
         /\ Settled(parents, Order!Dfs(parents)[a].visited \ a.path)
<1> DEFINE look == Order!Dfs(parents)
           Pre(b) == b.path \subseteq b.visited /\ Settled(parents, b.visited \ b.path) /\ ~look[b].found
           Good(b) == Pre(b) => /\ b.todo \subseteq look[b].visited \ b.path
                                /\ Settled(parents, look[b].visited \ b.path)
           Bad == {m \in Nat : \E b \in Calls(N) : m = Weight(N, b) /\ ~Good(b)}
<1>0. /\ \A b \in Calls(N) : Weight(N, b) \in Nat
      /\ parents \in [N -> SUBSET N]
  BY CallsWeigh DEF Graph
<1>0a. ASSUME NEW b \in Calls(N)
       PROVE  /\ look[b] = Look(parents, look, b)
              /\ look[b] \in Answers(N) /\ b.visited \subseteq look[b].visited
  <2>1. Weight(N, b) < Weight(N, b) + 1 /\ Weight(N, b) + 1 \in Nat
    BY <1>0
  <2>2. Walks(N, parents, look, Weight(N, b) + 1)
    BY <2>1, DfsWalks
  <2> HIDE DEF look
  <2> QED BY <2>1, <2>2, WalkGrows DEF Walks
<1> HIDE DEF look
<1> SUFFICES ASSUME Bad # {} PROVE FALSE
  <2>1. Weight(N, a) \in Nat
    BY <1>0
  <2> QED BY <2>1 DEF look
<1>1. PICK m \in Bad : \A l \in Bad : m <= l
  BY LeastNatural, Bad \subseteq Nat
<1>2. PICK b \in Calls(N) : m = Weight(N, b) /\ ~Good(b)
  OBVIOUS
<1>3. \A d \in Calls(N) : Weight(N, d) < Weight(N, b) => Good(d)
  <2> HIDE DEF Good
  <2> QED BY <1>0, <1>1, <1>2
<1> HIDE DEF Bad
<1>4. Pre(b) /\ b.visited \in SUBSET N /\ b.path \in SUBSET N
  BY <1>2 DEF Calls
<1>5. CASE b.todo = {}
  <2>1. look[b] = [found |-> FALSE, visited |-> b.visited]
    BY <1>0a, <1>5 DEF Look
  <2> QED BY <1>2, <1>4, <1>5, <2>1
<1>6. CASE b.todo # {}
  <2> DEFINE n == Pick(b)  d == Under(parents, b)
  <2>1. /\ n \in b.todo /\ n \in N /\ d \in Calls(N)
        /\ n \notin b.visited => Good(d)
        /\ \A v \in SUBSET N : b.visited \subseteq v =>
             Onward(b, v) \in Calls(N) /\ Good(Onward(b, v))
    <3> HIDE DEF Good
    <3> QED BY <1>3, <1>6, CallsMade
  <2>2. \A v : Onward(b, v).visited = v /\ Onward(b, v).path = b.path /\ Onward(b, v).todo = b.todo \ {n}
    BY DEF Onward
  <2>3. n \notin b.path
    <3>1. n \in b.path => look[b] = [found |-> TRUE, visited |-> b.visited]
      BY <1>0a, <1>6 DEF Look
    <3> QED BY <1>4, <3>1
  (* It goes on with what is left, once the first is settled. *)
  <2>4. ASSUME NEW v \in SUBSET N, b.visited \subseteq v, n \in v, Settled(parents, v \ b.path),
               look[b] = look[Onward(b, v)]
        PROVE  FALSE
    <3> DEFINE e == Onward(b, v)
    <3>1. e \in Calls(N) /\ Good(e) /\ e.visited = v /\ e.path = b.path /\ e.todo = b.todo \ {n}
      BY <2>1, <2>2, <2>4
    <3>2. v \subseteq look[e].visited
      BY <1>0a, <3>1
    <3> HIDE DEF e
    <3>3. Pre(e)
      BY <1>4, <2>4, <3>1 DEF e
    <3>4. b.todo \ {n} \subseteq look[b].visited \ b.path /\ Settled(parents, look[b].visited \ b.path)
      BY <2>4, <3>1, <3>3 DEF e
    <3>5. n \in look[b].visited \ b.path
      BY <2>3, <2>4, <3>2 DEF e
    <3> QED BY <1>2, <3>4, <3>5
  <2>5. CASE n \in b.visited
    <3>1. look[b] = look[Onward(b, b.visited)]
      BY <1>0a, <1>6, <2>3, <2>5 DEF Look
    <3> QED BY <1>4, <2>4, <2>5, <3>1
  <2>6. CASE n \notin b.visited
    <3>1. look[b] = IF look[d].found THEN look[d] ELSE look[Onward(b, look[d].visited)]
      BY <1>0a, <1>6, <2>3, <2>6 DEF Look
    <3>2. ~look[d].found /\ look[b] = look[Onward(b, look[d].visited)]
      BY <1>4, <3>1
    <3>3. d.path = b.path \cup {n} /\ d.visited = b.visited \cup {n} /\ d.todo = parents[n]
      BY DEF Under
    <3>4. look[d] \in Answers(N) /\ d.visited \subseteq look[d].visited /\ Good(d) /\ d \in Calls(N)
      BY <1>0a, <2>1, <2>6
    <3> HIDE DEF d
    <3>5. Pre(d)
      <4>1. d.visited \ d.path = b.visited \ b.path
        BY <2>6, <3>3
      <4> QED BY <1>4, <3>2, <3>3, <4>1
    <3> DEFINE v == look[d].visited
    <3>6. v \in SUBSET N /\ b.visited \subseteq v /\ n \in v
      BY <3>3, <3>4 DEF Answers
    <3>7. parents[n] \subseteq v \ d.path /\ Settled(parents, v \ d.path)
      BY <3>3, <3>4, <3>5
    <3>8. v \ b.path = (v \ d.path) \cup {n}
      BY <2>3, <3>3, <3>6
    <3>9. Settled(parents, v \ b.path)
      <4>1. v \ d.path \in SUBSET N /\ n \notin v \ d.path /\ n \in N
        BY <2>1, <3>3, <3>6
      <4> HIDE DEF v, n
      <4>2. Settled(parents, (v \ d.path) \cup {n})
        BY <3>7, <4>1, SettledGrows
      <4> QED BY <3>8, <4>2
    <3> QED BY <2>4, <3>2, <3>6, <3>9
  <2> QED BY <2>5, <2>6
<1> QED BY <1>5, <1>6

(* From every id on the path the walk has come to those it has still to look at. *)
Leads(parents, a) ==
  \A t \in a.todo, m \in a.path :
    \E S \in SUBSET a.path : m \in S /\ \A x \in S : parents[x] \cap (S \cup {t}) # {}

LEMMA SomethingFound ==
  ASSUME NEW N, NEW parents, Graph(N, parents), NEW a \in Calls(N), Leads(parents, a),
         Order!Dfs(parents)[a].found
  PROVE  \E S \in SUBSET N : Circle(parents, S)
<1> DEFINE look == Order!Dfs(parents)
           Good(b) == ~(Leads(parents, b) /\ look[b].found)
           Bad == {m \in Nat : \E b \in Calls(N) : m = Weight(N, b) /\ ~Good(b)}
<1>0. /\ \A b \in Calls(N) : Weight(N, b) \in Nat
      /\ parents \in [N -> SUBSET N]
  BY CallsWeigh DEF Graph
<1>0a. ASSUME NEW b \in Calls(N)
       PROVE  /\ look[b] = Look(parents, look, b)
              /\ look[b] \in Answers(N) /\ b.visited \subseteq look[b].visited
  <2>1. Weight(N, b) < Weight(N, b) + 1 /\ Weight(N, b) + 1 \in Nat
    BY <1>0
  <2>2. Walks(N, parents, look, Weight(N, b) + 1)
    BY <2>1, DfsWalks
  <2> HIDE DEF look
  <2> QED BY <2>1, <2>2, WalkGrows DEF Walks
<1> HIDE DEF look
<1>00. Bad # {}
  <2>1. Weight(N, a) \in Nat
    BY <1>0
  <2> QED BY <2>1 DEF look
<1>1. PICK m \in Bad : \A l \in Bad : m <= l
  BY <1>00, LeastNatural, Bad \subseteq Nat
<1>2. PICK b \in Calls(N) : m = Weight(N, b) /\ ~Good(b)
  OBVIOUS
<1>3. \A d \in Calls(N) : Weight(N, d) < Weight(N, b) => Good(d)
  BY <1>0, <1>1, <1>2
<1> HIDE DEF Bad
<1>4. Leads(parents, b) /\ look[b].found /\ b.visited \in SUBSET N /\ b.path \in SUBSET N
  BY <1>2 DEF Calls
<1>5. b.todo # {}
  <2>1. b.todo = {} => look[b] = [found |-> FALSE, visited |-> b.visited]
    BY <1>0a DEF Look
  <2> QED BY <1>4, <2>1
<1> DEFINE n == Pick(b)  d == Under(parents, b)
<1>6. /\ n \in b.todo /\ n \in N /\ d \in Calls(N)
      /\ n \notin b.visited => Good(d)
      /\ \A v \in SUBSET N : b.visited \subseteq v => Good(Onward(b, v))
  <2> HIDE DEF Good
  <2> QED BY <1>3, <1>5, CallsMade
<1>7. CASE n \in b.path
  <2>1. PICK S \in SUBSET b.path : n \in S /\ \A x \in S : parents[x] \cap (S \cup {n}) # {}
    BY <1>4, <1>6, <1>7 DEF Leads
  <2>2. S \cup {n} = S
    BY <2>1
  <2> QED BY <1>4, <2>1, <2>2 DEF Circle
<1>8. CASE n \notin b.path
  <2>1. \A v : Leads(parents, Onward(b, v))
    <3>1. \A v : Onward(b, v).path = b.path /\ Onward(b, v).todo \subseteq b.todo
      BY DEF Onward
    <3> QED BY <1>4, <3>1 DEF Leads
  <2>2. \A v \in SUBSET N : b.visited \subseteq v => ~look[Onward(b, v)].found
    BY <1>6, <2>1
  <2>3. n \notin b.visited
    BY <1>0a, <1>4, <1>5, <1>8, <2>2 DEF Look
  <2>4. look[b] = IF look[d].found THEN look[d] ELSE look[Onward(b, look[d].visited)]
    BY <1>0a, <1>5, <1>8, <2>3 DEF Look
  <2>5. look[d].visited \in SUBSET N /\ b.visited \subseteq look[d].visited
    <3>1. b.visited \subseteq d.visited
      BY DEF Under
    <3> QED BY <1>0a, <1>6, <3>1 DEF Answers
  <2>6. look[d].found
    BY <1>4, <2>2, <2>4, <2>5
  <2>7. Leads(parents, d)
    <3>1. d.path = b.path \cup {n} /\ d.todo = parents[n]
      BY DEF Under
    <3> HIDE DEF d
    <3> SUFFICES ASSUME NEW t \in d.todo, NEW x \in d.path
                 PROVE  \E S \in SUBSET d.path : x \in S /\ \A y \in S : parents[y] \cap (S \cup {t}) # {}
      BY DEF Leads
    <3>2. CASE x = n
      <4>1. {n} \in SUBSET d.path /\ n \in {n} /\ \A y \in {n} : t \in parents[y] \cap ({n} \cup {t})
        BY <3>1
      <4> HIDE DEF n
      <4> QED BY <3>2, <4>1
    <3>3. CASE x \in b.path
      <4>1. PICK S \in SUBSET b.path : x \in S /\ \A y \in S : parents[y] \cap (S \cup {n}) # {}
        BY <1>4, <1>6, <3>3 DEF Leads
      <4>2. S \cup {n} \in SUBSET d.path /\ x \in S \cup {n}
        BY <3>1, <4>1
      <4>3. \A y \in S \cup {n} : parents[y] \cap ((S \cup {n}) \cup {t}) # {}
        BY <3>1, <4>1
      <4> QED BY <4>2, <4>3
    <3> QED BY <3>1, <3>2, <3>3
  <2> QED BY <1>6, <2>3, <2>6, <2>7
<1> QED BY <1>7, <1>8

(* The walk from every id finds a circle exactly if there is one. *)
LEMMA CycleIsCircle ==
  ASSUME NEW N, NEW parents, Graph(N, parents)
  PROVE  Order!HasCycle(parents) <=> \E S \in SUBSET N : Circle(parents, S)
<1> DEFINE a == [path |-> {}, visited |-> {}, todo |-> N]
           look == Order!Dfs(parents)
<1>1. DOMAIN parents = N
  BY DEF Graph
<1>2. a \in Calls(N) /\ a.path = {} /\ a.visited = {} /\ a.todo = N
  BY DEF Calls
<1>3. Order!HasCycle(parents) <=> look[a].found
  BY <1>1 DEF Order!HasCycle
<1> HIDE DEF a, look
<1>4. look[a].found => \E S \in SUBSET N : Circle(parents, S)
  <2>1. Leads(parents, a)
    BY <1>2 DEF Leads
  <2> QED BY <1>2, <2>1, SomethingFound DEF look
<1>5. ~look[a].found => ~\E S \in SUBSET N : Circle(parents, S)
  <2> SUFFICES ASSUME ~look[a].found, NEW S \in SUBSET N, Circle(parents, S) PROVE FALSE
    OBVIOUS
  <2>1. Settled(parents, a.visited \ a.path)
    BY <1>2 DEF Settled, Circle
  <2>2. a.todo \subseteq look[a].visited \ a.path /\ Settled(parents, look[a].visited \ a.path)
    BY <1>2, <2>1, NothingFound DEF look
  <2>3. S \in SUBSET (look[a].visited \ a.path)
    BY <1>2, <2>2
  <2> QED BY <2>2, <2>3 DEF Settled
<1> QED BY <1>3, <1>4, <1>5

----------------------------------------------------------------------------
(* Kahn's algorithm. *)

(* The states of the sort, the first one and what a round makes of one. *)
Sorts(N) == [sorted : Seq(N), queue : Seq(N)]
Start(parents, order) ==
  [sorted |-> <<>>,
   queue |-> Picked(order, {i \in DOMAIN order : order[i] \in {n \in DOMAIN parents : parents[n] = {}}})]
Freed(parents, done, h) == {n \in DOMAIN parents : h \in parents[n] /\ parents[n] \subseteq Elements(done)}
Round(parents, order, s) ==
  IF s.queue = <<>> THEN s
  ELSE LET done == Append(s.sorted, Head(s.queue))
       IN  [sorted |-> done,
            queue |-> Tail(s.queue)
                        \o Picked(order, {i \in DOMAIN order : order[i] \in Freed(parents, done, Head(s.queue))})]

LEMMA RoundsStay ==
  ASSUME NEW N, NEW parents, Graph(N, parents), NEW order, Lists(order, N)
  PROVE  /\ Start(parents, order) \in Sorts(N)
         /\ \A s \in Sorts(N) : Round(parents, order, s) \in Sorts(N)
<1>0. DOMAIN parents = N
  BY DEF Graph
<1>1. ASSUME NEW P \in SUBSET N
      PROVE  Picked(order, {i \in DOMAIN order : order[i] \in P}) \in Seq(N)
  BY PickedLists, Lists(Picked(order, {i \in DOMAIN order : order[i] \in P}), P) DEF Lists
<1>2. Start(parents, order) \in Sorts(N)
  <2>1. {n \in DOMAIN parents : parents[n] = {}} \in SUBSET N
    BY <1>0
  <2>2. <<>> \in Seq(N)
    OBVIOUS
  <2>3. Picked(order, {i \in DOMAIN order : order[i] \in {n \in DOMAIN parents : parents[n] = {}}}) \in Seq(N)
    BY <1>1, <2>1
  <2> QED BY <2>2, <2>3, Zenon DEF Start, Sorts
<1>3. ASSUME NEW s \in Sorts(N)
      PROVE  Round(parents, order, s) \in Sorts(N)
  <2>0. s.sorted \in Seq(N) /\ s.queue \in Seq(N)
    BY DEF Sorts
  <2>1. CASE s.queue = <<>>
    BY <2>1 DEF Round
  <2>2. CASE s.queue # <<>>
    <3> DEFINE h == Head(s.queue)  done == Append(s.sorted, h)
               more == Picked(order, {i \in DOMAIN order : order[i] \in Freed(parents, done, h)})
    <3>1. h \in N /\ Tail(s.queue) \in Seq(N)
      BY <2>0, <2>2, Shorter
    <3>2. done \in Seq(N)
      BY <2>0, <3>1, Longer
    <3>3. more \in Seq(N)
      <4>1. Freed(parents, done, h) \in SUBSET N
        BY <1>0 DEF Freed
      <4> QED BY <1>1, <4>1
    <3>4. Tail(s.queue) \o more \in Seq(N)
      BY <3>1, <3>3, TwoJoined
    <3>5. Round(parents, order, s) = [sorted |-> done, queue |-> Tail(s.queue) \o more]
      BY <2>2 DEF Round
    <3> HIDE DEF done, more, h
    <3> QED BY <3>2, <3>4, <3>5 DEF Sorts
  <2> QED BY <2>1, <2>2
<1> QED BY <1>2, <1>3

LEMMA KahnRounds ==
  ASSUME NEW N, NEW parents, Graph(N, parents), NEW order, Lists(order, N)
  PROVE  \E run \in [0 .. Len(order) -> Sorts(N)] :
           /\ run[0] = Start(parents, order)
           /\ \A k \in 1 .. Len(order) : run[k] = Round(parents, order, run[k - 1])
           /\ Order!Kahn(parents, order) = run[Len(order)].sorted
<1> DEFINE n == Len(order)
           s0 == Start(parents, order)
           step == [c \in (1 .. n) \X Sorts(N) |-> Round(parents, order, c[2])]
<1>0. n \in Nat /\ DOMAIN parents = N /\ order \in Seq(N) /\ Elements(order) = N
  BY DEF Lists, Graph
<1>1. step \in [(1 .. n) \X Sorts(N) -> Sorts(N)] /\ s0 \in Sorts(N)
  BY RoundsStay
<1>2. PICK f : Stepwise(f, n, Sorts(N), s0, step)
  <2> HIDE DEF n, s0, step
  <2> QED BY <1>0, <1>1, StepsExist, Zenon
<1>2a. f \in [0 .. n -> Sorts(N)] /\ f[0] = s0 /\ \A k \in 1 .. n : f[k] = step[<<k, f[k - 1]>>]
  BY <1>2 DEF Stepwise
<1>3. ASSUME NEW k \in 0 .. n, k # 0
      PROVE  step[<<k, f[k - 1]>>] = Round(parents, order, f[k - 1])
  <2>1. k \in 1 .. n /\ k - 1 \in 0 .. n
    BY <1>0, <1>3
  <2>2. f[k - 1] \in Sorts(N)
    BY <1>2a, <2>1
  <2> QED BY <2>1, <2>2
<1>4. f = [k \in 0 .. n |-> IF k = 0 THEN s0 ELSE Round(parents, order, f[k - 1])]
  <2>1. \A k \in 0 .. n : f[k] = IF k = 0 THEN s0 ELSE Round(parents, order, f[k - 1])
    <3>1. \A k \in 0 .. n : k # 0 => k \in 1 .. n
      BY <1>0
    <3> HIDE DEF step, s0, n
    <3> QED BY <1>2a, <1>3, <3>1
  <2> QED BY <1>2a, <2>1
<1>5. \A g : (g = [k \in 0 .. n |-> IF k = 0 THEN s0 ELSE Round(parents, order, g[k - 1])]) => g = f
  <2> SUFFICES ASSUME NEW g, g = [k \in 0 .. n |-> IF k = 0 THEN s0 ELSE Round(parents, order, g[k - 1])]
               PROVE  g = f
    OBVIOUS
  <2> DEFINE G == {k \in 0 .. n : g[k] = f[k]}
  <2> HIDE DEF s0
  <2>1. 0 \in G /\ \A k \in 1 .. n : k - 1 \in G => k \in G
    <3>1. 0 \in 0 .. n /\ \A k \in 1 .. n : k \in 0 .. n /\ k # 0
      BY <1>0
    <3>2. g[0] = f[0]
      BY <1>4, <3>1
    <3>3. ASSUME NEW k \in 1 .. n, g[k - 1] = f[k - 1] PROVE g[k] = f[k]
      BY <1>4, <3>1, <3>3
    <3> QED BY <3>1, <3>2, <3>3
  <2>2. \A k \in 0 .. n : k \in G
    <3> HIDE DEF G, n
    <3> QED BY <1>0, <2>1, StepByStep
  <2> QED BY <1>4, <2>2
<1>6. Order!Kahn(parents, order) = f[n].sorted
  <2> DEFINE Deep(run, k) ==
               LET s == run[k - 1]
                   done == Append(s.sorted, Head(s.queue))
                   ready == {i \in DOMAIN order : /\ Head(s.queue) \in parents[order[i]]
                                                  /\ parents[order[i]] \subseteq Order!Range(done)}
               IN  IF k = 0 THEN [sorted |-> <<>>,
                                  queue |-> Order!Picked(order, {i \in DOMAIN order : parents[order[i]] = {}})]
                   ELSE IF s.queue = <<>> THEN s
                   ELSE [sorted |-> done, queue |-> Tail(s.queue) \o Order!Picked(order, ready)]
  <2>1. Order!Kahn(parents, order) = (CHOOSE run : run = [k \in 0 .. Len(order) |-> Deep(run, k)])[Len(order)].sorted
    BY Zenon DEF Order!Kahn
  <2>2. ASSUME NEW run, NEW k
        PROVE  Deep(run, k) = IF k = 0 THEN s0 ELSE Round(parents, order, run[k - 1])
    <3>0. \A i \in DOMAIN order : order[i] \in DOMAIN parents
      BY <1>0 DEF Elements
    <3>1. {i \in DOMAIN order : parents[order[i]] = {}}
            = {i \in DOMAIN order : order[i] \in {m \in DOMAIN parents : parents[m] = {}}}
      BY <3>0
    <3>2. ASSUME NEW done, NEW h
          PROVE  {i \in DOMAIN order : h \in parents[order[i]] /\ parents[order[i]] \subseteq Order!Range(done)}
                   = {i \in DOMAIN order : order[i] \in Freed(parents, done, h)}
      <4>1. Order!Range(done) = Elements(done)
        BY SameOrder
      <4> QED BY <3>0, <4>1 DEF Freed
    <3>3. \A S, s : Order!Picked(s, S) = Picked(s, S)
      BY SameOrder, Zenon
    <3> QED BY <3>1, <3>2, <3>3, Zenon DEF Start, Round
  <2> HIDE DEF Deep, s0
  <2>3. ASSUME NEW run
        PROVE  [k \in 0 .. n |-> Deep(run, k)]
                 = [k \in 0 .. n |-> IF k = 0 THEN s0 ELSE Round(parents, order, run[k - 1])]
    BY <2>2, Zenon
  <2> DEFINE R == CHOOSE run : run = [k \in 0 .. n |-> Deep(run, k)]
  <2>4. R = [k \in 0 .. n |-> Deep(R, k)]
    <3>1. f = [k \in 0 .. n |-> Deep(f, k)]
      BY <1>4, <2>3, Zenon
    <3> QED BY <3>1, Zenon
  <2>5. R = f
    BY <1>5, <2>3, <2>4, Zenon
  <2> QED BY <2>1, <2>5, Zenon
<1>7. f[0] = s0 /\ \A k \in 1 .. n : f[k] = Round(parents, order, f[k - 1])
  <2>1. 0 \in 0 .. n /\ \A k \in 1 .. n : k \in 0 .. n /\ k # 0
    BY <1>0
  <2> HIDE DEF s0, n
  <2> QED BY <1>4, <2>1
<1> QED BY <1>2a, <1>6, <1>7

(* Every id is sorted after its parents, and queued when they all are sorted. *)
After(parents, s) == \A a \in DOMAIN s : \A p \in parents[s[a]] : \E c \in DOMAIN s : c < a /\ s[c] = p
Sorted(N, parents, s) ==
  /\ s \in Sorts(N) /\ Once(s.sorted) /\ Once(s.queue) /\ After(parents, s.sorted)
  /\ Elements(s.sorted) \cap Elements(s.queue) = {}
  /\ \A n \in N : n \in Elements(s.sorted) \cup Elements(s.queue) <=> parents[n] \subseteq Elements(s.sorted)

LEMMA RoundSorts ==
  ASSUME NEW N, NEW parents, Graph(N, parents), NEW order, Lists(order, N),
         NEW s, Sorted(N, parents, s), s.queue # <<>>
  PROVE  /\ Sorted(N, parents, Round(parents, order, s))
         /\ Len(Round(parents, order, s).sorted) = Len(s.sorted) + 1
<1> DEFINE h == Head(s.queue)  done == Append(s.sorted, h)
           freed == Freed(parents, done, h)
           more == Picked(order, {i \in DOMAIN order : order[i] \in freed})
           rest == Tail(s.queue)
<1>0. /\ DOMAIN parents = N /\ \A n \in N : parents[n] \subseteq N
      /\ s.sorted \in Seq(N) /\ s.queue \in Seq(N)
  BY DEF Graph, Sorted, Sorts
<1>1. /\ h \in N /\ rest \in Seq(N) /\ Once(rest) /\ h \notin Elements(rest)
      /\ Elements(s.queue) = Elements(rest) \cup {h}
  BY <1>0, Shorter DEF Sorted
<1>2. h \notin Elements(s.sorted)
  BY <1>1 DEF Sorted
<1>3. /\ done \in Seq(N) /\ Elements(done) = Elements(s.sorted) \cup {h} /\ Once(done)
      /\ Len(done) = Len(s.sorted) + 1 /\ Len(s.sorted) \in Nat /\ DOMAIN s.sorted = 1 .. Len(s.sorted)
      /\ DOMAIN done = 1 .. Len(s.sorted) + 1 /\ done[Len(s.sorted) + 1] = h
      /\ \A k \in 1 .. Len(s.sorted) : done[k] = s.sorted[k]
  <2> HIDE DEF h
  <2> QED BY <1>0, <1>1, <1>2, Longer DEF Sorted
<1> HIDE DEF done, h, rest
<1>4. /\ freed \in SUBSET N
      /\ \A n \in N : n \in freed <=> h \in parents[n] /\ parents[n] \subseteq Elements(done)
  BY <1>0 DEF Freed
<1>5. more \in Seq(N) /\ Once(more) /\ Elements(more) = freed
  <2>1. Lists(more, freed)
    <3> HIDE DEF freed
    <3> QED BY <1>4, PickedLists
  <2> HIDE DEF more
  <2>2. more \in Seq(freed)
    BY <2>1 DEF Lists
  <2> HIDE DEF freed
  <2> QED BY <1>4, <2>1, <2>2 DEF Lists
<1> HIDE DEF freed, more
<1>6. Round(parents, order, s) = [sorted |-> done, queue |-> rest \o more]
  BY DEF Round, done, h, rest, more, freed
<1>7. \A n \in N : n \in Elements(s.sorted) \cup Elements(s.queue) <=> parents[n] \subseteq Elements(s.sorted)
  BY DEF Sorted
<1>8. Elements(rest) \cap freed = {} /\ Elements(done) \cap Elements(rest) = {} /\ Elements(done) \cap freed = {}
  <2>1. Elements(done) \cap Elements(rest) = {}
    BY <1>1, <1>3 DEF Sorted
  <2>2. ASSUME NEW n \in freed, n \in Elements(s.sorted) \cup Elements(s.queue) PROVE FALSE
    BY <1>2, <1>4, <1>7, <2>2
  <2> QED BY <1>1, <1>3, <2>1, <2>2
<1>9. /\ rest \o more \in Seq(N) /\ Elements(rest \o more) = Elements(rest) \cup freed
      /\ Once(rest \o more)
  BY <1>1, <1>5, <1>8, TwoJoined
<1>10. After(parents, done)
  <2> SUFFICES ASSUME NEW a \in DOMAIN done, NEW p \in parents[done[a]]
               PROVE  \E c \in DOMAIN done : c < a /\ done[c] = p
    BY DEF After
  <2>1. CASE a \in 1 .. Len(s.sorted)
    <3>1. PICK c \in DOMAIN s.sorted : c < a /\ s.sorted[c] = p
      BY <1>3, <2>1 DEF Sorted, After
    <3> QED BY <1>3, <3>1
  <2>2. CASE a = Len(s.sorted) + 1
    <3>1. p \in Elements(s.sorted)
      BY <1>1, <1>3, <1>7, <2>2
    <3>2. PICK c \in DOMAIN s.sorted : s.sorted[c] = p
      BY <3>1 DEF Elements
    <3> QED BY <1>3, <2>2, <3>2
  <2> QED BY <1>3, <2>1, <2>2
<1>11. ASSUME NEW n \in N
       PROVE  n \in Elements(done) \cup (Elements(rest) \cup freed) <=> parents[n] \subseteq Elements(done)
  <2>1. n \in Elements(done) \cup Elements(rest) <=> parents[n] \subseteq Elements(s.sorted)
    BY <1>1, <1>3, <1>7
  <2>2. parents[n] \subseteq Elements(done) <=> parents[n] \subseteq Elements(s.sorted) \/ n \in freed
    BY <1>3, <1>4
  <2> QED BY <2>1, <2>2
<1>12. Elements(done) \cap (Elements(rest) \cup freed) = {}
  BY <1>8
<1> DEFINE r == Round(parents, order, s)
<1>13. r.sorted = done /\ r.queue = rest \o more /\ r \in Sorts(N)
  BY <1>3, <1>6, <1>9 DEF Sorts
<1> HIDE DEF r
<1>14. Sorted(N, parents, r)
  BY <1>3, <1>9, <1>10, <1>11, <1>12, <1>13 DEF Sorted
<1> QED BY <1>3, <1>13, <1>14 DEF r

LEMMA StartSorts ==
  ASSUME NEW N, NEW parents, Graph(N, parents), NEW order, Lists(order, N)
  PROVE  Sorted(N, parents, Start(parents, order))
<1> DEFINE free == {n \in DOMAIN parents : parents[n] = {}}
           q == Picked(order, {i \in DOMAIN order : order[i] \in free})
<1>1. free \in SUBSET N /\ \A n \in N : n \in free <=> parents[n] = {}
  BY DEF Graph
<1> HIDE DEF free
<1>2. Lists(q, free)
  BY <1>1, PickedLists
<1>3. Start(parents, order) = [sorted |-> <<>>, queue |-> q]
  BY DEF Start, q, free
<1> HIDE DEF q
<1>4. q \in Seq(N) /\ Once(q) /\ Elements(q) = free
  <2>1. q \in Seq(free)
    BY <1>2 DEF Lists
  <2> QED BY <1>1, <1>2, <2>1 DEF Lists
<1>5. <<>> \in Seq(N) /\ Elements(<<>>) = {} /\ Once(<<>>) /\ After(parents, <<>>)
  BY DEF Elements, Once, After
<1> QED BY <1>1, <1>3, <1>4, <1>5 DEF Sorted, Sorts

(* What the sort returns: no id twice, every id after its parents, and all of *)
(* them if there is no circle.                                                *)
LEMMA KahnSorts ==
  ASSUME NEW N, NEW parents, Graph(N, parents), NEW order, Lists(order, N)
  PROVE  /\ Order!Kahn(parents, order) \in Seq(N) /\ Once(Order!Kahn(parents, order))
         /\ After(parents, Order!Kahn(parents, order))
         /\ (~ \E S \in SUBSET N : Circle(parents, S)) => Elements(Order!Kahn(parents, order)) = N
<1>1. PICK run \in [0 .. Len(order) -> Sorts(N)] :
           /\ run[0] = Start(parents, order)
           /\ \A k \in 1 .. Len(order) : run[k] = Round(parents, order, run[k - 1])
           /\ Order!Kahn(parents, order) = run[Len(order)].sorted
  BY KahnRounds
<1> DEFINE Good(k) == /\ Sorted(N, parents, run[k])
                      /\ k <= Len(run[k].sorted) \/ run[k].queue = <<>>
           G == {k \in 0 .. Len(order) : Good(k)}
<1>2. Len(order) \in Nat /\ IsFiniteSet(N)
  BY DEF Lists, Graph
<1>3. Good(0)
  <2>1. Sorted(N, parents, run[0])
    BY <1>1, StartSorts
  <2>2. run[0].sorted \in Seq(N)
    BY <2>1 DEF Sorted, Sorts
  <2>3. 0 <= Len(run[0].sorted)
    BY <2>2
  <2> QED BY <2>1, <2>3
<1>4. ASSUME NEW k \in 1 .. Len(order), Good(k - 1)
      PROVE  Good(k)
  <2>0. run[k] = Round(parents, order, run[k - 1]) /\ k - 1 \in Nat /\ k \in Nat
    BY <1>1, <1>2
  <2>1. CASE run[k - 1].queue = <<>>
    <3>1. run[k] = run[k - 1]
      BY <2>0, <2>1 DEF Round
    <3> QED BY <1>4, <2>1, <3>1
  <2>2. CASE run[k - 1].queue # <<>>
    <3>1. Sorted(N, parents, run[k]) /\ Len(run[k].sorted) = Len(run[k - 1].sorted) + 1
      BY <1>4, <2>0, <2>2, RoundSorts
    <3>2. Len(run[k - 1].sorted) \in Nat
      BY <1>4 DEF Sorted, Sorts
    <3> QED BY <1>4, <2>0, <2>2, <3>1, <3>2
  <2> QED BY <2>1, <2>2
<1>5. \A k \in 0 .. Len(order) : k \in G
  <2> HIDE DEF Good
  <2>1. 0 \in G /\ \A k \in 1 .. Len(order) : k - 1 \in G => k \in G
    BY <1>2, <1>3, <1>4
  <2> HIDE DEF G
  <2> QED BY <1>2, <2>1, StepByStep
<1> DEFINE s == run[Len(order)]
<1>6. Sorted(N, parents, s) /\ (Len(order) <= Len(s.sorted) \/ s.queue = <<>>)
  <2>1. Len(order) \in Nat /\ Len(order) \in 0 .. Len(order)
    BY <1>2
  <2> QED BY <1>5, <2>1
<1> HIDE DEF s, Good, G
<1>7. s.sorted \in Seq(N) /\ s.queue \in Seq(N) /\ Once(s.sorted) /\ After(parents, s.sorted)
  BY <1>6 DEF Sorted, Sorts
<1>8. s.queue = <<>>
  <2> SUFFICES ASSUME s.queue # <<>> PROVE FALSE
    OBVIOUS
  <2>1. Sorted(N, parents, Round(parents, order, s))
        /\ Len(Round(parents, order, s).sorted) = Len(s.sorted) + 1
    BY <1>6, RoundSorts
  <2>2. Len(Round(parents, order, s).sorted) <= Cardinality(N)
    BY <1>2, <2>1, OnceFits DEF Sorted, Sorts
  <2>3. Len(order) = Cardinality(N) /\ Len(s.sorted) \in Nat
    BY <1>2, <1>7, ListsFill
  <2> QED BY <1>2, <1>6, <2>1, <2>2, <2>3
<1>9. ASSUME Elements(s.sorted) # N
      PROVE  \E S \in SUBSET N : Circle(parents, S)
  <2>0. Elements(s.queue) = {} /\ Elements(s.sorted) \subseteq N
    BY <1>7, <1>8 DEF Elements
  <2> DEFINE S == N \ Elements(s.sorted)
  <2>1. \A n \in S : ~(parents[n] \subseteq Elements(s.sorted)) /\ parents[n] \subseteq N
    BY <1>6, <2>0 DEF Sorted, Graph
  <2>2. \A n \in S : parents[n] \cap S # {}
    BY <2>1
  <2>3. S # {} /\ S \in SUBSET N
    BY <1>9, <2>0
  <2> QED BY <2>2, <2>3 DEF Circle
<1> QED BY <1>1, <1>7, <1>9 DEF s

----------------------------------------------------------------------------
(* The plan of a batch. *)

\* A fetched batch.
RowsFetched == \E n \in Nat \ {0} : rows \in [1 .. n -> Order!Row]

LEMMA FetchedRows ==
  ASSUME RowsFetched, Order!OrderAssumption
  PROVE  /\ rows \in Seq(Order!Row) /\ DOMAIN rows \subseteq Nat /\ IsFiniteSet(DOMAIN rows)
         /\ 1 \in DOMAIN rows
         /\ \A i \in DOMAIN rows : /\ rows[i].id \in Order!Nodes /\ rows[i].refs \subseteq Order!Nodes
                                   /\ rows[i].group \in Groups \cup {NoValue}
         /\ IsFiniteSet(Order!Nodes) /\ NoValue \notin Groups
<1>1. PICK n \in Nat \ {0} : rows \in [1 .. n -> Order!Row]
  BY DEF RowsFetched
<1>2. IsFiniteSet(1 .. n)
  BY FS_Interval
<1>3. DOMAIN rows = 1 .. n /\ 1 \in 1 .. n /\ rows \in Seq(Order!Row)
  BY <1>1
<1>4. IsFiniteSet(Order!Nodes) /\ NoValue \notin Groups
  <2>1. IsFiniteSet(OrderIds) /\ NoValue \notin Groups
    <3>1. Order!IsFiniteSet(OrderIds) = IsFiniteSet(OrderIds)
      BY SameOrder, Zenon
    <3>2. Order!IsFiniteSet(OrderIds) /\ NoValue \notin Groups
      BY DEF Order!OrderAssumption
    <3> QED BY <3>1, <3>2
  <2> QED BY <2>1, FS_AddElement DEF Order!Nodes
<1>5. ASSUME NEW i \in DOMAIN rows
      PROVE  /\ rows[i].id \in Order!Nodes /\ rows[i].refs \subseteq Order!Nodes
             /\ rows[i].group \in Groups \cup {NoValue}
  <2>1. rows[i] \in Order!Row
    BY <1>1
  <2>2. \A r \in Order!Row : r.id \in Order!Nodes /\ r.refs \subseteq Order!Nodes /\ r.group \in Groups \cup {NoValue}
    <3> HIDE DEF Order!Nodes
    <3> QED BY DEF Order!Row
  <2> QED BY <2>1, <2>2
<1>6. \A k \in 1 .. n : k \in Nat
  OBVIOUS
<1> QED BY <1>2, <1>3, <1>4, <1>5, <1>6

(* The graph of a group is the one of its rows' references. *)
LEMMA GroupGraph ==
  ASSUME RowsFetched, Order!OrderAssumption, NEW S \in SUBSET (DOMAIN rows)
  PROVE  /\ Graph(Order!IdsOf(S), Order!Parents(S)) /\ Order!IdsOf(S) \in SUBSET Order!Nodes
         /\ \A a, b \in Order!IdsOf(S) : b \in Order!Parents(S)[a] <=> Order!Refers(S, a, b)
         /\ \A i, j \in S : rows[j].id \in rows[i].refs /\ rows[j].id # rows[i].id
              => rows[j].id \in Order!Parents(S)[rows[i].id]
<1> DEFINE N == Order!IdsOf(S)
           Of(n) == {j \in S : rows[j].id = n}
<1>1. N \in SUBSET Order!Nodes /\ IsFiniteSet(N)
  <2>1. N \in SUBSET Order!Nodes
    BY FetchedRows DEF Order!IdsOf
  <2> QED BY <2>1, FetchedRows, FS_Subset
<1>1a. \A i \in S : rows[i].id \in N
  BY DEF Order!IdsOf
<1>2. Order!Parents(S) = [n \in N |-> (UNION {rows[i].refs : i \in Of(n)}) \cap (N \ {n})]
  BY Zenon DEF Order!Parents, N, Of
<1> HIDE DEF N
<1>3. Order!Parents(S) \in [N -> SUBSET N]
  BY <1>2
<1>4. ASSUME NEW a \in N, NEW b
      PROVE  b \in Order!Parents(S)[a] <=> b # a /\ b \in N /\ \E i \in S : rows[i].id = a /\ b \in rows[i].refs
  <2>1. Order!Parents(S)[a] = (UNION {rows[i].refs : i \in Of(a)}) \cap (N \ {a})
    BY <1>2
  <2> QED BY <2>1
<1>5. \A b : b \in N <=> \E j \in S : rows[j].id = b
  BY DEF N, Order!IdsOf
<1>6. \A a, b \in N : b \in Order!Parents(S)[a] <=> Order!Refers(S, a, b)
  BY <1>4, <1>5 DEF Order!Refers
<1> QED BY <1>1, <1>1a, <1>3, <1>4, <1>6 DEF Graph, N

LEMMA GroupCircular ==
  ASSUME RowsFetched, Order!OrderAssumption, NEW S \in SUBSET (DOMAIN rows)
  PROVE  Order!HasCycle(Order!Parents(S)) <=> Order!Circular(S, Order!Nodes)
<1> DEFINE N == Order!IdsOf(S)  parents == Order!Parents(S)
<1>1. /\ Graph(N, parents) /\ N \in SUBSET Order!Nodes
      /\ \A a, b \in N : b \in parents[a] <=> Order!Refers(S, a, b)
  BY GroupGraph
<1>2. \A a, b : Order!Refers(S, a, b) => a \in N /\ b \in N
  BY DEF Order!Refers, Order!IdsOf
<1> HIDE DEF N, parents
<1>3. Order!HasCycle(parents) <=> \E C \in SUBSET N : Circle(parents, C)
  BY <1>1, CycleIsCircle
<1>4. ASSUME NEW C \in SUBSET N, Circle(parents, C)
      PROVE  Order!Circular(S, Order!Nodes)
  <2>1. C \in (SUBSET Order!Nodes) \ {{}}
    BY <1>1, <1>4 DEF Circle
  <2>2. \A a \in C : \E b \in C : Order!Refers(S, a, b)
    BY <1>1, <1>4 DEF Circle
  <2> QED BY <2>1, <2>2 DEF Order!Circular
<1>5. ASSUME Order!Circular(S, Order!Nodes)
      PROVE  \E C \in SUBSET N : Circle(parents, C)
  <2>1. PICK C \in (SUBSET Order!Nodes) \ {{}} : \A a \in C : \E b \in C : Order!Refers(S, a, b)
    BY <1>5 DEF Order!Circular
  <2>2. C \in SUBSET N
    BY <1>2, <2>1
  <2>3. Circle(parents, C)
    BY <1>1, <2>1, <2>2 DEF Circle
  <2> QED BY <2>2, <2>3
<1> QED BY <1>3, <1>4, <1>5 DEF parents

LEMMA LastOfGroup ==
  ASSUME RowsFetched, Order!OrderAssumption, NEW S \in SUBSET (DOMAIN rows), NEW n \in Order!IdsOf(S)
  PROVE  Order!LastOf(S, n) \in S /\ rows[Order!LastOf(S, n)].id = n
<1> DEFINE Of == {j \in S : rows[j].id = n}
<1>1. Of \in SUBSET (DOMAIN rows) /\ Of # {}
  BY DEF Order!IdsOf
<1>2. Of \in SUBSET Nat /\ IsFiniteSet(Of)
  <2> HIDE DEF Of
  <2> QED BY <1>1, FetchedRows, FS_Subset
<1>3. PICK m \in Of : \A k \in Of : m >= k
  <2> HIDE DEF Of
  <2> QED BY <1>1, <1>2, LargestNatural
<1>4. m \in S /\ rows[m].id = n /\ \A j \in S : rows[j].id = n => j <= m
  BY <1>2, <1>3
<1> QED BY <1>4, Zenon DEF Order!LastOf

(* What is planned for the rows S of a group: nothing if their references go   *)
(* in a circle; otherwise one row of each id, after those it names.            *)
LEMMA GroupPlanned ==
  ASSUME RowsFetched, Order!OrderAssumption, NEW S \in SUBSET (DOMAIN rows),
         NEW order, Lists(order, Order!Nodes), NEW g, g = Order!GroupPlan(S, order)
  PROVE  /\ g \in Seq(S)
         /\ \A k, l \in DOMAIN g : rows[g[k]].id = rows[g[l]].id => k = l
         /\ \A k, l \in DOMAIN g : rows[g[l]].id \in rows[g[k]].refs /\ rows[g[l]].id # rows[g[k]].id => l < k
         /\ Order!Circular(S, Order!Nodes) => g = <<>>
         /\ ~Order!Circular(S, Order!Nodes) => \A i \in S : \E l \in DOMAIN g : rows[g[l]].id = rows[i].id
<1> DEFINE N == Order!IdsOf(S)  parents == Order!Parents(S)
           P == {k \in DOMAIN order : order[k] \in N}
           own == Picked(order, P)
           ids == Order!Kahn(parents, own)
<1>1. /\ Graph(N, parents) /\ N \in SUBSET Order!Nodes
      /\ \A i, j \in S : rows[j].id \in rows[i].refs /\ rows[j].id # rows[i].id
              => rows[j].id \in parents[rows[i].id]
  BY GroupGraph
<1>1a. \A i \in S : rows[i].id \in N
  BY DEF Order!IdsOf
<1>1b. \A n \in N : Order!LastOf(S, n) \in S /\ rows[Order!LastOf(S, n)].id = n
  BY LastOfGroup
<1>2. g = IF Order!HasCycle(parents) THEN <<>> ELSE [k \in DOMAIN ids |-> Order!LastOf(S, ids[k])]
  <2>1. Order!Picked(order, P) = Picked(order, P)
    BY SameOrder, Zenon
  <2> QED BY <2>1, Zenon DEF Order!GroupPlan
<1>3. Order!HasCycle(parents) <=> Order!Circular(S, Order!Nodes)
  BY GroupCircular
<1>3a. Order!HasCycle(parents) <=> \E C \in SUBSET N : Circle(parents, C)
  <2> HIDE DEF N, parents
  <2> QED BY <1>1, CycleIsCircle
<1> HIDE DEF N, parents
<1>4. Lists(own, N)
  BY <1>1, PickedLists
<1> HIDE DEF own
<1>5. /\ ids \in Seq(N) /\ Once(ids) /\ After(parents, ids)
      /\ (~ \E C \in SUBSET N : Circle(parents, C)) => Elements(ids) = N
  BY <1>1, <1>4, KahnSorts
<1> HIDE DEF ids
<1>6. CASE Order!HasCycle(parents)
  BY <1>2, <1>3, <1>6 DEF parents
<1>7. CASE ~Order!HasCycle(parents)
  <2>1. g = [k \in DOMAIN ids |-> Order!LastOf(S, ids[k])]
    BY <1>2, <1>7
  <2>2. ids \in [1 .. Len(ids) -> N] /\ Len(ids) \in Nat /\ DOMAIN ids = 1 .. Len(ids)
    BY <1>5
  <2>3. /\ DOMAIN g = DOMAIN ids
        /\ \A k \in DOMAIN g : g[k] \in S /\ rows[g[k]].id = ids[k]
    BY <1>1b, <2>1, <2>2
  <2>4. g \in Seq(S)
    <3>1. g \in [1 .. Len(ids) -> S]
      BY <1>1b, <2>1, <2>2
    <3> QED BY <2>2, <3>1
  <2>5. \A k, l \in DOMAIN g : rows[g[k]].id = rows[g[l]].id => k = l
    BY <1>5, <2>3 DEF Once
  <2>6. ASSUME NEW k \in DOMAIN g, NEW l \in DOMAIN g,
               rows[g[l]].id \in rows[g[k]].refs, rows[g[l]].id # rows[g[k]].id
        PROVE  l < k
    <3>1. ids[l] \in parents[ids[k]]
      BY <1>1, <2>3, <2>6
    <3>2. PICK c \in DOMAIN ids : c < k /\ ids[c] = ids[l]
      BY <1>5, <2>3, <3>1 DEF After
    <3>3. c = l
      BY <1>5, <2>3, <3>2 DEF Once
    <3> QED BY <3>2, <3>3
  <2>7. ASSUME NEW i \in S
        PROVE  \E l \in DOMAIN g : rows[g[l]].id = rows[i].id
    <3>1. rows[i].id \in Elements(ids)
      BY <1>1a, <1>3a, <1>5, <1>7
    <3> QED BY <2>3, <3>1 DEF Elements
  <2>8. ~Order!Circular(S, Order!Nodes)
    BY <1>3, <1>7 DEF parents
  <2> QED BY <2>4, <2>5, <2>6, <2>7, <2>8
<1> QED BY <1>6, <1>7

GroupAt(s, p) == rows[s[p]].group
IdAt(s, p) == rows[s[p]].id

(* Rows of one group in s have different ids and come after those they name.   *)
InTurn(s, p, q) ==
  /\ IdAt(s, p) = IdAt(s, q) => p = q
  /\ IdAt(s, q) \in rows[s[p]].refs /\ IdAt(s, q) # IdAt(s, p) => q < p

(* What s has of group g: nothing if its references go in a circle, otherwise  *)
(* one row of each id.                                                         *)
Judged(s, g) ==
  /\ Order!Circular(Order!InGroup(g), Order!Nodes) => \A p \in DOMAIN s : GroupAt(s, p) # g
  /\ ~Order!Circular(Order!InGroup(g), Order!Nodes) =>
       \A i \in Order!InGroup(g) : \E p \in DOMAIN s : GroupAt(s, p) = g /\ IdAt(s, p) = rows[i].id

(* The plan of the groups in D. *)
Planning(s, D) ==
  /\ s \in Seq(DOMAIN rows) /\ \A p \in DOMAIN s : GroupAt(s, p) \in D
  /\ \A p, q \in DOMAIN s : GroupAt(s, p) = GroupAt(s, q) => InTurn(s, p, q)
  /\ \A g \in D : Judged(s, g)

LEMMA GroupJoins ==
  ASSUME RowsFetched, Order!OrderAssumption, NEW order, Lists(order, Order!Nodes),
         NEW s, NEW D, Planning(s, D), NEW g, g \notin D
  PROVE  Planning(s \o Order!GroupPlan(Order!InGroup(g), order), D \cup {g})
<1> DEFINE S == Order!InGroup(g)  t == Order!GroupPlan(S, order)  u == s \o t
<1>1. S \in SUBSET (DOMAIN rows) /\ \A i \in DOMAIN rows : i \in S <=> rows[i].group = g
  BY DEF Order!InGroup
<1> HIDE DEF S
<1>2. /\ t \in Seq(S)
      /\ \A k, l \in DOMAIN t : rows[t[k]].id = rows[t[l]].id => k = l
      /\ \A k, l \in DOMAIN t : rows[t[l]].id \in rows[t[k]].refs /\ rows[t[l]].id # rows[t[k]].id => l < k
      /\ Order!Circular(S, Order!Nodes) => t = <<>>
      /\ ~Order!Circular(S, Order!Nodes) => \A i \in S : \E l \in DOMAIN t : rows[t[l]].id = rows[i].id
  BY <1>1, GroupPlanned
<1> HIDE DEF t
<1>3. t \in Seq(DOMAIN rows) /\ \A p \in DOMAIN t : t[p] \in S /\ rows[t[p]].group = g
  <2>1. \A p \in DOMAIN t : t[p] \in S
    BY <1>2
  <2>2. t \in Seq(DOMAIN rows)
    BY <1>1, <1>2
  <2> QED BY <1>1, <2>1, <2>2
<1>4. /\ s \in Seq(DOMAIN rows) /\ \A p \in DOMAIN s : rows[s[p]].group \in D /\ rows[s[p]].group # g
      /\ \A p, q \in DOMAIN s : GroupAt(s, p) = GroupAt(s, q) => InTurn(s, p, q)
      /\ \A d \in D : Judged(s, d) /\ d # g
  BY DEF Planning, GroupAt
<1>5. /\ u \in Seq(DOMAIN rows)
      /\ \A k \in DOMAIN u : \/ k \in DOMAIN s /\ u[k] = s[k]
                             \/ k - Len(s) \in DOMAIN t /\ u[k] = t[k - Len(s)] /\ k > Len(s)
      /\ Len(s) \in Nat /\ DOMAIN s = 1 .. Len(s) /\ DOMAIN u \subseteq Nat
      /\ \A k \in DOMAIN s : k \in DOMAIN u /\ u[k] = s[k]
      /\ \A k \in DOMAIN t : k + Len(s) \in DOMAIN u /\ u[k + Len(s)] = t[k]
  BY <1>3, <1>4, TwoJoined
<1> HIDE DEF u
<1>6. ASSUME NEW p \in DOMAIN u
      PROVE  GroupAt(u, p) \in D \cup {g}
  BY <1>3, <1>4, <1>5 DEF GroupAt
<1>7. ASSUME NEW p \in DOMAIN u, NEW q \in DOMAIN u, GroupAt(u, p) = GroupAt(u, q)
      PROVE  InTurn(u, p, q)
  <2>1. CASE p \in DOMAIN s /\ u[p] = s[p] /\ q \in DOMAIN s /\ u[q] = s[q]
    BY <1>4, <1>7, <2>1 DEF InTurn, GroupAt, IdAt
  <2>2. CASE /\ p - Len(s) \in DOMAIN t /\ u[p] = t[p - Len(s)]
             /\ q - Len(s) \in DOMAIN t /\ u[q] = t[q - Len(s)]
    <3> DEFINE k == p - Len(s)  l == q - Len(s)
    <3>1. (k = l => p = q) /\ (l < k => q < p)
      BY <1>5
    <3>2. k \in DOMAIN t /\ l \in DOMAIN t /\ u[p] = t[k] /\ u[q] = t[l]
      BY <2>2
    <3> HIDE DEF k, l
    <3> QED BY <1>2, <3>1, <3>2 DEF InTurn, IdAt
  <2>3. CASE p \in DOMAIN s /\ u[p] = s[p] /\ q - Len(s) \in DOMAIN t /\ u[q] = t[q - Len(s)]
    BY <1>3, <1>4, <1>7, <2>3 DEF GroupAt
  <2>4. CASE p - Len(s) \in DOMAIN t /\ u[p] = t[p - Len(s)] /\ q \in DOMAIN s /\ u[q] = s[q]
    BY <1>3, <1>4, <1>7, <2>4 DEF GroupAt
  <2> QED BY <1>5, <2>1, <2>2, <2>3, <2>4
<1>8. ASSUME NEW d \in D
      PROVE  Judged(u, d)
  <2>1. Judged(s, d) /\ d # g
    BY <1>4
  <2>2. \A p \in DOMAIN u : rows[u[p]].group = d => p \in DOMAIN s /\ u[p] = s[p]
    BY <1>3, <1>5, <2>1
  <2> QED BY <1>5, <2>1, <2>2 DEF Judged, GroupAt, IdAt
<1>9. Judged(u, g)
  <2>1. CASE Order!Circular(S, Order!Nodes)
    <3>1. DOMAIN t = {}
      BY <1>2, <2>1
    <3>2. \A p \in DOMAIN u : rows[u[p]].group # g
      BY <1>4, <1>5, <3>1
    <3> QED BY <2>1, <3>2 DEF Judged, GroupAt, S
  <2>2. CASE ~Order!Circular(S, Order!Nodes)
    <3>1. ASSUME NEW i \in S
          PROVE  \E p \in DOMAIN u : rows[u[p]].group = g /\ rows[u[p]].id = rows[i].id
      <4>1. PICK l \in DOMAIN t : rows[t[l]].id = rows[i].id
        BY <1>2, <2>2
      <4> QED BY <1>3, <1>5, <4>1
    <3> QED BY <2>2, <3>1 DEF Judged, GroupAt, IdAt, S
  <2> QED BY <2>1, <2>2
<1>10. Planning(u, D \cup {g})
  BY <1>5, <1>6, <1>7, <1>8, <1>9 DEF Planning
<1> QED BY <1>10 DEF u, t, S

(* The first rows of the groups. *)
HeadsAt == {i \in DOMAIN rows : rows[i].group # NoValue
                                /\ i = Order!First(Order!InGroup(rows[i].group))}
Heads == Picked(rows, HeadsAt)

LEMMA HeadsOfGroups ==
  ASSUME RowsFetched, Order!OrderAssumption
  PROVE  /\ Heads \in Seq(Order!Row)
         /\ \A k, l \in DOMAIN Heads : Heads[k].group = Heads[l].group => k = l
         /\ \A k \in DOMAIN Heads : Heads[k].group # NoValue
         /\ \A i \in DOMAIN rows : rows[i].group # NoValue => \E k \in DOMAIN Heads : Heads[k].group = rows[i].group
<1>1. rows \in Seq(Order!Row) /\ DOMAIN rows \subseteq Nat /\ HeadsAt \in SUBSET (DOMAIN rows)
  BY FetchedRows DEF HeadsAt
<1>2. /\ Heads \in Seq(Order!Row) /\ DOMAIN Heads = 1 .. Cardinality(HeadsAt)
      /\ \A k \in 1 .. Cardinality(HeadsAt) : Ascending(HeadsAt)[k] \in HeadsAt /\ Heads[k] = rows[Ascending(HeadsAt)[k]]
      /\ \A i \in HeadsAt : Place(HeadsAt, i) \in 1 .. Cardinality(HeadsAt) /\ Heads[Place(HeadsAt, i)] = rows[i]
      /\ \A k, l \in 1 .. Cardinality(HeadsAt) : Ascending(HeadsAt)[k] = Ascending(HeadsAt)[l] => k = l
  <2> HIDE DEF HeadsAt
  <2> QED BY <1>1, PickedOf DEF Heads
<1>3. \A i, j \in HeadsAt : rows[i].group = rows[j].group => i = j
  BY DEF HeadsAt
<1>4. \A i \in HeadsAt : rows[i].group # NoValue
  BY DEF HeadsAt
<1>5. ASSUME NEW i \in DOMAIN rows, rows[i].group # NoValue
      PROVE  \E h \in HeadsAt : rows[h].group = rows[i].group
  <2> DEFINE S == Order!InGroup(rows[i].group)  h == Order!First(S)
  <2>1. i \in S /\ S \subseteq DOMAIN rows /\ \A j \in S : rows[j].group = rows[i].group
    BY DEF Order!InGroup
  <2> HIDE DEF S
  <2>2. \E j \in S : \A k \in S : j <= k
    BY <1>1, <2>1, LeastNatural
  <2>3. h \in S
    BY <2>2, Zenon DEF Order!First
  <2>4. h \in DOMAIN rows /\ rows[h].group = rows[i].group
    BY <2>1, <2>3
  <2>5. h = Order!First(Order!InGroup(rows[h].group))
    BY <2>4, Zenon DEF S
  <2> HIDE DEF h
  <2> QED BY <1>5, <2>4, <2>5 DEF HeadsAt
<1>6. \A k, l \in DOMAIN Heads : Heads[k].group = Heads[l].group => k = l
  BY <1>2, <1>3
<1>7. \A k \in DOMAIN Heads : Heads[k].group # NoValue
  BY <1>2, <1>4
<1>8. ASSUME NEW i \in DOMAIN rows, rows[i].group # NoValue
      PROVE  \E k \in DOMAIN Heads : Heads[k].group = rows[i].group
  <2>1. PICK h \in HeadsAt : rows[h].group = rows[i].group
    BY <1>5, <1>8
  <2> QED BY <1>2, <2>1
<1> QED BY <1>2, <1>6, <1>7, <1>8

GroupsUpTo(k) == {Heads[l].group : l \in 1 .. k}

LEMMA GroupsPlanned ==
  ASSUME RowsFetched, Order!OrderAssumption, NEW order, Lists(order, Order!Nodes)
  PROVE  \E s : /\ Planning(s, GroupsUpTo(Len(Heads)))
                /\ Order!Planned(order) = s \o Ascending(Order!InGroup(NoValue))
<1> DEFINE n == Len(Heads)
           T == Seq(DOMAIN rows)
           Own(k) == Order!GroupPlan(Order!InGroup(Heads[k].group), order)
           step == [c \in (1 .. n) \X T |-> c[2] \o Own(c[1])]
<1>1. /\ n \in Nat /\ DOMAIN Heads = 1 .. n
      /\ \A k, l \in DOMAIN Heads : Heads[k].group = Heads[l].group => k = l
  <2>1. Heads \in Seq(Order!Row)
    BY HeadsOfGroups
  <2> HIDE DEF Heads
  <2> QED BY <2>1, HeadsOfGroups
<1>2. ASSUME NEW k \in 1 .. n, NEW s \in T
      PROVE  s \o Own(k) \in T
  <2> DEFINE S == Order!InGroup(Heads[k].group)
  <2>1. S \in SUBSET (DOMAIN rows)
    BY DEF Order!InGroup
  <2> HIDE DEF S
  <2>2. Order!GroupPlan(S, order) \in Seq(S)
    BY <2>1, GroupPlanned
  <2>3. Own(k) \in T
    BY <2>1, <2>2 DEF S
  <2> HIDE DEF Own
  <2> QED BY <2>3
<1>3. step \in [(1 .. n) \X T -> T] /\ <<>> \in T
  <2>1. <<>> \in T
    OBVIOUS
  <2>2. ASSUME NEW c \in (1 .. n) \X T
        PROVE  c[2] \o Own(c[1]) \in T
    <3>1. c[1] \in 1 .. n /\ c[2] \in T
      OBVIOUS
    <3> HIDE DEF Own, n, T
    <3> QED BY <1>2, <3>1
  <2> HIDE DEF Own, n, T
  <2> QED BY <2>1, <2>2
<1>4. PICK f : Stepwise(f, n, T, <<>>, step)
  <2> HIDE DEF n, T, step
  <2> QED BY <1>1, <1>3, StepsExist, Zenon
<1>5. f \in [0 .. n -> T] /\ f[0] = <<>> /\ \A k \in 1 .. n : f[k] = step[<<k, f[k - 1]>>]
  <2> HIDE DEF n, T, step
  <2> QED BY <1>4 DEF Stepwise
<1>6. \A k \in 1 .. n : f[k] = f[k - 1] \o Own(k)
  <2> TAKE k \in 1 .. n
  <2>1. k - 1 \in 0 .. n
    BY <1>1
  <2>2. f[k - 1] \in T
    BY <1>5, <2>1
  <2> HIDE DEF Own, T, n
  <2> QED BY <1>5, <2>2
<1>7. f = [k \in 0 .. n |-> IF k = 0 THEN <<>> ELSE f[k - 1] \o Own(k)]
  <2>1. \A k \in 0 .. n : k # 0 => k \in 1 .. n
    BY <1>1
  <2>2. \A k \in 0 .. n : f[k] = IF k = 0 THEN <<>> ELSE f[k - 1] \o Own(k)
    <3> HIDE DEF Own, n, T
    <3> QED BY <1>5, <1>6, <2>1
  <2> HIDE DEF Own, n, T
  <2> QED BY <1>5, <2>2
<1> DEFINE J == CHOOSE g : g = [k \in 0 .. n |-> IF k = 0 THEN <<>> ELSE g[k - 1] \o Own(k)]
<1>8. J = [k \in 0 .. n |-> IF k = 0 THEN <<>> ELSE J[k - 1] \o Own(k)]
  <2> HIDE DEF Own, n
  <2> QED BY <1>7, Zenon
<1>9. Order!Planned(order) = J[n] \o Ascending(Order!InGroup(NoValue))
  <2>1. Heads = Order!Picked(rows, {i \in DOMAIN rows : /\ rows[i].group # NoValue
                                                        /\ i = Order!First(Order!InGroup(rows[i].group))})
    BY SameOrder, Zenon DEF Heads, HeadsAt
  <2>2. Order!Ascending(Order!InGroup(NoValue)) = Ascending(Order!InGroup(NoValue))
    BY SameOrder, Zenon
  <2> HIDE DEF Heads
  <2> QED BY <2>1, <2>2, Zenon DEF Order!Planned
<1> HIDE DEF J
<1>10. J[0] = <<>> /\ \A k \in 1 .. n : J[k] = J[k - 1] \o Own(k)
  <2>1. 0 \in 0 .. n /\ \A k \in 1 .. n : k \in 0 .. n /\ k # 0
    BY <1>1
  <2> HIDE DEF Own, n
  <2> QED BY <1>8, <2>1
<1> DEFINE Good(k) == Planning(J[k], GroupsUpTo(k))
           G == {k \in 0 .. n : Good(k)}
<1>11. Good(0)
  <2>1. GroupsUpTo(0) = {} /\ <<>> \in T /\ DOMAIN <<>> = {}
    BY DEF GroupsUpTo
  <2> HIDE DEF T
  <2>2. Planning(<<>>, {})
    BY <2>1 DEF Planning, T
  <2> QED BY <1>10, <2>1, <2>2
<1>12. ASSUME NEW k \in 1 .. n, Good(k - 1)
       PROVE  Good(k)
  <2> DEFINE g == Heads[k].group
  <2>1. g \notin GroupsUpTo(k - 1)
    <3> SUFFICES ASSUME NEW l \in 1 .. k - 1, Heads[l].group = g PROVE FALSE
      BY DEF GroupsUpTo
    <3>1. l \in DOMAIN Heads /\ k \in DOMAIN Heads /\ l # k
      BY <1>1
    <3> QED BY <1>1, <3>1
  <2>2. GroupsUpTo(k) = GroupsUpTo(k - 1) \cup {g}
    <3>1. \A l : l \in 1 .. k <=> l \in 1 .. k - 1 \/ l = k
      BY <1>1
    <3> HIDE DEF Heads
    <3> QED BY <3>1 DEF GroupsUpTo
  <2> HIDE DEF g
  <2>3. Planning(J[k - 1] \o Order!GroupPlan(Order!InGroup(g), order), GroupsUpTo(k - 1) \cup {g})
    BY <1>12, <2>1, GroupJoins
  <2>4. J[k] = J[k - 1] \o Order!GroupPlan(Order!InGroup(g), order)
    BY <1>10 DEF g
  <2> QED BY <2>2, <2>3, <2>4
<1>13. \A k \in 0 .. n : k \in G
  <2> HIDE DEF Good, n
  <2>1. 0 \in G /\ \A k \in 1 .. n : k - 1 \in G => k \in G
    BY <1>1, <1>11, <1>12
  <2> HIDE DEF G
  <2> QED BY <1>1, <2>1, StepByStep
<1>14. Good(n)
  <2>1. n \in 0 .. n
    BY <1>1
  <2> HIDE DEF Good, n
  <2> QED BY <1>13, <2>1
<1> HIDE DEF Own
<1> QED BY <1>9, <1>14

(* What the invariant keeps of a plan. *)
PlanOk(s) ==
  /\ s \in Seq(DOMAIN rows)
  /\ \A p, q \in DOMAIN s : GroupAt(s, p) = NoValue /\ GroupAt(s, q) # NoValue => q < p
  /\ \A p, q \in DOMAIN s : GroupAt(s, p) # NoValue /\ GroupAt(s, p) = GroupAt(s, q) => InTurn(s, p, q)

LEMMA PlannedInTurn ==
  ASSUME RowsFetched, Order!OrderAssumption, NEW order, Lists(order, Order!Nodes),
         NEW next, next = Order!Planned(order)
  PROVE  /\ PlanOk(next)
         /\ \A i \in DOMAIN rows : rows[i].group # NoValue => Judged(next, rows[i].group)
<1> DEFINE t == Ascending(Order!InGroup(NoValue))
           D == GroupsUpTo(Len(Heads))
<1>1. PICK s : Planning(s, D) /\ next = s \o t
  BY GroupsPlanned
<1>2. /\ \A g \in D : g # NoValue
      /\ \A i \in DOMAIN rows : rows[i].group # NoValue => rows[i].group \in D
  <2>1. Heads \in Seq(Order!Row)
    BY HeadsOfGroups
  <2>2. DOMAIN Heads = 1 .. Len(Heads)
    BY <2>1
  <2> HIDE DEF Heads
  <2> QED BY <2>2, HeadsOfGroups DEF GroupsUpTo
<1>3. t \in Seq(DOMAIN rows) /\ \A p \in DOMAIN t : rows[t[p]].group = NoValue
  <2> DEFINE S == Order!InGroup(NoValue)
  <2>1. S \in SUBSET (DOMAIN rows) /\ \A i \in S : rows[i].group = NoValue
    BY DEF Order!InGroup
  <2>2. S \in SUBSET Nat /\ IsFiniteSet(S)
    <3> HIDE DEF S
    <3> QED BY <2>1, FetchedRows, FS_Subset
  <2> HIDE DEF S
  <2>3. Cardinality(S) \in Nat /\ Ascending(S) \in [1 .. Cardinality(S) -> S]
    BY <2>2, AscendingSorts
  <2>4. Ascending(S) \in [1 .. Cardinality(S) -> DOMAIN rows]
    BY <2>1, <2>3
  <2>5. Ascending(S) \in Seq(DOMAIN rows)
    BY <2>3, <2>4
  <2> QED BY <2>1, <2>3, <2>5 DEF S
<1> HIDE DEF t, D
<1>4. /\ s \in Seq(DOMAIN rows)
      /\ \A p \in DOMAIN s : rows[s[p]].group \in D
      /\ \A p, q \in DOMAIN s : GroupAt(s, p) = GroupAt(s, q) => InTurn(s, p, q)
      /\ \A g \in D : Judged(s, g)
  BY <1>1 DEF Planning, GroupAt
<1>5. /\ next \in Seq(DOMAIN rows)
      /\ \A k \in DOMAIN next : \/ k \in DOMAIN s /\ next[k] = s[k]
                                \/ k - Len(s) \in DOMAIN t /\ next[k] = t[k - Len(s)] /\ k > Len(s)
      /\ Len(s) \in Nat /\ DOMAIN s = 1 .. Len(s) /\ DOMAIN next \subseteq Nat
      /\ \A k \in DOMAIN s : k \in DOMAIN next /\ next[k] = s[k]
  BY <1>1, <1>3, <1>4, TwoJoined
<1>6. ASSUME NEW p \in DOMAIN next
      PROVE  \/ p \in DOMAIN s /\ next[p] = s[p] /\ rows[next[p]].group # NoValue
             \/ p > Len(s) /\ rows[next[p]].group = NoValue
  BY <1>2, <1>3, <1>4, <1>5
<1>7. \A p, q \in DOMAIN next : GroupAt(next, p) = NoValue /\ GroupAt(next, q) # NoValue => q < p
  <2> SUFFICES ASSUME NEW p \in DOMAIN next, NEW q \in DOMAIN next,
                      rows[next[p]].group = NoValue, rows[next[q]].group # NoValue
               PROVE  q < p
    BY DEF GroupAt
  <2>1. p > Len(s) /\ q \in DOMAIN s /\ p \in Nat
    BY <1>5, <1>6
  <2> QED BY <1>5, <2>1
<1>8. ASSUME NEW p \in DOMAIN next, NEW q \in DOMAIN next, GroupAt(next, p) # NoValue,
             GroupAt(next, p) = GroupAt(next, q)
      PROVE  InTurn(next, p, q)
  BY <1>4, <1>6, <1>8 DEF InTurn, GroupAt, IdAt
<1>9. ASSUME NEW i \in DOMAIN rows, rows[i].group # NoValue
      PROVE  Judged(next, rows[i].group)
  <2>1. Judged(s, rows[i].group)
    BY <1>2, <1>4, <1>9
  <2> QED BY <1>5, <1>6, <1>9, <2>1 DEF Judged, GroupAt, IdAt
<1> QED BY <1>5, <1>7, <1>8, <1>9 DEF PlanOk

----------------------------------------------------------------------------
(* The dispatch of a plan. *)

Keys == {Order!Key(i) : i \in DOMAIN rows}

LEMMA KeysTell ==
  ASSUME RowsFetched, Order!OrderAssumption, NEW i \in DOMAIN rows, NEW j \in DOMAIN rows,
         Order!Key(i) = Order!Key(j)
  PROVE  rows[i].id = rows[j].id /\ (rows[i].id = NoValue => i = j)
<1>1. NoValue \notin OrderIds
  BY DEF Order!OrderAssumption
<1>2. \A k \in DOMAIN rows : rows[k].id \in OrderIds \cup {NoValue}
  BY FetchedRows DEF Order!Nodes
<1>3. \A k : Order!Key(k) = IF rows[k].id = NoValue THEN <<NoValue, k>> ELSE <<rows[k].id, 0>>
  BY DEF Order!Key
<1>4. Order!Key(i)[1] = rows[i].id /\ Order!Key(j)[1] = rows[j].id
  BY <1>3
<1>5. CASE rows[i].id = NoValue
  <2>1. Order!Key(i)[2] = i /\ Order!Key(j)[2] = j
    BY <1>3, <1>4, <1>5
  <2> QED BY <1>4, <2>1
<1> QED BY <1>4, <1>5

\* An order of the ids, as the sort may come upon them.
LEMMA OrdersList ==
  ASSUME Order!OrderAssumption,
         NEW order \in Order!Bijection(1 .. Order!Cardinality(Order!Nodes), Order!Nodes)
  PROVE  Lists(order, Order!Nodes)
<1> DEFINE m == Order!Cardinality(Order!Nodes)  N == Order!Nodes
<1>1. m \in Nat
  <2>1. IsFiniteSet(OrderIds)
    <3>1. Order!IsFiniteSet(OrderIds) = IsFiniteSet(OrderIds)
      BY SameOrder, Zenon
    <3>2. Order!IsFiniteSet(OrderIds)
      BY DEF Order!OrderAssumption
    <3> QED BY <3>1, <3>2
  <2>2. IsFiniteSet(N)
    BY <2>1, FS_AddElement DEF Order!Nodes
  <2>3. m = Cardinality(N)
    BY SameOrder, Zenon
  <2> QED BY <2>2, <2>3, FS_CardinalityType
<1> HIDE DEF m, N
<1>2. /\ order \in [1 .. m -> N]
      /\ \A a, b \in DOMAIN order : order[a] = order[b] => a = b
      /\ \A n \in N : \E a \in 1 .. m : order[a] = n
  <2>1. order \in Order!Bijection(1 .. m, N)
    BY DEF m, N
  <2> QED BY <2>1 DEF Order!Bijection, Order!Injection, Order!Surjection, Order!IsInjective
<1>3. order \in Seq(N) /\ DOMAIN order = 1 .. m
  BY <1>1, <1>2
<1>4. Elements(order) = N
  BY <1>2, <1>3 DEF Elements
<1> QED BY <1>2, <1>3, <1>4 DEF Lists, Once, N

----------------------------------------------------------------------------
(* Refused groups. *)

\* The groups whose references go in a circle are refused, and no other id is left out.
Refuses(out) ==
  \A i \in DOMAIN rows : rows[i].group # NoValue =>
    /\ out[i] = "cycle" <=> Order!Circular(Order!InGroup(rows[i].group), Order!Nodes)
    /\ out[i] = "cycle" \/ \E j \in Order!InGroup(rows[i].group) : rows[j].id = rows[i].id /\ out[j] = "planned"

LEMMA SortRefuses ==
  ASSUME RowsFetched, Order!OrderAssumption, Order!Sort
  PROVE  Refuses(outcome') /\ PlanOk(plan') /\ rows' = rows /\ begun' = begun
<1>1. PICK order \in Order!Bijection(1 .. Order!Cardinality(Order!Nodes), Order!Nodes) : plan' = Order!Planned(order)
  BY DEF Order!Sort
<1>2. rows' = rows /\ begun' = begun /\ outcome' = [i \in DOMAIN rows |-> Order!Fate(i, plan')]
  BY DEF Order!Sort
<1>3. Lists(order, Order!Nodes)
  BY OrdersList
<1> DEFINE next == plan'
<1>4. PlanOk(next) /\ \A i \in DOMAIN rows : rows[i].group # NoValue => Judged(next, rows[i].group)
  BY <1>1, <1>3, PlannedInTurn
<1>5. next \in Seq(DOMAIN rows)
  BY <1>4 DEF PlanOk
<1>6. \A i : i \in Order!Range(next) <=> \E p \in DOMAIN next : next[p] = i
  <2>1. Order!Range(next) = Elements(next)
    BY SameOrder, Zenon
  <2> QED BY <2>1 DEF Elements
<1> HIDE DEF next
<1>7. \A i \in DOMAIN rows :
        outcome'[i] = CASE i \in Order!Range(next) -> "planned"
                        [] i \notin Order!Range(next)
                             /\ Order!HasCycle(Order!Parents(Order!InGroup(rows[i].group))) -> "cycle"
                        [] OTHER -> "left out"
  BY <1>2, Zenon DEF Order!Fate, next
<1>8. ASSUME NEW i \in DOMAIN rows, rows[i].group # NoValue
      PROVE  LET S == Order!InGroup(rows[i].group) IN
             /\ outcome'[i] = "cycle" <=> Order!Circular(S, Order!Nodes)
             /\ outcome'[i] = "cycle" \/ \E j \in S : rows[j].id = rows[i].id /\ outcome'[j] = "planned"
  <2> DEFINE S == Order!InGroup(rows[i].group)
  <2>1. S \in SUBSET (DOMAIN rows) /\ \A j \in DOMAIN rows : j \in S <=> rows[j].group = rows[i].group
    BY DEF Order!InGroup
  <2>2. Order!HasCycle(Order!Parents(S)) <=> Order!Circular(S, Order!Nodes)
    <3> HIDE DEF S
    <3> QED BY <2>1, GroupCircular
  <2>3. Judged(next, rows[i].group)
    BY <1>4, <1>8
  <2>4. CASE Order!Circular(S, Order!Nodes)
    <3>1. \A p \in DOMAIN next : rows[next[p]].group # rows[i].group
      BY <2>3, <2>4 DEF Judged, GroupAt
    <3>2. i \notin Order!Range(next)
      BY <1>6, <3>1
    <3>3. outcome'[i] = "cycle"
      BY <1>7, <2>2, <2>4, <3>2
    <3> QED BY <2>4, <3>3
  <2>5. CASE ~Order!Circular(S, Order!Nodes)
    <3>1. outcome'[i] # "cycle"
      BY <1>7, <2>2, <2>5
    <3>2. i \in S
      BY <1>8, <2>1
    <3>3. PICK p \in DOMAIN next : rows[next[p]].group = rows[i].group /\ rows[next[p]].id = rows[i].id
      BY <2>3, <2>5, <3>2 DEF Judged, GroupAt, IdAt
    <3>4. next[p] \in DOMAIN rows /\ next[p] \in Order!Range(next)
      BY <1>5, <1>6
    <3>5. outcome'[next[p]] = "planned" /\ next[p] \in S
      BY <1>7, <2>1, <3>3, <3>4
    <3> QED BY <2>5, <3>1, <3>3, <3>5
  <2> QED BY <2>4, <2>5
<1>9. Refuses(outcome')
  BY <1>8 DEF Refuses
<1> QED BY <1>2, <1>4, <1>9 DEF next

LEMMA RefusesIs ==
  /\ Order!CyclesAreRefused <=> (outcome[1] # "fetched" /\ begun = <<>> => Refuses(outcome))
  /\ rows' = rows => (Order!CyclesAreRefused' <=> (outcome'[1] # "fetched" /\ begun' = <<>> => Refuses(outcome')))
<1>1. Order!CyclesAreRefused <=> (outcome[1] # "fetched" /\ begun = <<>> => Refuses(outcome))
  BY Zenon DEF Order!CyclesAreRefused, Refuses
<1>2. ASSUME rows' = rows
      PROVE  Order!CyclesAreRefused' <=> (outcome'[1] # "fetched" /\ begun' = <<>> => Refuses(outcome'))
  BY <1>2 DEF Order!CyclesAreRefused, Refuses, Order!Circular, Order!Refers, Order!InGroup
<1> QED BY <1>1, <1>2

CircleInv == RowsFetched /\ begun \in Seq(Keys) /\ plan \in Seq(DOMAIN rows) /\ Order!CyclesAreRefused

LEMMA BeginFacts ==
  ASSUME CircleInv, Order!Begin
  PROVE  \E w \in DOMAIN plan :
           /\ begun' = Append(begun, Order!Key(plan[w])) /\ Order!Key(plan[w]) \in Keys /\ w \in Nat
           /\ \A q \in DOMAIN plan : q < w => Order!Key(plan[q]) \in Elements(begun)
           /\ UNCHANGED <<rows, plan, outcome>>
<1> DEFINE waiting == {k \in DOMAIN plan : Order!Key(plan[k]) \notin Order!Range(begun)}
           w == Order!First(waiting)
<1>1. waiting # {} /\ begun' = Append(begun, Order!Key(plan[w])) /\ UNCHANGED <<rows, plan, outcome>>
  BY DEF Order!Begin
<1>2. waiting \subseteq DOMAIN plan /\ DOMAIN plan \subseteq Nat /\ \A k \in DOMAIN plan : plan[k] \in DOMAIN rows
  BY DEF CircleInv
<1>3. Order!Range(begun) = Elements(begun)
  BY SameOrder, Zenon
<1>4. \A q \in DOMAIN plan : q \notin waiting => Order!Key(plan[q]) \in Elements(begun)
  BY <1>3
<1> HIDE DEF waiting
<1>5. \E k \in waiting : \A l \in waiting : k <= l
  BY <1>1, <1>2, LeastNatural
<1>6. w \in waiting /\ \A l \in waiting : w <= l
  BY <1>5, Zenon DEF Order!First
<1> HIDE DEF w
<1>7. \A q \in DOMAIN plan : q < w => q \notin waiting
  BY <1>2, <1>6
<1>8. w \in DOMAIN plan /\ Order!Key(plan[w]) \in Keys /\ w \in Nat
  BY <1>2, <1>6 DEF Keys
<1> QED BY <1>1, <1>4, <1>7, <1>8

LEMMA DispatchFacts ==
  ASSUME CircleInv, NEW key \in Order!Writing, NEW result, Order!Dispatch(key, result)
  PROVE  \E p \in DOMAIN plan :
           /\ Order!Key(plan[p]) = key /\ outcome[plan[p]] = "planned" /\ key \in Elements(begun)
           /\ outcome' = [outcome EXCEPT ![plan[p]] = result]
           /\ UNCHANGED <<rows, plan, begun>>
<1> DEFINE left == Order!Left(key)  p == Order!First(left)
<1>1. left # {} /\ key \in Elements(begun)
  <2>1. Order!Range(begun) = Elements(begun)
    BY SameOrder, Zenon
  <2> QED BY <2>1 DEF Order!Writing
<1>2. \A k \in left : k \in DOMAIN plan /\ k \in Nat /\ Order!Key(plan[k]) = key /\ outcome[plan[k]] = "planned"
  <2>1. DOMAIN plan \subseteq Nat
    BY DEF CircleInv
  <2> QED BY <2>1 DEF Order!Left
<1>3. outcome' = [outcome EXCEPT ![plan[p]] = result] /\ UNCHANGED <<rows, plan, begun>>
  BY DEF Order!Dispatch
<1> HIDE DEF left
<1>4. \E k \in left : \A l \in left : k <= l
  BY <1>1, <1>2, LeastNatural
<1>5. p \in left
  BY <1>4, Zenon DEF Order!First
<1> HIDE DEF p
<1> QED BY <1>1, <1>2, <1>3, <1>5

LEMMA CircleInit == MCInit => CircleInv
<1> SUFFICES ASSUME MCInit PROVE CircleInv
  OBVIOUS
<1>1. rows \in UNION {[1 .. n -> Order!Row] : n \in 1 .. MaxRows} /\ plan = <<>> /\ begun = <<>>
      /\ outcome = [i \in DOMAIN rows |-> "fetched"]
  BY DEF MCInit, Order!Init
<1>2. RowsFetched
  <2>1. PICK n \in 1 .. MaxRows : rows \in [1 .. n -> Order!Row]
    BY <1>1
  <2>2. MaxRows \in Nat
    BY OrderFits DEF Order!OrderAssumption
  <2>3. n \in Nat \ {0}
    BY <2>2
  <2> QED BY <2>1, <2>3 DEF RowsFetched
<1>3. 1 \in DOMAIN rows
  BY <1>2, OrderFits, FetchedRows
<1>4. Order!CyclesAreRefused
  <2>1. outcome[1] = "fetched"
    BY <1>1, <1>3
  <2> QED BY <2>1, RefusesIs
<1>5. begun \in Seq(Keys) /\ plan \in Seq(DOMAIN rows)
  BY <1>1
<1> QED BY <1>2, <1>4, <1>5 DEF CircleInv

LEMMA CircleStep == CircleInv /\ [MCNext]_all => CircleInv'
<1> SUFFICES ASSUME CircleInv, [MCNext]_all PROVE CircleInv'
  OBVIOUS
<1>0. RowsFetched /\ begun \in Seq(Keys) /\ plan \in Seq(DOMAIN rows) /\ Order!CyclesAreRefused
  BY DEF CircleInv
<1>1. ASSUME rows' = rows, begun' \in Seq(Keys), plan' \in Seq(DOMAIN rows), Order!CyclesAreRefused'
      PROVE  CircleInv'
  <2>1. Keys' = Keys /\ RowsFetched'
    BY <1>0, <1>1 DEF Keys, Order!Key, RowsFetched, Order!Row, Order!Nodes
  <2> QED BY <1>1, <2>1 DEF CircleInv
<1>2. CASE UNCHANGED orderVars
  <2>1. rows' = rows /\ plan' = plan /\ begun' = begun /\ outcome' = outcome
    BY <1>2 DEF orderVars
  <2>2. Order!CyclesAreRefused'
    BY <1>0, <2>1, RefusesIs
  <2> QED BY <1>0, <1>1, <2>1, <2>2
<1>3. CASE Order!Sort
  <2>1. Refuses(outcome') /\ PlanOk(plan') /\ rows' = rows /\ begun' = begun
    BY <1>0, <1>3, OrderFits, SortRefuses
  <2>2. plan' \in Seq(DOMAIN rows)
    BY <2>1 DEF PlanOk
  <2>3. Order!CyclesAreRefused'
    BY <2>1, RefusesIs
  <2> QED BY <1>0, <1>1, <2>1, <2>2, <2>3
<1>4. CASE Order!Begin
  <2>1. PICK w \in DOMAIN plan : /\ begun' = Append(begun, Order!Key(plan[w])) /\ Order!Key(plan[w]) \in Keys
                                 /\ UNCHANGED <<rows, plan, outcome>>
    BY <1>4, BeginFacts
  <2>2. begun' \in Seq(Keys) /\ begun' # <<>>
    <3> HIDE DEF Keys
    <3>1. begun' \in Seq(Keys) /\ Len(begun') = Len(begun) + 1 /\ Len(begun) \in Nat
      BY <1>0, <2>1
    <3> QED BY <3>1
  <2>3. Order!CyclesAreRefused'
    BY <2>1, <2>2, RefusesIs
  <2> QED BY <1>0, <1>1, <2>1, <2>2, <2>3
<1>5. ASSUME NEW key \in Order!Writing, NEW result \in {"written", "failed"}, Order!Dispatch(key, result)
      PROVE  CircleInv'
  <2>1. key \in Elements(begun) /\ UNCHANGED <<rows, plan, begun>>
    BY <1>5, DispatchFacts
  <2>2. begun' # <<>>
    BY <2>1 DEF Elements
  <2>3. Order!CyclesAreRefused'
    BY <2>1, <2>2, RefusesIs
  <2> QED BY <1>0, <1>1, <2>1, <2>3
<1> QED BY <1>2, <1>3, <1>4, <1>5 DEF MCNext, Order!Next, all

(* Groups of the batch are refused exactly when their rows refer to each other  *)
(* in a circle, whatever the width and however the groups share ids.            *)
THEOREM CirclesRefused == MCSpec => []Order!CyclesAreRefused
<1>1. CircleInv => Order!CyclesAreRefused
  BY DEF CircleInv
<1> QED BY <1>1, CircleInit, CircleStep, PTL DEF MCSpec

----------------------------------------------------------------------------
(* The dispatch of the sorted rows *)

(* No two groups of the batch share an external id. *)
Separate ==
  \A i, j \in DOMAIN rows :
    rows[i].group # NoValue /\ rows[j].group # NoValue /\ rows[i].id = rows[j].id /\ rows[i].id # NoValue
      => rows[i].group = rows[j].group

Fresh == plan = <<>> /\ begun = <<>>

(* Keys are given their places in the order of the plan and, with Width 1, each *)
(* after the one before it is through.                                          *)
Underway ==
  /\ PlanOk(plan)
  /\ \A i \in DOMAIN rows : outcome[i] # "fetched"
  /\ \A p \in DOMAIN plan : outcome[plan[p]] \in {"planned", "written", "failed"}
  /\ \A m \in DOMAIN begun : \E p \in DOMAIN plan :
       /\ begun[m] = Order!Key(plan[p])
       /\ \A q \in DOMAIN plan : q < p => \E l \in DOMAIN begun : l < m /\ begun[l] = Order!Key(plan[q])
  /\ Width = 1 => \A m \in DOMAIN begun : m < Len(begun) =>
       \A p \in DOMAIN plan : Order!Key(plan[p]) = begun[m] => outcome[plan[p]] # "planned"
  /\ \A i \in DOMAIN rows : outcome[i] \in {"written", "failed"} => Order!Key(i) \in Elements(begun)

TurnInv ==
  /\ Separate /\ outcome \in [DOMAIN rows -> {"fetched", "cycle", "left out", "planned", "written", "failed"}]
  /\ Fresh \/ Underway

(* The key of a row is given its place after those of the rows of its group     *)
(* that the row names.                                                          *)
BegunInTurn ==
  \A p, q \in DOMAIN plan :
    GroupAt(plan, p) # NoValue /\ GroupAt(plan, p) = GroupAt(plan, q)
      /\ IdAt(plan, q) \in rows[plan[p]].refs /\ IdAt(plan, q) # IdAt(plan, p) =>
    \A m \in DOMAIN begun : begun[m] = Order!Key(plan[p]) =>
      \E l \in DOMAIN begun : l < m /\ begun[l] = Order!Key(plan[q])

LEMMA KeysInTurn ==
  ASSUME CircleInv, TurnInv
  PROVE  BegunInTurn
<1>0. RowsFetched /\ begun \in Seq(Keys) /\ plan \in Seq(DOMAIN rows) /\ Separate
  BY DEF CircleInv, TurnInv
<1> SUFFICES ASSUME NEW p \in DOMAIN plan, NEW q \in DOMAIN plan, GroupAt(plan, p) # NoValue,
                    GroupAt(plan, p) = GroupAt(plan, q), IdAt(plan, q) \in rows[plan[p]].refs,
                    IdAt(plan, q) # IdAt(plan, p), NEW m \in DOMAIN begun, begun[m] = Order!Key(plan[p])
             PROVE  \E l \in DOMAIN begun : l < m /\ begun[l] = Order!Key(plan[q])
  BY DEF BegunInTurn
<1> DEFINE i == plan[p]
<1>1. Underway
  <2>1. plan # <<>>
    OBVIOUS
  <2> QED BY <2>1 DEF TurnInv, Fresh
<1>2. q < p /\ p \in Nat /\ q \in Nat /\ i \in DOMAIN rows
  <2>1. InTurn(plan, p, q)
    BY <1>1 DEF Underway, PlanOk
  <2> QED BY <1>0, <2>1 DEF InTurn
<1>3. PICK r \in DOMAIN plan :
        /\ begun[m] = Order!Key(plan[r])
        /\ \A k \in DOMAIN plan : k < r => \E l \in DOMAIN begun : l < m /\ begun[l] = Order!Key(plan[k])
  BY <1>1 DEF Underway
<1>4. q < r
  <2>0. r \in Nat /\ plan[r] \in DOMAIN rows
    BY <1>0
  <2>1. rows[plan[r]].id = rows[i].id /\ (rows[i].id = NoValue => plan[r] = i)
    BY <1>0, <1>2, <1>3, <2>0, OrderFits, KeysTell
  <2>2. CASE rows[plan[r]].group = NoValue
    <3>1. p < r
      BY <1>1, <2>2 DEF Underway, PlanOk, GroupAt
    <3> QED BY <1>2, <2>0, <3>1
  <2>3. CASE rows[plan[r]].group # NoValue
    <3>1. rows[plan[r]].group = rows[i].group
      BY <1>0, <1>2, <2>0, <2>1, <2>3 DEF Separate, GroupAt
    <3>2. InTurn(plan, r, p)
      BY <1>1, <2>3, <3>1 DEF Underway, PlanOk, GroupAt
    <3>3. r = p
      BY <2>1, <3>2 DEF InTurn, IdAt
    <3> QED BY <1>2, <2>0, <3>3
  <2> QED BY <2>2, <2>3
<1> QED BY <1>3, <1>4

(* A row is done after those it names. *)
LEMMA WrittenInTurn ==
  ASSUME Width = 1, CircleInv, TurnInv
  PROVE  Order!ParentsWrittenFirst
<1>0. RowsFetched /\ begun \in Seq(Keys) /\ plan \in Seq(DOMAIN rows)
  BY DEF CircleInv
<1>1. \A x : x \in Order!Range(plan) <=> \E p \in DOMAIN plan : plan[p] = x
  <2>1. Order!Range(plan) = Elements(plan)
    BY SameOrder, Zenon
  <2> QED BY <2>1 DEF Elements
<1> SUFFICES ASSUME NEW i \in Order!Range(plan), NEW j \in Order!Range(plan), Order!Done(i), i # j,
                    rows[i].group # NoValue, rows[i].group = rows[j].group,
                    rows[j].id \in rows[i].refs, rows[j].id # rows[i].id
             PROVE  Order!Done(j)
  BY DEF Order!ParentsWrittenFirst
<1>2. PICK p \in DOMAIN plan, q \in DOMAIN plan : plan[p] = i /\ plan[q] = j
  BY <1>1
<1>3. Underway
  <2>1. plan # <<>>
    BY <1>2
  <2> QED BY <2>1 DEF TurnInv, Fresh
<1>4. i \in DOMAIN rows
  BY <1>0, <1>2
<1>5. PICK m \in DOMAIN begun : begun[m] = Order!Key(i)
  BY <1>3, <1>4 DEF Underway, Order!Done, Elements
<1>6. PICK l \in DOMAIN begun : l < m /\ begun[l] = Order!Key(j)
  BY <1>2, <1>5, KeysInTurn DEF BegunInTurn, GroupAt, IdAt
<1>7. l < Len(begun)
  <2>1. Len(begun) \in Nat /\ DOMAIN begun = 1 .. Len(begun)
    BY <1>0
  <2> QED BY <1>6, <2>1
<1>8. outcome[j] # "planned" /\ outcome[j] \in {"planned", "written", "failed"}
  BY <1>2, <1>3, <1>6, <1>7 DEF Underway
<1> QED BY <1>8 DEF Order!Done

LEMMA TurnInit == MCInit /\ Separate => TurnInv
<1> SUFFICES ASSUME MCInit, Separate PROVE TurnInv
  OBVIOUS
<1>1. plan = <<>> /\ begun = <<>> /\ outcome = [i \in DOMAIN rows |-> "fetched"]
  BY DEF MCInit, Order!Init
<1> QED BY <1>1 DEF TurnInv, Fresh

(* With Width 1 no key is begun before the others are through. *)
LEMMA OneAtATime ==
  ASSUME Width = 1, CircleInv, Order!Begin
  PROVE  \A m \in DOMAIN begun : \A p \in DOMAIN plan :
           Order!Key(plan[p]) = begun[m] => outcome[plan[p]] # "planned"
<1>0. begun \in Seq(Keys)
  BY DEF CircleInv
<1>1. Order!Range(begun) = Elements(begun) /\ Order!Cardinality(Order!Writing) = Cardinality(Order!Writing)
  BY SameOrder, Zenon
<1>2. IsFiniteSet(Elements(begun))
  <2>1. begun \in Surjection(1 .. Len(begun), Elements(begun))
    <3>1. DOMAIN begun = 1 .. Len(begun) /\ begun \in [1 .. Len(begun) -> Keys]
      BY <1>0
    <3>2. begun \in [1 .. Len(begun) -> Elements(begun)]
      BY <3>1 DEF Elements
    <3> QED BY <3>1, <3>2 DEF Surjection, Elements
  <2>2. IsFiniteSet(1 .. Len(begun))
    <3>1. Len(begun) \in Nat
      BY <1>0
    <3> QED BY <3>1, FS_Interval
  <2> QED BY <2>1, <2>2, FS_Surjection
<1>3. Order!Writing \in SUBSET Elements(begun)
  BY <1>1 DEF Order!Writing
<1>4. Order!Writing = {}
  <2>1. IsFiniteSet(Order!Writing) /\ Cardinality(Order!Writing) \in Nat
    BY <1>2, <1>3, FS_Subset, FS_CardinalityType
  <2>2. Cardinality(Order!Writing) < 1
    BY <1>1 DEF Order!Begin
  <2> QED BY <2>1, <2>2, FS_EmptySet
<1>5. \A m \in DOMAIN begun : Order!Left(begun[m]) = {}
  BY <1>1, <1>4 DEF Order!Writing, Elements
<1> QED BY <1>5 DEF Order!Left

LEMMA TurnStep == CircleInv /\ TurnInv /\ [MCNext]_all => TurnInv'
<1> SUFFICES ASSUME CircleInv, TurnInv, [MCNext]_all PROVE TurnInv'
  OBVIOUS
<1> DEFINE Outcomes == {"fetched", "cycle", "left out", "planned", "written", "failed"}
<1>0. /\ RowsFetched /\ begun \in Seq(Keys) /\ plan \in Seq(DOMAIN rows) /\ Separate
      /\ outcome \in [DOMAIN rows -> Outcomes]
  BY DEF CircleInv, TurnInv
<1>0a. \A p \in DOMAIN plan : plan[p] \in DOMAIN rows
  BY DEF CircleInv
<1>1. ASSUME rows' = rows, outcome' \in [DOMAIN rows -> Outcomes], (Fresh \/ Underway)'
      PROVE  TurnInv'
  BY <1>0, <1>1 DEF TurnInv, Separate
<1>2. ASSUME rows' = rows
      PROVE  /\ \A k : Order!Key(k)' = Order!Key(k)
             /\ PlanOk(plan') => PlanOk(plan)'
  <2>1. \A k : Order!Key(k)' = Order!Key(k)
    BY <1>2 DEF Order!Key
  <2>2. PlanOk(plan') => PlanOk(plan)'
    BY <1>2 DEF PlanOk, GroupAt, IdAt, InTurn
  <2> QED BY <2>1, <2>2
<1>3. CASE UNCHANGED orderVars
  <2>1. rows' = rows /\ plan' = plan /\ begun' = begun /\ outcome' = outcome
    BY <1>3 DEF orderVars
  <2>2. (Fresh \/ Underway)'
    <3>1. Fresh => Fresh'
      BY <2>1 DEF Fresh
    <3>2. ASSUME Underway PROVE Underway'
      <4>1. PlanOk(plan)' /\ (\A k : Order!Key(k)' = Order!Key(k)) /\ Elements(begun)' = Elements(begun)
        BY <1>2, <2>1, <3>2 DEF Underway, Elements
      <4> QED BY <2>1, <3>2, <4>1 DEF Underway
    <3> QED BY <3>1, <3>2 DEF TurnInv
  <2> QED BY <1>0, <1>1, <2>1, <2>2
<1>4. CASE Order!Sort
  <2>1. PlanOk(plan') /\ rows' = rows /\ begun' = begun
    BY <1>0, <1>4, OrderFits, SortRefuses
  <2>2. outcome' = [i \in DOMAIN rows |-> Order!Fate(i, plan')] /\ outcome[1] = "fetched"
    BY <1>4 DEF Order!Sort
  <2>3. begun = <<>>
    <3>1. ~Underway
      BY <1>0, <2>2, OrderFits, FetchedRows DEF Underway
    <3> QED BY <3>1 DEF TurnInv, Fresh
  <2>4. \A x : x \in Order!Range(plan') <=> \E p \in DOMAIN plan' : plan'[p] = x
    <3>1. Order!Range(plan') = Elements(plan')
      BY SameOrder, Zenon
    <3> QED BY <3>1 DEF Elements
  <2>5. \A i \in DOMAIN rows : /\ outcome'[i] \in {"planned", "cycle", "left out"}
                               /\ i \in Order!Range(plan') => outcome'[i] = "planned"
    <3>1. \A i : /\ Order!Fate(i, plan') \in {"planned", "cycle", "left out"}
                 /\ i \in Order!Range(plan') => Order!Fate(i, plan') = "planned"
      BY DEF Order!Fate
    <3> QED BY <2>2, <3>1
  <2>6. \A p \in DOMAIN plan' : outcome'[plan'[p]] = "planned"
    <3>1. \A p \in DOMAIN plan' : plan'[p] \in DOMAIN rows
      BY <2>1 DEF PlanOk
    <3> QED BY <2>4, <2>5, <3>1
  <2>7. PlanOk(plan)'
    BY <1>2, <2>1
  <2>8. DOMAIN begun' = {}
    BY <2>1, <2>3
  <2>9. Underway'
    BY <2>1, <2>5, <2>6, <2>7, <2>8 DEF Underway
  <2>10. outcome' \in [DOMAIN rows -> Outcomes]
    <3>1. outcome' = [i \in DOMAIN rows |-> outcome'[i]]
      BY <2>2
    <3> QED BY <2>5, <3>1
  <2> QED BY <1>1, <2>1, <2>9, <2>10
<1>5. CASE Order!Begin
  <2>1. PICK w \in DOMAIN plan :
          /\ begun' = Append(begun, Order!Key(plan[w])) /\ Order!Key(plan[w]) \in Keys /\ w \in Nat
          /\ \A q \in DOMAIN plan : q < w => Order!Key(plan[q]) \in Elements(begun)
          /\ UNCHANGED <<rows, plan, outcome>>
    BY <1>5, BeginFacts
  <2>2. Underway
    <3>1. plan # <<>>
      BY <2>1
    <3> QED BY <3>1 DEF TurnInv, Fresh
  <2>3. Width = 1 => \A m \in DOMAIN begun : \A p \in DOMAIN plan :
          Order!Key(plan[p]) = begun[m] => outcome[plan[p]] # "planned"
    BY <1>5, OneAtATime
  <2> DEFINE n == Len(begun)  key == Order!Key(plan[w])
  <2>4. /\ n \in Nat /\ DOMAIN begun = 1 .. n /\ DOMAIN begun' = 1 .. n + 1 /\ Len(begun') = n + 1
        /\ begun'[n + 1] = key /\ \A m \in 1 .. n : begun'[m] = begun[m]
        /\ Elements(begun') = Elements(begun) \cup {key}
    <3> DEFINE t == Append(begun, key)
    <3>1. begun \in Seq(Keys) /\ key \in Keys /\ begun' = t
      BY <1>0, <2>1
    <3> HIDE DEF key
    <3>2. /\ Elements(t) = Elements(begun) \cup {key} /\ Len(t) = Len(begun) + 1 /\ Len(begun) \in Nat
          /\ DOMAIN begun = 1 .. Len(begun) /\ DOMAIN t = 1 .. Len(begun) + 1 /\ t[Len(begun) + 1] = key
          /\ \A k \in 1 .. Len(begun) : t[k] = begun[k]
      BY <3>1, Longer
    <3> HIDE DEF t
    <3> QED BY <3>1, <3>2
  <2> HIDE DEF n, key
  <2>5. ASSUME NEW m \in DOMAIN begun'
        PROVE  \E p \in DOMAIN plan :
                 /\ begun'[m] = Order!Key(plan[p])
                 /\ \A q \in DOMAIN plan : q < p => \E l \in DOMAIN begun' : l < m /\ begun'[l] = Order!Key(plan[q])
    <3>1. CASE m \in 1 .. n
      <4>1. PICK p \in DOMAIN plan :
              /\ begun[m] = Order!Key(plan[p])
              /\ \A q \in DOMAIN plan : q < p => \E l \in DOMAIN begun : l < m /\ begun[l] = Order!Key(plan[q])
        BY <2>2, <2>4, <3>1 DEF Underway
      <4>2. \A l \in DOMAIN begun : l \in DOMAIN begun' /\ begun'[l] = begun[l]
        BY <2>4
      <4> QED BY <2>4, <3>1, <4>1, <4>2
    <3>2. CASE m = n + 1
      <4>1. \A l \in DOMAIN begun : l \in DOMAIN begun' /\ begun'[l] = begun[l] /\ l < m
        BY <2>4, <3>2
      <4>2. \A q \in DOMAIN plan : q < w => \E l \in DOMAIN begun : begun[l] = Order!Key(plan[q])
        BY <2>1 DEF Elements
      <4>3. begun'[m] = Order!Key(plan[w])
        BY <2>4, <3>2 DEF key
      <4> QED BY <4>1, <4>2, <4>3
    <3> QED BY <2>4, <3>1, <3>2
  <2>6. ASSUME Width = 1, NEW m \in DOMAIN begun', m < Len(begun'),
               NEW p \in DOMAIN plan, Order!Key(plan[p]) = begun'[m]
        PROVE  outcome[plan[p]] # "planned"
    <3>1. m \in DOMAIN begun /\ begun'[m] = begun[m]
      BY <2>4, <2>6
    <3> QED BY <2>3, <2>6, <3>1
  <2>7. \A i \in DOMAIN rows : outcome[i] \in {"written", "failed"} => Order!Key(i) \in Elements(begun')
    BY <2>2, <2>4 DEF Underway
  <2>8. PlanOk(plan)' /\ \A k : Order!Key(k)' = Order!Key(k)
    BY <1>2, <2>1, <2>2 DEF Underway
  <2>9. Underway'
    <3>1. rows' = rows /\ plan' = plan /\ outcome' = outcome
      BY <2>1
    <3>2. Elements(begun)' = Elements(begun')
      BY DEF Elements
    <3> QED BY <2>2, <2>5, <2>6, <2>7, <2>8, <3>1, <3>2 DEF Underway
  <2> QED BY <1>0, <1>1, <2>1, <2>9
<1>6. ASSUME NEW key \in Order!Writing, NEW result \in {"written", "failed"}, Order!Dispatch(key, result)
      PROVE  TurnInv'
  <2>1. PICK p \in DOMAIN plan :
           /\ Order!Key(plan[p]) = key /\ outcome[plan[p]] = "planned" /\ key \in Elements(begun)
           /\ outcome' = [outcome EXCEPT ![plan[p]] = result]
           /\ UNCHANGED <<rows, plan, begun>>
    BY <1>6, DispatchFacts
  <2>2. Underway
    <3>1. plan # <<>>
      BY <2>1
    <3> QED BY <3>1 DEF TurnInv, Fresh
  <2>3. /\ plan[p] \in DOMAIN rows /\ outcome' \in [DOMAIN rows -> Outcomes]
        /\ \A i \in DOMAIN rows : outcome'[i] = IF i = plan[p] THEN result ELSE outcome[i]
    <3>1. result \in Outcomes
      BY <1>6
    <3> HIDE DEF Outcomes
    <3> QED BY <1>0, <1>0a, <2>1, <3>1
  <2>4. \A q \in DOMAIN plan : plan[q] \in DOMAIN rows
    BY <1>0a
  <2>5. PlanOk(plan)' /\ \A k : Order!Key(k)' = Order!Key(k)
    BY <1>2, <2>1, <2>2 DEF Underway
  <2>6. \A i \in DOMAIN rows : outcome'[i] # "fetched"
    BY <2>2, <2>3 DEF Underway
  <2>7. \A q \in DOMAIN plan : outcome'[plan[q]] \in {"planned", "written", "failed"}
    BY <2>2, <2>3, <2>4 DEF Underway
  <2>8. Width = 1 => \A m \in DOMAIN begun : m < Len(begun) =>
          \A q \in DOMAIN plan : Order!Key(plan[q]) = begun[m] => outcome'[plan[q]] # "planned"
    BY <2>2, <2>3, <2>4 DEF Underway
  <2>9. \A i \in DOMAIN rows : outcome'[i] \in {"written", "failed"} => Order!Key(i) \in Elements(begun)
    BY <2>1, <2>2, <2>3 DEF Underway
  <2>10. Underway'
    <3>1. rows' = rows /\ plan' = plan /\ begun' = begun
      BY <2>1
    <3>2. Elements(begun)' = Elements(begun)
      BY <3>1 DEF Elements
    <3> QED BY <2>2, <2>5, <2>6, <2>7, <2>8, <2>9, <3>1, <3>2 DEF Underway
  <2> QED BY <1>0, <1>1, <2>1, <2>3, <2>10
<1> QED BY <1>3, <1>4, <1>5, <1>6 DEF MCNext, Order!Next, all

(* The rows of an id are started after those that they name, whatever the       *)
(* width, unless two groups share an id.                                        *)
THEOREM StartedInOrder == MCSpec /\ Separate => []BegunInTurn
<1>1. MCInit /\ Separate => CircleInv /\ TurnInv
  BY CircleInit, TurnInit
<1>2. (CircleInv /\ TurnInv) /\ [MCNext]_all => (CircleInv /\ TurnInv)'
  BY CircleStep, TurnStep
<1>3. CircleInv /\ TurnInv => BegunInTurn
  BY KeysInTurn
<1> QED BY <1>1, <1>2, <1>3, PTL DEF MCSpec

(* Rows are written one id after the other (Width 1) after the rows of their    *)
(* group that they name, unless two groups share an id; and only circles are    *)
(* refused.                                                                     *)
THEOREM OrderTopological == ASSUME Width = 1 PROVE MCSpec /\ Separate => []OrderIsTopological
<1>1. MCInit /\ Separate => CircleInv /\ TurnInv
  BY CircleInit, TurnInit
<1>2. (CircleInv /\ TurnInv) /\ [MCNext]_all => (CircleInv /\ TurnInv)'
  BY CircleStep, TurnStep
<1>3. CircleInv /\ TurnInv => OrderIsTopological
  BY WrittenInTurn DEF CircleInv, OrderIsTopological, Order!OrderIsTopological
<1> QED BY <1>1, <1>2, <1>3, PTL DEF MCSpec
================================================================================
