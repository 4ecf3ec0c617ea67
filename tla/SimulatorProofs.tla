--------------------------- MODULE SimulatorProofs ---------------------------
(* What the simulator keeps true for any number of clients, records, requests *)
(* and restarts.  The memory store publishes what it has logged; no store      *)
(* loses a record to a walk that is not disturbed; and sqlite serves each      *)
(* request in one step, as RecordStore says.                                   *)
EXTENDS MCStores, NaturalFacts, SequenceTheorems

(* That the events are the log needs more than the two: nothing may await        *)
(* between a write and its event, so that no request of the memory store is ever *)
(* half-way through, and the stamps must count the mutations, or the newest      *)
(* would not be the last.                                                        *)

\* The stamps number the mutations.
Stamped(l) == \A i \in DOMAIN l : l[i].at = i

\* The events of b are the mutations of l, in their order.
Follows(b, l) ==
  /\ b \in Seq(Range(b)) /\ l \in Seq(Range(l)) /\ Stamped(l)
  /\ Range(b) = Range(l)
  /\ \A i, j \in DOMAIN b : i < j => b[i].at <= b[j].at

\* No request is between two steps of one handler.
NoneAwaits ==
  /\ calls = [c \in Clients |-> calls[c]]
  /\ \A c \in Clients : calls[c].phase \notin {"selected", "written", "fetched"}

PublishedInv == backend = "memory" => NoneAwaits /\ Follows(bus, log)

----------------------------------------------------------------------------
(* A sequence with one more element. *)

LEMMA Appended ==
  ASSUME NEW s, s \in Seq(Range(s)), NEW e
  PROVE  /\ Append(s, e) \in Seq(Range(Append(s, e)))
         /\ Range(Append(s, e)) = Range(s) \cup {e}
         /\ DOMAIN Append(s, e) = 1 .. Len(s) + 1
         /\ DOMAIN s = 1 .. Len(s) /\ Len(s) \in Nat
         /\ Append(s, e)[Len(s) + 1] = e
         /\ \A i \in 1 .. Len(s) : Append(s, e)[i] = s[i]
<1> DEFINE t == Append(s, e)  T == Range(s) \cup {e}
<1>1. s \in Seq(T)
  <2>1. \A q, S2 : Range(s) \subseteq S2 => (q \in Seq(Range(s)) => q \in Seq(S2))
    OBVIOUS
  <2> QED BY <2>1
<1>2. t \in Seq(T) /\ Len(t) = Len(s) + 1 /\ Len(s) \in Nat
  BY <1>1
<1>3. /\ DOMAIN t = 1 .. Len(s) + 1 /\ DOMAIN s = 1 .. Len(s)
      /\ t[Len(s) + 1] = e
      /\ \A i \in 1 .. Len(s) : t[i] = s[i]
  BY <1>1
<1>4. Range(t) = T
  BY <1>2, <1>3 DEF Range
<1> QED BY <1>2, <1>3, <1>4

(* A mutation that is logged and published keeps the events the mutations. *)
LEMMA MutationFollows ==
  ASSUME NEW b, NEW l, Follows(b, l), NEW e, e.at = Len(l) + 1
  PROVE  Follows(Append(b, e), Append(l, e))
<1>1. /\ b \in Seq(Range(b)) /\ l \in Seq(Range(l)) /\ Stamped(l)
      /\ Range(b) = Range(l)
      /\ \A i, j \in DOMAIN b : i < j => b[i].at <= b[j].at
  BY DEF Follows
<1>2. /\ Append(b, e) \in Seq(Range(Append(b, e)))
      /\ Append(l, e) \in Seq(Range(Append(l, e)))
      /\ Range(Append(b, e)) = Range(Append(l, e))
  <2>1. b \in Seq(Range(b)) /\ l \in Seq(Range(l)) /\ Range(b) = Range(l)
    BY <1>1
  <2>2. Append(b, e) \in Seq(Range(Append(b, e))) /\ Range(Append(b, e)) = Range(b) \cup {e}
    BY <2>1, Appended, Zenon
  <2>3. Append(l, e) \in Seq(Range(Append(l, e))) /\ Range(Append(l, e)) = Range(l) \cup {e}
    BY <2>1, Appended, Zenon
  <2> QED BY <2>1, <2>2, <2>3
<1>3. Stamped(Append(l, e))
  BY <1>1, Appended DEF Stamped
<1>4. \A i \in DOMAIN b : b[i].at <= e.at
  <2>1. TAKE i \in DOMAIN b
  <2>2. PICK k \in DOMAIN l : l[k] = b[i]
    BY <1>1 DEF Range
  <2>3. k \in 1 .. Len(l) /\ Len(l) \in Nat
    BY <1>1, <2>2
  <2> QED BY <1>1, <2>2, <2>3 DEF Stamped
<1>5. ASSUME NEW i \in DOMAIN Append(b, e), NEW j \in DOMAIN Append(b, e), i < j
      PROVE  Append(b, e)[i].at <= Append(b, e)[j].at
  <2>1. /\ i \in 1 .. Len(b) /\ Append(b, e)[i] = b[i] /\ DOMAIN b = 1 .. Len(b)
        /\ j \in 1 .. Len(b) + 1
    BY <1>1, <1>5, Appended
  <2>2. CASE j = Len(b) + 1
    BY <2>1, <2>2, <1>1, <1>4, Appended
  <2>3. CASE j # Len(b) + 1
    <3>1. j \in 1 .. Len(b) /\ Append(b, e)[j] = b[j]
      BY <2>1, <2>3, <1>1, Appended
    <3> QED BY <3>1, <2>1, <1>1, <1>5
  <2> QED BY <2>2, <2>3
<1> QED BY <1>2, <1>3, <1>5 DEF Follows

(* So does the newest mutation published again. *)
LEMMA RepeatFollows ==
  ASSUME NEW b, NEW l, Follows(b, l), l # <<>>
  PROVE  Follows(Append(b, Last(l)), l)
<1> DEFINE e == Last(l)
<1>1. /\ b \in Seq(Range(b)) /\ l \in Seq(Range(l)) /\ Stamped(l)
      /\ Range(b) = Range(l)
      /\ \A i, j \in DOMAIN b : i < j => b[i].at <= b[j].at
  BY DEF Follows
<1>2. Len(l) \in DOMAIN l /\ e = l[Len(l)] /\ e \in Range(l)
  BY <1>1 DEF Last, Range
<1>3. e.at = Len(l)
  BY <1>1, <1>2 DEF Stamped
<1>4. \A i \in DOMAIN b : b[i].at <= e.at
  <2>1. TAKE i \in DOMAIN b
  <2>2. PICK k \in DOMAIN l : l[k] = b[i]
    BY <1>1 DEF Range
  <2>3. k \in 1 .. Len(l) /\ Len(l) \in Nat
    BY <1>1, <2>2
  <2> QED BY <1>1, <1>3, <2>2, <2>3 DEF Stamped
<1> HIDE DEF e
<1>5. Append(b, e) \in Seq(Range(Append(b, e))) /\ Range(Append(b, e)) = Range(l)
  <2>1. b \in Seq(Range(b))
    BY <1>1
  <2>2. Append(b, e) \in Seq(Range(Append(b, e))) /\ Range(Append(b, e)) = Range(b) \cup {e}
    BY <2>1, Appended, Zenon
  <2> QED BY <1>1, <1>2, <2>2
<1>6. ASSUME NEW i \in DOMAIN Append(b, e), NEW j \in DOMAIN Append(b, e), i < j
      PROVE  Append(b, e)[i].at <= Append(b, e)[j].at
  <2>1. /\ i \in 1 .. Len(b) /\ Append(b, e)[i] = b[i] /\ DOMAIN b = 1 .. Len(b)
        /\ j \in 1 .. Len(b) + 1
    BY <1>1, <1>6, Appended
  <2>2. CASE j = Len(b) + 1
    BY <2>1, <2>2, <1>1, <1>4, Appended
  <2>3. CASE j # Len(b) + 1
    <3>1. j \in 1 .. Len(b) /\ Append(b, e)[j] = b[j]
      BY <2>1, <2>3, <1>1, Appended
    <3> QED BY <3>1, <2>1, <1>1, <1>6
  <2> QED BY <2>2, <2>3
<1>7. Follows(Append(b, e), l)
  BY <1>1, <1>5, <1>6 DEF Follows
<1> QED BY <1>7 DEF e

----------------------------------------------------------------------------
(* The steps. *)

LEMMA PublishedInvInit == Init => PublishedInv
<1> SUFFICES ASSUME Init PROVE PublishedInv
  OBVIOUS
<1>1. Range(<<>>) = {} /\ <<>> \in Seq({})
  BY DEF Range
<1>2. Follows(<<>>, <<>>)
  BY <1>1 DEF Follows, Stamped
<1>3. NoneAwaits
  BY DEF Init, NoneAwaits, Idle
<1> QED BY <1>2, <1>3 DEF Init, PublishedInv

(* A step that neither writes nor publishes, and moves one request on at most. *)
LEMMA QuietKeepsInv ==
  ASSUME PublishedInv, UNCHANGED <<backend, log, bus>>, NEW c \in Clients, NEW call,
         calls' = [calls EXCEPT ![c] = call],
         backend = "memory" => call.phase \notin {"selected", "written", "fetched"}
  PROVE  PublishedInv'
  BY DEF PublishedInv, NoneAwaits

(* The memory store writes, logs and publishes in one step. *)
LEMMA WriteKeepsInv ==
  ASSUME PublishedInv, NEW c \in Clients, Write(c)
  PROVE  PublishedInv'
<1> SUFFICES ASSUME backend = "memory" PROVE NoneAwaits' /\ Follows(bus, log)'
  BY DEF PublishedInv, Write
<1> DEFINE seen == Seen(c)
           e == [op |-> calls[c].op, id |-> seen.id, at |-> Stamp]
           mutates == Mutates(calls[c], seen)
           log2 == IF mutates THEN Append(log, e) ELSE log
<1>1. NoneAwaits /\ Follows(bus, log)
  BY DEF PublishedInv
<1>2. /\ log' = log2 /\ Ended(c)
      /\ IF log2 = <<>> THEN UNCHANGED <<bus, feed>> ELSE Published(Last(log2))
  BY DEF Write, Last
<1>3. NoneAwaits'
  BY <1>1, <1>2 DEF Ended, NoneAwaits, Idle
<1>4. e.at = Len(log) + 1
  BY DEF Stamp
<1> HIDE DEF e, mutates
<1>5. CASE mutates
  <2>1. log \in Seq(Range(log))
    BY <1>1 DEF Follows
  <2>2. Append(log, e) # <<>> /\ Last(Append(log, e)) = e
    BY <2>1, Appended DEF Last
  <2>3. log' = Append(log, e) /\ bus' = Append(bus, e)
    BY <1>2, <1>5, <2>2 DEF Published
  <2> QED BY <1>1, <1>3, <1>4, <2>3, MutationFollows
<1>6. CASE ~mutates /\ log = <<>>
  BY <1>1, <1>2, <1>3, <1>6
<1>7. CASE ~mutates /\ log # <<>>
  <2>1. log' = log /\ bus' = Append(bus, Last(log))
    BY <1>2, <1>7 DEF Published
  <2> QED BY <1>1, <1>3, <1>7, <2>1, RepeatFollows
<1> QED BY <1>5, <1>6, <1>7

LEMMA RestartKeepsInv ==
  ASSUME PublishedInv, Restart
  PROVE  PublishedInv'
<1>1. Range(<<>>) = {} /\ <<>> \in Seq({})
  BY DEF Range
<1>2. Follows(<<>>, <<>>)
  BY <1>1 DEF Follows, Stamped
<1>3. backend' = backend /\ calls' = [c \in Clients |-> Idle] /\ bus' = <<>>
      /\ (backend = "memory" => log' = <<>>)
  BY DEF Restart, SQL
<1>4. NoneAwaits'
  BY <1>3 DEF NoneAwaits, Idle
<1> QED BY <1>2, <1>3, <1>4 DEF PublishedInv

LEMMA RequestKeepsInv ==
  ASSUME PublishedInv, NEW c \in Clients, NEW op, NEW id, NEW body, NEW match,
         Request(c, op, id, body, match)
  PROVE  PublishedInv'
<1>1. calls' = [calls EXCEPT ![c] = [phase |-> "called", op |-> op, id |-> id,
                                     body |-> body, match |-> match]]
      /\ UNCHANGED <<backend, log, bus>>
  BY DEF Request
<1> QED BY <1>1, QuietKeepsInv

(* What the clients do to one request. *)
LEMMA ClientKeepsInv ==
  ASSUME PublishedInv, NEW c \in Clients,
         \/ Insert(c) \/ EngineUpdate(c) \/ EngineDelete(c)
         \/ LoadPanel(c) \/ SavePanel(c) \/ DeletePanel(c)
         \/ PressRestore(c)
  PROVE  PublishedInv'
<1>1. CASE Insert(c)
  BY <1>1, RequestKeepsInv DEF Insert
<1>2. CASE EngineUpdate(c)
  BY <1>2, RequestKeepsInv DEF EngineUpdate
<1>3. CASE EngineDelete(c)
  BY <1>3, RequestKeepsInv DEF EngineDelete
<1>4. CASE LoadPanel(c)
  <2>1. PICK id \in RecordIds :
          calls' = [calls EXCEPT ![c] = [phase |-> "panel", row |-> Row(id)]]
    BY <1>4 DEF LoadPanel
  <2>2. UNCHANGED <<backend, log, bus>>
    BY <1>4 DEF LoadPanel
  <2> QED BY <2>1, <2>2, QuietKeepsInv
<1>5. CASE SavePanel(c)
  BY <1>5, RequestKeepsInv DEF SavePanel
<1>6. CASE DeletePanel(c)
  BY <1>6, RequestKeepsInv DEF DeletePanel
<1>7. CASE PressRestore(c)
  BY <1>7, RequestKeepsInv DEF PressRestore
<1> QED BY <1>1, <1>2, <1>3, <1>4, <1>5, <1>6, <1>7

(* And what the server does to it, the write apart. *)
LEMMA ServerKeepsInv ==
  ASSUME PublishedInv, NEW c \in Clients,
         \/ CheckVersion(c) \/ SelectRow(c) \/ Reject(c)
         \/ FetchMutation(c) \/ Publish(c)
  PROVE  PublishedInv'
<1>1. CASE CheckVersion(c)
  <2>1. UNCHANGED <<backend, log, bus>> /\ calls[c].phase = "called"
    BY <1>1 DEF CheckVersion
  <2>2. CASE calls' = [calls EXCEPT ![c] = Idle]
    BY <2>1, <2>2, QuietKeepsInv DEF Idle
  <2>3. CASE calls' = [calls EXCEPT ![c].phase = "checked"]
    <3>1. [calls[c] EXCEPT !.phase = "checked"].phase \in {"checked", calls[c].phase}
      OBVIOUS
    <3>2. calls' = [calls EXCEPT ![c] = [calls[c] EXCEPT !.phase = "checked"]]
      BY <2>3
    <3> QED BY <2>1, <3>1, <3>2, QuietKeepsInv
  <2> QED BY <1>1, <2>2, <2>3 DEF CheckVersion, Ended
<1>2. CASE SelectRow(c)
  BY <1>2 DEF SelectRow, PublishedInv
<1>3. CASE Reject(c)
  <2>1. UNCHANGED <<backend, log, bus>> /\ calls' = [calls EXCEPT ![c] = Idle]
    BY <1>3 DEF Reject, Ended
  <2> QED BY <2>1, QuietKeepsInv DEF Idle
<1>4. CASE FetchMutation(c)
  BY <1>4 DEF FetchMutation, PublishedInv, NoneAwaits
<1>5. CASE Publish(c)
  BY <1>5 DEF Publish, PublishedInv, NoneAwaits
<1> QED BY <1>1, <1>2, <1>3, <1>4, <1>5

(* The events of the memory store are its mutations, all of them and in their *)
(* order: PublishedIsLog, for every behaviour of the simulator.               *)
THEOREM EventsAreMutations == Spec => []PublishedIsLog
<1>1. PublishedInv => PublishedIsLog
  BY DEF PublishedInv, Follows, PublishedIsLog, Range
<1>2. PublishedInv /\ [Next]_vars => PublishedInv'
  <2> SUFFICES ASSUME PublishedInv, [Next]_vars PROVE PublishedInv'
    OBVIOUS
  <2>1. CASE \E c \in Clients : Write(c)
    BY <2>1, WriteKeepsInv
  <2>2. CASE Restart
    BY <2>2, RestartKeepsInv
  <2>3. CASE \/ Consume \/ NextPage \/ \E p \in posts : Arrive(p)
             \/ UNCHANGED vars
    <3>1. UNCHANGED <<backend, log, bus, calls>>
      BY <2>3 DEF Consume, NextPage, Arrive, vars
    <3> QED BY <3>1 DEF PublishedInv, NoneAwaits
  <2> QED BY <2>1, <2>2, <2>3, ClientKeepsInv, ServerKeepsInv DEF Next
<1> QED BY PublishedInvInit, <1>1, <1>2, PTL DEF Spec

----------------------------------------------------------------------------
(* Lists of records. *)

Entries == [id : RecordIds, data : [Fields -> 0 .. MaxCalls], rev : Nat, deleted : BOOLEAN]

Live(s) == {i \in DOMAIN s : ~s[i].deleted}

Single(s) == \A i, j \in DOMAIN s : s[i].id = s[j].id => i = j

\* The record id is live behind the first live ones of a list, offset in number.
Ahead(s, offset, id) == \E i \in Live(s) : s[i].id = id /\ Place(Live(s), i) > offset

LEMMA Positions ==
  ASSUME NEW s \in Seq(Entries)
  PROVE  /\ Len(s) \in Nat /\ DOMAIN s = 1 .. Len(s) /\ \A i \in DOMAIN s : s[i] \in Entries
         /\ DOMAIN s \in SUBSET Nat /\ IsFiniteSet(DOMAIN s)
         /\ Live(s) \in SUBSET (DOMAIN s) /\ IsFiniteSet(Live(s))
<1>1. Len(s) \in Nat /\ DOMAIN s = 1 .. Len(s) /\ \A i \in DOMAIN s : s[i] \in Entries
  OBVIOUS
<1>2. DOMAIN s \in SUBSET Nat /\ IsFiniteSet(DOMAIN s)
  BY <1>1, FS_Interval
<1>3. Live(s) \in SUBSET (DOMAIN s)
  BY DEF Live
<1> QED BY <1>1, <1>2, <1>3, FS_Subset

(* The last record of an id. *)
LEMMA LastPosition ==
  ASSUME NEW s \in Seq(Entries), NEW id, \E i \in DOMAIN s : s[i].id = id
  PROVE  LET i == Max({j \in DOMAIN s : s[j].id = id}) IN i \in DOMAIN s /\ s[i].id = id
<1> DEFINE S == {j \in DOMAIN s : s[j].id = id}
<1>1. S \in SUBSET (DOMAIN s) /\ S # {}
  OBVIOUS
<1> HIDE DEF S
<1>2. S \in SUBSET Nat /\ IsFiniteSet(S)
  BY <1>1, Positions, FS_Subset
<1>3. Max(S) \in S
  BY <1>1, <1>2, LargestNatural DEF Max
<1> QED BY <1>3 DEF S

LEMMA AppendedRow ==
  ASSUME NEW s \in Seq(Entries), NEW r \in Entries
  PROVE  /\ Append(s, r) \in Seq(Entries)
         /\ DOMAIN Append(s, r) = 1 .. Len(s) + 1 /\ Append(s, r)[Len(s) + 1] = r
         /\ \A i \in DOMAIN s : i \in DOMAIN Append(s, r) /\ Append(s, r)[i] = s[i]
         /\ \A i \in DOMAIN Append(s, r) : i \in DOMAIN s \/ i = Len(s) + 1
  OBVIOUS

(* What is taken from a list in its order. *)
LEMMA PickedRows ==
  ASSUME NEW s \in Seq(Entries), NEW K \in SUBSET (DOMAIN s)
  PROVE  /\ Picked(s, K) \in Seq(Entries)
         /\ Range(Picked(s, K)) = {s[i] : i \in K}
         /\ Single(s) => Single(Picked(s, K))
<1> DEFINE t == Picked(s, K)  n == Cardinality(K)
<1>1. /\ t \in Seq(Entries) /\ DOMAIN t = 1 .. n
      /\ \A k \in 1 .. n : Ascending(K)[k] \in K /\ t[k] = s[Ascending(K)[k]]
      /\ \A i \in K : Place(K, i) \in 1 .. n /\ t[Place(K, i)] = s[i]
      /\ \A k, l \in 1 .. n : Ascending(K)[k] = Ascending(K)[l] => k = l
  BY PickedOf
<1> HIDE DEF t, n
<1>2. Range(t) = {s[i] : i \in K}
  BY <1>1 DEF Range
<1>3. ASSUME Single(s) PROVE Single(t)
  <2> SUFFICES ASSUME NEW k \in 1 .. n, NEW l \in 1 .. n, t[k].id = t[l].id
               PROVE  k = l
    BY <1>1 DEF Single
  <2>1. s[Ascending(K)[k]].id = s[Ascending(K)[l]].id
    BY <1>1
  <2>2. Ascending(K)[k] \in DOMAIN s /\ Ascending(K)[l] \in DOMAIN s
    BY <1>1
  <2>3. Ascending(K)[k] = Ascending(K)[l]
    BY <1>3, <2>1, <2>2 DEF Single
  <2> QED BY <1>1, <2>3
<1> QED BY <1>1, <1>2, <1>3 DEF t

(* A list that grows at its end, or has more live records where it had others, leaves *)
(* those ahead that were.                                                             *)
LEMMA GrownAhead ==
  ASSUME NEW s \in Seq(Entries), NEW t \in Seq(Entries), Live(s) \subseteq Live(t),
         \A i \in Live(s) : t[i].id = s[i].id,
         NEW offset \in Nat, NEW id, Ahead(s, offset, id)
  PROVE  Ahead(t, offset, id)
<1>1. PICK i \in Live(s) : s[i].id = id /\ Place(Live(s), i) > offset
  BY DEF Ahead
<1>2. /\ Live(t) \in SUBSET Nat /\ IsFiniteSet(Live(t)) /\ Live(s) \in SUBSET Live(t)
  BY Positions
<1>3. Place(Live(s), i) \in Nat /\ Place(Live(t), i) \in Nat /\ Place(Live(s), i) <= Place(Live(t), i)
  BY <1>2, PlacesGrow
<1>4. i \in Live(t) /\ t[i].id = id /\ Place(Live(t), i) > offset
  BY <1>1, <1>3
<1> QED BY <1>4 DEF Ahead

(* So does taking something out of it that is not live. *)
LEMMA PickedAhead ==
  ASSUME NEW s \in Seq(Entries), NEW K \in SUBSET (DOMAIN s), Live(s) \subseteq K,
         NEW offset \in Nat, NEW id, Ahead(s, offset, id)
  PROVE  Ahead(Picked(s, K), offset, id)
<1> DEFINE t == Picked(s, K)  P == Live(t)  n == Cardinality(K)
<1>1. PICK i \in Live(s) : s[i].id = id /\ Place(Live(s), i) > offset
  BY DEF Ahead
<1>2. /\ t \in Seq(Entries) /\ DOMAIN t = 1 .. n
      /\ \A j \in K : Place(K, j) \in 1 .. n /\ t[Place(K, j)] = s[j]
      /\ K \in SUBSET Nat /\ IsFiniteSet(K)
  BY PickedOf
<1>3. P \in SUBSET Nat /\ IsFiniteSet(P) /\ P \in SUBSET (DOMAIN t)
  <2> HIDE DEF t
  <2>1. DOMAIN t \in SUBSET Nat /\ P \in SUBSET (DOMAIN t) /\ IsFiniteSet(P)
    BY <1>2, Positions
  <2> HIDE DEF P
  <2> QED BY <2>1
<1>4. \A j \in Live(s) : Place(K, j) \in P /\ t[Place(K, j)] = s[j]
  <2> HIDE DEF t
  <2> QED BY <1>2 DEF Live
<1>5. Place(Live(s), i) <= Place(P, Place(K, i))
  <2> HIDE DEF P
  <2> QED BY <1>2, <1>3, <1>4, PlacesCarryOver
<1>6. Place(Live(s), i) \in Nat /\ Place(P, Place(K, i)) \in Nat
  <2> HIDE DEF P
  <2>1. Live(s) \in SUBSET Nat /\ IsFiniteSet(Live(s))
    BY Positions
  <2> QED BY <1>3, <2>1, PlacesGrow
<1>7. Place(K, i) \in P /\ t[Place(K, i)].id = id /\ Place(P, Place(K, i)) > offset
  <2> HIDE DEF P, t
  <2> QED BY <1>1, <1>4, <1>5, <1>6
<1> HIDE DEF t
<1>8. Ahead(t, offset, id)
  BY <1>7 DEF Ahead
<1> QED BY <1>8 DEF t

----------------------------------------------------------------------------
(* The types of the store and of its requests.  Ids stay within RecordIds because   *)
(* every new one is at most one above the others, every create is in the log, and   *)
(* the log is no longer than the requests that are no longer pending.               *)

Top == Max({0} \cup Seeds \cup PostedIds)

Ops == {"create", "update", "delete", "restore"}
Asks == [phase : {"called", "checked"}, op : Ops, id : RecordIds \cup {0}, body : Bodies, match : Nat]

Fits(call) ==
  /\ call.op \in Ops /\ call.body \in Bodies
  /\ call.op = "create" => /\ call.id \in {0} \cup PostedIds /\ call.body \in [Fields -> 0 .. MaxCalls]
                           /\ call.match = 0
  /\ call.op # "create" => call.id \in RecordIds

\* What a store may have found for a request.
SeenFits(call, seen) ==
  seen.ok =>
    /\ seen.id \in RecordIds
    /\ call.op = "create" => seen.id <= Top + Len(log) + 1
    /\ call.op # "create" => /\ seen.row \in Entries /\ seen.row.id = seen.id /\ Found(seen.id)
                             /\ backend = "sqlite" => ~seen.row.deleted

CallInv(call) ==
  /\ call.phase \in {"called", "checked"} => call \in Asks /\ Fits(call)
  /\ call.phase = "selected" => backend = "postgres" /\ Fits(call) /\ SeenFits(call, call.seen)
  /\ call.phase = "panel" => call.row \in Entries

RowsInv ==
  /\ rows \in Seq(Entries) /\ \A i \in DOMAIN rows : rows[i].id <= Top + Len(log)
  /\ SQL => Single(rows)
  /\ backend = "sqlite" => Live(rows) = DOMAIN rows

Pending == {c \in Clients : calls[c].phase \in {"called", "checked", "selected"}}

CountInv ==
  /\ made \in 0 .. MaxCalls /\ log \in Seq(Range(log))
  /\ IsFiniteSet(Pending) /\ Len(log) + Cardinality(Pending) <= made

StoreInv ==
  /\ backend \in Backends /\ RowsInv /\ CountInv
  /\ calls = [c \in Clients |-> calls[c]] /\ \A c \in Clients : CallInv(calls[c])

WalkInv ==
  /\ walk \in [on : BOOLEAN, offset : Nat, got : SUBSET RecordIds, start : SUBSET RecordIds, calm : BOOLEAN]
  /\ walk.calm => IF walk.on THEN \A id \in walk.start \ walk.got : Ahead(rows, walk.offset, id)
                  ELSE walk.start \subseteq walk.got

(* The greatest id that anyone may name. *)
LEMMA TopIsBound ==
  ASSUME SimulatorAssumption
  PROVE  /\ Top \in Nat /\ \A id \in Seeds \cup PostedIds : id <= Top /\ id \in RecordIds
         /\ RecordIds = 1 .. Top + MaxCalls /\ MaxCalls \in Nat /\ MaxRestarts \in Nat
<1> DEFINE S == {0} \cup Seeds \cup PostedIds
<1>1. S \in SUBSET Nat /\ S # {}
  BY DEF SimulatorAssumption
<1>2. IsFiniteSet(S)
  <2>1. IsFiniteSet(Seeds \cup PostedIds)
    BY FS_Union DEF SimulatorAssumption
  <2>2. S = (Seeds \cup PostedIds) \cup {0}
    OBVIOUS
  <2> QED BY <2>1, <2>2, FS_AddElement
<1>3. Max(S) \in S /\ \A k \in S : Max(S) >= k
  <2> HIDE DEF S
  <2> QED BY <1>1, <1>2, LargestNatural DEF Max
<1>4. Top \in Nat /\ \A id \in Seeds \cup PostedIds : id <= Top /\ id \in Nat \ {0}
  <2>1. Top = Max(S)
    BY DEF Top
  <2>2. \A id \in Seeds \cup PostedIds : id \in S /\ id \in Nat \ {0}
    BY DEF SimulatorAssumption
  <2> HIDE DEF S
  <2> QED BY <1>1, <1>3, <2>1, <2>2
<1>5. MaxCalls \in Nat /\ MaxRestarts \in Nat
  BY DEF SimulatorAssumption
<1>6. RecordIds = 1 .. Top + MaxCalls
  BY DEF RecordIds, Top
<1> HIDE DEF S
<1> QED BY <1>4, <1>5, <1>6

(* A new id is the next one. *)
LEMMA NextIdBound ==
  ASSUME SimulatorAssumption, RowsInv, Len(log) \in Nat
  PROVE  NextId \in Nat \ {0} /\ NextId <= Top + Len(log) + 1 /\ ~Found(NextId)
<1> DEFINE ids == {rows[i].id : i \in DOMAIN rows}  S == {0} \cup ids
<1>1. \A i \in DOMAIN rows : rows[i].id \in Nat /\ rows[i].id <= Top + Len(log)
  <2>1. \A e \in Entries : e.id \in Nat
    BY TopIsBound DEF Entries
  <2> QED BY <2>1, Positions DEF RowsInv
<1>2. S \in SUBSET Nat /\ S # {} /\ \A k \in S : k <= Top + Len(log)
  BY <1>1, TopIsBound
<1>3. Top + Len(log) \in Nat
  BY TopIsBound
<1> HIDE DEF S
<1>4. IsFiniteSet(S)
  BY <1>2, <1>3, FS_BoundedSetOfNaturals
<1>5. Max(S) \in S /\ \A k \in S : Max(S) >= k
  BY <1>2, <1>4, LargestNatural DEF Max
<1>6. NextId = Max(S) + 1
  BY DEF NextId, S
<1>7. \A i \in DOMAIN rows : rows[i].id \in S
  BY DEF S
<1>8. Max(S) \in Nat /\ Max(S) <= Top + Len(log)
  BY <1>2, <1>5
<1>9. NextId \in Nat \ {0} /\ NextId <= Top + Len(log) + 1
  BY <1>3, <1>6, <1>8
<1>10. \A i \in DOMAIN rows : rows[i].id # NextId
  BY <1>1, <1>5, <1>6, <1>7, <1>8
<1> QED BY <1>9, <1>10 DEF Found

(* The row of an id. *)
LEMMA RowFound ==
  ASSUME rows \in Seq(Entries), NEW id, Found(id)
  PROVE  /\ At(id) \in DOMAIN rows /\ Row(id) = rows[At(id)] /\ Row(id) \in Entries /\ Row(id).id = id
         /\ \A i \in DOMAIN rows : Single(rows) /\ rows[i].id = id => Row(id) = rows[i]
<1>1. At(id) \in DOMAIN rows /\ rows[At(id)].id = id
  BY LastPosition DEF Found, At
<1>2. Row(id) = rows[At(id)] /\ Row(id) \in Entries
  BY <1>1, Positions DEF Row
<1> QED BY <1>1, <1>2 DEF Single

----------------------------------------------------------------------------
(* What the stores make of their rows. *)

\* A list that may take the place of the rows once one more mutation is logged.
NextRows(w) ==
  /\ w \in Seq(Entries) /\ \A i \in DOMAIN w : w[i].id <= Top + Len(log) + 1
  /\ SQL => Single(w)
  /\ backend = "sqlite" => Live(w) = DOMAIN w

\* One in which no record that is ahead falls back.
KeepsAhead(w) ==
  \A offset \in Nat : \A id : Ahead(rows, offset, id) => Ahead(w, offset, id)

LEMMA BoundGrows ==
  ASSUME SimulatorAssumption, RowsInv, Len(log) \in Nat
  PROVE  \A i \in DOMAIN rows : rows[i].id <= Top + Len(log) + 1
<1>1. \A e \in Entries : e.id \in Nat
  BY TopIsBound DEF Entries
<1>2. \A i \in DOMAIN rows : rows[i].id \in Nat /\ rows[i].id <= Top + Len(log)
  BY <1>1, Positions DEF RowsInv
<1> QED BY <1>2, TopIsBound

LEMMA AppendNext ==
  ASSUME SimulatorAssumption, RowsInv, Len(log) \in Nat,
         NEW r \in Entries, r.id <= Top + Len(log) + 1, backend = "memory"
  PROVE  NextRows(Append(rows, r)) /\ KeepsAhead(Append(rows, r))
<1> DEFINE w == Append(rows, r)
<1>1. /\ w \in Seq(Entries) /\ w[Len(rows) + 1] = r
      /\ \A i \in DOMAIN rows : i \in DOMAIN w /\ w[i] = rows[i]
      /\ \A i \in DOMAIN w : i \in DOMAIN rows \/ i = Len(rows) + 1
  BY AppendedRow DEF RowsInv
<1> HIDE DEF w
<1>2. \A i \in DOMAIN w : w[i].id <= Top + Len(log) + 1
  BY <1>1, BoundGrows
<1>3. Live(rows) \subseteq Live(w) /\ \A i \in Live(rows) : w[i].id = rows[i].id
  BY <1>1 DEF Live
<1>4. KeepsAhead(w)
  BY <1>1, <1>3, GrownAhead DEF KeepsAhead, RowsInv
<1>5. NextRows(w)
  BY <1>1, <1>2 DEF NextRows, SQL
<1> QED BY <1>4, <1>5 DEF w

LEMMA ReplacedNext ==
  ASSUME SimulatorAssumption, RowsInv, Len(log) \in Nat,
         NEW r \in Entries, Found(r.id), backend = "memory"
  PROVE  /\ NextRows(Replaced(r))
         /\ ~r.deleted \/ Row(r.id).deleted => KeepsAhead(Replaced(r))
<1> DEFINE k == At(r.id)  w == [rows EXCEPT ![k] = r]
<1>1. k \in DOMAIN rows /\ Row(r.id) = rows[k] /\ rows[k].id = r.id
  BY RowFound DEF RowsInv
<1> HIDE DEF k
<1>2. w \in Seq(Entries) /\ DOMAIN w = DOMAIN rows
      /\ \A i \in DOMAIN rows : w[i] = IF i = k THEN r ELSE rows[i]
  BY <1>1 DEF RowsInv
<1> HIDE DEF w
<1>3. \A i \in DOMAIN w : w[i].id = rows[i].id
  BY <1>1, <1>2
<1>4. NextRows(w)
  BY <1>2, <1>3, BoundGrows DEF NextRows, SQL
<1>5. ASSUME ~r.deleted \/ Row(r.id).deleted PROVE KeepsAhead(w)
  <2>1. Live(rows) \subseteq Live(w) /\ \A i \in Live(rows) : w[i].id = rows[i].id
    BY <1>1, <1>2, <1>3, <1>5 DEF Live
  <2> QED BY <1>2, <2>1, GrownAhead DEF KeepsAhead, RowsInv
<1>6. Replaced(r) = w
  BY DEF Replaced, w, k
<1> QED BY <1>4, <1>5, <1>6

\* The rows of other ids.
Others(id) == {i \in DOMAIN rows : rows[i].id # id}

LEMMA WithoutNext ==
  ASSUME SimulatorAssumption, RowsInv, Len(log) \in Nat, NEW id
  PROVE  /\ NextRows(Without(id))
         /\ Range(Without(id)) = {e \in Range(rows) : e.id # id}
         /\ Live(rows) \subseteq Others(id) => KeepsAhead(Without(id))
<1> DEFINE w == Picked(rows, Others(id))
<1>1. Others(id) \in SUBSET (DOMAIN rows) /\ rows \in Seq(Entries)
  BY DEF Others, RowsInv
<1>2. Without(id) = w
  BY DEF Without, Others
<1>3. /\ w \in Seq(Entries) /\ Range(w) = {rows[i] : i \in Others(id)}
      /\ Single(rows) => Single(w)
  BY <1>1, PickedRows
<1> HIDE DEF w
<1>4. Range(w) = {e \in Range(rows) : e.id # id}
  BY <1>3 DEF Range, Others
<1>5. \A i \in DOMAIN w : \E j \in DOMAIN rows : w[i] = rows[j]
  BY <1>4 DEF Range
<1>6. NextRows(w)
  <2>1. \A i \in DOMAIN w : w[i].id <= Top + Len(log) + 1
    BY <1>5, BoundGrows
  <2>2. Live(rows) = DOMAIN rows => Live(w) = DOMAIN w
    BY <1>5 DEF Live
  <2> QED BY <1>3, <2>1, <2>2 DEF NextRows, RowsInv
<1>7. Live(rows) \subseteq Others(id) => KeepsAhead(w)
  BY <1>1, PickedAhead DEF KeepsAhead, w
<1> QED BY <1>2, <1>4, <1>6, <1>7

LEMMA ToEndNext ==
  ASSUME SimulatorAssumption, RowsInv, Len(log) \in Nat, NEW r \in Entries,
         r.id <= Top + Len(log) + 1, backend = "sqlite" => ~r.deleted
  PROVE  /\ NextRows(ToEnd(r))
         /\ Range(ToEnd(r)) = {e \in Range(rows) : e.id # r.id} \cup {r}
         /\ Live(rows) \subseteq Others(r.id) => KeepsAhead(ToEnd(r))
<1> DEFINE v == Without(r.id)  w == Append(v, r)
<1>1. /\ NextRows(v) /\ Range(v) = {e \in Range(rows) : e.id # r.id}
      /\ Live(rows) \subseteq Others(r.id) => KeepsAhead(v)
  BY WithoutNext
<1>2. ToEnd(r) = w
  BY DEF ToEnd
<1> HIDE DEF v
<1>3. v \in Seq(Entries)
  BY <1>1 DEF NextRows
<1>4. /\ w \in Seq(Entries) /\ w[Len(v) + 1] = r /\ Len(v) + 1 \in DOMAIN w
      /\ \A i \in DOMAIN v : i \in DOMAIN w /\ w[i] = v[i]
      /\ \A i \in DOMAIN w : i \in DOMAIN v \/ i = Len(v) + 1
  BY <1>3, AppendedRow
<1> HIDE DEF w
<1>5. Range(w) = Range(v) \cup {r}
  BY <1>4 DEF Range
<1>6. \A i \in DOMAIN v : v[i].id # r.id
  BY <1>1 DEF Range
<1>7. NextRows(w)
  <2>1. \A i \in DOMAIN w : w[i].id <= Top + Len(log) + 1
    BY <1>1, <1>4 DEF NextRows
  <2>2. SQL => Single(w)
    BY <1>1, <1>4, <1>6 DEF NextRows, Single
  <2>3. backend = "sqlite" => Live(w) = DOMAIN w
    BY <1>1, <1>4 DEF NextRows, Live
  <2> QED BY <1>4, <2>1, <2>2, <2>3 DEF NextRows
<1>8. ASSUME Live(rows) \subseteq Others(r.id) PROVE KeepsAhead(w)
  <2>1. Live(v) \subseteq Live(w) /\ \A i \in Live(v) : w[i].id = v[i].id
    BY <1>4 DEF Live
  <2>2. \A offset \in Nat : \A id : Ahead(v, offset, id) => Ahead(w, offset, id)
    BY <1>3, <1>4, <2>1, GrownAhead
  <2> QED BY <1>1, <1>8, <2>2 DEF KeepsAhead
<1> QED BY <1>1, <1>2, <1>5, <1>7, <1>8

LEMMA RequestRoom ==
  ASSUME SimulatorAssumption, CountInv
  PROVE  /\ Len(log) \in Nat /\ Cardinality(Pending) \in Nat /\ made \in Nat
         /\ \A c \in Pending : Cardinality(Pending) >= 1 /\ Len(log) + 1 <= MaxCalls
<1>1. Len(log) \in Nat /\ made \in 0 .. MaxCalls /\ MaxCalls \in Nat
  BY TopIsBound DEF CountInv
<1>2. Cardinality(Pending) \in Nat
  BY FS_CardinalityType DEF CountInv
<1>3. \A c \in Pending : Cardinality(Pending) # 0
  <2>1. IsFiniteSet(Pending)
    BY DEF CountInv
  <2> HIDE DEF Pending
  <2> QED BY <2>1, FS_EmptySet
<1>4. Len(log) + Cardinality(Pending) <= made
  BY DEF CountInv
<1> HIDE DEF Pending
<1> QED BY <1>1, <1>2, <1>3, <1>4

(* What is looked up fits the request. *)
LEMMA LookupFits ==
  ASSUME SimulatorAssumption, StoreInv, NEW c \in Clients, calls[c].phase \in {"called", "checked"}
  PROVE  Fits(calls[c]) /\ SeenFits(calls[c], Lookup(calls[c]))
<1> DEFINE call == calls[c]
<1>1. Fits(call)
  BY DEF StoreInv, CallInv
<1>2. Len(log) \in Nat /\ Len(log) + 1 <= MaxCalls
  BY RequestRoom DEF StoreInv, Pending
<1>3. RowsInv /\ rows \in Seq(Entries)
  BY DEF StoreInv, RowsInv
<1>4. CASE call.op = "create"
  <2> DEFINE id == IF call.id = 0 THEN NextId ELSE call.id
  <2>1. Lookup(call) = [ok |-> TRUE, id |-> id]
    BY <1>4 DEF Lookup
  <2>2. id \in Nat \ {0} /\ id <= Top + Len(log) + 1
    <3>1. CASE call.id = 0
      BY <1>2, <1>3, <3>1, NextIdBound
    <3>2. CASE call.id # 0
      <4>1. id \in PostedIds
        BY <1>1, <1>4, <3>2 DEF Fits
      <4>2. id \in Nat \ {0} /\ id <= Top /\ Top \in Nat
        BY <4>1, TopIsBound DEF SimulatorAssumption
      <4> HIDE DEF id
      <4> QED BY <1>2, <4>2
    <3> QED BY <3>1, <3>2
  <2>3. id \in RecordIds
    <3> HIDE DEF id
    <3> QED BY <1>2, <2>2, TopIsBound
  <2> HIDE DEF id
  <2> QED BY <1>1, <1>4, <2>1, <2>2, <2>3 DEF SeenFits
<1>5. CASE call.op # "create" /\ Found(call.id)
  <2>1. Lookup(call) = [ok |-> call.op # "delete" \/ ~Row(call.id).deleted,
                        id |-> call.id, row |-> Row(call.id)]
    BY <1>5 DEF Lookup
  <2>2. /\ At(call.id) \in DOMAIN rows /\ Row(call.id) = rows[At(call.id)]
        /\ Row(call.id) \in Entries /\ Row(call.id).id = call.id
    BY <1>3, <1>5, RowFound
  <2>3. backend = "sqlite" => ~Row(call.id).deleted
    BY <1>3, <2>2 DEF RowsInv, Live
  <2> QED BY <1>1, <1>5, <2>1, <2>2, <2>3 DEF SeenFits, Fits
<1>6. CASE call.op # "create" /\ ~Found(call.id)
  <2>1. Lookup(call) = [ok |-> FALSE]
    BY <1>6 DEF Lookup
  <2> QED BY <1>1, <2>1 DEF SeenFits
<1> QED BY <1>4, <1>5, <1>6

(* So does what a request is written with. *)
LEMMA SeenFitsNow ==
  ASSUME SimulatorAssumption, StoreInv, NEW c \in Clients, CanWrite(c)
  PROVE  c \in Pending /\ Fits(calls[c]) /\ SeenFits(calls[c], Seen(c))
<1>1. CASE backend = "postgres"
  BY <1>1 DEF CanWrite, Pending, Seen, StoreInv, CallInv
<1>2. CASE backend # "postgres"
  <2>1. calls[c].phase \in {"called", "checked"}
    BY <1>2 DEF CanWrite, Ready
  <2> QED BY <1>2, <2>1, LookupFits DEF Seen, Pending
<1> QED BY <1>1, <1>2

(* The rows that requests write. *)
LEMMA NewRow ==
  ASSUME Len(log) \in Nat, NEW call, call.body \in [Fields -> 0 .. MaxCalls], NEW id \in RecordIds
  PROVE  /\ New(call, id) \in Entries /\ New(call, id).id = id /\ ~New(call, id).deleted
         /\ New(call, id).data = call.body
  BY DEF New, Entries, Stamp

LEMMA MergedRow ==
  ASSUME Len(log) \in Nat, NEW call, call.body \in Bodies, NEW row \in Entries
  PROVE  /\ Merged(call, row) \in Entries /\ Merged(call, row).id = row.id
         /\ Merged(call, row).deleted = row.deleted
         /\ Merged(call, row).data =
              [f \in Fields |-> IF f \in DOMAIN call.body THEN call.body[f] ELSE row.data[f]]
<1>1. Stamp \in Nat
  BY DEF Stamp
<1> DEFINE data == [f \in Fields |-> IF f \in DOMAIN call.body THEN call.body[f] ELSE row.data[f]]
<1>3. data \in [Fields -> 0 .. MaxCalls]
  <2>1. PICK F \in SUBSET Fields : call.body \in [F -> 0 .. MaxCalls]
    BY DEF Bodies
  <2>2. row.data \in [Fields -> 0 .. MaxCalls]
    BY DEF Entries
  <2> QED BY <2>1, <2>2
<1>4. Merged(call, row) = [row EXCEPT !.data = data, !.rev = Stamp]
  BY DEF Merged
<1> HIDE DEF data
<1>5. /\ Merged(call, row) \in Entries /\ Merged(call, row).id = row.id
      /\ Merged(call, row).deleted = row.deleted /\ Merged(call, row).data = data
  BY <1>1, <1>3, <1>4 DEF Entries
<1> QED BY <1>5 DEF data

LEMMA MarkedRow ==
  ASSUME Len(log) \in Nat, NEW row \in Entries, NEW d \in BOOLEAN
  PROVE  /\ Marked(row, d) \in Entries /\ Marked(row, d).id = row.id
         /\ Marked(row, d).deleted = d
<1>1. Stamp \in Nat
  BY DEF Stamp
<1>2. Marked(row, d) = [row EXCEPT !.rev = Stamp, !.deleted = d]
  BY DEF Marked
<1> QED BY <1>1, <1>2 DEF Entries

(* A record that is written and was not listed is none of the live ones. *)
LEMMA NotMoved ==
  ASSUME RowsInv, SQL, NEW call, NEW seen, Mutates(call, seen), ~Moves(call, seen)
  PROVE  Live(rows) \subseteq Others(seen.id)
<1> SUFFICES ASSUME NEW i \in Live(rows), rows[i].id = seen.id PROVE FALSE
  BY DEF Others, Live
<1>1. i \in DOMAIN rows /\ ~rows[i].deleted /\ Found(seen.id)
  BY DEF Live, Found
<1>2. Row(seen.id) = rows[i]
  BY <1>1, RowFound DEF RowsInv
<1> QED BY <1>1, <1>2 DEF Moves

(* Whatever a store writes is a list of rows, and when it does not move a listed     *)
(* record, none that is ahead falls back.                                            *)
LEMMA WrittenNext ==
  ASSUME SimulatorAssumption, backend \in Backends, RowsInv, Len(log) \in Nat,
         NEW call, NEW seen, Fits(call), SeenFits(call, seen), seen.ok,
         Mutates(call, seen), ~(call.op = "restore" /\ backend = "sqlite")
  PROVE  /\ NextRows(Written(call, seen))
         /\ ~Moves(call, seen) => KeepsAhead(Written(call, seen))
         /\ backend = "postgres" =>
              \A id : Found(id) => \E e \in Range(Written(call, seen)) : e.id = id
<1>0. rows \in Seq(Entries)
  BY DEF RowsInv
<1>1. /\ seen.id \in RecordIds
      /\ call.op = "create" => seen.id <= Top + Len(log) + 1
      /\ call.op # "create" => /\ seen.row \in Entries /\ seen.row.id = seen.id /\ Found(seen.id)
                               /\ backend = "sqlite" => ~seen.row.deleted
  BY DEF SeenFits
<1>2. Found(seen.id) => /\ Row(seen.id) \in Entries /\ Row(seen.id).id = seen.id
                        /\ seen.id <= Top + Len(log) + 1
                        /\ backend = "sqlite" => ~Row(seen.id).deleted
  <2> SUFFICES ASSUME Found(seen.id)
               PROVE  /\ Row(seen.id) \in Entries /\ Row(seen.id).id = seen.id
                      /\ seen.id <= Top + Len(log) + 1
                      /\ backend = "sqlite" => ~Row(seen.id).deleted
    OBVIOUS
  <2>1. /\ At(seen.id) \in DOMAIN rows /\ Row(seen.id) = rows[At(seen.id)]
        /\ Row(seen.id) \in Entries /\ Row(seen.id).id = seen.id
    BY <1>0, RowFound
  <2>2. rows[At(seen.id)].id <= Top + Len(log) + 1
    BY <2>1, BoundGrows
  <2>3. backend = "sqlite" => ~rows[At(seen.id)].deleted
    BY <2>1 DEF RowsInv, Live
  <2> QED BY <2>1, <2>2, <2>3
<1>3. call.op \in Ops
  BY DEF Fits
<1> DEFINE merged == Merged(call, seen.row)
<1>9. call.op # "create" => /\ merged \in Entries /\ merged.id = seen.id
                            /\ merged.deleted = seen.row.deleted
  <2> SUFFICES ASSUME call.op # "create"
               PROVE  merged \in Entries /\ merged.id = seen.id /\ merged.deleted = seen.row.deleted
    OBVIOUS
  <2>1. seen.row \in Entries /\ seen.row.id = seen.id
    BY <1>1
  <2>2. call.body \in Bodies
    BY DEF Fits
  <2> QED BY <2>1, <2>2, MergedRow
<1> HIDE DEF merged
<1>4. CASE backend = "memory"
  <2>1. CASE call.op = "create"
    <3>1. New(call, seen.id) \in Entries /\ New(call, seen.id).id = seen.id
      BY <1>1, <2>1, NewRow DEF Fits
    <3>2. Written(call, seen) = Append(rows, New(call, seen.id))
      BY <1>4, <2>1 DEF Written, MemoryWritten
    <3> QED BY <1>1, <1>4, <2>1, <3>1, <3>2, AppendNext
  <2>2. CASE call.op = "update"
    <3> DEFINE r == Marked(merged, FALSE)
    <3>1. r \in Entries /\ r.id = seen.id /\ ~r.deleted
      <4>1. merged \in Entries /\ merged.id = seen.id
        BY <1>9, <2>2
      <4> QED BY <4>1, MarkedRow
    <3>2. Written(call, seen) = Replaced(r)
      BY <1>4, <2>2 DEF Written, MemoryWritten, merged
    <3> HIDE DEF r
    <3> QED BY <1>1, <1>4, <2>2, <3>1, <3>2, ReplacedNext
  <2>3. CASE call.op \in {"delete", "restore"}
    <3> DEFINE d == call.op = "delete"  r == Marked(seen.row, d)
    <3>1. r \in Entries /\ r.id = seen.id /\ r.deleted = d
      <4>1. d \in BOOLEAN
        OBVIOUS
      <4> HIDE DEF d
      <4> QED BY <1>1, <2>3, <4>1, MarkedRow
    <3>2. Written(call, seen) = Replaced(r)
      BY <1>4, <2>3 DEF Written, MemoryWritten
    <3> HIDE DEF r
    <3>3. NextRows(Replaced(r)) /\ (~r.deleted \/ Row(seen.id).deleted => KeepsAhead(Replaced(r)))
      BY <1>1, <1>4, <2>3, <3>1, ReplacedNext
    <3>4. ~Moves(call, seen) => ~r.deleted \/ Row(seen.id).deleted
      BY <1>1, <2>3, <3>1 DEF Moves
    <3> QED BY <1>4, <3>2, <3>3, <3>4
  <2> QED BY <1>3, <2>1, <2>2, <2>3 DEF Ops
<1>5. ASSUME SQL, NEW r \in Entries, r.id = seen.id, backend = "sqlite" => ~r.deleted,
             Written(call, seen) = ToEnd(r)
      PROVE  /\ NextRows(Written(call, seen))
             /\ ~Moves(call, seen) => KeepsAhead(Written(call, seen))
             /\ \A id : Found(id) => \E e \in Range(Written(call, seen)) : e.id = id
  <2>1. r.id <= Top + Len(log) + 1
    BY <1>1, <1>2, <1>5
  <2>2. /\ NextRows(ToEnd(r)) /\ Range(ToEnd(r)) = {e \in Range(rows) : e.id # r.id} \cup {r}
        /\ Live(rows) \subseteq Others(r.id) => KeepsAhead(ToEnd(r))
    BY <1>5, <2>1, ToEndNext
  <2>3. ~Moves(call, seen) => Live(rows) \subseteq Others(r.id)
    BY <1>5, NotMoved
  <2>4. ASSUME NEW id, Found(id) PROVE \E e \in Range(ToEnd(r)) : e.id = id
    BY <2>2, <2>4 DEF Found, Range
  <2> QED BY <1>5, <2>2, <2>3, <2>4
<1>6. CASE call.op = "create" /\ SQL
  <2>1. New(call, seen.id) \in Entries /\ New(call, seen.id).id = seen.id /\ ~New(call, seen.id).deleted
    BY <1>1, <1>6, NewRow DEF Fits
  <2>2. Written(call, seen) = ToEnd(New(call, seen.id))
    BY <1>6 DEF Written, SqliteWritten, PostgresWritten, SQL, SimulatorAssumption
  <2> QED BY <1>5, <1>6, <2>1, <2>2
<1>7. CASE call.op # "create" /\ backend = "sqlite"
  <2>1. CASE call.op = "update"
    <3>1. Written(call, seen) = ToEnd(merged)
      BY <1>7, <2>1 DEF Written, SqliteWritten, merged
    <3> QED BY <1>1, <1>5, <1>7, <1>9, <3>1 DEF SQL
  <2>2. CASE call.op = "delete"
    <3>1. Written(call, seen) = Without(seen.id)
      BY <1>7, <2>2 DEF Written, SqliteWritten
    <3>2. ~Moves(call, seen) => Live(rows) \subseteq Others(seen.id)
      BY <1>7, NotMoved DEF SQL
    <3> QED BY <1>7, <3>1, <3>2, WithoutNext
  <2> QED BY <1>3, <1>7, <2>1, <2>2 DEF Ops
<1>8. CASE call.op # "create" /\ backend = "postgres"
  <2> DEFINE row == Row(seen.id)
  <2>1. row \in Entries /\ row.id = seen.id
    BY <1>1, <1>2, <1>8
  <2> HIDE DEF row
  <2>2. CASE call.op = "update"
    <3> DEFINE r == [merged EXCEPT !.deleted = row.deleted]
    <3>1. r \in Entries /\ r.id = seen.id
      BY <1>8, <1>9, <2>1 DEF Entries
    <3>2. Written(call, seen) = ToEnd(r)
      BY <1>8, <2>2 DEF Written, PostgresWritten, merged, row
    <3> HIDE DEF r
    <3> QED BY <1>5, <1>8, <3>1, <3>2 DEF SQL
  <2>3. CASE call.op \in {"delete", "restore"}
    <3> DEFINE d == call.op = "delete"  r == Marked(row, d)
    <3>1. r \in Entries /\ r.id = seen.id
      <4>1. d \in BOOLEAN
        OBVIOUS
      <4> HIDE DEF d
      <4> QED BY <2>1, <4>1, MarkedRow
    <3>2. Written(call, seen) = ToEnd(r)
      BY <1>8, <2>3 DEF Written, PostgresWritten, row
    <3> HIDE DEF r
    <3> QED BY <1>5, <1>8, <3>1, <3>2 DEF SQL
  <2> QED BY <1>3, <1>8, <2>2, <2>3 DEF Ops
<1> QED BY <1>4, <1>6, <1>7, <1>8 DEF SQL, SimulatorAssumption

----------------------------------------------------------------------------
(* The store and its requests keep their types. *)

SeedRow(id) == [id |-> id, data |-> [f \in Fields |-> 0], rev |-> 0, deleted |-> FALSE]

LEMMA SeedRowsAre ==
  ASSUME SimulatorAssumption, NEW S \in SUBSET Seeds
  PROVE  /\ SeedRows(S) \in Seq(Entries) /\ Single(SeedRows(S))
         /\ Range(SeedRows(S)) = {SeedRow(id) : id \in S}
         /\ Live(SeedRows(S)) = DOMAIN SeedRows(S)
<1> DEFINE t == SeedRows(S)  n == Cardinality(S)
<1>1. S \in SUBSET Nat /\ IsFiniteSet(S) /\ \A id \in S : id \in RecordIds
  BY TopIsBound, FS_Subset DEF SimulatorAssumption
<1>2. /\ n \in Nat /\ Ascending(S) \in [1 .. n -> S]
      /\ \A k \in 1 .. n : Place(S, Ascending(S)[k]) = k
      /\ \A x \in S : Place(S, x) \in 1 .. n /\ Ascending(S)[Place(S, x)] = x
  BY <1>1, AscendingSorts
<1> HIDE DEF n
<1>3. t = [i \in 1 .. n |-> SeedRow(Ascending(S)[i])]
  BY DEF SeedRows, SeedRow, n
<1> HIDE DEF t
<1>4. \A id \in S : SeedRow(id) \in Entries /\ SeedRow(id).id = id /\ ~SeedRow(id).deleted
  <2>1. 0 \in 0 .. MaxCalls
    BY TopIsBound
  <2> QED BY <1>1, <2>1 DEF SeedRow, Entries
<1>5. t \in [1 .. n -> Entries]
  BY <1>2, <1>3, <1>4
<1>6. t \in Seq(Entries) /\ DOMAIN t = 1 .. n
  BY <1>2, <1>5
<1>7. \A i \in 1 .. n : t[i] = SeedRow(Ascending(S)[i]) /\ Ascending(S)[i] \in S
  BY <1>2, <1>3
<1>8. Range(t) = {SeedRow(id) : id \in S}
  BY <1>2, <1>6, <1>7 DEF Range
<1>9. Single(t)
  <2> SUFFICES ASSUME NEW i \in 1 .. n, NEW j \in 1 .. n, t[i].id = t[j].id PROVE i = j
    BY <1>6 DEF Single
  <2>1. Ascending(S)[i] = Ascending(S)[j]
    BY <1>4, <1>7
  <2> QED BY <1>2, <2>1
<1>10. Live(t) = DOMAIN t
  BY <1>4, <1>6, <1>7 DEF Live
<1> QED BY <1>6, <1>8, <1>9, <1>10 DEF t

LEMMA Joined ==
  ASSUME NEW s \in Seq(Entries), NEW t \in Seq(Entries)
  PROVE  /\ s \o t \in Seq(Entries) /\ Range(s \o t) = Range(s) \cup Range(t)
         /\ Live(s) = DOMAIN s /\ Live(t) = DOMAIN t => Live(s \o t) = DOMAIN (s \o t)
         /\ Single(s) /\ Single(t) /\ (\A d \in Range(s), e \in Range(t) : d.id # e.id)
              => Single(s \o t)
<1> DEFINE m == Len(s)  n == Len(t)  w == s \o t
<1>1. m \in Nat /\ n \in Nat /\ DOMAIN s = 1 .. m /\ DOMAIN t = 1 .. n
  BY LenProperties
<1>2. /\ w \in Seq(Entries) /\ Len(w) = m + n
      /\ \A i \in 1 .. m + n : w[i] = IF i <= m THEN s[i] ELSE t[i - m]
  BY ConcatProperties
<1>3. DOMAIN w = 1 .. m + n
  BY <1>2, LenProperties
<1> HIDE DEF m, n, w
<1>4. \A i \in DOMAIN w : \/ i \in DOMAIN s /\ w[i] = s[i]
                          \/ i > m /\ i - m \in DOMAIN t /\ w[i] = t[i - m]
  BY <1>1, <1>2, <1>3
<1>5. \A i \in DOMAIN s : i \in DOMAIN w /\ w[i] = s[i]
  BY <1>1, <1>2, <1>3
<1>6. \A i \in DOMAIN t : i + m \in DOMAIN w /\ w[i + m] = t[i]
  <2>1. \A i \in 1 .. n : i + m \in 1 .. m + n /\ ~(i + m <= m) /\ (i + m) - m = i
    BY <1>1
  <2> QED BY <1>1, <1>2, <1>3, <2>1
<1>7. Range(w) = Range(s) \cup Range(t)
  BY <1>4, <1>5, <1>6 DEF Range
<1>8. Live(s) = DOMAIN s /\ Live(t) = DOMAIN t => Live(w) = DOMAIN w
  BY <1>4 DEF Live
<1>9. ASSUME Single(s), Single(t), \A d \in Range(s), e \in Range(t) : d.id # e.id
      PROVE  Single(w)
  <2> SUFFICES ASSUME NEW i \in DOMAIN w, NEW j \in DOMAIN w, w[i].id = w[j].id PROVE i = j
    BY DEF Single
  <2>1. CASE i \in DOMAIN s /\ w[i] = s[i] /\ j \in DOMAIN s /\ w[j] = s[j]
    BY <1>9, <2>1 DEF Single
  <2>2. CASE /\ i > m /\ i - m \in DOMAIN t /\ w[i] = t[i - m]
             /\ j > m /\ j - m \in DOMAIN t /\ w[j] = t[j - m]
    <3>1. i - m = j - m
      BY <1>9, <2>2 DEF Single
    <3> QED BY <1>1, <1>3, <3>1
  <2>3. CASE i \in DOMAIN s /\ w[i] = s[i] /\ j - m \in DOMAIN t /\ w[j] = t[j - m]
    BY <1>9, <2>3 DEF Range
  <2>4. CASE j \in DOMAIN s /\ w[j] = s[j] /\ i - m \in DOMAIN t /\ w[i] = t[i - m]
    BY <1>9, <2>4 DEF Range
  <2> QED BY <1>4, <2>1, <2>2, <2>3, <2>4
<1> QED BY <1>2, <1>7, <1>8, <1>9 DEF w

LEMMA StoreInit == ASSUME SimulatorAssumption, Init PROVE StoreInv
<1>1. log = <<>> /\ made = 0 /\ Len(log) = 0 /\ log \in Seq(Range(log)) /\ MaxCalls \in Nat /\ Top \in Nat
  BY TopIsBound DEF Init
<1>2. rows \in Seq(Entries) /\ Single(rows) /\ Live(rows) = DOMAIN rows
      /\ Range(rows) = {SeedRow(id) : id \in Seeds}
  BY SeedRowsAre DEF Init
<1>3. ASSUME NEW i \in DOMAIN rows PROVE rows[i].id <= Top + Len(log)
  <2>1. PICK id \in Seeds : rows[i] = SeedRow(id)
    BY <1>2 DEF Range
  <2>2. id <= Top /\ id \in Nat
    BY TopIsBound DEF SimulatorAssumption
  <2> QED BY <1>1, <2>1, <2>2 DEF SeedRow
<1>4. RowsInv
  BY <1>2, <1>3 DEF RowsInv
<1>5. calls = [c \in Clients |-> calls[c]] /\ \A c \in Clients : calls[c] = Idle
  BY DEF Init
<1>6. Pending = {} /\ \A c \in Clients : CallInv(calls[c])
  BY <1>5 DEF Pending, CallInv, Idle
<1>7. CountInv
  BY <1>1, <1>6, FS_EmptySet DEF CountInv
<1> QED BY <1>4, <1>5, <1>6, <1>7 DEF StoreInv, Init

(* A step that moves one request on, and writes nothing. *)
LEMMA MoveKeepsStore ==
  ASSUME SimulatorAssumption, StoreInv, UNCHANGED <<backend, rows, log>>,
         NEW c \in Clients, NEW call, calls' = [calls EXCEPT ![c] = call], CallInv(call),
         \/ made' = made /\ (c \in Pending \/ call.phase \notin {"called", "checked", "selected"})
         \/ made' = made + 1 /\ made < MaxCalls
  PROVE  StoreInv'
<1>0. CountInv /\ RowsInv /\ MaxCalls \in Nat
  BY TopIsBound DEF StoreInv
<1>1. RowsInv'
  BY <1>0 DEF RowsInv, SQL
<1>2. \A d \in Clients : calls'[d] = IF d = c THEN call ELSE calls[d]
  BY DEF StoreInv
<1>3. calls' = [d \in Clients |-> calls'[d]]
  BY DEF StoreInv
<1>4. ASSUME NEW d \in Clients PROVE CallInv(calls[d])'
  <2>1. CallInv(calls'[d])
    BY <1>2 DEF StoreInv
  <2> QED BY <2>1 DEF CallInv, SeenFits, Found
<1>5. Len(log) \in Nat /\ Cardinality(Pending) \in Nat /\ made \in Nat /\ IsFiniteSet(Pending)
      /\ Len(log) + Cardinality(Pending) <= made /\ made <= MaxCalls
  BY <1>0, RequestRoom DEF CountInv
<1>6. CASE made' = made /\ (c \in Pending \/ call.phase \notin {"called", "checked", "selected"})
  <2>1. Pending' \in SUBSET Pending
    BY <1>2, <1>6 DEF Pending
  <2>2. IsFiniteSet(Pending') /\ Cardinality(Pending') <= Cardinality(Pending)
    BY <1>5, <2>1, FS_Subset
  <2>3. Cardinality(Pending') \in Nat
    BY <2>2, FS_CardinalityType
  <2>4. CountInv'
    BY <1>0, <1>5, <1>6, <2>2, <2>3 DEF CountInv
  <2> QED BY <1>1, <1>3, <1>4, <2>4 DEF StoreInv
<1>7. CASE made' = made + 1 /\ made < MaxCalls
  <2>1. Pending' \in SUBSET (Pending \cup {c})
    BY <1>2 DEF Pending
  <2>2. IsFiniteSet(Pending \cup {c}) /\ Cardinality(Pending \cup {c}) <= Cardinality(Pending) + 1
        /\ Cardinality(Pending \cup {c}) \in Nat
    <3> HIDE DEF Pending
    <3>1. /\ IsFiniteSet(Pending \cup {c})
          /\ Cardinality(Pending \cup {c}) =
               IF c \in Pending THEN Cardinality(Pending) ELSE Cardinality(Pending) + 1
      BY <1>5, FS_AddElement
    <3> QED BY <1>5, <3>1
  <2>3. IsFiniteSet(Pending') /\ Cardinality(Pending') <= Cardinality(Pending \cup {c})
    BY <2>1, <2>2, FS_Subset
  <2>4. Cardinality(Pending') \in Nat
    BY <2>3, FS_CardinalityType
  <2>5. CountInv'
    BY <1>0, <1>5, <1>7, <2>2, <2>3, <2>4 DEF CountInv
  <2> QED BY <1>1, <1>3, <1>4, <2>5 DEF StoreInv
<1> QED BY <1>6, <1>7

(* A request that is made. *)
LEMMA RequestKeepsStore ==
  ASSUME SimulatorAssumption, StoreInv, NEW c \in Clients,
         NEW op \in Ops, NEW id \in RecordIds \cup {0}, NEW body \in Bodies, NEW match \in Nat,
         op = "create" => id \in {0} \cup PostedIds /\ body \in [Fields -> 0 .. MaxCalls] /\ match = 0,
         op # "create" => id \in RecordIds,
         Request(c, op, id, body, match)
  PROVE  StoreInv'
<1> DEFINE call == [phase |-> "called", op |-> op, id |-> id, body |-> body, match |-> match]
<1>1. CallInv(call)
  BY DEF CallInv, Asks, Fits
<1>2. /\ calls' = [calls EXCEPT ![c] = call] /\ UNCHANGED <<backend, rows, log>>
      /\ made' = made + 1 /\ made < MaxCalls
  BY DEF Request
<1> HIDE DEF call
<1> QED BY <1>1, <1>2, MoveKeepsStore

(* No fields are a body, as are some or all of them. *)
LEMMA BodiesAre ==
  /\ <<>> \in Bodies
  /\ \A v \in 0 .. MaxCalls : /\ [f \in Fields |-> v] \in [Fields -> 0 .. MaxCalls]
                            /\ \A f \in Fields : [g \in {f} |-> v] \in Bodies
  /\ [Fields -> 0 .. MaxCalls] \subseteq Bodies
<1>1. <<>> \in [{} -> 0 .. MaxCalls]
  OBVIOUS
<1>2. {} \in SUBSET Fields /\ Fields \in SUBSET Fields /\ \A f \in Fields : {f} \in SUBSET Fields
  OBVIOUS
<1>3. \A F \in SUBSET Fields : [F -> 0 .. MaxCalls] \subseteq Bodies
  BY DEF Bodies
<1>4. \A v \in 0 .. MaxCalls : \A f : [g \in {f} |-> v] \in [{f} -> 0 .. MaxCalls]
  OBVIOUS
<1>5. \A v \in 0 .. MaxCalls : [f \in Fields |-> v] \in [Fields -> 0 .. MaxCalls]
  OBVIOUS
<1> QED BY <1>1, <1>2, <1>3, <1>4, <1>5

LEMMA ClientsKeepStore ==
  ASSUME SimulatorAssumption, StoreInv, NEW c \in Clients,
         \/ Insert(c) \/ EngineUpdate(c) \/ EngineDelete(c)
         \/ LoadPanel(c) \/ SavePanel(c) \/ DeletePanel(c) \/ PressRestore(c)
  PROVE  StoreInv'
<1>1. /\ made \in 0 .. MaxCalls /\ MaxCalls \in Nat /\ (made < MaxCalls => made + 1 \in 0 .. MaxCalls)
      /\ \A id \in PostedIds : id \in RecordIds
  BY TopIsBound DEF StoreInv, CountInv
<1>2. rows \in Seq(Entries)
  BY DEF StoreInv, RowsInv
<1>3. CASE Insert(c)
  <2>1. PICK id \in {0} \cup PostedIds : Request(c, "create", id, [f \in Fields |-> made + 1], 0)
    BY <1>3 DEF Insert
  <2> DEFINE body == [f \in Fields |-> made + 1]
  <2>2. body \in [Fields -> 0 .. MaxCalls] /\ body \in Bodies
    <3>1. made + 1 \in 0 .. MaxCalls
      BY <1>1, <2>1 DEF Request
    <3>2. body \in [Fields -> 0 .. MaxCalls]
      BY <3>1, BodiesAre
    <3> HIDE DEF body
    <3> QED BY <3>2, BodiesAre
  <2>3. Request(c, "create", id, body, 0)
    BY <2>1
  <2> HIDE DEF body
  <2> QED BY <1>1, <2>2, <2>3, RequestKeepsStore DEF Ops
<1>4. CASE EngineUpdate(c)
  <2>1. PICK id \in RecordIds, f \in Fields : Request(c, "update", id, [g \in {f} |-> made + 1], 0)
    BY <1>4 DEF EngineUpdate
  <2> DEFINE body == [g \in {f} |-> made + 1]
  <2>2. body \in Bodies
    <3>1. made + 1 \in 0 .. MaxCalls
      BY <1>1, <2>1 DEF Request
    <3> QED BY <3>1, BodiesAre
  <2>3. Request(c, "update", id, body, 0)
    BY <2>1
  <2> HIDE DEF body
  <2> QED BY <2>2, <2>3, RequestKeepsStore DEF Ops
<1>5. CASE EngineDelete(c)
  <2>1. PICK id \in RecordIds : Request(c, "delete", id, <<>>, 0)
    BY <1>5 DEF EngineDelete
  <2> QED BY <2>1, BodiesAre, RequestKeepsStore DEF Ops
<1>6. CASE LoadPanel(c)
  <2>1. PICK id \in RecordIds : /\ Found(id)
                                /\ calls' = [calls EXCEPT ![c] = [phase |-> "panel", row |-> Row(id)]]
    BY <1>6 DEF LoadPanel
  <2> DEFINE call == [phase |-> "panel", row |-> Row(id)]
  <2>2. CallInv(call) /\ call.phase = "panel"
    BY <1>2, <2>1, RowFound DEF CallInv
  <2>3. calls' = [calls EXCEPT ![c] = call] /\ UNCHANGED <<backend, rows, log, made>>
    BY <1>6, <2>1 DEF LoadPanel
  <2> HIDE DEF call
  <2> QED BY <2>2, <2>3, MoveKeepsStore
<1>7. ASSUME calls[c].phase = "panel"
      PROVE  calls[c].row \in Entries /\ calls[c].row.id \in RecordIds /\ calls[c].row.rev + 1 \in Nat
             /\ calls[c].row.data \in [Fields -> 0 .. MaxCalls]
  <2>1. calls[c].row \in Entries
    BY <1>7 DEF StoreInv, CallInv
  <2> QED BY <2>1 DEF Entries
<1>8. CASE SavePanel(c)
  <2> DEFINE row == calls[c].row
  <2>1. PICK f \in Fields : Request(c, "update", row.id, [row.data EXCEPT ![f] = made + 1], row.rev + 1)
    BY <1>8 DEF SavePanel
  <2>2. row.id \in RecordIds /\ row.rev + 1 \in Nat /\ row.data \in [Fields -> 0 .. MaxCalls]
    BY <1>7, <1>8 DEF SavePanel
  <2> HIDE DEF row
  <2> DEFINE body == [row.data EXCEPT ![f] = made + 1]
  <2>3. body \in Bodies
    <3>1. made + 1 \in 0 .. MaxCalls
      BY <1>1, <2>1 DEF Request
    <3>2. body \in [Fields -> 0 .. MaxCalls]
      BY <2>2, <3>1
    <3> HIDE DEF body
    <3> QED BY <3>2, BodiesAre
  <2>4. Request(c, "update", row.id, body, row.rev + 1)
    BY <2>1
  <2> HIDE DEF body
  <2> QED BY <2>2, <2>3, <2>4, RequestKeepsStore DEF Ops
<1>9. CASE DeletePanel(c)
  <2>1. Request(c, "delete", calls[c].row.id, <<>>, 0) /\ calls[c].row.id \in RecordIds
    BY <1>7, <1>9 DEF DeletePanel
  <2> QED BY <2>1, BodiesAre, RequestKeepsStore DEF Ops
<1>10. CASE PressRestore(c)
  <2>1. PICK id \in RecordIds : Request(c, "restore", id, <<>>, 0)
    BY <1>10 DEF PressRestore
  <2> QED BY <2>1, BodiesAre, RequestKeepsStore DEF Ops
<1> QED BY <1>3, <1>4, <1>5, <1>6, <1>8, <1>9, <1>10

LEMMA ServerKeepsStore ==
  ASSUME SimulatorAssumption, StoreInv, NEW c \in Clients,
         \/ CheckVersion(c) \/ SelectRow(c) \/ Reject(c) \/ FetchMutation(c) \/ Publish(c)
  PROVE  StoreInv'
<1>0. Idle.phase = "idle" /\ CallInv(Idle)
  BY DEF Idle, CallInv
<1>1. ASSUME Ended(c), UNCHANGED <<backend, rows, log, made>> PROVE StoreInv'
  BY <1>0, <1>1, MoveKeepsStore DEF Ended
<1>2. CASE CheckVersion(c)
  <2>1. UNCHANGED <<backend, rows, log, made>> /\ calls[c].phase = "called"
    BY <1>2 DEF CheckVersion
  <2>2. CASE Ended(c)
    BY <1>1, <2>1, <2>2
  <2>3. CASE calls' = [calls EXCEPT ![c].phase = "checked"]
    <3> DEFINE call == [calls[c] EXCEPT !.phase = "checked"]
    <3>1. calls' = [calls EXCEPT ![c] = call]
      BY <2>3
    <3>2. calls[c] \in Asks /\ Fits(calls[c]) /\ c \in Pending
      BY <2>1 DEF StoreInv, CallInv, Pending
    <3>3. call \in Asks /\ call.phase = "checked"
          /\ call.op = calls[c].op /\ call.id = calls[c].id /\ call.body = calls[c].body
          /\ call.match = calls[c].match
      BY <3>2 DEF Asks
    <3>4. CallInv(call)
      <4> HIDE DEF call
      <4> QED BY <3>2, <3>3 DEF CallInv, Fits
    <3> HIDE DEF call
    <3> QED BY <2>1, <3>1, <3>2, <3>4, MoveKeepsStore
  <2> QED BY <1>2, <2>2, <2>3 DEF CheckVersion
<1>3. CASE SelectRow(c)
  <2> DEFINE call == [phase |-> "selected", seen |-> Lookup(calls[c]), op |-> calls[c].op,
                      id |-> calls[c].id, body |-> calls[c].body, match |-> calls[c].match]
  <2>1. calls' = [calls EXCEPT ![c] = call] /\ UNCHANGED <<backend, rows, log, made>>
        /\ backend = "postgres" /\ calls[c].phase \in {"called", "checked"}
    BY <1>3 DEF SelectRow, Ready, StoreInv
  <2>2. Fits(calls[c]) /\ SeenFits(calls[c], Lookup(calls[c])) /\ c \in Pending
    BY <2>1, LookupFits DEF Pending
  <2>3. /\ call.phase = "selected" /\ call.seen = Lookup(calls[c]) /\ call.op = calls[c].op
        /\ call.id = calls[c].id /\ call.body = calls[c].body /\ call.match = calls[c].match
    OBVIOUS
  <2>4. CallInv(call)
    <3> HIDE DEF call
    <3> QED BY <2>1, <2>2, <2>3 DEF CallInv, Fits, SeenFits
  <2> HIDE DEF call
  <2> QED BY <2>1, <2>2, <2>4, MoveKeepsStore
<1>4. CASE Reject(c)
  BY <1>1, <1>4 DEF Reject
<1>5. CASE FetchMutation(c)
  <2> DEFINE call == [phase |-> "fetched", post |-> calls[c].post,
                      events |-> SubSeq(log, Len(log), Len(log))]
  <2>1. calls' = [calls EXCEPT ![c] = call] /\ UNCHANGED <<backend, rows, log, made>>
    BY <1>5 DEF FetchMutation, StoreInv
  <2>2. CallInv(call) /\ call.phase = "fetched"
    BY DEF CallInv
  <2> HIDE DEF call
  <2> QED BY <2>1, <2>2, MoveKeepsStore
<1>6. CASE Publish(c)
  BY <1>1, <1>6 DEF Publish
<1> QED BY <1>2, <1>3, <1>4, <1>5, <1>6

(* A request that is written, and what that does to a walk. *)
LEMMA WriteKeepsStore ==
  ASSUME SimulatorAssumption, StoreInv, NEW c \in Clients, Write(c)
  PROVE  StoreInv' /\ (Moves(calls[c], Seen(c)) \/ KeepsAhead(rows'))
<1> DEFINE call == calls[c]  seen == Seen(c)  mutates == Mutates(call, seen)
           e == [op |-> call.op, id |-> seen.id, at |-> Stamp]
           log2 == IF mutates THEN Append(log, e) ELSE log
           post == [op |-> IF call.op = "restore" THEN "create" ELSE call.op,
                    id |-> seen.id, stamp |-> Len(log2)]
           next == IF backend = "memory" THEN Idle ELSE [phase |-> "written", post |-> post]
<1>1. /\ CanWrite(c) /\ ~(call.op = "restore" /\ backend = "sqlite") /\ seen.ok
      /\ rows' = IF mutates THEN Written(call, seen) ELSE rows
      /\ log' = log2 /\ calls' = [calls EXCEPT ![c] = next]
      /\ backend' = backend /\ made' = made
  BY DEF Write, NoRestore, Ended
<1>2. c \in Pending /\ Fits(call) /\ SeenFits(call, seen)
  BY <1>1, SeenFitsNow
<1>3. backend \in Backends /\ RowsInv /\ CountInv /\ calls = [d \in Clients |-> calls[d]]
      /\ \A d \in Clients : CallInv(calls[d])
  BY DEF StoreInv
<1>4. Len(log) \in Nat /\ made \in Nat /\ Cardinality(Pending) \in Nat /\ Top \in Nat
  BY <1>3, RequestRoom, TopIsBound
<1>5. next.phase \in {"idle", "written"}
  BY DEF Idle
<1> HIDE DEF e, post, next, mutates, call, seen
<1>6. /\ log' \in Seq(Range(log')) /\ Len(log') \in {Len(log), Len(log) + 1}
      /\ (mutates => Len(log') = Len(log) + 1) /\ (~mutates => log' = log)
  <2>1. log \in Seq(Range(log))
    BY <1>3 DEF CountInv
  <2>2. Append(log, e) \in Seq(Range(Append(log, e))) /\ Len(Append(log, e)) = Len(log) + 1
    BY <2>1, Appended
  <2> QED BY <1>1, <2>1, <2>2
<1>7. mutates => /\ NextRows(rows') /\ (~Moves(call, seen) => KeepsAhead(rows'))
                 /\ backend = "postgres" => \A id : Found(id) => \E r \in Range(rows') : r.id = id
  <2>1. ASSUME mutates
        PROVE  /\ NextRows(Written(call, seen))
               /\ ~Moves(call, seen) => KeepsAhead(Written(call, seen))
               /\ backend = "postgres" =>
                    \A id : Found(id) => \E r \in Range(Written(call, seen)) : r.id = id
    BY <1>1, <1>2, <1>3, <1>4, <2>1, WrittenNext DEF mutates
  <2> QED BY <1>1, <2>1
<1>8. RowsInv'
  <2>1. CASE mutates
    BY <1>1, <1>4, <1>6, <1>7, <2>1 DEF NextRows, RowsInv, SQL
  <2>2. CASE ~mutates
    BY <1>1, <1>3, <1>6, <2>2 DEF RowsInv, SQL
  <2> QED BY <2>1, <2>2
<1>9. backend = "postgres" => \A id : Found(id) => Found(id)'
  <2>1. CASE mutates
    BY <1>7, <2>1 DEF Found, Range
  <2>2. CASE ~mutates
    BY <1>1, <2>2 DEF Found
  <2> QED BY <2>1, <2>2
<1>10. \A d \in Clients : calls'[d] = IF d = c THEN next ELSE calls[d]
  BY <1>1, <1>3
<1>11. ASSUME NEW d \in Clients PROVE CallInv(calls[d])'
  <2>1. CASE d = c
    BY <1>5, <1>10, <2>1 DEF CallInv
  <2>2. CASE d # c
    <3>1. calls'[d] = calls[d] /\ CallInv(calls[d])
      BY <1>3, <1>10, <2>2
    <3>2. ASSUME calls[d].phase = "selected"
          PROVE  backend = "postgres" /\ Fits(calls[d]) /\ SeenFits(calls[d], calls[d].seen)'
      <4>1. backend = "postgres" /\ Fits(calls[d]) /\ SeenFits(calls[d], calls[d].seen)
        BY <3>1, <3>2 DEF CallInv
      <4>2. \A id \in RecordIds : id <= Top + Len(log) + 1 => id <= Top + Len(log') + 1
        BY <1>4, <1>6, TopIsBound
      <4> QED BY <1>1, <1>9, <3>1, <4>1, <4>2 DEF SeenFits
    <3> QED BY <1>1, <3>1, <3>2 DEF CallInv
  <2> QED BY <2>1, <2>2
<1>12. CountInv'
  <2>1. Pending' \in SUBSET (Pending \ {c})
    BY <1>5, <1>10 DEF Pending
  <2>2. IsFiniteSet(Pending \ {c}) /\ Cardinality(Pending \ {c}) = Cardinality(Pending) - 1
    <3>1. IsFiniteSet(Pending)
      BY <1>3 DEF CountInv
    <3> HIDE DEF Pending
    <3> QED BY <1>2, <3>1, FS_RemoveElement
  <2>3. IsFiniteSet(Pending') /\ Cardinality(Pending') <= Cardinality(Pending) - 1
    BY <2>1, <2>2, FS_Subset
  <2>4. Cardinality(Pending') \in Nat
    BY <2>3, FS_CardinalityType
  <2>5. made \in 0 .. MaxCalls /\ Len(log) + Cardinality(Pending) <= made
    BY <1>3 DEF CountInv
  <2> QED BY <1>1, <1>4, <1>6, <2>3, <2>4, <2>5 DEF CountInv
<1>13. calls' = [d \in Clients |-> calls'[d]]
  BY <1>1, <1>3
<1>14. StoreInv'
  BY <1>1, <1>3, <1>8, <1>11, <1>12, <1>13 DEF StoreInv
<1>15. Moves(call, seen) \/ KeepsAhead(rows')
  <2>1. CASE ~mutates
    <3>1. rows' = rows
      BY <1>1, <2>1
    <3> QED BY <3>1 DEF KeepsAhead
  <2> QED BY <1>7, <2>1
<1> QED BY <1>14, <1>15 DEF call, seen

(* A database adds the seeds it lacks, the memory store begins with them again. *)
LEMMA RestartKeepsStore ==
  ASSUME SimulatorAssumption, StoreInv, Restart
  PROVE  StoreInv'
<1> DEFINE lacking == {id \in Seeds : ~Found(id)}
<1>1. /\ backend' = backend /\ made' = made /\ calls' = [c \in Clients |-> Idle]
      /\ IF SQL THEN rows' = SeedRows(lacking) \o rows /\ log' = log
                ELSE rows' = SeedRows(Seeds) /\ log' = <<>>
  BY DEF Restart
<1>2. backend \in Backends /\ RowsInv /\ CountInv
  BY DEF StoreInv
<1>3. Len(log) \in Nat /\ made \in Nat /\ Cardinality(Pending) \in Nat /\ Top \in Nat
      /\ Len(<<>>) = 0 /\ <<>> \in Seq(Range(<<>>))
  BY <1>2, RequestRoom, TopIsBound
<1>4. log' \in Seq(Range(log')) /\ Len(log') \in Nat /\ Len(log') <= Len(log)
  <2>1. CASE SQL
    <3>1. log' = log /\ log \in Seq(Range(log))
      BY <1>1, <1>2, <2>1 DEF CountInv
    <3> QED BY <1>3, <3>1
  <2>2. CASE ~SQL
    <3>1. log' = <<>>
      BY <1>1, <2>2
    <3> QED BY <1>3, <3>1
  <2> QED BY <2>1, <2>2
<1>5. Pending' = {} /\ \A c \in Clients : CallInv(calls[c])'
  BY <1>1 DEF Pending, CallInv, Idle
<1>6. CountInv'
  BY <1>1, <1>2, <1>3, <1>4, <1>5, FS_EmptySet DEF CountInv
<1>7. ASSUME NEW S \in SUBSET Seeds
      PROVE  /\ SeedRows(S) \in Seq(Entries) /\ Single(SeedRows(S))
             /\ Live(SeedRows(S)) = DOMAIN SeedRows(S)
             /\ Range(SeedRows(S)) = {SeedRow(id) : id \in S}
             /\ \A r \in Range(SeedRows(S)) : r.id \in S /\ r.id <= Top + Len(log')
  <2>1. /\ SeedRows(S) \in Seq(Entries) /\ Single(SeedRows(S))
        /\ Live(SeedRows(S)) = DOMAIN SeedRows(S)
        /\ Range(SeedRows(S)) = {SeedRow(id) : id \in S}
    BY SeedRowsAre
  <2>2. \A id \in S : id <= Top /\ id \in Nat /\ SeedRow(id).id = id
    BY TopIsBound DEF SimulatorAssumption, SeedRow
  <2> QED BY <1>3, <1>4, <2>1, <2>2
<1>8. CASE SQL
  <2> DEFINE s == SeedRows(lacking)
  <2>1. lacking \in SUBSET Seeds
    OBVIOUS
  <2>2. /\ s \in Seq(Entries) /\ Single(s) /\ Live(s) = DOMAIN s
        /\ \A r \in Range(s) : r.id \in lacking /\ r.id <= Top + Len(log')
    BY <1>7, <2>1
  <2>3. \A d \in Range(s), r \in Range(rows) : d.id # r.id
    BY <2>2 DEF Found, Range
  <2> HIDE DEF s, lacking
  <2>4. rows \in Seq(Entries) /\ Single(rows)
        /\ (backend = "sqlite" => Live(rows) = DOMAIN rows)
    BY <1>2, <1>8 DEF RowsInv
  <2>5. /\ s \o rows \in Seq(Entries) /\ Range(s \o rows) = Range(s) \cup Range(rows)
        /\ Single(s \o rows)
        /\ backend = "sqlite" => Live(s \o rows) = DOMAIN (s \o rows)
    BY <2>2, <2>3, <2>4, Joined
  <2>6. rows' = s \o rows /\ log' = log
    BY <1>1, <1>8 DEF s
  <2>7. \A r \in Range(rows') : r.id <= Top + Len(log')
    BY <1>2, <2>2, <2>5, <2>6 DEF RowsInv, Range
  <2>8. RowsInv'
    BY <1>1, <2>5, <2>6, <2>7 DEF RowsInv, Range
  <2> QED BY <1>1, <1>2, <1>5, <1>6, <2>8 DEF StoreInv
<1>9. CASE ~SQL
  <2>1. rows' = SeedRows(Seeds) /\ backend' = "memory"
    BY <1>1, <1>9 DEF SQL
  <2>2. RowsInv'
    BY <1>7, <2>1 DEF RowsInv, Range, SQL
  <2> QED BY <1>1, <1>2, <1>5, <1>6, <2>2 DEF StoreInv
<1> QED BY <1>8, <1>9

LEMMA OthersKeepStore ==
  ASSUME StoreInv, UNCHANGED <<backend, rows, log, made, calls>>
  PROVE  StoreInv'
<1>1. RowsInv' /\ CountInv'
  BY DEF StoreInv, RowsInv, CountInv, Pending, SQL
<1>2. \A c \in Clients : CallInv(calls[c])'
  BY DEF StoreInv, CallInv, SeenFits, Found
<1> QED BY <1>1, <1>2 DEF StoreInv

LEMMA StepKeepsStore ==
  ASSUME SimulatorAssumption, StoreInv, [Next]_vars
  PROVE  StoreInv'
<1>1. CASE \E c \in Clients : Write(c)
  BY <1>1, WriteKeepsStore
<1>2. CASE Restart
  BY <1>2, RestartKeepsStore
<1>3. CASE Consume \/ NextPage \/ (\E p \in posts : Arrive(p)) \/ UNCHANGED vars
  <2>1. UNCHANGED <<backend, rows, log, made, calls>>
    BY <1>3 DEF Consume, NextPage, Arrive, vars
  <2> QED BY <2>1, OthersKeepStore
<1> QED BY <1>1, <1>2, <1>3, ClientsKeepStore, ServerKeepsStore DEF Next

(* The store is what its types say: no two rows of a database share an id, *)
(* sqlite keeps no deleted row, and no id outgrows RecordIds.              *)
THEOREM StoreKeepsTypes ==
  ASSUME SimulatorAssumption
  PROVE  Spec => []StoreInv
<1>1. Init => StoreInv
  BY StoreInit
<1>2. StoreInv /\ [Next]_vars => StoreInv'
  BY StepKeepsStore
<1> QED BY <1>1, <1>2, PTL DEF Spec

----------------------------------------------------------------------------
(* A walk through the pages: what it has not returned yet is ahead of it.  *)

(* The listing has the live rows, each at its place. *)
LEMMA ListingIs ==
  ASSUME rows \in Seq(Entries)
  PROVE  /\ Listing \in Seq(Entries) /\ Len(Listing) \in Nat /\ DOMAIN Listing = 1 .. Len(Listing)
         /\ \A k \in DOMAIN Listing : Listing[k].id \in RecordIds /\ Ahead(rows, 0, Listing[k].id)
         /\ \A i \in Live(rows) : Place(Live(rows), i) \in DOMAIN Listing
                                  /\ Listing[Place(Live(rows), i)] = rows[i]
<1> DEFINE P == Live(rows)  n == Cardinality(P)
<1>1. Listing = Picked(rows, P)
  BY DEF Listing, Live
<1>2. P \in SUBSET (DOMAIN rows)
  BY Positions
<1> HIDE DEF P
<1>3. /\ n \in Nat /\ Listing \in Seq(Entries) /\ Len(Listing) = n /\ DOMAIN Listing = 1 .. n
      /\ \A k \in 1 .. n : Ascending(P)[k] \in P /\ Listing[k] = rows[Ascending(P)[k]]
      /\ \A i \in P : Place(P, i) \in 1 .. n /\ Listing[Place(P, i)] = rows[i]
  BY <1>1, <1>2, PickedOf
<1>4. ASSUME NEW k \in 1 .. n
      PROVE  Listing[k].id \in RecordIds /\ Ahead(rows, 0, Listing[k].id)
  <2>1. Listing[k] \in Entries
    BY <1>3
  <2>2. PICK i \in P : rows[i] = Listing[k] /\ Place(P, i) \in 1 .. n
    BY <1>3
  <2>3. Place(P, i) > 0
    BY <1>3, <2>2
  <2>4. Ahead(rows, 0, Listing[k].id)
    BY <2>2, <2>3 DEF Ahead, P
  <2> QED BY <2>1, <2>4 DEF Entries
<1> QED BY <1>3, <1>4 DEF P

(* A page has what is listed from its offset on, up to its size. *)
LEMMA PageIs ==
  ASSUME NEW l \in Seq(Entries), NEW offset \in Nat, NEW size \in Nat \ {0}
  PROVE  LET page == SubSeq(l, offset + 1, Min({offset + size, Len(l)}))
         IN  /\ \A k \in DOMAIN page : \E i \in DOMAIN l : page[k] = l[i]
             /\ \A i \in DOMAIN l : i > offset /\ i <= offset + size =>
                  \E k \in DOMAIN page : page[k] = l[i]
<1> DEFINE n == Len(l)  last == Min({offset + size, n})  page == SubSeq(l, offset + 1, last)
<1>1. n \in Nat /\ DOMAIN l = 1 .. n /\ \A i \in 1 .. n : l[i] \in Entries
  OBVIOUS
<1>2. last \in Nat /\ last <= offset + size /\ last <= n /\ last \in {offset + size, n}
  <2> HIDE DEF n
  <2>1. offset + size \in Nat
    OBVIOUS
  <2>2. \E m \in {offset + size, n} : \A k \in {offset + size, n} : m <= k
    BY <1>1, <2>1
  <2>3. last \in {offset + size, n} /\ \A k \in {offset + size, n} : last <= k
    BY <2>2 DEF Min
  <2> HIDE DEF last
  <2> QED BY <1>1, <2>1, <2>3
<1> HIDE DEF last
<1>3. /\ DOMAIN page = 1 .. last - offset
      /\ \A k \in 1 .. last - offset : page[k] = l[offset + k]
  <2> DEFINE m == offset + 1
  <2>1. m \in Int /\ last \in Int /\ last - m + 1 = last - offset
        /\ \A k \in 1 .. last - offset : m + k - 1 = offset + k
    BY <1>2
  <2>2. \A i \in m .. last : l[i] \in Entries
    <3>1. n \in Nat /\ last \in Nat /\ last <= n
      BY <1>1, <1>2
    <3> HIDE DEF n
    <3>2. \A i \in m .. last : i \in 1 .. n
      BY <3>1
    <3> QED BY <1>1, <3>2
  <2> HIDE DEF m
  <2>3. /\ SubSeq(l, m, last) \in Seq(Entries)
        /\ Len(SubSeq(l, m, last)) = IF m <= last THEN last - m + 1 ELSE 0
        /\ \A k \in 1 .. last - m + 1 : SubSeq(l, m, last)[k] = l[m + k - 1]
    BY <2>1, <2>2, SubSeqProperties
  <2>4. DOMAIN SubSeq(l, m, last) = 1 .. last - offset
    <3>1. DOMAIN SubSeq(l, m, last) = 1 .. Len(SubSeq(l, m, last))
      BY <2>3, LenProperties
    <3>2. m = offset + 1
      BY DEF m
    <3> QED BY <1>2, <2>1, <2>3, <3>1, <3>2
  <2>5. page = SubSeq(l, m, last)
    BY DEF m
  <2> HIDE DEF page
  <2> QED BY <2>1, <2>3, <2>4, <2>5
<1> HIDE DEF n, page
<1>4. \A k \in DOMAIN page : k \in 1 .. last - offset /\ page[k] = l[offset + k]
  BY <1>3
<1>5. ASSUME NEW i \in DOMAIN l, i > offset, i <= offset + size
      PROVE  i - offset \in DOMAIN page /\ page[i - offset] = l[i]
  <2>1. i \in Nat /\ i <= last
    BY <1>1, <1>2, <1>5
  <2> QED BY <1>2, <1>3, <1>5, <2>1
<1>6. \A k \in DOMAIN page : offset + k \in DOMAIN l
  BY <1>1, <1>2, <1>4
<1> QED BY <1>4, <1>5, <1>6 DEF page, last, n

LEMMA PageKeepsWalk ==
  ASSUME SimulatorAssumption, StoreInv, WalkInv, NextPage
  PROVE  WalkInv'
<1> DEFINE offset == IF walk.on THEN walk.offset ELSE 0
           start == IF walk.on THEN walk.start ELSE {Listing[i].id : i \in DOMAIN Listing}
           page == SubSeq(Listing, offset + 1, Min({offset + PageSize, Len(Listing)}))
           got == (IF walk.on THEN walk.got ELSE {}) \cup {page[i].id : i \in DOMAIN page}
<1>1. /\ walk' = [on |-> HasMore(offset), offset |-> offset + PageSize,
                  got |-> got, start |-> start, calm |-> ~walk.on \/ walk.calm]
      /\ rows' = rows
  BY DEF NextPage
<1>2. rows \in Seq(Entries) /\ PageSize \in Nat \ {0}
  BY DEF StoreInv, RowsInv, SimulatorAssumption
<1>3. /\ Listing \in Seq(Entries) /\ Len(Listing) \in Nat /\ DOMAIN Listing = 1 .. Len(Listing)
      /\ \A k \in DOMAIN Listing : Listing[k].id \in RecordIds /\ Ahead(rows, 0, Listing[k].id)
      /\ \A i \in Live(rows) : Place(Live(rows), i) \in DOMAIN Listing
                               /\ Listing[Place(Live(rows), i)] = rows[i]
  BY <1>2, ListingIs
<1>4. /\ walk.on \in BOOLEAN /\ walk.offset \in Nat /\ walk.calm \in BOOLEAN
      /\ walk.got \in SUBSET RecordIds /\ walk.start \in SUBSET RecordIds
  BY DEF WalkInv
<1>5. offset \in Nat /\ start \in SUBSET RecordIds
  BY <1>3, <1>4
<1>6. walk.calm \/ ~walk.on => \A id \in start \ got : Ahead(rows, offset, id)
  BY <1>3 DEF WalkInv
<1> HIDE DEF offset, start
<1>7. /\ \A k \in DOMAIN page : \E i \in DOMAIN Listing : page[k] = Listing[i]
      /\ \A i \in DOMAIN Listing : i > offset /\ i <= offset + PageSize =>
           \E k \in DOMAIN page : page[k] = Listing[i]
  BY <1>2, <1>3, <1>5, PageIs
<1> HIDE DEF page
<1>8. got \in SUBSET RecordIds
  BY <1>3, <1>4, <1>7
<1>9. HasMore(offset) \in BOOLEAN /\ offset + PageSize \in Nat
  BY <1>2, <1>5 DEF HasMore
<1>10. \A i \in DOMAIN page : page[i].id \in got
  OBVIOUS
<1> HIDE DEF got
<1>11. ASSUME NEW id \in start \ got, walk.calm \/ ~walk.on
       PROVE  Ahead(rows, offset + PageSize, id) /\ HasMore(offset)
  <2>1. PICK i \in Live(rows) : rows[i].id = id /\ Place(Live(rows), i) > offset
    BY <1>6, <1>11 DEF Ahead
  <2> DEFINE k == Place(Live(rows), i)
  <2>2. k \in DOMAIN Listing /\ Listing[k] = rows[i]
    BY <1>3
  <2>3. k > offset
    BY <2>1
  <2> HIDE DEF k
  <2>4. ~(k <= offset + PageSize)
    BY <1>7, <1>10, <2>1, <2>2, <2>3
  <2>5. k > offset + PageSize /\ offset + PageSize < Len(Listing)
    BY <1>3, <1>9, <2>2, <2>4
  <2> QED BY <2>1, <2>5 DEF Ahead, HasMore, k
<1>12. walk'.calm => IF walk'.on THEN \A id \in walk'.start \ walk'.got : Ahead(rows', walk'.offset, id)
                     ELSE walk'.start \subseteq walk'.got
  BY <1>1, <1>4, <1>11
<1> QED BY <1>1, <1>4, <1>5, <1>8, <1>9, <1>12 DEF WalkInv, Ahead

LEMMA StepKeepsWalk ==
  ASSUME SimulatorAssumption, StoreInv, WalkInv, [Next]_vars
  PROVE  WalkInv'
<1>1. CASE \E c \in Clients : Write(c)
  <2>1. PICK c \in Clients : Write(c)
    BY <1>1
  <2>2. walk' = [walk EXCEPT !.calm = @ /\ ~Moves(calls[c], Seen(c))]
    BY <2>1 DEF Write
  <2>3. Moves(calls[c], Seen(c)) \/ KeepsAhead(rows')
    BY <2>1, WriteKeepsStore
  <2>4. /\ walk' \in [on : BOOLEAN, offset : Nat, got : SUBSET RecordIds, start : SUBSET RecordIds,
                      calm : BOOLEAN]
        /\ walk'.on = walk.on /\ walk'.offset = walk.offset /\ walk.offset \in Nat
        /\ walk'.got = walk.got /\ walk'.start = walk.start
        /\ walk'.calm = (walk.calm /\ ~Moves(calls[c], Seen(c)))
    BY <2>2 DEF WalkInv
  <2>5. ASSUME walk'.calm
        PROVE  IF walk.on THEN \A id \in walk.start \ walk.got : Ahead(rows', walk.offset, id)
               ELSE walk.start \subseteq walk.got
    BY <2>3, <2>4, <2>5 DEF WalkInv, KeepsAhead
  <2> QED BY <2>4, <2>5 DEF WalkInv, Ahead
<1>2. CASE Restart
  BY <1>2 DEF Restart, NoWalk, WalkInv
<1>3. CASE NextPage
  BY <1>3, PageKeepsWalk
<1>4. ASSUME UNCHANGED <<rows, walk>> PROVE WalkInv'
  BY <1>4 DEF WalkInv
<1>5. ASSUME NEW c \in Clients,
             \/ Insert(c) \/ EngineUpdate(c) \/ EngineDelete(c)
             \/ LoadPanel(c) \/ SavePanel(c) \/ DeletePanel(c) \/ PressRestore(c)
      PROVE  UNCHANGED <<rows, walk>>
  BY <1>5 DEF Insert, EngineUpdate, EngineDelete, LoadPanel, SavePanel, DeletePanel, PressRestore, Request
<1>6. ASSUME NEW c \in Clients,
             \/ CheckVersion(c) \/ SelectRow(c) \/ Reject(c) \/ FetchMutation(c) \/ Publish(c)
      PROVE  UNCHANGED <<rows, walk>>
  BY <1>6 DEF CheckVersion, SelectRow, Reject, FetchMutation, Publish
<1>7. CASE Consume \/ (\E p \in posts : Arrive(p)) \/ UNCHANGED vars
  BY <1>4, <1>7 DEF Consume, Arrive, vars
<1> QED BY <1>1, <1>2, <1>3, <1>4, <1>5, <1>6, <1>7 DEF Next

(* While nothing is deleted, and in a database no listed record is written, a walk  *)
(* returns every record that was live when it began: for any number of clients,     *)
(* records, pages, restarts and requests, and on every store.                       *)
THEOREM WalksMissNothing ==
  ASSUME SimulatorAssumption
  PROVE  Spec => []WalkSeesAll
<1>1. Init => WalkInv
  BY DEF Init, NoWalk, WalkInv
<1>2. StoreInv /\ WalkInv /\ [Next]_vars => WalkInv'
  BY StepKeepsWalk
<1>3. WalkInv => WalkSeesAll
  BY DEF WalkInv, WalkSeesAll
<1> QED BY StoreKeepsTypes, <1>1, <1>2, <1>3, PTL DEF Spec

----------------------------------------------------------------------------
(* The sqlite store is RecordStore: its table has the data of its rows, each *)
(* row the only one of its id, and what a client waits for is the phase of   *)
(* its request.  The other stores are mapped to the seed and to no requests. *)

TableIds == RecordIds \cup {0}

\* The table of a list of rows.
TableOf(w) ==
  [id \in TableIds |->
     LET i == Max({j \in DOMAIN w : w[j].id = id})
     IN  IF (\E j \in DOMAIN w : w[j].id = id) /\ ~w[i].deleted THEN w[i].data ELSE <<>>]

StageOf(call) ==
  CASE call.phase \in {"idle", "panel"} -> [stage |-> "none"]
    [] call.phase \in {"called", "checked", "selected"} ->
         [stage |-> "asked", op |-> call.op, id |-> call.id, body |-> call.body,
          guarded |-> call.match # 0]
    [] OTHER -> [stage |-> "served"]

Stages == [c \in Clients |-> Stage(calls[c])]

LEMMA TableRows ==
  ASSUME NEW w \in Seq(Entries), Single(w), Live(w) = DOMAIN w
  PROVE  /\ \A r \in Range(w) : r.id \in RecordIds /\ TableOf(w)[r.id] = r.data
         /\ \A id \in TableIds : (\A r \in Range(w) : r.id # id) => TableOf(w)[id] = <<>>
<1>1. ASSUME NEW r \in Range(w)
      PROVE  r.id \in RecordIds /\ TableOf(w)[r.id] = r.data
  <2>1. PICK k \in DOMAIN w : w[k] = r
    BY DEF Range
  <2>2. r \in Entries
    BY <2>1, Positions
  <2>3. r.id \in RecordIds
    BY <2>2 DEF Entries
  <2> DEFINE i == Max({j \in DOMAIN w : w[j].id = r.id})
  <2>4. i \in DOMAIN w /\ w[i].id = r.id
    BY <2>1, LastPosition
  <2>5. TableOf(w)[r.id] =
          IF (\E j \in DOMAIN w : w[j].id = r.id) /\ ~w[i].deleted THEN w[i].data ELSE <<>>
    BY <2>3 DEF TableOf, TableIds
  <2> HIDE DEF i
  <2>6. w[i] = r /\ ~w[i].deleted
    BY <2>1, <2>4 DEF Single, Live
  <2> QED BY <2>1, <2>3, <2>5, <2>6
<1>2. ASSUME NEW id \in TableIds, \A r \in Range(w) : r.id # id
      PROVE  TableOf(w)[id] = <<>>
  BY <1>2 DEF TableOf, Range
<1> QED BY <1>1, <1>2

(* Two tables of rows are equal that have the same data for every id. *)
LEMMA TableWritten ==
  ASSUME NEW v \in Seq(Entries), Single(v), Live(v) = DOMAIN v,
         NEW w \in Seq(Entries), Single(w), Live(w) = DOMAIN w, NEW id \in TableIds
  PROVE  /\ \A r : r.id = id /\ Range(w) = {e \in Range(v) : e.id # id} \cup {r} =>
              TableOf(w) = [TableOf(v) EXCEPT ![id] = r.data]
         /\ Range(w) = {e \in Range(v) : e.id # id} => TableOf(w) = [TableOf(v) EXCEPT ![id] = <<>>]
<1>1. /\ \A r \in Range(v) : r.id \in RecordIds /\ TableOf(v)[r.id] = r.data
      /\ \A k \in TableIds : (\A r \in Range(v) : r.id # k) => TableOf(v)[k] = <<>>
  BY TableRows
<1>2. /\ \A r \in Range(w) : r.id \in RecordIds /\ TableOf(w)[r.id] = r.data
      /\ \A k \in TableIds : (\A r \in Range(w) : r.id # k) => TableOf(w)[k] = <<>>
  BY TableRows
<1>3. TableOf(v) = [k \in TableIds |-> TableOf(v)[k]] /\ TableOf(w) = [k \in TableIds |-> TableOf(w)[k]]
  BY DEF TableOf
<1>4. ASSUME \A e : e.id # id => (e \in Range(w) <=> e \in Range(v)),
             NEW k \in TableIds, k # id
      PROVE  TableOf(w)[k] = TableOf(v)[k]
  <2>1. CASE \E r \in Range(v) : r.id = k
    BY <1>1, <1>2, <1>4, <2>1
  <2>2. CASE \A r \in Range(v) : r.id # k
    BY <1>1, <1>2, <1>4, <2>2
  <2> QED BY <2>1, <2>2
<1>5. ASSUME NEW r, r.id = id, Range(w) = {e \in Range(v) : e.id # id} \cup {r}
      PROVE  TableOf(w) = [TableOf(v) EXCEPT ![id] = r.data]
  <2>1. TableOf(w)[id] = r.data
    BY <1>2, <1>5
  <2>2. \A k \in TableIds : k # id => TableOf(w)[k] = TableOf(v)[k]
    <3>1. \A e : e.id # id => (e \in Range(w) <=> e \in Range(v))
      BY <1>5
    <3> QED BY <1>4, <3>1
  <2> QED BY <1>3, <2>1, <2>2
<1>6. ASSUME Range(w) = {e \in Range(v) : e.id # id}
      PROVE  TableOf(w) = [TableOf(v) EXCEPT ![id] = <<>>]
  <2>1. TableOf(w)[id] = <<>>
    BY <1>2, <1>6
  <2>2. \A k \in TableIds : k # id => TableOf(w)[k] = TableOf(v)[k]
    <3>1. \A e : e.id # id => (e \in Range(w) <=> e \in Range(v))
      BY <1>6
    <3> QED BY <1>4, <3>1
  <2> QED BY <1>3, <2>1, <2>2
<1> QED BY <1>5, <1>6

(* What is known of an atomic store. *)
LEMMA AtomicStore ==
  ASSUME SimulatorAssumption, AtomicStores \subseteq {"sqlite"}, StoreInv, Atomic
  PROVE  /\ backend = "sqlite" /\ SQL
         /\ Table = TableOf(rows) /\ \A call : Stage(call) = StageOf(call)
         /\ rows \in Seq(Entries) /\ Single(rows) /\ Live(rows) = DOMAIN rows
         /\ \A id \in RecordIds :
              IF Found(id) THEN /\ Row(id) \in Range(rows) /\ Row(id) \in Entries /\ Row(id).id = id
                                /\ ~Row(id).deleted /\ Table[id] = Row(id).data /\ Table[id] # <<>>
                           ELSE Table[id] = <<>>
<1>1. backend = "sqlite" /\ SQL
  BY DEF Atomic, SQL
<1>2. rows \in Seq(Entries) /\ Single(rows) /\ Live(rows) = DOMAIN rows
  BY <1>1 DEF StoreInv, RowsInv
<1>3. Table = TableOf(rows)
  BY DEF Table, TableOf, Found, Row, At, TableIds
<1>4. \A call : Stage(call) = StageOf(call)
  BY DEF Stage, StageOf
<1>5. ASSUME NEW id \in RecordIds, Found(id)
      PROVE  /\ Row(id) \in Range(rows) /\ Row(id) \in Entries /\ Row(id).id = id
             /\ ~Row(id).deleted /\ Table[id] = Row(id).data /\ Table[id] # <<>>
  <2>1. At(id) \in DOMAIN rows /\ Row(id) = rows[At(id)] /\ Row(id) \in Entries /\ Row(id).id = id
    BY <1>2, <1>5, RowFound
  <2>2. Row(id) \in Range(rows) /\ ~Row(id).deleted
    BY <1>2, <2>1 DEF Range, Live
  <2>3. TableOf(rows)[id] = Row(id).data
    BY <1>2, <2>1, <2>2, TableRows
  <2>4. Row(id).data # <<>>
    <3>1. DOMAIN Row(id).data = Fields /\ Fields # {} /\ DOMAIN <<>> = {}
      BY <2>1 DEF Entries, SimulatorAssumption
    <3> QED BY <3>1
  <2> QED BY <1>3, <2>1, <2>2, <2>3, <2>4
<1>6. ASSUME NEW id \in RecordIds, ~Found(id)
      PROVE  Table[id] = <<>>
  <2>1. \A r \in Range(rows) : r.id # id
    BY <1>6 DEF Found, Range
  <2> QED BY <1>2, <1>3, <2>1, TableRows DEF TableIds
<1> QED BY <1>1, <1>2, <1>3, <1>4, <1>5, <1>6

LEMMA StoreBegins ==
  ASSUME SimulatorAssumption, AtomicStores \subseteq {"sqlite"}, Init
  PROVE  Store!Init
<1> DEFINE seeded(id) == IF id \in Seeds THEN [f \in Fields |-> 0] ELSE <<>>
<1>1. calls = [c \in Clients |-> Idle] /\ rows = SeedRows(Seeds)
  BY DEF Init
<1>2. Stages = [c \in Clients |-> Store!Idle]
  BY <1>1 DEF Stages, Stage, Idle, Store!Idle
<1>3. Table = [id \in TableIds |-> seeded(id)]
  <2>1. CASE ~Atomic
    BY <2>1 DEF Table, TableIds, Seed
  <2>2. CASE Atomic
    <3>1. /\ Table = TableOf(rows) /\ rows \in Seq(Entries) /\ Single(rows) /\ Live(rows) = DOMAIN rows
      BY <2>2, StoreInit, AtomicStore
    <3>2. Range(rows) = {SeedRow(id) : id \in Seeds}
      BY <1>1, SeedRowsAre
    <3>3. ASSUME NEW id \in Seeds PROVE TableOf(rows)[id] = [f \in Fields |-> 0]
      <4>1. SeedRow(id) \in Range(rows)
        BY <3>2
      <4>2. TableOf(rows)[SeedRow(id).id] = SeedRow(id).data
        BY <3>1, <4>1, TableRows
      <4> QED BY <4>2 DEF SeedRow
    <3>4. ASSUME NEW id \in TableIds, id \notin Seeds PROVE TableOf(rows)[id] = <<>>
      <4>1. \A r \in Range(rows) : r.id # id
        BY <3>2, <3>4 DEF SeedRow
      <4> QED BY <3>1, <4>1, TableRows
    <3>5. TableOf(rows) = [id \in TableIds |-> TableOf(rows)[id]]
      BY DEF TableOf
    <3> QED BY <3>1, <3>3, <3>4, <3>5
  <2> QED BY <2>1, <2>2
<1>4. \A id \in TableIds : Store!Seeded(id) = seeded(id)
  BY DEF Store!Seeded, Store!Gone, Seed
<1> QED BY <1>2, <1>3, <1>4 DEF Store!Init, Stages, TableIds

(* A step of one request. *)
LEMMA StagesMove ==
  ASSUME SimulatorAssumption, AtomicStores \subseteq {"sqlite"}, StoreInv, Atomic, backend' = backend,
         NEW c \in Clients, NEW call, calls' = [calls EXCEPT ![c] = call]
  PROVE  /\ Stages' = [Stages EXCEPT ![c] = StageOf(call)]
         /\ Stages = [d \in Clients |-> StageOf(calls[d])]
<1>1. \A x : Stage(x) = StageOf(x)
  BY AtomicStore
<1>2. Stages = [d \in Clients |-> StageOf(calls[d])]
  BY <1>1 DEF Stages
<1>3. Stages' = [d \in Clients |-> StageOf(calls'[d])]
  <2>1. Atomic'
    BY DEF Atomic
  <2>2. \A d \in Clients : Stage(calls[d])' = StageOf(calls'[d])
    BY <2>1 DEF Stage, StageOf
  <2> QED BY <2>2 DEF Stages
<1>4. \A d \in Clients : calls'[d] = IF d = c THEN call ELSE calls[d]
  BY DEF StoreInv
<1> QED BY <1>2, <1>3, <1>4

LEMMA RequestAsks ==
  ASSUME SimulatorAssumption, AtomicStores \subseteq {"sqlite"}, StoreInv, Atomic, NEW c \in Clients,
         calls[c].phase \in {"idle", "panel"},
         NEW op \in Ops, NEW id \in TableIds, NEW body \in Bodies, NEW match \in Nat,
         Request(c, op, id, body, match)
  PROVE  Store!Ask(c)
<1> DEFINE call == [phase |-> "called", op |-> op, id |-> id, body |-> body, match |-> match]
           asked == [stage |-> "asked", op |-> op, id |-> id, body |-> body, guarded |-> match # 0]
<1>1. backend' = backend /\ rows' = rows /\ calls' = [calls EXCEPT ![c] = call]
  BY DEF Request
<1>2. StageOf(call) = asked /\ StageOf(calls[c]) = [stage |-> "none"]
  BY DEF StageOf
<1>3. asked \in Store!Requests
  BY DEF Store!Requests, Ops, TableIds
<1> HIDE DEF call, asked
<1>4. Stages' = [Stages EXCEPT ![c] = asked] /\ Stages = [d \in Clients |-> StageOf(calls[d])]
  BY <1>1, <1>2, StagesMove
<1>5. Stages[c] = Store!Idle /\ Stages'[c] = asked /\ Stages' = [Stages EXCEPT ![c] = Stages'[c]]
  BY <1>2, <1>4 DEF Store!Idle
<1>6. Table' = Table
  BY <1>1 DEF Table, Atomic, Found, Row, At
<1> QED BY <1>3, <1>5, <1>6 DEF Store!Ask, Stages

LEMMA ClientsAsk ==
  ASSUME SimulatorAssumption, AtomicStores \subseteq {"sqlite"}, StoreInv, Atomic, NEW c \in Clients,
         \/ Insert(c) \/ EngineUpdate(c) \/ EngineDelete(c)
         \/ SavePanel(c) \/ DeletePanel(c) \/ PressRestore(c)
  PROVE  Store!Ask(c)
<1>1. /\ made \in 0 .. MaxCalls /\ MaxCalls \in Nat
      /\ \A id \in PostedIds : id \in RecordIds
  BY TopIsBound DEF StoreInv, CountInv
<1>2. \A op, id, body, match : Request(c, op, id, body, match) => made + 1 \in 0 .. MaxCalls
  BY <1>1 DEF Request
<1>3. CASE Insert(c)
  <2>1. PICK id \in {0} \cup PostedIds : Request(c, "create", id, [f \in Fields |-> made + 1], 0)
    BY <1>3 DEF Insert
  <2> DEFINE body == [f \in Fields |-> made + 1]
  <2>2. body \in Bodies
    <3>1. body \in [Fields -> 0 .. MaxCalls]
      BY <1>2, <2>1, BodiesAre
    <3> HIDE DEF body
    <3> QED BY <3>1, BodiesAre
  <2>3. Request(c, "create", id, body, 0) /\ id \in TableIds
    BY <1>1, <2>1 DEF TableIds
  <2> HIDE DEF body
  <2> QED BY <1>3, <2>2, <2>3, RequestAsks DEF Ops, Insert, Idle
<1>4. CASE EngineUpdate(c)
  <2>1. PICK id \in RecordIds, f \in Fields : Request(c, "update", id, [g \in {f} |-> made + 1], 0)
    BY <1>4 DEF EngineUpdate
  <2> DEFINE body == [g \in {f} |-> made + 1]
  <2>2. body \in Bodies
    BY <1>2, <2>1, BodiesAre
  <2>3. Request(c, "update", id, body, 0)
    BY <2>1
  <2> HIDE DEF body
  <2> QED BY <1>4, <2>2, <2>3, RequestAsks DEF Ops, EngineUpdate, Idle, TableIds
<1>5. CASE EngineDelete(c)
  <2>1. PICK id \in RecordIds : Request(c, "delete", id, <<>>, 0)
    BY <1>5 DEF EngineDelete
  <2> QED BY <1>5, <2>1, BodiesAre, RequestAsks DEF Ops, EngineDelete, Idle, TableIds
<1>6. ASSUME calls[c].phase = "panel"
      PROVE  calls[c].row.id \in RecordIds /\ calls[c].row.rev + 1 \in Nat
             /\ calls[c].row.data \in [Fields -> 0 .. MaxCalls]
  <2>1. calls[c].row \in Entries
    BY <1>6 DEF StoreInv, CallInv
  <2> QED BY <2>1 DEF Entries
<1>7. CASE SavePanel(c)
  <2> DEFINE row == calls[c].row
  <2>1. PICK f \in Fields : Request(c, "update", row.id, [row.data EXCEPT ![f] = made + 1], row.rev + 1)
    BY <1>7 DEF SavePanel
  <2>2. row.id \in RecordIds /\ row.rev + 1 \in Nat /\ row.data \in [Fields -> 0 .. MaxCalls]
    BY <1>6, <1>7 DEF SavePanel
  <2> HIDE DEF row
  <2> DEFINE body == [row.data EXCEPT ![f] = made + 1]
  <2>3. body \in Bodies
    <3>1. body \in [Fields -> 0 .. MaxCalls]
      BY <1>2, <2>1, <2>2
    <3> HIDE DEF body
    <3> QED BY <3>1, BodiesAre
  <2>4. Request(c, "update", row.id, body, row.rev + 1)
    BY <2>1
  <2> HIDE DEF body
  <2> QED BY <1>7, <2>2, <2>3, <2>4, RequestAsks DEF Ops, SavePanel, TableIds
<1>8. CASE DeletePanel(c)
  <2>1. Request(c, "delete", calls[c].row.id, <<>>, 0) /\ calls[c].row.id \in RecordIds
    BY <1>6, <1>8 DEF DeletePanel
  <2> QED BY <1>8, <2>1, BodiesAre, RequestAsks DEF Ops, DeletePanel, TableIds
<1>9. CASE PressRestore(c)
  <2>1. PICK id \in RecordIds : Request(c, "restore", id, <<>>, 0)
    BY <1>9 DEF PressRestore
  <2> QED BY <1>9, <2>1, BodiesAre, RequestAsks DEF Ops, PressRestore, Idle, TableIds
<1> QED BY <1>3, <1>4, <1>5, <1>7, <1>8, <1>9

(* Steps between asking and answering. *)
LEMMA ServerAnswers ==
  ASSUME SimulatorAssumption, AtomicStores \subseteq {"sqlite"}, StoreInv, Atomic, NEW c \in Clients,
         LoadPanel(c) \/ CheckVersion(c) \/ SelectRow(c) \/ Reject(c) \/ FetchMutation(c) \/ Publish(c)
  PROVE  Store!Refuse(c) \/ Store!Answer(c) \/ UNCHANGED <<Table, Stages>>
<1>1. backend' = backend /\ rows' = rows
  BY DEF LoadPanel, CheckVersion, SelectRow, Reject, FetchMutation, Publish
<1>2. Table' = Table
  BY <1>1 DEF Table, Atomic, Found, Row, At
<1>3. /\ backend = "sqlite"
      /\ \A id \in RecordIds : IF Found(id) THEN ~Row(id).deleted ELSE Table[id] = <<>>
  BY AtomicStore
<1>4. Stages = [d \in Clients |-> StageOf(calls[d])]
  <2>1. \A call : Stage(call) = StageOf(call)
    BY AtomicStore
  <2> QED BY <2>1 DEF Stages
<1>5. ASSUME NEW call, calls' = [calls EXCEPT ![c] = call]
      PROVE  Stages' = [Stages EXCEPT ![c] = StageOf(call)]
  BY <1>1, <1>5, StagesMove
<1>6. ASSUME NEW call, calls' = [calls EXCEPT ![c] = call], StageOf(call) = StageOf(calls[c])
      PROVE  Stages' = Stages
  BY <1>4, <1>5, <1>6
<1>7. ASSUME Ended(c) PROVE Stages' = [Stages EXCEPT ![c] = Store!Idle]
  <2>1. StageOf(Idle) = Store!Idle
    BY DEF StageOf, Idle, Store!Idle
  <2> QED BY <1>5, <1>7, <2>1 DEF Ended
<1>8. CASE LoadPanel(c)
  <2>1. PICK id \in RecordIds : calls' = [calls EXCEPT ![c] = [phase |-> "panel", row |-> Row(id)]]
    BY <1>8 DEF LoadPanel
  <2>2. StageOf([phase |-> "panel", row |-> Row(id)]) = StageOf(calls[c])
    BY <1>8 DEF LoadPanel, StageOf, Idle
  <2> QED BY <1>2, <1>6, <2>1, <2>2
<1>9. ASSUME calls[c].phase \in {"called", "checked"}
      PROVE  /\ Fits(calls[c]) /\ calls[c].op \in Ops
             /\ Stages[c] = [stage |-> "asked", op |-> calls[c].op, id |-> calls[c].id,
                             body |-> calls[c].body, guarded |-> calls[c].match # 0]
  <2>1. Fits(calls[c])
    BY <1>9 DEF StoreInv, CallInv
  <2> QED BY <1>4, <1>9, <2>1 DEF StageOf, Fits
<1>10. ASSUME calls[c].phase \in {"called", "checked"}, calls[c].op # "create", Ended(c),
              \/ calls[c].match # 0 \/ calls[c].op = "restore" \/ ~Found(calls[c].id)
       PROVE  Store!Refuse(c)
  <2>1. calls[c].id \in RecordIds /\ calls[c].op \in {"update", "delete", "restore"}
    BY <1>9, <1>10 DEF Fits, Ops
  <2>2. ~Found(calls[c].id) => Table[calls[c].id] = <<>>
    BY <1>3, <2>1
  <2>3. /\ Stages[c].stage = "asked" /\ Stages[c].op = calls[c].op /\ Stages[c].id = calls[c].id
        /\ Stages[c].guarded = (calls[c].match # 0)
    BY <1>9, <1>10
  <2>4. Stages' = [Stages EXCEPT ![c] = Store!Idle]
    BY <1>7, <1>10
  <2> QED BY <1>2, <1>10, <2>1, <2>2, <2>3, <2>4 DEF Store!Refuse, Store!Asked, Store!Gone, Stages
<1>11. CASE CheckVersion(c)
  <2>1. calls[c].phase = "called" /\ calls[c].match # 0
    BY <1>11 DEF CheckVersion
  <2>2. CASE Ended(c)
    BY <1>9, <1>10, <2>1, <2>2 DEF Fits
  <2>3. CASE calls' = [calls EXCEPT ![c].phase = "checked"]
    <3> DEFINE call == [calls[c] EXCEPT !.phase = "checked"]
    <3>1. calls' = [calls EXCEPT ![c] = call]
      BY <2>3
    <3>2. calls[c] \in Asks
      BY <2>1 DEF StoreInv, CallInv
    <3>3. StageOf(call) = StageOf(calls[c])
      BY <2>1, <3>2 DEF StageOf, Asks
    <3> QED BY <1>2, <1>6, <3>1, <3>3
  <2> QED BY <1>11, <2>2, <2>3 DEF CheckVersion
<1>12. CASE SelectRow(c)
  BY <1>3, <1>12 DEF SelectRow
<1>13. CASE Reject(c)
  <2>1. /\ calls[c].phase \in {"called", "checked"} /\ Ended(c)
        /\ calls[c].op = "restore" \/ ~Lookup(calls[c]).ok
    BY <1>3, <1>13 DEF Reject, CanWrite, Ready, NoRestore, Seen
  <2>2. Fits(calls[c])
    BY <1>9, <2>1
  <2>3. ~Lookup(calls[c]).ok => calls[c].op # "create" /\ ~Found(calls[c].id)
    BY <1>3, <2>2 DEF Lookup, Fits
  <2> QED BY <1>10, <2>1, <2>3
<1>14. CASE FetchMutation(c)
  <2> DEFINE call == [phase |-> "fetched", post |-> calls[c].post,
                      events |-> SubSeq(log, Len(log), Len(log))]
  <2>1. calls' = [calls EXCEPT ![c] = call]
    BY <1>14 DEF FetchMutation, StoreInv
  <2>2. StageOf(call) = StageOf(calls[c])
    BY <1>14 DEF FetchMutation, StageOf
  <2> HIDE DEF call
  <2> QED BY <1>2, <1>6, <2>1, <2>2
<1>15. CASE Publish(c)
  <2>1. Stages[c] = Store!Served
    BY <1>4, <1>15 DEF Publish, StageOf, Store!Served
  <2>2. Stages' = [Stages EXCEPT ![c] = Store!Idle]
    BY <1>7, <1>15 DEF Publish
  <2> QED BY <1>2, <2>1, <2>2 DEF Store!Answer, Stages
<1> QED BY <1>8, <1>11, <1>12, <1>13, <1>14, <1>15

(* A write takes effect at once, on the record as it is. *)
LEMMA WriteIsAtomic ==
  ASSUME SimulatorAssumption, AtomicStores \subseteq {"sqlite"}, StoreInv, Atomic,
         NEW c \in Clients, Write(c)
  PROVE  (\E id \in TableIds : Store!Create(c, id)) \/ Store!Update(c) \/ Store!Delete(c)
<1> DEFINE call == calls[c]  seen == Lookup(call)
           post == [op |-> IF call.op = "restore" THEN "create" ELSE call.op, id |-> seen.id,
                    stamp |-> Len(IF Mutates(call, seen)
                                    THEN Append(log, [op |-> call.op, id |-> seen.id, at |-> Stamp])
                                    ELSE log)]
           next == [phase |-> "written", post |-> post]
<1>1. /\ backend = "sqlite" /\ SQL /\ Table = TableOf(rows)
      /\ rows \in Seq(Entries) /\ Single(rows) /\ Live(rows) = DOMAIN rows
      /\ \A id \in RecordIds :
           IF Found(id) THEN /\ Row(id) \in Range(rows) /\ Row(id) \in Entries /\ Row(id).id = id
                             /\ ~Row(id).deleted /\ Table[id] = Row(id).data /\ Table[id] # <<>>
                        ELSE Table[id] = <<>>
  BY AtomicStore
<1>2. /\ CanWrite(c) /\ call.op # "restore" /\ Seen(c) = seen /\ seen.ok
      /\ rows' = IF Mutates(call, seen) THEN Written(call, seen) ELSE rows
      /\ calls' = [calls EXCEPT ![c] = next] /\ backend' = backend
  BY <1>1 DEF Write, NoRestore, Seen
<1>3. calls[c].phase \in {"called", "checked"}
  BY <1>1, <1>2 DEF CanWrite, Ready
<1>4. Fits(call) /\ SeenFits(call, seen)
  BY <1>3, LookupFits
<1>5. next.phase = "written"
  OBVIOUS
<1> HIDE DEF post, next
<1>6. StageOf(next) = Store!Served
  BY <1>5 DEF StageOf, Store!Served
<1>7. /\ Stages' = [Stages EXCEPT ![c] = Store!Served]
      /\ Stages[c].stage = "asked" /\ Stages[c].op = call.op /\ Stages[c].id = call.id
      /\ Stages[c].body = call.body
  <2>1. /\ Stages' = [Stages EXCEPT ![c] = StageOf(next)]
        /\ Stages = [d \in Clients |-> StageOf(calls[d])]
    BY <1>2, StagesMove
  <2> QED BY <1>3, <1>6, <2>1 DEF StageOf
<1> HIDE DEF call, seen
<1>8. rows' = SqliteWritten(call, seen) /\ call.op \in {"create", "update", "delete"}
  BY <1>1, <1>2, <1>4 DEF Mutates, Written, Fits, Ops
<1>9. StoreInv' /\ Atomic' /\ Table' = TableOf(rows')
      /\ rows' \in Seq(Entries) /\ Single(rows') /\ Live(rows') = DOMAIN rows'
  <2>1. StoreInv'
    BY WriteKeepsStore
  <2>2. backend' = "sqlite" /\ RowsInv'
    BY <1>1, <1>2, <2>1 DEF StoreInv
  <2>3. rows' \in Seq(Entries) /\ Single(rows') /\ Live(rows') = DOMAIN rows'
    BY <2>2 DEF RowsInv, SQL
  <2>4. Atomic'
    BY <1>2 DEF Atomic
  <2>5. Table' = TableOf(rows')
    BY <2>4 DEF Table, TableOf, Found, Row, At, TableIds
  <2> QED BY <2>1, <2>3, <2>4, <2>5
<1>10. /\ RowsInv /\ Len(log) \in Nat
       /\ seen.id \in RecordIds /\ seen.id \in TableIds /\ seen.id # 0
       /\ call.op # "create" => /\ Found(seen.id) /\ seen.id = call.id /\ seen.row = Row(seen.id)
  <2>1. RowsInv /\ Len(log) \in Nat
    BY RequestRoom DEF StoreInv
  <2>2. seen.id \in RecordIds
    BY <1>2, <1>4 DEF SeenFits
  <2>3. seen.id # 0 /\ seen.id \in TableIds
    BY <2>2, TopIsBound DEF TableIds
  <2>4. call.op # "create" => Found(seen.id) /\ seen.id = call.id /\ seen.row = Row(seen.id)
    BY <1>2, <1>4 DEF SeenFits, Lookup, seen
  <2> QED BY <2>1, <2>2, <2>3, <2>4
<1>11. ASSUME NEW r \in Entries, r.id = seen.id, ~r.deleted, rows' = ToEnd(r)
       PROVE  Table' = [Table EXCEPT ![seen.id] = r.data]
  <2>1. r.id <= Top + Len(log) + 1
    <3>1. call.op = "create" => seen.id <= Top + Len(log) + 1
      BY <1>2, <1>4 DEF SeenFits
    <3>2. Found(seen.id) => seen.id <= Top + Len(log) + 1
      <4>1. ASSUME Found(seen.id) PROVE seen.id <= Top + Len(log) + 1
        <5>1. At(seen.id) \in DOMAIN rows /\ rows[At(seen.id)].id = seen.id
          BY <1>1, <4>1, RowFound
        <5> QED BY <1>10, <5>1, BoundGrows
      <4> QED BY <4>1
    <3> QED BY <1>10, <1>11, <3>1, <3>2
  <2>2. Range(rows') = {e \in Range(rows) : e.id # seen.id} \cup {r}
    BY <1>10, <1>11, <2>1, ToEndNext
  <2> QED BY <1>1, <1>9, <1>10, <1>11, <2>2, TableWritten
<1>12. CASE call.op = "create"
  <2>1. New(call, seen.id) \in Entries /\ New(call, seen.id).id = seen.id
        /\ ~New(call, seen.id).deleted /\ New(call, seen.id).data = call.body
    BY <1>4, <1>10, <1>12, NewRow DEF Fits
  <2>2. rows' = ToEnd(New(call, seen.id))
    BY <1>8, <1>12 DEF SqliteWritten
  <2>3. Table' = [Table EXCEPT ![seen.id] = call.body]
    BY <1>11, <2>1, <2>2
  <2>4. seen.id = IF call.id = 0 THEN NextId ELSE call.id
    BY <1>12 DEF Lookup, seen
  <2>5. call.id = 0 => seen.id # 0 /\ Table[seen.id] = <<>>
    <3>1. ~Found(NextId)
      BY <1>10, NextIdBound
    <3> QED BY <1>1, <1>10, <2>4, <3>1
  <2> QED BY <1>7, <1>10, <1>12, <2>3, <2>4, <2>5
          DEF Store!Create, Store!Asked, Store!Settle, Store!Gone, Stages
<1>13. CASE call.op = "update"
  <2> DEFINE row == Row(seen.id)  merged == Merged(call, row)
             data == [f \in Fields |-> IF f \in DOMAIN call.body THEN call.body[f] ELSE row.data[f]]
  <2>1. row \in Entries /\ row.id = seen.id /\ ~row.deleted /\ Table[seen.id] = row.data
        /\ row.data # <<>>
    BY <1>1, <1>10, <1>13
  <2> HIDE DEF row
  <2>2. merged \in Entries /\ merged.id = row.id /\ merged.deleted = row.deleted /\ merged.data = data
    BY <1>4, <1>10, <2>1, MergedRow DEF Fits
  <2>3. rows' = ToEnd(merged)
    BY <1>8, <1>10, <1>13 DEF SqliteWritten, row
  <2> HIDE DEF merged, data
  <2>4. Table' = [Table EXCEPT ![seen.id] = data]
    BY <1>11, <2>1, <2>2, <2>3
  <2>5. DOMAIN Table[seen.id] = Fields
    BY <2>1 DEF Entries
  <2>6. Table' = [Table EXCEPT ![seen.id] =
                    [f \in DOMAIN @ |-> IF f \in DOMAIN call.body THEN call.body[f] ELSE @[f]]]
    BY <2>1, <2>4, <2>5 DEF data
  <2>7. seen.id = call.id
    BY <1>10, <1>13
  <2>8. Store!Asked(c, {"update"}) /\ Store!Settle(c)
    BY <1>7, <1>13 DEF Store!Asked, Store!Settle, Stages
  <2>9. Table[Stages[c].id] # Store!Gone
    BY <1>7, <2>1, <2>7 DEF Store!Gone
  <2>10. Stages[c].id = seen.id /\ Stages[c].body = call.body
    BY <1>7, <2>7
  <2> QED BY <2>6, <2>8, <2>9, <2>10 DEF Store!Update, Stages
<1>14. CASE call.op = "delete"
  <2>1. rows' = Without(seen.id)
    BY <1>8, <1>14 DEF SqliteWritten
  <2>2. Range(rows') = {e \in Range(rows) : e.id # seen.id}
    BY <1>10, <2>1, WithoutNext
  <2>3. Table' = [Table EXCEPT ![seen.id] = <<>>]
    BY <1>1, <1>9, <1>10, <2>2, TableWritten
  <2>4. Table[seen.id] # <<>> /\ seen.id = call.id
    BY <1>1, <1>10, <1>14
  <2> QED BY <1>7, <1>14, <2>3, <2>4
          DEF Store!Delete, Store!Asked, Store!Settle, Store!Gone, Stages
<1> QED BY <1>8, <1>12, <1>13, <1>14

(* A restart loses the requests and fills in the seeds that are missing. *)
LEMMA RestartSeeds ==
  ASSUME SimulatorAssumption, AtomicStores \subseteq {"sqlite"}, StoreInv, Atomic, Restart
  PROVE  Store!Restart
<1> DEFINE lacking == {id \in Seeds : ~Found(id)}  s == SeedRows(lacking)
<1>1. /\ backend = "sqlite" /\ SQL /\ Table = TableOf(rows)
      /\ rows \in Seq(Entries) /\ Single(rows) /\ Live(rows) = DOMAIN rows
      /\ \A id \in RecordIds :
           IF Found(id) THEN /\ Row(id) \in Range(rows) /\ Row(id) \in Entries /\ Row(id).id = id
                             /\ ~Row(id).deleted /\ Table[id] = Row(id).data /\ Table[id] # <<>>
                        ELSE Table[id] = <<>>
  BY AtomicStore
<1>2. backend' = backend /\ rows' = s \o rows /\ calls' = [c \in Clients |-> Idle]
  BY <1>1 DEF Restart
<1>3. /\ s \in Seq(Entries) /\ Single(s) /\ Live(s) = DOMAIN s
      /\ Range(s) = {SeedRow(id) : id \in lacking}
  BY SeedRowsAre
<1> HIDE DEF s
<1>4. Range(s \o rows) = Range(s) \cup Range(rows)
  BY <1>1, <1>3, Joined
<1>5. StoreInv' /\ Atomic'
  BY <1>2, RestartKeepsStore DEF Atomic
<1>6. Table' = TableOf(rows') /\ rows' \in Seq(Entries) /\ Single(rows') /\ Live(rows') = DOMAIN rows'
  <2>1. backend' = "sqlite" /\ RowsInv'
    BY <1>1, <1>2, <1>5 DEF StoreInv
  <2>2. rows' \in Seq(Entries) /\ Single(rows') /\ Live(rows') = DOMAIN rows'
    BY <2>1 DEF RowsInv, SQL
  <2>3. Table' = TableOf(rows')
    BY <1>5 DEF Table, TableOf, Found, Row, At, TableIds
  <2> QED BY <2>2, <2>3
<1>7. /\ \A r \in Range(rows') : TableOf(rows')[r.id] = r.data
      /\ \A id \in TableIds : (\A r \in Range(rows') : r.id # id) => TableOf(rows')[id] = <<>>
  BY <1>6, TableRows
<1>8. \A id \in Seeds : id \in RecordIds /\ 0 \notin Seeds
  BY TopIsBound DEF SimulatorAssumption
<1>9. ASSUME NEW id \in TableIds
      PROVE  TableOf(rows')[id] = IF Table[id] = <<>> THEN Store!Seeded(id) ELSE Table[id]
  <2>1. CASE id \in RecordIds /\ Found(id)
    <3>1. Row(id) \in Range(rows') /\ Row(id).id = id /\ Table[id] = Row(id).data /\ Table[id] # <<>>
      BY <1>1, <1>2, <1>4, <2>1
    <3> QED BY <1>7, <3>1
  <2>2. CASE id \in lacking
    <3>1. SeedRow(id) \in Range(rows')
      BY <1>2, <1>3, <1>4, <2>2
    <3>2. TableOf(rows')[id] = [f \in Fields |-> 0]
      BY <1>7, <3>1 DEF SeedRow
    <3>3. Table[id] = <<>> /\ Store!Seeded(id) = [f \in Fields |-> 0]
      BY <1>1, <1>8, <2>2 DEF Store!Seeded, Seed
    <3> QED BY <3>2, <3>3
  <2>3. CASE id \notin lacking /\ (id = 0 \/ ~Found(id))
    <3>1. \A r \in Range(s) : r.id # id
      BY <1>3, <2>3 DEF SeedRow
    <3>2. \A r \in Range(rows) : r.id # id
      <4>1. CASE id = 0
        <5>1. \A r \in Range(rows) : r.id \in RecordIds
          BY <1>1, TableRows
        <5> QED BY <4>1, <5>1, TopIsBound
      <4>2. CASE ~Found(id)
        BY <4>2 DEF Found, Range
      <4> QED BY <2>3, <4>1, <4>2
    <3>3. TableOf(rows')[id] = <<>> /\ TableOf(rows)[id] = <<>>
      BY <1>1, <1>2, <1>4, <1>7, <3>1, <3>2, TableRows
    <3>4. id \notin Seeds
      BY <1>8, <2>3
    <3>5. Store!Seeded(id) = <<>>
      BY <3>4 DEF Store!Seeded, Store!Gone, Seed
    <3> QED BY <1>1, <3>3, <3>5
  <2> QED BY <2>1, <2>2, <2>3 DEF TableIds
<1>10. TableOf(rows') = [id \in TableIds |-> TableOf(rows')[id]]
  BY DEF TableOf
<1>11. Table' = [id \in TableIds |-> IF Table[id] = <<>> THEN Store!Seeded(id) ELSE Table[id]]
  BY <1>6, <1>9, <1>10
<1>12. Stages' = [c \in Clients |-> Store!Idle]
  <2>1. \A c \in Clients : Stage(calls[c])' = Store!Idle
    BY <1>2 DEF Stage, Idle, Store!Idle
  <2> QED BY <2>1 DEF Stages
<1> QED BY <1>11, <1>12 DEF Store!Restart, Store!Gone, Stages, TableIds

LEMMA StoreSteps ==
  ASSUME SimulatorAssumption, AtomicStores \subseteq {"sqlite"}, StoreInv, [Next]_vars
  PROVE  [Store!Next]_Store!vars
<1>1. UNCHANGED <<Table, Stages>> => [Store!Next]_Store!vars
  BY DEF Store!vars, Stages
<1>2. backend' = backend
  BY DEF Next, Insert, EngineUpdate, EngineDelete, LoadPanel, SavePanel, DeletePanel, PressRestore,
         Request, CheckVersion, SelectRow, Reject, Write, FetchMutation, Publish, Arrive, Consume,
         NextPage, Restart, vars
<1>3. CASE ~Atomic
  <2>1. Table' = Table
    BY <1>2, <1>3 DEF Table, Atomic
  <2>2. Stages' = Stages
    <3>1. \A c \in Clients : Stage(calls[c])' = Stage(calls[c])
      BY <1>2, <1>3 DEF Stage, Atomic
    <3> QED BY <3>1 DEF Stages
  <2> QED BY <1>1, <2>1, <2>2
<1>4. CASE Atomic
  <2>1. ASSUME NEW c \in Clients,
               \/ Insert(c) \/ EngineUpdate(c) \/ EngineDelete(c)
               \/ SavePanel(c) \/ DeletePanel(c) \/ PressRestore(c)
        PROVE  Store!Next
    <3>1. Store!Ask(c)
      BY <1>4, <2>1, ClientsAsk
    <3> QED BY <3>1 DEF Store!Next
  <2>2. ASSUME NEW c \in Clients,
               LoadPanel(c) \/ CheckVersion(c) \/ SelectRow(c) \/ Reject(c) \/ FetchMutation(c) \/ Publish(c)
        PROVE  [Store!Next]_Store!vars
    <3>1. Store!Refuse(c) \/ Store!Answer(c) \/ UNCHANGED <<Table, Stages>>
      BY <1>4, <2>2, ServerAnswers
    <3> QED BY <1>1, <3>1 DEF Store!Next
  <2>3. ASSUME NEW c \in Clients, Write(c) PROVE Store!Next
    <3>1. (\E id \in TableIds : Store!Create(c, id)) \/ Store!Update(c) \/ Store!Delete(c)
      BY <1>4, <2>3, WriteIsAtomic
    <3> QED BY <3>1 DEF Store!Next, TableIds
  <2>4. CASE Restart
    BY <1>4, <2>4, RestartSeeds DEF Store!Next
  <2>5. CASE Consume \/ NextPage \/ (\E p \in posts : Arrive(p)) \/ UNCHANGED vars
    <3>1. rows' = rows /\ calls' = calls
      BY <2>5 DEF Consume, NextPage, Arrive, vars
    <3>2. Table' = Table
      BY <1>2, <3>1 DEF Table, Atomic, Found, Row, At
    <3>3. Stages' = Stages
      <4>1. \A c \in Clients : Stage(calls[c])' = Stage(calls[c])
        BY <1>2, <3>1 DEF Stage, Atomic
      <4> QED BY <4>1 DEF Stages
    <3> QED BY <1>1, <3>2, <3>3
  <2> QED BY <2>1, <2>2, <2>3, <2>4, <2>5 DEF Next
<1> QED BY <1>3, <1>4

(* The sqlite store is atomic, for any number of clients, records, requests and     *)
(* restarts: every request takes effect in one step of RecordStore, on the record   *)
(* as it is at that step, or is refused and changes nothing.                        *)
THEOREM SqliteIsAtomic ==
  ASSUME SimulatorAssumption, AtomicStores \subseteq {"sqlite"}
  PROVE  Spec => StoreIsAtomic
<1>1. Init => Store!Init
  BY StoreBegins
<1>2. StoreInv /\ [Next]_vars => [Store!Next]_Store!vars
  BY StoreSteps
<1> QED BY StoreKeepsTypes, <1>1, <1>2, PTL DEF Spec, StoreIsAtomic, Store!Spec
=============================================================================
