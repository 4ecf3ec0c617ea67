------------------------------ MODULE DaemonProofs ------------------------------
(* What a daemon runs beside its syncs: the gate around its loops, for any number of *)
(* replicas and loops; the webhook receiver, for any events, repetitions and          *)
(* failures; and the connector files, for any edits, signals and restarts.            *)
EXTENDS MCDaemon, NaturalFacts

-----------------------------------------------------------------------------
(* What the gate promises the schema-manager.  The barrier alone does not give it: a *)
(* loop that looked at component_state before the stop may take its shared lock once *)
(* the exclusive one is released.  What keeps it from its work is the second look,   *)
(* which finds 'stopped' until the component is set running.                         *)

\* 'stopped' stands from the schema-manager's first step to its last.
StopStands ==
    manager \in {"stopping", "waiting", "upgrading", "upgraded"} => desired = "stopped"

\* The exclusive lock excludes the shared ones.
BarrierHolds ==
    manager = "upgrading" =>
        \A l \in Loops : pc[l] \notin {"locked", "working", "syncing", "leaving"}

GateInv ==
    /\ pc \in [Loops -> Positions]
    /\ StopStands
    /\ BarrierHolds
    /\ QuietWhileStopped

(* A component that was never set running satisfies the invariant. *)
LEMMA GateInvInit == Init => GateInv
  BY DEF Init, GateInv, StopStands, BarrierHolds, QuietWhileStopped, Positions

(* The schema-manager: it takes the exclusive lock only when no session shares it. *)
LEMMA ManagerKeepsInv ==
  ASSUME GateInv, ManagerStops \/ Manager
  PROVE  GateInv'
<1>1. CASE ManagerStops
  BY <1>1 DEF ManagerStops, GateInv, StopStands, BarrierHolds, QuietWhileStopped
<1>2. CASE ManagerWaits
  BY <1>2 DEF ManagerWaits, GateInv, StopStands, BarrierHolds, QuietWhileStopped
<1>3. CASE ManagerLocks
  BY <1>3
  DEF ManagerLocks, Sharers, GateInv, StopStands, BarrierHolds, QuietWhileStopped
<1>4. CASE ManagerUnlocks
  BY <1>4 DEF ManagerUnlocks, GateInv, StopStands, BarrierHolds, QuietWhileStopped
<1>5. CASE ManagerResumes
  BY <1>5 DEF ManagerResumes, GateInv, StopStands, BarrierHolds, QuietWhileStopped
<1> QED BY <1>1, <1>2, <1>3, <1>4, <1>5 DEF Manager

(* A loop's move keeps the invariant when the barrier lets it into its new position. *)
LEMMA MoveKeepsInv ==
  ASSUME GateInv, NEW l \in Loops,
         NEW from, NEW to \in Positions, NEW change, Moves(l, from, to, change),
         manager = "upgrading" => to \notin {"locked", "working", "syncing", "leaving"},
         manager = "upgraded" => to \notin {"working", "syncing", "leaving"}
  PROVE  GateInv'
<1>1. /\ pc' = [pc EXCEPT ![l] = to]
      /\ UNCHANGED <<desired, manager>>
  BY DEF Moves
<1>2. pc' \in [Loops -> Positions]
  BY <1>1 DEF GateInv
<1>3. BarrierHolds'
  BY <1>1 DEF GateInv, BarrierHolds
<1>4. QuietWhileStopped'
  BY <1>1 DEF GateInv, QuietWhileStopped
<1>5. StopStands'
  BY <1>1 DEF GateInv, StopStands
<1> QED BY <1>2, <1>3, <1>4, <1>5 DEF GateInv

(* A loop at work is past the barrier and the second look. *)
LEMMA WorkersAreAlone ==
  ASSUME GateInv, NEW l \in Loops, pc[l] \in {"working", "syncing", "leaving"}
  PROVE  manager \notin {"upgrading", "upgraded"}
  BY DEF GateInv, QuietWhileStopped

(* The loop, action by action: those that enter the lock or the work look at what  *)
(* the schema-manager has done, the others were in already or leave.               *)
LEMMA LoopKeepsInv ==
  ASSUME GateInv, NEW l \in Loops,
         Cycle(l) \/ SyncTimesOut(l) \/ StartTimesOut(l)
  PROVE  GateInv'
<1> USE DEF Positions
<1>1. CASE CheckState(l)
  BY <1>1, MoveKeepsInv DEF CheckState
<1>2. CASE LeaveLoop(l)
  BY <1>2, MoveKeepsInv DEF LeaveLoop
<1>3. CASE GetConnection(l)
  BY <1>3, MoveKeepsInv DEF GetConnection
<1>4. CASE LockShared(l)
  BY <1>4, MoveKeepsInv DEF LockShared
<1>5. CASE Recheck(l)
  <2>1. CASE desired # "stopped" /\ Moves(l, "locked", "working", 0)
    <3>1. manager \notin {"upgrading", "upgraded"}
      BY <2>1 DEF GateInv, StopStands
    <3> QED BY <2>1, <3>1, MoveKeepsInv
  <2>2. CASE Moves(l, "locked", "asleep", 1)
    BY <2>2, MoveKeepsInv
  <2> QED BY <1>5, <2>1, <2>2 DEF Recheck
<1>6. CASE SkipCycle(l) \/ StartSync(l) \/ EndSync(l) \/ SyncTimesOut(l) \/ StartTimesOut(l)
  <2>1. PICK from \in {"working", "syncing"}, to \in {"leaving", "syncing"},
             change \in {-1, 0, 1} : Moves(l, from, to, change)
    BY <1>6 DEF SkipCycle, StartSync, EndSync, SyncTimesOut, StartTimesOut
  <2>2. manager \notin {"upgrading", "upgraded"}
    BY <2>1, WorkersAreAlone DEF Moves
  <2> QED BY <2>1, <2>2, MoveKeepsInv
<1>7. CASE ExitGate(l)
  BY <1>7, MoveKeepsInv DEF ExitGate
<1> QED BY <1>1, <1>2, <1>3, <1>4, <1>5, <1>6, <1>7 DEF Cycle

(* A replica that ends, for whatever reason, takes its loops out of the gate. *)
LEMMA RestartKeepsInv ==
  ASSUME GateInv, NEW r \in Replicas, Restarts(r)
  PROVE  GateInv'
<1>1. /\ pc' = [l \in Loops |-> IF l[1] = r THEN "asleep" ELSE pc[l]]
      /\ UNCHANGED <<desired, manager>>
  BY DEF Restarts
<1>2. pc' \in [Loops -> Positions]
  BY <1>1 DEF GateInv, Positions
<1>3. BarrierHolds' /\ QuietWhileStopped' /\ StopStands'
  BY <1>1 DEF GateInv, BarrierHolds, QuietWhileStopped, StopStands
<1> QED BY <1>2, <1>3 DEF GateInv

(* Every step keeps the invariant. *)
LEMMA GateInvNext == GateInv /\ [Next]_vars => GateInv'
<1> SUFFICES ASSUME GateInv, [Next]_vars PROVE GateInv'
  OBVIOUS
<1>1. CASE ManagerStops \/ Manager
  BY <1>1, ManagerKeepsInv
<1>2. CASE \E l \in Loops : Cycle(l) \/ SyncTimesOut(l) \/ StartTimesOut(l)
  BY <1>2, LoopKeepsInv
<1>3. CASE \E l \in Loops : GateTimesOut(l)
  <2>1. PICK l \in Loops : Restarts(l[1])
    BY <1>3 DEF GateTimesOut
  <2> QED BY <2>1, RestartKeepsInv DEF Loops
<1>4. CASE \E r \in Replicas : Dies(r) \/ EndDrain(r)
  BY <1>4, RestartKeepsInv DEF Dies, EndDrain
<1>5. CASE \E r \in Replicas : Drain(r)
  BY <1>5 DEF Drain, GateInv, StopStands, BarrierHolds, QuietWhileStopped
<1>6. CASE UNCHANGED vars
  BY <1>6 DEF vars, GateInv, StopStands, BarrierHolds, QuietWhileStopped
<1> QED BY <1>1, <1>2, <1>3, <1>4, <1>5, <1>6 DEF Next, Timeout

(* No cycle is at work from the moment the schema-manager has the exclusive lock    *)
(* until it sets the component running again (component_gate.py, __aenter__).       *)
THEOREM NoWorkWhileStopped == Spec => []QuietWhileStopped
<1>1. GateInv => QuietWhileStopped
  BY DEF GateInv
<1> QED BY <1>1, GateInvInit, GateInvNext, PTL DEF Spec

-----------------------------------------------------------------------------
(* The webhook receiver, one event at a time and one route.  "The row never goes back" *)
(* is no invariant of the row alone: an event is compared with last_seq, which is       *)
(* stored and committed before the row is written, so that the row may lag behind it    *)
(* after a failure, and must never be ahead of it.                                      *)

OneAtATime == \E h : Handlers = {h}
OneRoute == \E r : Routes = {r}

Requests == [pc : {"idle", "received", "routed", "fresh", "accepted"}, n : Nat, got : Nat]

ReceiverTyped(h) ==
    /\ routeOf \in [Hooks!Events -> Routes]
    /\ handler \in [Handlers -> Requests]
    /\ lastSeq \in [Routes -> Nat]
    /\ made \in Nat /\ row \in Nat /\ faults \in Nat /\ row <= made
    /\ handler[h].n <= made
    /\ handler[h].pc # "idle" => handler[h].n \in Hooks!Events

\* What has been accepted is not older than the row, and the last sequence is that of the
\* row, or of an event that is or was to be written after it.
SequenceLeads(h, r) ==
    /\ handler[h].pc = "accepted" => row <= handler[h].got /\ handler[h].got <= made
    /\ handler[h].pc = "fresh" => strategy = "latest" /\ lastSeq[r] < handler[h].n
    /\ strategy = "latest" =>
          /\ row <= lastSeq[r] /\ lastSeq[r] <= made
          /\ handler[h].pc = "accepted" => lastSeq[r] = handler[h].got

\* An event at work whose id is stored already.
AtWork(h, n) == handler[h].n = n /\ handler[h].pc \in {"routed", "fresh", "accepted"}

\* Until something fails, whatever the receiver discards is covered by the row.
NothingSwallowed(h, r) ==
    faults = 0 =>
        /\ \A n \in acked : row >= n
        /\ \A n \in seen : row >= n \/ AtWork(h, n)
        /\ handler[h].pc = "accepted" => handler[h].n <= handler[h].got
        /\ strategy = "latest" /\ handler[h].pc # "accepted" => row = lastSeq[r]

ReceiverInv(h, r) ==
    Hooks!Ordering =>
        /\ ReceiverTyped(h) /\ acked \subseteq Nat /\ seen \subseteq Nat
        /\ SequenceLeads(h, r)
        /\ NothingSwallowed(h, r)

(* Where a handler is after a step of its own. *)
LEMMA HandlerMoves ==
  ASSUME NEW h \in Handlers, handler \in [Handlers -> Requests],
         NEW pos \in {"idle", "received", "routed", "fresh", "accepted"}, NEW n \in Nat, NEW newest \in Nat,
         handler' = [handler EXCEPT ![h] = [pc |-> pos, n |-> n, got |-> newest]]
  PROVE  /\ handler' \in [Handlers -> Requests]
         /\ handler'[h].pc = pos /\ handler'[h].n = n /\ handler'[h].got = newest
<1>1. [pc |-> pos, n |-> n, got |-> newest] \in Requests
  BY DEF Requests
<1>2. handler'[h] = [pc |-> pos, n |-> n, got |-> newest]
  OBVIOUS
<1> QED BY <1>1, <1>2

(* A step of the handler that keeps to the order keeps the row from going back. *)
LEMMA HandleKeepsInv ==
  ASSUME NEW h, Handlers = {h}, NEW r, Routes = {r},
         ReceiverInv(h, r), Hooks!Ordering, Hooks!Handle(h)
  PROVE  ReceiverInv(h, r)' /\ row' >= row
<1> PICK n, newest : n = handler[h].n /\ newest = handler[h].got
  OBVIOUS
<1>1. /\ ReceiverTyped(h) /\ acked \subseteq Nat /\ seen \subseteq Nat
      /\ SequenceLeads(h, r) /\ NothingSwallowed(h, r)
      /\ h \in Handlers /\ r \in Routes
  BY DEF ReceiverInv
<1>2. /\ handler \in [Handlers -> Requests] /\ n \in Nat /\ newest \in Nat
      /\ made \in Nat /\ row \in Nat /\ faults \in Nat /\ row <= made /\ n <= made
      /\ lastSeq \in [Routes -> Nat] /\ lastSeq[r] \in Nat
  BY <1>1 DEF ReceiverTyped, Requests
<1>3. handler[h].pc # "idle" => n \in Hooks!Events /\ routeOf[n] = r
  BY <1>1 DEF ReceiverTyped
<1>4. Hooks!Idle = [pc |-> "idle", n |-> 0, got |-> 0]
  BY DEF Hooks!Idle
<1>5. CASE Hooks!Deduplicate(h)
  <2>1. /\ handler[h].pc = "received"
        /\ UNCHANGED <<strategy, deletions, routeOf, lastSeq, row, faults, made>>
    BY <1>5 DEF Hooks!Deduplicate, Hooks!At, Hooks!Respond, Hooks!Proceed, Hooks!sender,
                Hooks!configured
  <2>2. ~Hooks!Unordered(n)
    BY DEF Hooks!Unordered, Hooks!Ordering
  <2>3. CASE Dedup /\ n \in seen
    <3>1. /\ acked' = acked \cup {n} /\ seen' = seen
          /\ handler' = [handler EXCEPT ![h] = [pc |-> "idle", n |-> 0, got |-> 0]]
      BY <1>4, <1>5, <2>3 DEF Hooks!Deduplicate, Hooks!Respond
    <3>2. handler' \in [Handlers -> Requests] /\ handler'[h].pc = "idle" /\ handler'[h].n = 0 /\ handler'[h].got = 0
      BY <1>1, <1>2, <3>1, HandlerMoves
    <3>3. ReceiverTyped(h)'
      BY <1>1, <1>2, <1>3, <2>1, <2>3, <3>1, <3>2 DEF ReceiverTyped, SequenceLeads, Hooks!Events
    <3>4. SequenceLeads(h, r)'
      BY <1>1, <1>2, <1>3, <2>1, <2>3, <3>1, <3>2 DEF SequenceLeads
    <3>5. NothingSwallowed(h, r)'
      BY <1>1, <1>2, <1>3, <2>1, <2>3, <3>1, <3>2 DEF NothingSwallowed, SequenceLeads, AtWork
    <3>6. acked' \subseteq Nat
      BY <1>1, <1>2, <3>1
    <3>7. seen' \subseteq Nat /\ row' >= row
      BY <1>1, <1>2, <2>1, <3>1
    <3> QED BY <3>3, <3>4, <3>5, <3>6, <3>7 DEF ReceiverInv
  <2>4. CASE ~(Dedup /\ n \in seen)
    <3>1. /\ acked' = acked /\ seen' \in {seen, seen \cup {n}}
          /\ handler' = [handler EXCEPT ![h] = [pc |-> "routed", n |-> n, got |-> n]]
      BY <1>5, <2>2, <2>4 DEF Hooks!Deduplicate, Hooks!Proceed, Hooks!sender
    <3>2. handler' \in [Handlers -> Requests] /\ handler'[h].pc = "routed" /\ handler'[h].n = n /\ handler'[h].got = n
      BY <1>1, <1>2, <3>1, HandlerMoves
    <3>3. ReceiverTyped(h)'
      BY <1>1, <1>2, <1>3, <2>1, <3>1, <3>2 DEF ReceiverTyped, SequenceLeads, Hooks!Events
    <3>4. SequenceLeads(h, r)'
      BY <1>1, <1>2, <1>3, <2>1, <3>1, <3>2 DEF SequenceLeads
    <3>5. NothingSwallowed(h, r)'
      BY <1>1, <1>2, <1>3, <2>1, <3>1, <3>2 DEF NothingSwallowed, SequenceLeads, AtWork
    <3> QED BY <1>1, <1>2, <2>1, <3>1, <3>2, <3>3, <3>4, <3>5 DEF ReceiverInv, SequenceLeads
  <2> QED BY <2>3, <2>4
<1>6. CASE Hooks!CompareSequence(h)
  <2>1. /\ handler[h].pc = "routed" /\ strategy = "latest"
        /\ UNCHANGED <<strategy, deletions, routeOf, lastSeq, row, faults, made, seen>>
    BY <1>6 DEF Hooks!CompareSequence, Hooks!At, Hooks!Respond, Hooks!Proceed, Hooks!sender,
                Hooks!store, Hooks!configured
  <2>2. routeOf[n] = r
    BY <1>3, <2>1
  <2>3. CASE n <= lastSeq[r]
    <3>1. /\ acked' = acked \cup {n}
          /\ handler' = [handler EXCEPT ![h] = [pc |-> "idle", n |-> 0, got |-> 0]]
      BY <1>4, <1>6, <2>2, <2>3 DEF Hooks!CompareSequence, Hooks!Respond
    <3>2. handler' \in [Handlers -> Requests] /\ handler'[h].pc = "idle" /\ handler'[h].n = 0 /\ handler'[h].got = 0
      BY <1>1, <1>2, <3>1, HandlerMoves
    <3>3. ReceiverTyped(h)'
      BY <1>1, <1>2, <1>3, <2>1, <2>3, <3>1, <3>2 DEF ReceiverTyped, SequenceLeads, Hooks!Events
    <3>4. SequenceLeads(h, r)'
      BY <1>1, <1>2, <1>3, <2>1, <2>3, <3>1, <3>2 DEF SequenceLeads
    <3>5. NothingSwallowed(h, r)'
      BY <1>1, <1>2, <1>3, <2>1, <2>3, <3>1, <3>2 DEF NothingSwallowed, SequenceLeads, AtWork
    <3>6. acked' \subseteq Nat
      BY <1>1, <1>2, <3>1
    <3>7. seen' \subseteq Nat /\ row' >= row
      BY <1>1, <1>2, <2>1, <3>1
    <3> QED BY <3>3, <3>4, <3>5, <3>6, <3>7 DEF ReceiverInv
  <2>4. CASE n > lastSeq[r]
    <3>1. /\ acked' = acked
          /\ handler' = [handler EXCEPT ![h] = [pc |-> "fresh", n |-> n, got |-> n]]
      <4>1. ~(n <= lastSeq[r])
        BY <1>2, <2>4
      <4> QED BY <1>6, <2>2, <4>1 DEF Hooks!CompareSequence, Hooks!Proceed, Hooks!sender
    <3>2. handler' \in [Handlers -> Requests] /\ handler'[h].pc = "fresh" /\ handler'[h].n = n /\ handler'[h].got = n
      BY <1>1, <1>2, <3>1, HandlerMoves
    <3>3. ReceiverTyped(h)'
      BY <1>1, <1>2, <1>3, <2>1, <2>4, <3>1, <3>2 DEF ReceiverTyped, SequenceLeads, Hooks!Events
    <3>4. SequenceLeads(h, r)'
      BY <1>1, <1>2, <1>3, <2>1, <2>4, <3>1, <3>2 DEF SequenceLeads
    <3>5. NothingSwallowed(h, r)'
      BY <1>1, <1>2, <1>3, <2>1, <2>4, <3>1, <3>2 DEF NothingSwallowed, SequenceLeads, AtWork
    <3> QED BY <1>1, <1>2, <2>1, <2>4, <3>1, <3>2, <3>3, <3>4, <3>5 DEF ReceiverInv, SequenceLeads
  <2> QED BY <1>2, <2>3, <2>4
<1>7. CASE Hooks!StoreSequence(h)
  <2>1. /\ handler[h].pc = "fresh"
        /\ UNCHANGED <<strategy, deletions, routeOf, row, faults, made, seen, acked>>
        /\ handler' = [handler EXCEPT ![h] = [pc |-> "accepted", n |-> n, got |-> n]]
    BY <1>7 DEF Hooks!StoreSequence, Hooks!At, Hooks!Proceed, Hooks!sender, Hooks!configured
  <2>2. routeOf[n] = r
    BY <1>3, <2>1
  <2>3. lastSeq' = [lastSeq EXCEPT ![r] = n]
    BY <1>7, <2>2 DEF Hooks!StoreSequence
  <2>4. lastSeq' \in [Routes -> Nat] /\ lastSeq'[r] = n
    BY <1>1, <1>2, <2>3
  <2>5. handler' \in [Handlers -> Requests] /\ handler'[h].pc = "accepted" /\ handler'[h].n = n /\ handler'[h].got = n
    BY <1>1, <1>2, <2>1, HandlerMoves
  <2>6. ReceiverTyped(h)'
    BY <1>1, <1>2, <1>3, <2>1, <2>4, <2>5 DEF ReceiverTyped, SequenceLeads, Hooks!Events
  <2>7. SequenceLeads(h, r)'
    BY <1>1, <1>2, <1>3, <2>1, <2>4, <2>5 DEF SequenceLeads
  <2>8. NothingSwallowed(h, r)'
    BY <1>1, <1>2, <1>3, <2>1, <2>4, <2>5 DEF NothingSwallowed, SequenceLeads, AtWork
  <2> QED BY <1>1, <1>2, <2>1, <2>4, <2>5, <2>6, <2>7, <2>8 DEF ReceiverInv, SequenceLeads
<1>8. CASE Hooks!FetchRecord(h)
  <2>1. /\ handler[h].pc = "routed" /\ strategy = "notification"
        /\ UNCHANGED <<strategy, deletions, routeOf, lastSeq, row, faults, made, seen, acked>>
        /\ handler' = [handler EXCEPT ![h] = [pc |-> "accepted", n |-> n, got |-> made]]
    BY <1>8 DEF Hooks!FetchRecord, Hooks!At, Hooks!Proceed, Hooks!sender, Hooks!store,
                Hooks!configured, Hooks!Ordering
  <2>2. handler' \in [Handlers -> Requests] /\ handler'[h].pc = "accepted" /\ handler'[h].n = n /\ handler'[h].got = made
    BY <1>1, <1>2, <2>1, HandlerMoves
  <2>3. ReceiverTyped(h)'
    BY <1>1, <1>2, <1>3, <2>1, <2>2 DEF ReceiverTyped, SequenceLeads, Hooks!Events
  <2>4. SequenceLeads(h, r)'
    BY <1>1, <1>2, <1>3, <2>1, <2>2 DEF SequenceLeads
  <2>5. NothingSwallowed(h, r)'
    BY <1>1, <1>2, <1>3, <2>1, <2>2 DEF NothingSwallowed, SequenceLeads, AtWork
  <2> QED BY <1>1, <1>2, <2>1, <2>2, <2>3, <2>4, <2>5 DEF ReceiverInv, SequenceLeads
<1>9. CASE Hooks!BufferEvent(h)
  BY <1>9 DEF Hooks!BufferEvent, Hooks!Ordering
<1>10. CASE Hooks!Upsert(h)
  <2>1. /\ handler[h].pc = "accepted" /\ row' = newest
        /\ UNCHANGED <<strategy, deletions, routeOf, lastSeq, faults, made, seen>>
        /\ acked' = acked \cup {n}
        /\ handler' = [handler EXCEPT ![h] = [pc |-> "idle", n |-> 0, got |-> 0]]
    BY <1>4, <1>10 DEF Hooks!Upsert, Hooks!At, Hooks!Respond, Hooks!configured
  <2>2. handler' \in [Handlers -> Requests] /\ handler'[h].pc = "idle" /\ handler'[h].n = 0 /\ handler'[h].got = 0
    BY <1>1, <1>2, <2>1, HandlerMoves
  <2>3. row <= newest /\ newest <= made
    BY <1>1, <2>1 DEF SequenceLeads
  <2>4. ReceiverTyped(h)'
    BY <1>1, <1>2, <1>3, <2>1, <2>2, <2>3 DEF ReceiverTyped, SequenceLeads, Hooks!Events
  <2>5. SequenceLeads(h, r)'
    BY <1>1, <1>2, <1>3, <2>1, <2>2, <2>3 DEF SequenceLeads
  <2>6. NothingSwallowed(h, r)'
    BY <1>1, <1>2, <1>3, <2>1, <2>2, <2>3 DEF NothingSwallowed, SequenceLeads, AtWork
  <2> QED BY <1>1, <1>2, <2>1, <2>2, <2>3, <2>4, <2>5, <2>6 DEF ReceiverInv, SequenceLeads
<1> QED BY <1>5, <1>6, <1>7, <1>8, <1>9, <1>10 DEF Hooks!Handle

(* An event arrives. *)
LEMMA PostKeepsInv ==
  ASSUME NEW h, Handlers = {h}, NEW r, Routes = {r}, ReceiverInv(h, r), Hooks!Ordering,
         NEW n \in Hooks!Events, Hooks!Post(h, n)
  PROVE  ReceiverInv(h, r)' /\ row' = row
<1>1. /\ ReceiverTyped(h) /\ acked \subseteq Nat /\ seen \subseteq Nat
      /\ SequenceLeads(h, r) /\ NothingSwallowed(h, r)
      /\ h \in Handlers /\ r \in Routes /\ n \in Nat
  BY DEF ReceiverInv, Hooks!Events
<1>2. /\ handler[h].pc = "idle" /\ n <= made
      /\ UNCHANGED <<strategy, deletions, routeOf, made, acked, seen, lastSeq, row, faults>>
      /\ handler' = [handler EXCEPT ![h] = [pc |-> "received", n |-> n, got |-> n]]
  BY DEF Hooks!Post, Hooks!Idle, Hooks!configured, Hooks!sender, Hooks!store
<1>3. /\ handler' \in [Handlers -> Requests]
      /\ handler'[h].pc = "received" /\ handler'[h].n = n /\ handler'[h].got = n
  BY <1>1, <1>2, HandlerMoves DEF ReceiverTyped
<1>4. ReceiverTyped(h)'
  BY <1>1, <1>2, <1>3 DEF ReceiverTyped
<1>5. SequenceLeads(h, r)'
  BY <1>1, <1>2, <1>3 DEF SequenceLeads
<1>6. NothingSwallowed(h, r)'
  BY <1>1, <1>2, <1>3 DEF NothingSwallowed, AtWork
<1> QED BY <1>1, <1>2, <1>4, <1>5, <1>6 DEF ReceiverInv

(* Something fails: the request ends, with whatever status, or the process dies. *)
LEMMA FaultKeepsInv ==
  ASSUME NEW h, Handlers = {h}, NEW r, Routes = {r}, ReceiverInv(h, r), Hooks!Ordering,
         Hooks!FetchFails(h) \/ Hooks!UpsertFails(h) \/ Hooks!Restart
  PROVE  ReceiverInv(h, r)' /\ row' = row
<1>1. /\ ReceiverTyped(h) /\ acked \subseteq Nat /\ seen \subseteq Nat
      /\ SequenceLeads(h, r) /\ h \in Handlers
  BY DEF ReceiverInv
<1>2. /\ handler \in [Handlers -> Requests] /\ handler[h].n \in Nat /\ faults \in Nat
      /\ made \in Nat
  BY <1>1 DEF ReceiverTyped, Requests
<1>3. /\ faults' = faults + 1
      /\ UNCHANGED <<strategy, deletions, routeOf, made, seen, lastSeq, row>>
      /\ acked' \in {acked, acked \cup {handler[h].n}}
  BY DEF Hooks!FetchFails, Hooks!UpsertFails, Hooks!Restart, Hooks!Fault, Hooks!Respond,
         Hooks!configured, Hooks!sender, Hooks!store
<1>4. handler' \in [Handlers -> Requests] /\ handler'[h].pc = "idle" /\ handler'[h].n = 0
  <2>1. Hooks!Idle = [pc |-> "idle", n |-> 0, got |-> 0] /\ Hooks!Idle \in Requests
    BY DEF Hooks!Idle, Requests
  <2>2. \/ handler' = [handler EXCEPT ![h] = Hooks!Idle]
        \/ handler' = [g \in Handlers |-> Hooks!Idle]
    BY DEF Hooks!FetchFails, Hooks!UpsertFails, Hooks!Restart, Hooks!Respond
  <2> QED BY <1>1, <1>2, <2>1, <2>2
<1>5. ReceiverTyped(h)'
  BY <1>1, <1>2, <1>3, <1>4 DEF ReceiverTyped
<1>6. SequenceLeads(h, r)'
  BY <1>1, <1>3, <1>4 DEF SequenceLeads
<1>7. NothingSwallowed(h, r)'
  BY <1>2, <1>3 DEF NothingSwallowed
<1>8. acked' \subseteq Nat /\ seen' \subseteq Nat
  BY <1>1, <1>2, <1>3
<1> QED BY <1>3, <1>5, <1>6, <1>7, <1>8 DEF ReceiverInv

(* The record changes, the buffer ages, or the id of an event is forgotten. *)
LEMMA WorldKeepsInv ==
  ASSUME NEW h, Handlers = {h}, NEW r, Routes = {r}, ReceiverInv(h, r), Hooks!Ordering,
         \/ Hooks!RecordChanges \/ Hooks!BufferAges \/ UNCHANGED Hooks!vars
         \/ \E n \in Hooks!Events : Hooks!ForgetSeen(n)
  PROVE  ReceiverInv(h, r)' /\ row' = row
<1>1. /\ ReceiverTyped(h) /\ acked \subseteq Nat /\ seen \subseteq Nat
      /\ SequenceLeads(h, r) /\ NothingSwallowed(h, r)
  BY DEF ReceiverInv
<1>2. /\ made' \in {made, made + 1} /\ seen' \subseteq seen
      /\ UNCHANGED <<strategy, deletions, routeOf, acked, lastSeq, row, handler, faults>>
  BY DEF Hooks!RecordChanges, Hooks!BufferAges, Hooks!ForgetSeen, Hooks!vars,
         Hooks!configured, Hooks!sender, Hooks!store
<1>3. made \in Nat /\ row \in Nat /\ handler[h] \in Requests
  BY <1>1 DEF ReceiverTyped
<1>4. ReceiverTyped(h)'
  BY <1>1, <1>2, <1>3 DEF ReceiverTyped, Requests
<1>5. SequenceLeads(h, r)'
  <2>1. \A k : k <= made /\ k \in Nat => k <= made'
    BY <1>2, <1>3
  <2>2. lastSeq[r] \in Nat /\ handler[h].got \in Nat
    BY <1>1, <1>3 DEF ReceiverTyped, Requests
  <2> QED BY <1>1, <1>2, <2>1, <2>2 DEF SequenceLeads
<1>6. NothingSwallowed(h, r)'
  BY <1>1, <1>2 DEF NothingSwallowed, AtWork
<1> QED BY <1>1, <1>2, <1>4, <1>5, <1>6 DEF ReceiverInv

LEMMA ReceiverInvNext ==
  ASSUME NEW h, Handlers = {h}, NEW r, Routes = {r}, ReceiverInv(h, r),
         [Hooks!Next]_Hooks!vars
  PROVE  ReceiverInv(h, r)' /\ (Hooks!Ordering => row' >= row)
<1>1. Hooks!Ordering' = Hooks!Ordering
  BY DEF Hooks!Ordering, Hooks!Next, Hooks!Handle, Hooks!RecordChanges, Hooks!BufferAges,
         Hooks!Restart, Hooks!ForgetSeen, Hooks!FetchFails, Hooks!UpsertFails, Hooks!Post,
         Hooks!Deduplicate, Hooks!CompareSequence, Hooks!StoreSequence, Hooks!FetchRecord,
         Hooks!BufferEvent, Hooks!Upsert, Hooks!configured, Hooks!vars
<1>2. CASE ~Hooks!Ordering
  BY <1>1, <1>2 DEF ReceiverInv
<1>3. CASE Hooks!Ordering
  <2>1. row \in Nat /\ h \in Handlers
    BY <1>3 DEF ReceiverInv, ReceiverTyped
  <2>2. ASSUME NEW g \in Handlers, Hooks!Handle(g)
        PROVE  ReceiverInv(h, r)' /\ row' >= row
    BY <1>3, <2>2, HandleKeepsInv
  <2>3. ASSUME NEW g \in Handlers, NEW n \in Hooks!Events, Hooks!Post(g, n)
        PROVE  ReceiverInv(h, r)' /\ row' >= row
    BY <1>3, <2>1, <2>3, PostKeepsInv
  <2>4. ASSUME \/ Hooks!Restart
               \/ \E g \in Handlers : Hooks!FetchFails(g) \/ Hooks!UpsertFails(g)
        PROVE  ReceiverInv(h, r)' /\ row' >= row
    BY <1>3, <2>1, <2>4, FaultKeepsInv
  <2>5. ASSUME \/ Hooks!RecordChanges \/ Hooks!BufferAges \/ UNCHANGED Hooks!vars
               \/ \E n \in Hooks!Events : Hooks!ForgetSeen(n)
        PROVE  ReceiverInv(h, r)' /\ row' >= row
    BY <1>3, <2>1, <2>5, WorldKeepsInv
  <2> QED BY <2>2, <2>3, <2>4, <2>5 DEF Hooks!Next
<1> QED BY <1>2, <1>3

LEMMA ReceiverInvInit ==
  ASSUME NEW h, Handlers = {h}, NEW r, Routes = {r}, Hooks!Init
  PROVE  ReceiverInv(h, r)
<1>1. /\ handler[h] = [pc |-> "idle", n |-> 0, got |-> 0] /\ handler \in [Handlers -> Requests]
      /\ lastSeq = [s \in Routes |-> 0] /\ lastSeq[r] = 0
      /\ made = 0 /\ row = 0 /\ faults = 0 /\ acked = {} /\ seen = {}
      /\ routeOf \in [Hooks!Events -> Routes]
  BY DEF Hooks!Init, Hooks!Idle, Requests
<1>2. ReceiverTyped(h)
  BY <1>1 DEF ReceiverTyped
<1>3. SequenceLeads(h, r)
  BY <1>1 DEF SequenceLeads
<1>4. NothingSwallowed(h, r)
  BY <1>1 DEF NothingSwallowed
<1> QED BY <1>1, <1>2, <1>3, <1>4 DEF ReceiverInv

(* A stale event does not replace a newer state, whatever the sender repeats, delays or *)
(* reorders and whatever fails: NeverBackwards, for any number of events and failures,  *)
(* where the route of a record's events is one and they are handled one at a time.      *)
THEOREM RowNeverBackwards ==
  ASSUME OneAtATime, OneRoute
  PROVE  Hooks!Spec => NeverBackwards
<1>1. PICK h, r : Handlers = {h} /\ Routes = {r}
  BY DEF OneAtATime, OneRoute
<1>2. Hooks!Init => ReceiverInv(h, r)
  BY <1>1, ReceiverInvInit
<1>3. ReceiverInv(h, r) /\ [Hooks!Next]_Hooks!vars => ReceiverInv(h, r)'
  BY <1>1, ReceiverInvNext
<1>4. ReceiverInv(h, r) /\ [Hooks!Next]_Hooks!vars =>
        [Hooks!Ordering => row' >= row]_Hooks!vars
  BY <1>1, ReceiverInvNext
<1> QED BY <1>2, <1>3, <1>4, PTL DEF Hooks!Spec, NeverBackwards, Hooks!NeverBackwards

(* As long as nothing fails, what the receiver answers with success is in the row or   *)
(* older than it: AckedIsCovered, under the same conditions.                           *)
THEOREM AckedCovered ==
  ASSUME OneAtATime, OneRoute
  PROVE  Hooks!Spec => []AckedIsCovered
<1>1. PICK h, r : Handlers = {h} /\ Routes = {r}
  BY DEF OneAtATime, OneRoute
<1>2. Hooks!Init => ReceiverInv(h, r)
  BY <1>1, ReceiverInvInit
<1>3. ReceiverInv(h, r) /\ [Hooks!Next]_Hooks!vars => ReceiverInv(h, r)'
  BY <1>1, ReceiverInvNext
<1>4. ReceiverInv(h, r) => AckedIsCovered
  BY DEF ReceiverInv, NothingSwallowed, AckedIsCovered, Hooks!AckedIsCovered
<1> QED BY <1>2, <1>3, <1>4, PTL DEF Hooks!Spec

-----------------------------------------------------------------------------
(* What runs of the connector files.  A name that is known gets no second set of     *)
(* loops, so that it is enough that a list of connectors never has a name twice: not *)
(* what was loaded, since no two files have one, and not what is known, to which     *)
(* only names are added that were not.                                               *)

Named(cs) ==
    /\ cs \in Seq(Reload!Connectors)
    /\ \A j, k \in DOMAIN cs : cs[j].name = cs[k].name => j = k

NamesOf(cs) == {cs[k].name : k \in DOMAIN cs}

LoopKeys == [name : Names, datatype : Datatypes, rev : 0 .. MaxEdits]

\* No two loops of a datatype, and none of a name outside the given ones.
OnceEach(bag, names) ==
    /\ bag \in [LoopKeys -> {0, 1}]
    /\ \A l \in LoopKeys : bag[l] = 1 => l.name \in names
    /\ \A l, m \in LoopKeys :
         bag[l] = 1 /\ bag[m] = 1 /\ l.name = m.name /\ l.datatype = m.datatype => l = m

DirectoryInv ==
    /\ file \in [Files -> {Reload!Gone, Reload!Bad} \cup Reload!Connectors]
    /\ \A f, g \in Files :
         Reload!Readable(f) /\ Reload!Readable(g) /\ file[f].name = file[g].name => f = g
    /\ changed \subseteq Files

FilesInv == DirectoryInv /\ Named(configs) /\ OnceEach(loops, NamesOf(configs))

(* The greatest position of some is one of them. *)
LEMMA GreatestPosition ==
  ASSUME NEW T, NEW cs \in Seq(T), NEW S \in SUBSET (DOMAIN cs), S # {}
  PROVE  Reload!Max(S) \in S
<1>1. Len(cs) \in Nat /\ S \subseteq 0 .. Len(cs)
  OBVIOUS
<1>2. \E m \in S : \A k \in S : m >= k
  <2>1. PICK N \in Nat : N = Len(cs)
    BY <1>1
  <2> QED BY <1>1, <2>1, GreatestNatural
<1> QED BY <1>2 DEF Reload!Max

(* The elements of a sequence behind another. *)
LEMMA Appended ==
  ASSUME NEW T, NEW s \in Seq(T), NEW t \in Seq(T)
  PROVE  /\ s \o t \in Seq(T) /\ DOMAIN (s \o t) = 1 .. Len(s) + Len(t)
         /\ \A k \in 1 .. Len(s) : (s \o t)[k] = s[k]
         /\ \A k \in Len(s) + 1 .. Len(s) + Len(t) :
              k - Len(s) \in 1 .. Len(t) /\ (s \o t)[k] = t[k - Len(s)]
<1>1. Len(s) \in Nat /\ Len(t) \in Nat
  OBVIOUS
<1>2. s \o t \in Seq(T) /\ Len(s \o t) = Len(s) + Len(t)
  OBVIOUS
<1>3. \A k \in 1 .. Len(s) + Len(t) : (s \o t)[k] = IF k <= Len(s) THEN s[k] ELSE t[k - Len(s)]
  OBVIOUS
<1>4. \A k \in Len(s) + 1 .. Len(s) + Len(t) :
        k \in 1 .. Len(s) + Len(t) /\ ~(k <= Len(s)) /\ k - Len(s) \in 1 .. Len(t)
  BY <1>1
<1>5. \A k \in 1 .. Len(s) : k \in 1 .. Len(s) + Len(t) /\ k <= Len(s)
  BY <1>1
<1> QED BY <1>2, <1>3, <1>4, <1>5

(* The module's own instances of FiniteSets and Ordered. *)
LEMMA SameCounting ==
  \A S : Reload!Cardinality(S) = Cardinality(S) /\ Reload!IsFiniteSet(S) = IsFiniteSet(S)
<1>1. ASSUME NEW S PROVE Reload!Cardinality(S) = Cardinality(S)
  BY Zenon DEF Reload!Cardinality, Cardinality
<1>2. ASSUME NEW S PROVE Reload!IsFiniteSet(S) = IsFiniteSet(S)
  BY Zenon DEF Reload!IsFiniteSet, IsFiniteSet
<1> QED BY <1>1, <1>2

LEMMA SameOrder ==
  \A S : /\ Reload!Ascending(S) = Ascending(S)
         /\ \A s : Reload!Picked(s, S) = Picked(s, S)
<1> SUFFICES ASSUME NEW S
             PROVE  /\ Reload!Ascending(S) = Ascending(S)
                    /\ \A s : Reload!Picked(s, S) = Picked(s, S)
  OBVIOUS
<1>0. Reload!Cardinality(S) = Cardinality(S)
  BY SameCounting
<1>1. Reload!Ascending(S) = Ascending(S)
  BY Zenon DEF Reload!Ascending, Ascending, Reload!Cardinality, Cardinality
<1>2. \A s : Reload!Picked(s, S) = Picked(s, S)
  BY <1>0, <1>1, Zenon DEF Reload!Picked, Picked
<1> QED BY <1>1, <1>2

(* What is loaded from files of different names has different names. *)
LEMMA LoadedNamed ==
  ASSUME Reload!HotReloadAssumption, DirectoryInv, NEW n \in Nat,
         NEW order \in [1 .. n -> {f \in Files : Reload!Readable(f)}],
         \A i, j \in 1 .. n : order[i] = order[j] => i = j
  PROVE  Named([k \in 1 .. n |-> file[order[k]]])
<1> DEFINE cs == [k \in 1 .. n |-> file[order[k]]]
<1>1. \A k \in 1 .. n : order[k] \in Files /\ Reload!Readable(order[k]) /\ cs[k] \in Reload!Connectors
  BY DEF Reload!Readable
<1>2. cs \in Seq(Reload!Connectors) /\ DOMAIN cs = 1 .. n
  BY <1>1
<1>3. ASSUME NEW j \in 1 .. n, NEW k \in 1 .. n, cs[j].name = cs[k].name
      PROVE  j = k
  <2>1. order[j] = order[k]
    BY <1>1, <1>3 DEF DirectoryInv
  <2> QED BY <2>1
<1> HIDE DEF cs
<1>4. Named(cs)
  BY <1>2, <1>3 DEF Named
<1> QED BY <1>4 DEF cs

LEMMA AllLoadedNamed ==
  ASSUME Reload!HotReloadAssumption, DirectoryInv, NEW files \in SUBSET Files
  PROVE  Named(Reload!Loaded(files))
<1> DEFINE good == {f \in files : Reload!Readable(f)}  order == Ascending(good)
<1>1. good \in SUBSET Nat /\ IsFiniteSet(good)
  <2>1. IsFiniteSet(Files) /\ Files \subseteq Nat /\ good \in SUBSET Files
    BY SameCounting DEF Reload!HotReloadAssumption
  <2> HIDE DEF good
  <2> QED BY <2>1, FS_Subset
<1> DEFINE n == Cardinality(good)
<1>2. /\ n \in Nat /\ order \in [1 .. n -> good]
      /\ \A k \in 1 .. n : Place(good, order[k]) = k
  <2> HIDE DEF good
  <2> QED BY <1>1, AscendingSorts
<1>3. order \in [1 .. n -> {f \in Files : Reload!Readable(f)}] /\ DOMAIN order = 1 .. n
  BY <1>2
<1>4. \A i, j \in 1 .. n : order[i] = order[j] => i = j
  BY <1>2
<1>5. Reload!Loaded(files) = [k \in 1 .. n |-> file[order[k]]]
  BY <1>3, SameOrder DEF Reload!Loaded
<1> HIDE DEF good, order, n
<1> QED BY <1>2, <1>3, <1>4, <1>5, LoadedNamed

(* One of each name is left of a list that has names twice. *)
LEMMA SortedNamed ==
  ASSUME Reload!HotReloadAssumption, NEW cs \in Seq(Reload!Connectors)
  PROVE  Named(Reload!Sorted(cs))
<1> DEFINE names == NamesOf(cs)  n == Cardinality(names)  order == Ascending(names)
           where(k) == {j \in DOMAIN cs : cs[j].name = order[k]}
<1>1. \A k \in DOMAIN cs : cs[k] \in Reload!Connectors /\ cs[k].name \in Nat
  <2>1. \A k \in DOMAIN cs : cs[k] \in Reload!Connectors
    OBVIOUS
  <2>2. \A c \in Reload!Connectors : c.name \in Nat
    BY DEF Reload!Connectors, Reload!HotReloadAssumption
  <2> QED BY <2>1, <2>2
<1>2. names \in SUBSET Nat
  BY <1>1 DEF NamesOf
<1>3. IsFiniteSet(names)
  <2>1. [k \in 1 .. Len(cs) |-> cs[k].name] \in Surjection(1 .. Len(cs), names)
    BY DEF Surjection, NamesOf
  <2>2. IsFiniteSet(1 .. Len(cs))
    BY FS_Interval
  <2> QED BY <2>1, <2>2, FS_Surjection
<1>4. /\ n \in Nat /\ order \in [1 .. n -> names] /\ DOMAIN order = 1 .. n
      /\ \A k \in 1 .. n : Place(names, order[k]) = k
  <2> HIDE DEF names
  <2> QED BY <1>2, <1>3, AscendingSorts
<1>5. Reload!Sorted(cs) = [k \in 1 .. n |-> cs[Reload!Max(where(k))]]
  BY <1>4, SameOrder DEF Reload!Sorted, NamesOf
<1>6. ASSUME NEW k \in 1 .. n
      PROVE  Reload!Max(where(k)) \in DOMAIN cs /\ cs[Reload!Max(where(k))].name = order[k]
  <2>1. order[k] \in names
    BY <1>4
  <2>2. where(k) # {} /\ where(k) \in SUBSET (DOMAIN cs)
    BY <2>1 DEF NamesOf
  <2>3. Reload!Max(where(k)) \in where(k)
    <3> HIDE DEF where
    <3> QED BY <2>2, GreatestPosition
  <2> QED BY <2>3
<1> HIDE DEF names, n, order, where
<1>7. \A k \in 1 .. n : Reload!Sorted(cs)[k] \in Reload!Connectors /\ Reload!Sorted(cs)[k].name = order[k]
  BY <1>1, <1>5, <1>6
<1>8. Reload!Sorted(cs) \in Seq(Reload!Connectors) /\ DOMAIN Reload!Sorted(cs) = 1 .. n
  BY <1>4, <1>5, <1>7
<1>9. \A j, k \in 1 .. n : Reload!Sorted(cs)[j].name = Reload!Sorted(cs)[k].name => j = k
  BY <1>4, <1>7
<1> QED BY <1>8, <1>9 DEF Named

(* Loops that are started of names that have none. *)
LEMMA StartedOnce ==
  ASSUME NEW bag, NEW names, OnceEach(bag, names), NEW cs, Named(cs),
         NamesOf(cs) \cap names = {}
  PROVE  OnceEach(Reload!Started(bag, cs), names \cup NamesOf(cs))
<1> DEFINE new == Reload!Started(bag, cs)
           of(l) == {k \in DOMAIN cs : /\ cs[k].name = l.name /\ cs[k].rev = l.rev
                                       /\ l.datatype \in cs[k].datatypes}
<1>1. bag \in [LoopKeys -> {0, 1}] /\ DOMAIN bag = LoopKeys
  BY DEF OnceEach
<1>2. new = [l \in LoopKeys |-> bag[l] + Cardinality(of(l))]
  BY <1>1, SameCounting DEF Reload!Started
<1>3. ASSUME NEW l \in LoopKeys
      PROVE  of(l) = {} \/ \E k \in DOMAIN cs : of(l) = {k}
  BY DEF Named
<1>4. ASSUME NEW l \in LoopKeys
      PROVE  /\ Cardinality(of(l)) \in {0, 1}
             /\ Cardinality(of(l)) = 1 => of(l) # {}
  <2> HIDE DEF of
  <2>1. Cardinality({}) = 0 /\ \A k : Cardinality({k}) = 1
    BY FS_EmptySet, FS_Singleton
  <2>2. CASE of(l) = {}
    BY <2>1, <2>2
  <2>3. CASE \E k \in DOMAIN cs : of(l) = {k}
    BY <2>1, <2>3
  <2> QED BY <1>3, <2>2, <2>3
<1>5. ASSUME NEW l \in LoopKeys
      PROVE  /\ new[l] \in {0, 1}
             /\ bag[l] = 1 => l.name \in names /\ Cardinality(of(l)) = 0
             /\ Cardinality(of(l)) = 1 => l.name \in NamesOf(cs) /\ bag[l] = 0
             /\ new[l] = 1 <=> bag[l] = 1 \/ Cardinality(of(l)) = 1
  <2>1. bag[l] \in {0, 1} /\ (bag[l] = 1 => l.name \in names)
    BY <1>1 DEF OnceEach
  <2>2. Cardinality(of(l)) = 1 => l.name \in NamesOf(cs)
    BY <1>4 DEF NamesOf
  <2>3. new[l] = bag[l] + Cardinality(of(l))
    BY <1>2
  <2> HIDE DEF of, new
  <2> QED BY <1>4, <2>1, <2>2, <2>3
<1>6. ASSUME NEW l \in LoopKeys, NEW m \in LoopKeys, new[l] = 1, new[m] = 1,
             l.name = m.name, l.datatype = m.datatype
      PROVE  l = m
  <2>1. CASE bag[l] = 1
    <3>1. bag[m] = 1
      BY <1>5, <1>6, <2>1
    <3> QED BY <1>6, <2>1, <3>1 DEF OnceEach
  <2>2. CASE Cardinality(of(l)) = 1
    <3>1. Cardinality(of(m)) = 1
      BY <1>5, <1>6, <2>2
    <3>2. PICK j \in of(l), k \in of(m) : TRUE
      BY <1>4, <2>2, <3>1
    <3>3. j = k
      BY <1>6, <3>2 DEF Named
    <3>4. l.rev = m.rev
      BY <3>2, <3>3
    <3> QED BY <1>6, <3>4 DEF LoopKeys
  <2> QED BY <1>5, <1>6, <2>1, <2>2
<1> HIDE DEF new, of
<1>7. \A l \in LoopKeys : new[l] = 1 => l.name \in names \cup NamesOf(cs)
  BY <1>5
<1>8. new \in [LoopKeys -> {0, 1}]
  BY <1>2, <1>5
<1>9. OnceEach(new, names \cup NamesOf(cs))
  BY <1>6, <1>7, <1>8 DEF OnceEach
<1> QED BY <1>9 DEF new

(* A change adds the names that were not known and their loops. *)
LEMMA AppliedKeepsInv ==
  ASSUME Reload!HotReloadAssumption, FilesInv, NEW cs, Named(cs), Reload!Applied(cs)
  PROVE  Named(configs') /\ OnceEach(loops', NamesOf(configs'))
<1> DEFINE fresh == {j \in DOMAIN cs : cs[j].name \notin Reload!Known}
           added == Picked(cs, fresh)
           n == Cardinality(fresh)
           order == Ascending(fresh)
           first(k) == \A j \in 1 .. (k - 1) : configs[j].name # configs[k].name
           change(k) == {j \in DOMAIN cs : cs[j].name = configs[k].name /\ cs[j] # configs[k]}
           retained == [k \in DOMAIN configs |->
                      IF change(k) = {} \/ ~first(k) THEN configs[k] ELSE cs[Reload!Max(change(k))]]
<1>1. configs' = retained \o added /\ loops' = Reload!Started(loops, added)
  BY SameOrder DEF Reload!Applied
<1>2. Named(configs) /\ OnceEach(loops, NamesOf(configs)) /\ Reload!Known = NamesOf(configs)
  BY DEF FilesInv, Reload!Known, NamesOf
<1>3. /\ n \in Nat /\ added \in Seq(Reload!Connectors) /\ Len(added) = n /\ DOMAIN added = 1 .. n
      /\ \A k \in 1 .. n : order[k] \in fresh /\ added[k] = cs[order[k]]
      /\ \A k, l \in 1 .. n : order[k] = order[l] => k = l
  <2>1. cs \in Seq(Reload!Connectors) /\ fresh \in SUBSET (DOMAIN cs)
    BY DEF Named
  <2> HIDE DEF fresh
  <2> QED BY <2>1, PickedOf
<1>4. Named(added) /\ NamesOf(added) \cap NamesOf(configs) = {}
  <2>1. \A k \in 1 .. n : /\ order[k] \in DOMAIN cs /\ added[k].name = cs[order[k]].name
                          /\ added[k].name \notin NamesOf(configs)
    BY <1>2, <1>3
  <2> HIDE DEF added, n, order, fresh
  <2>2. ASSUME NEW j \in 1 .. n, NEW k \in 1 .. n, added[j].name = added[k].name
        PROVE  j = k
    <3>1. cs[order[j]].name = cs[order[k]].name
      BY <2>1, <2>2
    <3>2. order[j] = order[k]
      BY <2>1, <3>1 DEF Named
    <3> QED BY <1>3, <3>2
  <2> QED BY <1>3, <2>1, <2>2 DEF Named, NamesOf
<1>5. OnceEach(loops', NamesOf(configs) \cup NamesOf(added))
  <2> HIDE DEF added
  <2> QED BY <1>1, <1>2, <1>4, StartedOnce
<1>6. ASSUME NEW k \in DOMAIN configs
      PROVE  retained[k] \in Reload!Connectors /\ retained[k].name = configs[k].name
  <2>1. configs[k] \in Reload!Connectors
    BY <1>2 DEF Named
  <2>2. CASE change(k) = {} \/ ~first(k)
    BY <2>1, <2>2
  <2>3. CASE ~(change(k) = {} \/ ~first(k))
    <3>1. cs \in Seq(Reload!Connectors) /\ change(k) \in SUBSET (DOMAIN cs) /\ change(k) # {}
      BY <2>3 DEF Named
    <3>2. Reload!Max(change(k)) \in change(k)
      <4> HIDE DEF change
      <4> QED BY <3>1, GreatestPosition
    <3>3. cs[Reload!Max(change(k))] \in Reload!Connectors /\ cs[Reload!Max(change(k))].name = configs[k].name
      BY <3>1, <3>2
    <3> QED BY <2>3, <3>3
  <2> QED BY <2>2, <2>3
<1> DEFINE m == Len(configs)
<1>7. /\ m \in Nat /\ DOMAIN configs = 1 .. m
      /\ retained \in Seq(Reload!Connectors) /\ Len(retained) = m
  <2>1. m \in Nat /\ DOMAIN configs = 1 .. m
    BY <1>2 DEF Named
  <2> HIDE DEF first, change, m
  <2>2. retained \in [1 .. m -> Reload!Connectors]
    BY <2>1, <1>6
  <2> HIDE DEF retained
  <2> QED BY <2>1, <2>2
<1> HIDE DEF retained, added, n, order, fresh, m
<1>8. /\ configs' \in Seq(Reload!Connectors) /\ DOMAIN configs' = 1 .. m + n
      /\ \A k \in 1 .. m : configs'[k] = retained[k]
      /\ \A k \in m + 1 .. m + n : k - m \in 1 .. n /\ configs'[k] = added[k - m]
  <2> DEFINE whole == retained \o added
  <2>1. /\ whole \in Seq(Reload!Connectors) /\ DOMAIN whole = 1 .. Len(retained) + Len(added)
        /\ \A k \in 1 .. Len(retained) : whole[k] = retained[k]
        /\ \A k \in Len(retained) + 1 .. Len(retained) + Len(added) :
             k - Len(retained) \in 1 .. Len(added) /\ whole[k] = added[k - Len(retained)]
    <3>1. retained \in Seq(Reload!Connectors) /\ added \in Seq(Reload!Connectors)
      BY <1>3, <1>7
    <3> HIDE DEF whole
    <3> QED BY <3>1, Appended, Zenon DEF whole
  <2>2. configs' = whole
    BY <1>1
  <2> HIDE DEF whole
  <2> QED BY <1>3, <1>7, <2>1, <2>2
<1>9. /\ \A k \in 1 .. m : configs'[k].name = configs[k].name
      /\ \A k \in m + 1 .. m + n : k - m \in 1 .. n /\ configs'[k].name = added[k - m].name
  BY <1>6, <1>7, <1>8
<1>10. NamesOf(configs') = NamesOf(configs) \cup NamesOf(added)
  <2>1. \A k \in 1 .. n : m + k \in m + 1 .. m + n /\ (m + k) - m = k
    BY <1>3, <1>7
  <2>2. \A k \in 1 .. m + n : k \in 1 .. m \/ k \in m + 1 .. m + n
    BY <1>3, <1>7
  <2>3. 1 .. m \subseteq 1 .. m + n /\ m + 1 .. m + n \subseteq 1 .. m + n
    BY <1>3, <1>7
  <2>4. NamesOf(configs) = {configs'[k].name : k \in 1 .. m}
    BY <1>7, <1>9 DEF NamesOf
  <2>5. NamesOf(added) = {configs'[k].name : k \in m + 1 .. m + n}
    BY <1>3, <1>9, <2>1 DEF NamesOf
  <2>6. NamesOf(configs') = {configs'[k].name : k \in 1 .. m + n}
    BY <1>8 DEF NamesOf
  <2> QED BY <2>2, <2>3, <2>4, <2>5, <2>6
<1>11. ASSUME NEW j \in 1 .. m + n, NEW k \in 1 .. m + n, configs'[j].name = configs'[k].name
       PROVE  j = k
  <2>1. ASSUME NEW i \in 1 .. m, NEW l \in m + 1 .. m + n
        PROVE  configs'[i].name # configs'[l].name
    <3>1. configs'[i].name \in NamesOf(configs)
      BY <1>7, <1>9 DEF NamesOf
    <3>2. configs'[l].name \in NamesOf(added)
      BY <1>3, <1>9 DEF NamesOf
    <3> QED BY <1>4, <3>1, <3>2
  <2>2. CASE j \in 1 .. m /\ k \in 1 .. m
    BY <1>2, <1>7, <1>9, <1>11, <2>2 DEF Named
  <2>3. CASE j \in m + 1 .. m + n /\ k \in m + 1 .. m + n
    <3>1. j - m \in DOMAIN added /\ k - m \in DOMAIN added /\ added[j - m].name = added[k - m].name
      BY <1>3, <1>9, <1>11, <2>3
    <3>2. j - m = k - m
      BY <3>1, <1>4 DEF Named
    <3> QED BY <3>2, <1>3, <1>7
  <2> QED BY <1>3, <1>7, <1>11, <2>1, <2>2, <2>3
<1>12. Named(configs')
  BY <1>8, <1>9, <1>11 DEF Named
<1> QED BY <1>5, <1>10, <1>12

(* No loop runs of nothing. *)
LEMMA NoneRun == OnceEach(Reload!NoLoops, {}) /\ Named(<<>>) /\ NamesOf(<<>>) = {}
<1>1. OnceEach(Reload!NoLoops, {})
  BY DEF OnceEach, Reload!NoLoops, LoopKeys
<1>2. Named(<<>>) /\ NamesOf(<<>>) = {}
  BY DEF Named, NamesOf
<1> QED BY <1>1, <1>2

(* What is written to a file is one of these. *)
LEMMA DirectoryTyped ==
  ASSUME Distinct, Reload!DistinctNames(file), changed \subseteq Files,
         file \in [Files -> {Reload!Gone, Reload!Bad} \cup Reload!Connectors]
  PROVE  DirectoryInv
  BY DEF DirectoryInv, Reload!DistinctNames, Reload!Readable

LEMMA FilesInit == ASSUME Reload!HotReloadAssumption, Distinct, Reload!Init PROVE FilesInv
<1>1. DirectoryInv
  BY DirectoryTyped DEF Reload!Init
<1>2. Named(configs) /\ OnceEach(loops, NamesOf(configs))
  BY NoneRun DEF Reload!Init
<1> QED BY <1>1, <1>2 DEF FilesInv

LEMMA FilesStep ==
  ASSUME Reload!HotReloadAssumption, Distinct, FilesInv, [Reload!Next]_Reload!vars
  PROVE  FilesInv'
<1> USE DEF Reload!directory, Reload!running
<1>0. DirectoryInv /\ Named(configs) /\ OnceEach(loops, NamesOf(configs))
  BY DEF FilesInv
<1>1. ASSUME NEW f \in Files, NEW c \in Reload!Contents, Reload!Edit(f, c)
      PROVE  FilesInv'
  <2>1. file' \in [Files -> {Reload!Gone, Reload!Bad} \cup Reload!Connectors]
    BY <1>0, <1>1 DEF DirectoryInv, Reload!Edit, Reload!Contents
  <2>2. Reload!DistinctNames(file') /\ changed' \subseteq Files
    BY <1>0, <1>1 DEF DirectoryInv, Reload!Edit
  <2>3. DirectoryInv'
    BY <2>1, <2>2 DEF DirectoryInv, Reload!DistinctNames, Reload!Readable
  <2>4. configs' = configs /\ loops' = loops
    BY <1>1 DEF Reload!Edit
  <2> QED BY <1>0, <2>3, <2>4 DEF FilesInv
<1>2. ASSUME UNCHANGED <<file, configs, loops>>, changed' \subseteq Files
      PROVE  FilesInv'
  <2>1. DirectoryInv'
    BY <1>0, <1>2 DEF DirectoryInv, Reload!Readable
  <2> QED BY <1>0, <1>2, <2>1 DEF FilesInv
<1>3. ASSUME UNCHANGED file, changed' \subseteq Files,
             Named(configs'), OnceEach(loops', NamesOf(configs'))
      PROVE  FilesInv'
  <2>1. DirectoryInv'
    BY <1>0, <1>3 DEF DirectoryInv, Reload!Readable
  <2> QED BY <1>3, <2>1 DEF FilesInv
<1>4. CASE Reload!Load
  <2>1. Named(Reload!Loaded(Files))
    BY <1>0, AllLoadedNamed
  <2>2. Named(configs')
    BY <1>4, <2>1, SortedNamed DEF Reload!Load, Named
  <2>3. OnceEach(loops', {} \cup NamesOf(configs'))
    BY <1>4, <2>2, NoneRun, StartedOnce DEF Reload!Load
  <2>4. OnceEach(loops', NamesOf(configs'))
    BY <2>3
  <2> QED BY <1>3, <1>4, <2>2, <2>4 DEF Reload!Load
<1>5. CASE Reload!OnFileChange
  <2> DEFINE good == {f \in changed : Reload!Readable(f)}  n == Cardinality(good)
  <2>1. PICK order \in Reload!SetToSeqs(good) :
          Reload!Applied([k \in DOMAIN order |-> file[order[k]]])
    BY <1>5 DEF Reload!OnFileChange
  <2>2. order \in [1 .. n -> good] /\ \A i, j \in 1 .. n : i # j => order[i] # order[j]
    <3> HIDE DEF good
    <3> QED BY <2>1, SameCounting DEF Reload!SetToSeqs
  <2>3. n \in Nat /\ good \in SUBSET {f \in Files : Reload!Readable(f)}
    <3>1. good \in SUBSET Files /\ good \in SUBSET {f \in Files : Reload!Readable(f)}
      BY <1>0 DEF DirectoryInv
    <3>2. IsFiniteSet(Files)
      BY SameCounting DEF Reload!HotReloadAssumption
    <3> HIDE DEF good
    <3> QED BY <3>1, <3>2, FS_Subset, FS_CardinalityType
  <2> HIDE DEF good, n
  <2>4. Named([k \in 1 .. n |-> file[order[k]]])
    <3>1. order \in [1 .. n -> {f \in Files : Reload!Readable(f)}]
      BY <2>2, <2>3
    <3> QED BY <1>0, <2>2, <2>3, <3>1, LoadedNamed
  <2>5. DOMAIN order = 1 .. n
    BY <2>2
  <2>6. Named(configs') /\ OnceEach(loops', NamesOf(configs'))
    BY <2>1, <2>4, <2>5, AppliedKeepsInv
  <2> QED BY <1>3, <1>5, <2>6 DEF Reload!OnFileChange
<1>6. CASE Reload!OnSignal
  <2>1. Named(configs') /\ OnceEach(loops', NamesOf(configs'))
    BY <1>0, <1>6, AllLoadedNamed, AppliedKeepsInv DEF Reload!OnSignal
  <2> QED BY <1>0, <1>3, <1>6, <2>1 DEF Reload!OnSignal, DirectoryInv
<1>7. CASE Reload!Restart
  <2>1. Named(configs') /\ OnceEach(loops', NamesOf(configs'))
    BY <1>7, NoneRun DEF Reload!Restart
  <2> QED BY <1>3, <1>7, <2>1 DEF Reload!Restart
<1>8. CASE Reload!Watch \/ Reload!Signal
  BY <1>0, <1>2, <1>8 DEF Reload!Watch, Reload!Signal, DirectoryInv
<1>9. CASE UNCHANGED Reload!vars
  BY <1>0, <1>2, <1>9 DEF Reload!vars, DirectoryInv
<1> QED BY <1>1, <1>4, <1>5, <1>6, <1>7, <1>8, <1>9 DEF Reload!Next, Reload!Works

LEMMA FilesInvMeans == ASSUME FilesInv PROVE OneLoopPerDatatype
<1> SUFFICES ASSUME NEW n \in Names, NEW t \in Datatypes
             PROVE  /\ Cardinality(Reload!Polled(n, t)) <= 1
                    /\ \A l \in Reload!Polled(n, t) : loops[l] = 1
  BY SameCounting DEF OneLoopPerDatatype, Reload!OneLoopPerDatatype
<1> DEFINE P == Reload!Polled(n, t)
<1>1. P = {l \in LoopKeys : l.name = n /\ l.datatype = t /\ loops[l] = 1}
  BY DEF FilesInv, OnceEach, Reload!Polled
<1>2. P = {} \/ \E l : P = {l}
  <2>1. \A l, m \in P : l = m
    BY <1>1 DEF FilesInv, OnceEach
  <2> HIDE DEF P
  <2> QED BY <2>1
<1>3. Cardinality(P) <= 1
  <2> HIDE DEF P
  <2>1. CASE P = {}
    BY <2>1, FS_EmptySet
  <2>2. CASE \E l : P = {l}
    <3>1. \A l : Cardinality({l}) = 1
      BY FS_Singleton
    <3>2. PICK l : P = {l}
      BY <2>2
    <3>3. Cardinality(P) = 1
      BY <3>1, <3>2, Zenon
    <3> QED BY <3>3
  <2> QED BY <1>2, <2>1, <2>2
<1> QED BY <1>1, <1>3

(* However the connector files are edited, broken, deleted or brought back, and      *)
(* whenever the daemon is told or restarted, it never polls a datatype twice, as     *)
(* long as no two files have the name of one connector.                              *)
THEOREM NoDatatypeTwice ==
  ASSUME Reload!HotReloadAssumption, Distinct
  PROVE  Reload!Spec => []OneLoopPerDatatype
<1>1. Reload!Init => FilesInv
  BY FilesInit
<1>2. FilesInv /\ [Reload!Next]_Reload!vars => FilesInv'
  BY FilesStep
<1>3. FilesInv => OneLoopPerDatatype
  BY FilesInvMeans
<1> QED BY <1>1, <1>2, <1>3, PTL DEF Reload!Spec
=================================================================================
