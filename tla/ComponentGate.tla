----------------------------- MODULE ComponentGate -----------------------------
(***************************************************************************)
(* The gate of postgres/component_gate.py around every work cycle of the    *)
(* polling loops (ingestion/daemon.py, writeback/daemon.py), and what it    *)
(* shares with them: the replica's connection pool, which the gate, the     *)
(* sync and its transactions all draw on, and the drain of a replica.  The  *)
(* schema-manager that sets component_state and takes the exclusive lock    *)
(* is another program, modelled from what the gate's docstring asks of it.  *)
(***************************************************************************)
EXTENDS Integers, FiniteSets

CONSTANTS
    Replicas,       \* processes of the component
    LoopsEach,      \* polling loops in each: one per (connector, datatype)
    PoolSizes,      \* values of max_open_conns looked at
    MaxDeaths       \* replicas that die (bound)

ASSUME GateAssumption ==
    /\ LoopsEach \in Nat \ {0} /\ PoolSizes \subseteq Nat /\ MaxDeaths \in Nat

Loops == Replicas \X (1 .. LoopsEach)

VARIABLES
    desired,   \* component_state.desired
    manager,   \* the schema-manager's position
    pc,        \* loop |-> its position in the cycle
    size,      \* max_open_conns
    free,      \* replica |-> connections left in its pool
    draining,  \* replicas told to drain
    deaths     \* replicas that died so far

pools == <<size, free, draining>>
vars == <<desired, manager, pc, size, free, draining, deaths>>

\* component_state has no row before the schema-manager's first run: "stopped".
Init ==
    /\ desired = "stopped" /\ manager = "upgraded"
    /\ pc = [l \in Loops |-> "asleep"]
    /\ size \in PoolSizes
    /\ free = [r \in Replicas |-> size]
    /\ draining = {} /\ deaths = 0

-----------------------------------------------------------------------------
(* The schema-manager. *)

\* Sessions that hold the shared advisory lock.
Sharers == {l \in Loops : pc[l] \in {"locked", "working", "syncing", "leaving"}}

ManagerStops ==
    /\ manager = "off"
    /\ desired' = "stopped" /\ manager' = "stopping"
    /\ UNCHANGED <<pc, pools, deaths>>

\* pg_advisory_lock is requested; shared requests that come later queue behind it.
ManagerWaits ==
    /\ manager = "stopping"
    /\ manager' = "waiting"
    /\ UNCHANGED <<desired, pc, pools, deaths>>

ManagerLocks ==
    /\ manager = "waiting" /\ Sharers = {}
    /\ manager' = "upgrading"
    /\ UNCHANGED <<desired, pc, pools, deaths>>

\* The DDL is done and the lock released; desired is still 'stopped'.
ManagerUnlocks ==
    /\ manager = "upgrading"
    /\ manager' = "upgraded"
    /\ UNCHANGED <<desired, pc, pools, deaths>>

ManagerResumes ==
    /\ manager = "upgraded"
    /\ desired' \in {"running", "shadow"} /\ manager' = "off"
    /\ UNCHANGED <<pc, pools, deaths>>

-----------------------------------------------------------------------------
(* One loop.  free' is the pool after the step; a step that borrows a           *)
(* connection and returns it only needs one to be there.                        *)

Moves(l, from, to, change) ==
    /\ pc[l] = from
    /\ pc' = [pc EXCEPT ![l] = to]
    /\ free' = [free EXCEPT ![l[1]] = @ + change]
    /\ free'[l[1]] >= 0
    /\ UNCHANGED <<desired, manager, size, draining, deaths>>

Borrows(l) == free[l[1]] > 0

\* The first look at desired, or the exit of a loop that drains.
CheckState(l) ==
    /\ l[1] \notin draining /\ Borrows(l) /\ desired # "stopped"
    /\ Moves(l, "asleep", "admitted", 0)

LeaveLoop(l) == l[1] \in draining /\ Moves(l, "asleep", "ended", 0)

GetConnection(l) == Moves(l, "admitted", "connected", -1)

LockShared(l) ==
    /\ manager \notin {"waiting", "upgrading"}
    /\ Moves(l, "connected", "locked", 0)

\* Slips: no second look; a loop that is told to stop waits with the lock in hand.
RecheckNever(l) == Borrows(l) /\ Moves(l, "locked", "working", 0)
RecheckWaits(l) == Borrows(l) /\ desired # "stopped" /\ Moves(l, "locked", "working", 0)

\* The second look, with the lock held and the connection in hand.
Recheck(l) ==
    /\ Borrows(l)
    /\ \/ desired # "stopped" /\ Moves(l, "locked", "working", 0)
       \/ desired = "stopped" /\ Moves(l, "locked", "asleep", 1)

\* The cycle: nothing (paused, circuit open), or a sync, which keeps a connection
\* for its own lock and borrows another for each transaction.
SkipCycle(l) == Moves(l, "working", "leaving", 0)
StartSync(l) == Moves(l, "working", "syncing", -1)
EndSync(l) == Borrows(l) /\ Moves(l, "syncing", "leaving", 1)

\* No connection within the pool's timeout: the sync fails and is over.
SyncTimesOut(l) == ~Borrows(l) /\ Moves(l, "syncing", "leaving", 1)
StartTimesOut(l) == ~Borrows(l) /\ Moves(l, "working", "leaving", 0)

\* Slip: the connection is not put back.
ExitGateKeeps(l) == Moves(l, "leaving", "asleep", 0)

\* __aexit__: unlocked, committed, put back.
ExitGate(l) == Moves(l, "leaving", "asleep", 1)

-----------------------------------------------------------------------------
(* A replica. *)

\* The sessions end with the process: their locks and connections are gone, and a
\* new process starts with a pool of its own.
Restarts(r) ==
    /\ pc' = [l \in Loops |-> IF l[1] = r THEN "asleep" ELSE pc[l]]
    /\ free' = [free EXCEPT ![r] = size]
    /\ draining' = draining \ {r}
    /\ UNCHANGED <<desired, manager, size>>

Dies(r) == deaths < MaxDeaths /\ deaths' = deaths + 1 /\ Restarts(r)

\* Outside the loop's try: PoolTimeout in the gate ends the task group, and with it
\* the process.
GateTimesOut(l) ==
    /\ \/ pc[l] \in {"admitted", "locked"}
       \/ pc[l] = "asleep" /\ l[1] \notin draining
    /\ ~Borrows(l)
    /\ Restarts(l[1]) /\ UNCHANGED deaths

\* SIGTERM or the drain command.
Drain(r) ==
    /\ draining' = draining \cup {r}
    /\ UNCHANGED <<desired, manager, pc, size, free, deaths>>

\* All loops have ended, or the drain's deadline has passed.
EndDrain(r) ==
    /\ r \in draining
    /\ Restarts(r) /\ UNCHANGED deaths

-----------------------------------------------------------------------------

Cycle(l) ==
    \/ CheckState(l) \/ LeaveLoop(l) \/ GetConnection(l) \/ LockShared(l) \/ Recheck(l)
    \/ SkipCycle(l) \/ StartSync(l) \/ EndSync(l) \/ ExitGate(l)
Timeout(l) == SyncTimesOut(l) \/ StartTimesOut(l) \/ GateTimesOut(l)
Manager == ManagerWaits \/ ManagerLocks \/ ManagerUnlocks \/ ManagerResumes

Next ==
    \/ ManagerStops \/ Manager
    \/ \E l \in Loops : Cycle(l) \/ Timeout(l)
    \/ \E r \in Replicas : Dies(r) \/ Drain(r) \/ EndDrain(r)

Spec == Init /\ [][Next]_vars

\* Loops and schema-manager go on, a wait for a connection ends, and so does a drain.
\* The pool serves its waiters in turn.
FairSpec ==
    /\ Spec /\ WF_vars(Manager)
    /\ \A l \in Loops : SF_vars(Cycle(l)) /\ WF_vars(Timeout(l))
    /\ \A r \in Replicas : WF_vars(EndDrain(r))
-----------------------------------------------------------------------------
(* Properties. *)

Positions == {"asleep", "admitted", "connected", "locked", "working", "syncing",
              "leaving", "ended"}

TypeOK ==
    /\ desired \in {"running", "stopped", "shadow"}
    /\ manager \in {"off", "stopping", "waiting", "upgrading", "upgraded"}
    /\ pc \in [Loops -> Positions]
    /\ size \in PoolSizes /\ free \in [Replicas -> 0 .. size]
    /\ draining \subseteq Replicas /\ deaths \in 0 .. MaxDeaths

\* From the moment the schema-manager has the exclusive lock until it sets the
\* component running again no cycle is at work: not during the DDL, and not after
\* it either, by a loop that looked at component_state before it was 'stopped'.
QuietWhileStopped ==
    manager \in {"upgrading", "upgraded"} =>
        \A l \in Loops : pc[l] \notin {"working", "syncing", "leaving"}

\* The schema-manager that asks for the lock gets it, though loops come and go, time
\* out on the pool, drain and die.
BarrierIsReached == manager = "waiting" ~> manager = "upgrading"

\* With two connections for every loop and one to spare, every loop of a component that
\* stays switched on gets to its work again and again, if its replica is not drained.
LoopsWork ==
    \A l \in Loops :
        (size > 2 * LoopsEach /\ <>[](desired # "stopped" /\ l[1] \notin draining))
            => []<>(pc[l] = "working")
=============================================================================
