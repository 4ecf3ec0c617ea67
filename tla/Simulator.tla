----------------------------- MODULE Simulator -----------------------------
(***************************************************************************)
(* The demo simulator: one record type of one connector, served over HTTP *)
(* to the engine and to the editors of the web UI from one of three       *)
(* stores.  A request is called, looked up where the store is asked       *)
(* first, written, its mutation fetched back from the log and published   *)
(* on the event bus.  The memory store does all of that without awaiting  *)
(* anything; sqlite runs each store call on a thread under a lock;        *)
(* postgres runs a SELECT and a write in one READ COMMITTED transaction.  *)
(*                                                                        *)
(* A stamp is the number of mutations so far, which stands for the clock. *)
(* MaxCalls and MaxRestarts bound a behaviour.                            *)
(***************************************************************************)
EXTENDS Naturals, Sequences, SequencesExt, FiniteSets, FiniteSetsExt, Ordered

CONSTANTS
  Engines, Editors,     \* the clients: writeback engines, and users of the UI
  Fields, Seeds,        \* the fields of a record, and the ids of the seed data
  PostedIds,            \* ids a create request may name; no id is NextId's choice
  HookedOps,            \* the operations the connector has a webhook route for
  AtomicStores,         \* the stores StoreIsAtomic is about
  Backends, PageSize, QueueSize, MaxCalls, MaxRestarts

SimulatorAssumption ==
  /\ Backends \subseteq {"memory", "sqlite", "postgres"} /\ Engines \cap Editors = {}
  /\ Seeds \subseteq Nat \ {0} /\ IsFiniteSet(Seeds)
  /\ PostedIds \subseteq Nat \ {0} /\ IsFiniteSet(PostedIds) /\ Fields # {}
  /\ {PageSize, QueueSize} \subseteq Nat \ {0} /\ {MaxCalls, MaxRestarts} \subseteq Nat

VARIABLES
  backend,              \* the store the simulator was started with
  rows,                 \* the records in the order a listing has them
  log,                  \* the mutations, oldest first
  calls,                \* [Clients -> the request in progress]
  made,                 \* requests made so far; also the value they write
  bus,                  \* the mutations published on the event bus
  feed,                 \* the queue of the one page that listens to the bus
  posts,                \* webhook posts in flight
  mirror,               \* [id -> the stamp of the last post that arrived]
  walk,                 \* a client's walk through the pages of the listing
  restarts

vars == <<backend, rows, log, calls, made, bus, feed, posts, mirror, walk, restarts>>

Clients == Engines \cup Editors
RecordIds == 1 .. Max({0} \cup Seeds \cup PostedIds) + MaxCalls
Idle == [phase |-> "idle"]
NoWalk == [on |-> FALSE, offset |-> 0, got |-> {}, start |-> {}, calm |-> TRUE]
Bodies == UNION {[F -> 0 .. MaxCalls] : F \in SUBSET Fields}

SeedRows(ids) ==
  LET row(id) == [id |-> id, data |-> [f \in Fields |-> 0], rev |-> 0, deleted |-> FALSE]
  IN  [i \in 1 .. Cardinality(ids) |-> row(Ascending(ids)[i])]

Init ==
  /\ backend \in Backends
  /\ rows = SeedRows(Seeds) /\ log = <<>> /\ made = 0 /\ restarts = 0
  /\ calls = [c \in Clients |-> Idle]
  /\ bus = <<>> /\ feed = <<>> /\ posts = {} /\ walk = NoWalk
  /\ mirror = [id \in RecordIds |-> 0]

----------------------------------------------------------------------------
(* The store. *)

SQL == backend # "memory"
Found(id) == \E i \in DOMAIN rows : rows[i].id = id
At(id) == Max({i \in DOMAIN rows : rows[i].id = id})     \* the memory index knows the last
Row(id) == rows[At(id)]
Listing == Picked(rows, {i \in DOMAIN rows : ~rows[i].deleted})
NextId == Max({0} \cup {rows[i].id : i \in DOMAIN rows}) + 1
Stamp == Len(log) + 1

(* What the store finds before it writes.  Postgres asks in a statement of *)
(* its own, so what it found is in the call; the others look as they write.*)
Lookup(call) ==
  CASE call.op = "create" -> [ok |-> TRUE, id |-> IF call.id = 0 THEN NextId ELSE call.id]
    [] call.op # "create" /\ ~Found(call.id) -> [ok |-> FALSE]
    [] OTHER -> [ok |-> call.op # "delete" \/ ~Row(call.id).deleted,
                 id |-> call.id, row |-> Row(call.id)]

Seen(c) == IF backend = "postgres" THEN calls[c].seen ELSE Lookup(calls[c])

(* What each store makes of a request.  A listing is in insertion order in *)
(* memory; a database orders by modified_at: what it writes moves to the   *)
(* end.                                                                    *)
Without(id) == Picked(rows, {i \in DOMAIN rows : rows[i].id # id})
Replaced(r) == [rows EXCEPT ![At(r.id)] = r]
ToEnd(r) == Append(Without(r.id), r)
New(call, id) == [id |-> id, data |-> call.body, rev |-> Stamp, deleted |-> FALSE]
Merged(call, row) ==
  [row EXCEPT !.data = [f \in Fields |-> IF f \in DOMAIN call.body THEN call.body[f] ELSE @[f]],
              !.rev = Stamp]
Marked(row, deleted) == [row EXCEPT !.rev = Stamp, !.deleted = deleted]

(* update builds a StoredRecord without deleted_at: it revives a record.   *)
MemoryWritten(call, seen) ==
  CASE call.op = "create" -> Append(rows, New(call, seen.id))
    [] call.op = "update" -> Replaced(Marked(Merged(call, seen.row), FALSE))
    [] OTHER -> Replaced(Marked(seen.row, call.op = "delete"))

\* Slip: an update replaces the data of the record instead of merging into it.
SqliteWrittenWhole(call, seen) ==
  CASE call.op \in {"create", "update"} -> ToEnd(New(call, seen.id))
    [] OTHER -> Without(seen.id)

SqliteWritten(call, seen) ==
  CASE call.op = "create" -> ToEnd(New(call, seen.id))
    [] call.op = "update" -> ToEnd(Merged(call, seen.row))
    [] OTHER -> Without(seen.id)

(* The merge is with the row that was selected, which may have been written *)
(* or deleted since; ON CONFLICT revives a deleted row of the same id.     *)
PostgresWritten(call, seen) ==
  CASE call.op = "create" -> ToEnd(New(call, seen.id))
    [] call.op = "update" -> ToEnd([Merged(call, seen.row) EXCEPT !.deleted = Row(seen.id).deleted])
    [] OTHER -> ToEnd(Marked(Row(seen.id), call.op = "delete"))

Written(call, seen) ==
  CASE backend = "memory" -> MemoryWritten(call, seen)
    [] backend = "sqlite" -> SqliteWritten(call, seen)
    [] backend = "postgres" -> PostgresWritten(call, seen)

(* restore of a record that is not deleted changes and logs nothing.       *)
Mutates(call, seen) == call.op # "restore" \/ seen.row.deleted

----------------------------------------------------------------------------
(* Requests. *)

Request(c, op, id, body, match) ==
  /\ made < MaxCalls
  /\ made' = made + 1
  /\ calls' = [calls EXCEPT ![c] =
       [phase |-> "called", op |-> op, id |-> id, body |-> body, match |-> match]]
  /\ UNCHANGED <<backend, rows, log, bus, feed, posts, mirror, walk, restarts>>

Insert(c) ==
  /\ calls[c] = Idle
  /\ \E id \in {0} \cup PostedIds : Request(c, "create", id, [f \in Fields |-> made + 1], 0)

EngineUpdate(c) ==
  /\ c \in Engines /\ calls[c] = Idle
  /\ \E id \in RecordIds, f \in Fields : Found(id) /\ Request(c, "update", id, [g \in {f} |-> made + 1], 0)

EngineDelete(c) ==
  /\ c \in Engines /\ calls[c] = Idle
  /\ \E id \in RecordIds : Found(id) /\ Request(c, "delete", id, <<>>, 0)

(* An editor loads a live record into the panel, with its version, and     *)
(* sends the whole of it back with If-Match; or deletes it; or presses     *)
(* Restore on the struck-through row of a deleted one.                     *)
LoadPanel(c) ==
  /\ c \in Editors /\ calls[c] = Idle
  /\ \E id \in RecordIds :
       /\ Found(id) /\ ~Row(id).deleted
       /\ calls' = [calls EXCEPT ![c] = [phase |-> "panel", row |-> Row(id)]]
  /\ UNCHANGED <<backend, rows, log, made, bus, feed, posts, mirror, walk, restarts>>

SavePanel(c) ==
  /\ calls[c].phase = "panel"
  /\ LET row == calls[c].row IN
       \E f \in Fields :
         Request(c, "update", row.id, [row.data EXCEPT ![f] = made + 1], row.rev + 1)

DeletePanel(c) ==
  /\ calls[c].phase = "panel"
  /\ Request(c, "delete", calls[c].row.id, <<>>, 0)

PressRestore(c) ==
  /\ c \in Editors /\ calls[c] = Idle
  /\ \E id \in RecordIds : Found(id) /\ Row(id).deleted /\ Request(c, "restore", id, <<>>, 0)

Ended(c) == calls' = [calls EXCEPT ![c] = Idle]

(* If-Match is compared with a first look at the record; the body of the   *)
(* request is awaited between that look and the write.                     *)
CheckVersion(c) ==
  /\ calls[c].phase = "called" /\ calls[c].match # 0
  /\ LET id == calls[c].id IN
       IF Found(id) /\ Row(id).rev + 1 # calls[c].match
         THEN Ended(c)                                          \* 412
         ELSE calls' = [calls EXCEPT ![c].phase = "checked"]
  /\ UNCHANGED <<backend, rows, log, made, bus, feed, posts, mirror, walk, restarts>>

Ready(c) ==
  \/ calls[c].phase = "checked"
  \/ calls[c].phase = "called" /\ calls[c].match = 0

SelectRow(c) ==         \* the SELECT of postgres
  /\ backend = "postgres" /\ Ready(c)
  /\ calls' = [calls EXCEPT ![c] =
       [phase |-> "selected", seen |-> Lookup(calls[c]),
        op |-> @.op, id |-> @.id, body |-> @.body, match |-> @.match]]
  /\ UNCHANGED <<backend, rows, log, made, bus, feed, posts, mirror, walk, restarts>>

CanWrite(c) == IF backend = "postgres" THEN calls[c].phase = "selected" ELSE Ready(c)

NoRestore(c) == calls[c].op = "restore" /\ backend = "sqlite"   \* AttributeError, 500

Reject(c) ==
  /\ CanWrite(c)
  /\ NoRestore(c) \/ ~Seen(c).ok
  /\ Ended(c)
  /\ UNCHANGED <<backend, rows, log, made, bus, feed, posts, mirror, walk, restarts>>

----------------------------------------------------------------------------
(* Events. *)

\* Slip: an event for which the queue has no room is not recorded either.
PublishedIfRoom(e) ==
  IF Len(feed) < QueueSize THEN bus' = Append(bus, e) /\ feed' = Append(feed, e)
  ELSE UNCHANGED <<bus, feed>>

Published(e) ==         \* publish: a full queue loses the event
  /\ bus' = Append(bus, e)
  /\ feed' = IF Len(feed) < QueueSize THEN Append(feed, e) ELSE feed

(* The engine's handlers start a task for the webhook before they publish, *)
(* the UI's dispatch it after.                                             *)
Posting(post) == posts' = posts \cup ({post} \cap [op : HookedOps, id : RecordIds, stamp : 0 .. MaxCalls])

(* Deleting shortens the listing, and a database moves what it writes.  A  *)
(* create may do so too: of two that ask postgres at once for the next id, *)
(* the later one writes over the other's record.                           *)
Moves(call, seen) ==
  /\ Found(seen.id) /\ ~Row(seen.id).deleted
  /\ call.op = "delete" \/ (SQL /\ Mutates(call, seen))

Write(c) ==
  LET call == calls[c]
      seen == Seen(c)
      log2 == IF Mutates(call, seen)
                THEN Append(log, [op |-> call.op, id |-> seen.id, at |-> Stamp]) ELSE log
      post == [op |-> IF call.op = "restore" THEN "create" ELSE call.op,
               id |-> seen.id, stamp |-> Len(log2)]
  IN  /\ CanWrite(c) /\ ~NoRestore(c) /\ seen.ok
      /\ rows' = IF Mutates(call, seen) THEN Written(call, seen) ELSE rows
      /\ log' = log2
      /\ walk' = [walk EXCEPT !.calm = @ /\ ~Moves(call, seen)]
      /\ IF backend = "memory" \/ c \in Engines THEN Posting(post) ELSE UNCHANGED posts
      /\ IF backend = "memory"
           THEN Ended(c) /\ IF log2 = <<>> THEN UNCHANGED <<bus, feed>> ELSE Published(Last(log2))
           ELSE /\ calls' = [calls EXCEPT ![c] = [phase |-> "written", post |-> post]]
                /\ UNCHANGED <<bus, feed>>
      /\ UNCHANGED <<backend, made, mirror, restarts>>

FetchMutation(c) ==     \* recent_mutations(..., 1), on a thread or a connection
  /\ calls[c].phase = "written"
  /\ calls' = [calls EXCEPT ![c] =
       [phase |-> "fetched", post |-> @.post, events |-> SubSeq(log, Len(log), Len(log))]]
  /\ UNCHANGED <<backend, rows, log, made, bus, feed, posts, mirror, walk, restarts>>

Publish(c) ==
  /\ calls[c].phase = "fetched"
  /\ IF calls[c].events = <<>> THEN UNCHANGED <<bus, feed>> ELSE Published(calls[c].events[1])
  /\ IF c \in Engines THEN UNCHANGED posts ELSE Posting(calls[c].post)
  /\ Ended(c)
  /\ UNCHANGED <<backend, rows, log, made, mirror, walk, restarts>>

Consume ==              \* the SSE generator takes the next event
  /\ feed # <<>>
  /\ feed' = Tail(feed)
  /\ UNCHANGED <<backend, rows, log, calls, made, bus, posts, mirror, walk, restarts>>

Arrive(p) ==            \* posts are tasks of their own: they arrive in any order
  /\ p \in posts
  /\ posts' = posts \ {p}
  /\ mirror' = [mirror EXCEPT ![p.id] = p.stamp]
  /\ UNCHANGED <<backend, rows, log, calls, made, bus, feed, walk, restarts>>

----------------------------------------------------------------------------
(* Listing, page by page. *)

\* Slip: an off-by-one in has_more.
HasMoreThanOne(offset) == offset + PageSize + 1 < Len(Listing)
HasMore(offset) == offset + PageSize < Len(Listing)

NextPage ==
  LET offset == IF walk.on THEN walk.offset ELSE 0
      start == IF walk.on THEN walk.start ELSE {Listing[i].id : i \in DOMAIN Listing}
      page == SubSeq(Listing, offset + 1, Min({offset + PageSize, Len(Listing)}))
      got == (IF walk.on THEN walk.got ELSE {}) \cup {page[i].id : i \in DOMAIN page}
  IN  /\ walk' = [on |-> HasMore(offset), offset |-> offset + PageSize,
                  got |-> got, start |-> start, calm |-> ~walk.on \/ walk.calm]
      /\ UNCHANGED <<backend, rows, log, calls, made, bus, feed, posts, mirror, restarts>>

(* A restart forgets everything but a database; the seed is loaded again.  *)
Restart ==
  /\ restarts < MaxRestarts
  /\ restarts' = restarts + 1
  /\ rows' = IF SQL THEN SeedRows({id \in Seeds : ~Found(id)}) \o rows ELSE SeedRows(Seeds)
  /\ log' = IF SQL THEN log ELSE <<>>
  /\ calls' = [c \in Clients |-> Idle]
  /\ bus' = <<>> /\ feed' = <<>> /\ posts' = {} /\ walk' = NoWalk
  /\ UNCHANGED <<backend, made, mirror>>

Next ==
  \/ \E c \in Clients :
       \/ Insert(c) \/ EngineUpdate(c) \/ EngineDelete(c)
       \/ LoadPanel(c) \/ SavePanel(c) \/ DeletePanel(c) \/ PressRestore(c)
       \/ CheckVersion(c) \/ SelectRow(c) \/ Reject(c) \/ Write(c)
       \/ FetchMutation(c) \/ Publish(c)
  \/ \E p \in posts : Arrive(p)
  \/ Consume \/ NextPage \/ Restart

Spec == Init /\ [][Next]_vars

----------------------------------------------------------------------------
(* What it gives its clients. *)

(* The store as its clients may think of it, when it is one of those: any  *)
(* other is mapped to the seed, of which nothing is asked.                 *)
Atomic == backend \in AtomicStores
Seed == [id \in Seeds |-> [f \in Fields |-> 0]]
Table ==
  [id \in RecordIds \cup {0} |->
     CASE Atomic /\ Found(id) /\ ~Row(id).deleted -> Row(id).data
       [] ~Atomic /\ id \in Seeds -> Seed[id]
       [] OTHER -> <<>>]
Stage(call) ==
  CASE ~Atomic \/ call.phase \in {"idle", "panel"} -> [stage |-> "none"]
    [] Atomic /\ call.phase \in {"called", "checked", "selected"} ->
         [stage |-> "asked", op |-> call.op, id |-> call.id, body |-> call.body,
          guarded |-> call.match # 0]
    [] OTHER -> [stage |-> "served"]

Store == INSTANCE RecordStore WITH
           Ids <- RecordIds \cup {0}, NoId <- 0, table <- Table,
           pending <- [c \in Clients |-> Stage(calls[c])]

(* The sqlite store is atomic: whatever the requests in progress, each     *)
(* takes effect once, on the record as it is at that step, or is refused   *)
(* and changes nothing, and a restart only loses requests and fills in     *)
(* seeds.  (Neither of the others is: see the README.)                     *)
StoreIsAtomic == Store!Spec

(* While nothing is deleted, and in a database no listed record is         *)
(* written, a walk through the pages returns every record that was live    *)
(* when it began, whatever is created or restored meanwhile: what the      *)
(* engine's deletion detection takes for granted of a source.              *)
WalkSeesAll == ~walk.on /\ walk.calm => walk.start \subseteq walk.got

(* On the memory store the events published are the mutations, all of them *)
(* and in their order, whatever the clients do at the same time.  (Not     *)
(* once each: a restore of a record that another request has revived       *)
(* mutates nothing, and its handler publishes the newest mutation again.)  *)
PublishedIsLog ==
  backend = "memory" =>
    /\ Range(bus) = Range(log)
    /\ \A i, j \in DOMAIN bus : i < j => bus[i].at <= bus[j].at

----------------------------------------------------------------------------
(* What it does not give them; see the README for the constants.           *)

(* Once nobody is writing, every mutation of the log has been published:   *)
(* two requests to a database may fetch the same newest mutation.          *)
EveryMutationIsPublished ==
  restarts = 0 /\ (\A c \in Clients : calls[c] = Idle) => Range(log) = Range(bus)

(* events.py:76, of a full queue: "slow subscriber - drop oldest": what is *)
(* queued ends with the newest event.                                      *)
FeedKeepsNewest == feed # <<>> => Last(feed) = Last(bus)

(* ui/router.py:503: "reject the update if the caller's version is stale": *)
(* no panel overwrites a version of the record it has not seen.            *)
StaleSaveIsRejected == [][\A c \in Editors :
  Write(c) /\ calls[c].match # 0 /\ Found(calls[c].id) => Row(calls[c].id).rev + 1 = calls[c].match]_vars

(* When every webhook has arrived, the receiver has last heard of each     *)
(* record's last mutation.                                                 *)
MirrorCatchesUp ==
  restarts = 0 /\ posts = {} /\ (\A c \in Clients : calls[c] = Idle) =>
    \A i \in DOMAIN log : mirror[log[i].id] >= i
=============================================================================
