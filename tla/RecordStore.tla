---------------------------- MODULE RecordStore ----------------------------
(***************************************************************************)
(* What a record store promises its callers, as the protocol of           *)
(* store/__init__.py words it: a table of records, and requests that each *)
(* take effect in one atomic step on the table as it is at that moment.   *)
(* A soft-deleted record and an absent one are both Gone: neither is      *)
(* listed.  Simulator.StoreIsAtomic says which stores keep the promise.   *)
(***************************************************************************)

CONSTANTS
  Clients, Ids, Bodies,
  NoId,                 \* of a request to create that names no id
  Seed                  \* the records a store is started with, by id

VARIABLES
  table,                \* [Ids -> the data of a record, or Gone]
  pending               \* [Clients -> the request being served, by stage]

vars == <<table, pending>>

Gone == <<>>
Idle == [stage |-> "none"]
Served == [stage |-> "served"]
Requests == [stage : {"asked"}, op : {"create", "update", "delete", "restore"},
             id : Ids, body : Bodies, guarded : BOOLEAN]

Seeded(id) == IF id \in DOMAIN Seed THEN Seed[id] ELSE Gone

Init == table = [id \in Ids |-> Seeded(id)] /\ pending = [c \in Clients |-> Idle]

Ask(c) ==
  /\ pending[c] = Idle
  /\ pending'[c] \in Requests /\ pending' = [pending EXCEPT ![c] = pending'[c]]
  /\ UNCHANGED table

Asked(c, ops) == pending[c].stage = "asked" /\ pending[c].op \in ops

Settle(c) == \E s \in {Served, Idle} : pending' = [pending EXCEPT ![c] = s]

(* A new id, or the one the request names, whose record it then replaces.  *)
Create(c, id) ==
  /\ Asked(c, {"create"})
  /\ IF pending[c].id = NoId THEN id # NoId /\ table[id] = Gone ELSE id = pending[c].id
  /\ table' = [table EXCEPT ![id] = pending[c].body]
  /\ Settle(c)

Update(c) ==            \* a merge into what the record holds now
  /\ Asked(c, {"update"}) /\ table[pending[c].id] # Gone
  /\ LET new == pending[c].body
     IN  table' = [table EXCEPT ![pending[c].id] =
                     [f \in DOMAIN @ |-> IF f \in DOMAIN new THEN new[f] ELSE @[f]]]
  /\ Settle(c)

Delete(c) ==
  /\ Asked(c, {"delete"}) /\ table[pending[c].id] # Gone
  /\ table' = [table EXCEPT ![pending[c].id] = Gone]
  /\ Settle(c)

Refuse(c) ==            \* 404; 412; an operation this store does not have
  /\ Asked(c, {"update", "delete", "restore"})
  /\ table[pending[c].id] = Gone \/ pending[c].guarded \/ pending[c].op = "restore"
  /\ pending' = [pending EXCEPT ![c] = Idle]
  /\ UNCHANGED table

Answer(c) ==
  /\ pending[c] = Served
  /\ pending' = [pending EXCEPT ![c] = Idle]
  /\ UNCHANGED table

Restart ==              \* requests are lost; the seed fills in what is missing
  /\ pending' = [c \in Clients |-> Idle]
  /\ table' = [id \in Ids |-> IF table[id] = Gone THEN Seeded(id) ELSE table[id]]

Next ==
  \/ Restart
  \/ \E c \in Clients : Ask(c) \/ Update(c) \/ Delete(c) \/ Refuse(c) \/ Answer(c)
  \/ \E c \in Clients, id \in Ids : Create(c, id)

Spec == Init /\ [][Next]_vars
=============================================================================
