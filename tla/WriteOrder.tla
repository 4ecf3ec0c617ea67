------------------------------- MODULE WriteOrder -------------------------------
(***************************************************************************)
(* The order in which the rows of a writeback batch are written: the       *)
(* dependency sort of writeback/ordering.py and the dispatch of what it    *)
(* returns by writeback/engine.py, rows of one external id one after the   *)
(* other and up to Width ids at the same time.                             *)
(*                                                                         *)
(* The sort sees external ids and join fields as strings, so that no value *)
(* is the string "None" in both: NoValue is a node of the graph like any   *)
(* other.  It walks over Python sets, whose order of strings changes from  *)
(* process to process: any order may be the one.                           *)
(***************************************************************************)
EXTENDS Naturals, FiniteSets, Sequences, Functions, Ordered

CONSTANTS
  Ids,         \* external ids
  NoValue,     \* NULL, in either column or as the group
  Groups,      \* values of _group_id
  Joins,       \* write_dependencies, each with its join field
  MaxRows,     \* rows of a batch (bound)
  Width        \* max_concurrent_writes

OrderAssumption ==
  /\ IsFiniteSet(Ids) /\ NoValue \notin Ids \cup Groups
  /\ {MaxRows, Width, Joins} \subseteq Nat \ {0}

Nodes == Ids \cup {NoValue}
Row == [id : Nodes, refs : {S \in SUBSET Nodes : Cardinality(S) \in 1 .. Joins},
        group : Groups \cup {NoValue}]

VARIABLES
  batch,       \* the fetched rows
  plan,        \* positions in batch, in the order of the sorted rows
  begun,       \* dispatch keys that were given their place, in order
  outcome      \* position -> "fetched", "cycle", "left out", "planned", "written" or "failed"

vars == <<batch, plan, begun, outcome>>

Init ==
  /\ batch \in UNION {[1 .. n -> Row] : n \in 1 .. MaxRows}
  /\ plan = <<>> /\ begun = <<>>
  /\ outcome = [i \in DOMAIN batch |-> "fetched"]

----------------------------------------------------------------------------
(* The graph of one group of rows. *)

InGroup(g) == {i \in DOMAIN batch : batch[i].group = g}
IdsOf(rows) == {batch[i].id : i \in rows}

\* Slip: a row that names itself depends on itself.
ParentsAndSelf(rows) ==
  [n \in IdsOf(rows) |-> (UNION {batch[i].refs : i \in {j \in rows : batch[j].id = n}}) \cap IdsOf(rows)]

(* Every id depends on the other ids in the group that its rows' fields    *)
(* name.                                                                   *)
Parents(rows) ==
  [n \in IdsOf(rows) |->
     (UNION {batch[i].refs : i \in {j \in rows : batch[j].id = n}}) \cap (IdsOf(rows) \ {n})]

(* The walk of detect_dependency_cycle: of the ids todo, under those on    *)
(* path, the first that is on its own path ends it.  With an empty path it *)
(* is the loop over all ids.                                               *)
Dfs(parents) ==
  LET N == DOMAIN parents
      look[a \in [path : SUBSET N, visited : SUBSET N, todo : SUBSET N]] ==
        IF a.todo = {} THEN [found |-> FALSE, visited |-> a.visited]
        ELSE LET n == CHOOSE n \in a.todo : TRUE
                 rest == [a EXCEPT !.todo = @ \ {n}]
                 below == look[[path |-> a.path \cup {n}, visited |-> a.visited \cup {n},
                                todo |-> parents[n]]]
             IN  CASE n \in a.path -> [found |-> TRUE, visited |-> a.visited]
                   [] n \in a.visited \ a.path -> look[rest]
                   [] OTHER -> IF below.found THEN below
                               ELSE look[[rest EXCEPT !.visited = below.visited]]
  IN  look

HasCycle(parents) ==
  Dfs(parents)[[path |-> {}, visited |-> {}, todo |-> DOMAIN parents]].found

(* Kahn's algorithm: the ids whose parents are all sorted, as they become  *)
(* ready.  order is that of the dictionary of parents.                     *)
Kahn(parents, order) ==
  LET run[k \in 0 .. Len(order)] ==
        IF k = 0 THEN [sorted |-> <<>>,
                       queue |-> Picked(order, {i \in DOMAIN order : parents[order[i]] = {}})]
        ELSE LET s == run[k - 1]
                 done == Append(s.sorted, Head(s.queue))
                 ready == {i \in DOMAIN order : /\ Head(s.queue) \in parents[order[i]]
                                                /\ parents[order[i]] \subseteq Range(done)}
             IN  IF s.queue = <<>> THEN s
                 ELSE [sorted |-> done, queue |-> Tail(s.queue) \o Picked(order, ready)]
  IN  run[Len(order)].sorted

(* Of two rows with one id the later takes the earlier's place.            *)
LastOf(rows, n) == CHOOSE i \in rows : batch[i].id = n /\ \A j \in rows : batch[j].id = n => j <= i

GroupPlan(rows, order) ==
  LET ids == Kahn(Parents(rows), Picked(order, {k \in DOMAIN order : order[k] \in IdsOf(rows)}))
  IN  IF HasCycle(Parents(rows)) THEN <<>> ELSE [k \in DOMAIN ids |-> LastOf(rows, ids[k])]

----------------------------------------------------------------------------
(* The batch. *)

First(S) == CHOOSE i \in S : \A j \in S : i <= j

(* Groups in the order of their first rows, then the rows without a group. *)
Planned(order) ==
  LET heads == Picked(batch, {i \in DOMAIN batch : /\ batch[i].group # NoValue
                                                   /\ i = First(InGroup(batch[i].group))})
      joined[k \in 0 .. Len(heads)] ==
        IF k = 0 THEN <<>> ELSE joined[k - 1] \o GroupPlan(InGroup(heads[k].group), order)
  IN  joined[Len(heads)] \o Ascending(InGroup(NoValue))

Fate(i, next) ==
  CASE i \in Range(next) -> "planned"
    [] i \notin Range(next) /\ HasCycle(Parents(InGroup(batch[i].group))) -> "cycle"
    [] OTHER -> "left out"

Sort ==
  /\ outcome[1] = "fetched"
  /\ \E order \in Bijection(1 .. Cardinality(Nodes), Nodes) : plan' = Planned(order)
  /\ outcome' = [i \in DOMAIN batch |-> Fate(i, plan')]
  /\ UNCHANGED <<batch, begun>>

(* Rows without an external id go by their cluster's, which is their own.  *)
Key(i) == IF batch[i].id = NoValue THEN <<NoValue, i>> ELSE <<batch[i].id, 0>>
Left(key) == {k \in DOMAIN plan : Key(plan[k]) = key /\ outcome[plan[k]] = "planned"}
Writing == {key \in Range(begun) : Left(key) # {}}

(* The tasks of the ids take the semaphore in the order they were started. *)
Begin ==
  /\ Cardinality(Writing) < Width
  /\ LET waiting == {k \in DOMAIN plan : Key(plan[k]) \notin Range(begun)}
     IN  waiting # {} /\ begun' = Append(begun, Key(plan[First(waiting)]))
  /\ UNCHANGED <<batch, plan, outcome>>

(* A row that fails does not keep the next from being sent.                *)
Dispatch(key, result) ==
  /\ outcome' = [outcome EXCEPT ![plan[First(Left(key))]] = result]
  /\ UNCHANGED <<batch, plan, begun>>

Next ==
  \/ Sort \/ Begin
  \/ \E key \in Writing, result \in {"written", "failed"} : Dispatch(key, result)

Spec == Init /\ [][Next]_vars

(* The batch is through. *)
Through == outcome[1] # "fetched" /\ \A i \in DOMAIN batch : outcome[i] # "planned"

----------------------------------------------------------------------------
(* Properties. *)

Done(i) == outcome[i] \in {"written", "failed"}

(* A row is not written before another row of its group whose id it names  *)
(* (ordering.py:4).  Refuted with Width 2, where both are written at once, *)
(* and with two groups that share an id, whose rows are written together.  *)
ParentsWrittenFirst ==
  \A i, j \in Range(plan) :
    Done(i) /\ i # j /\ batch[i].group # NoValue /\ batch[i].group = batch[j].group
      /\ batch[j].id \in batch[i].refs /\ batch[j].id # batch[i].id => Done(j)

(* The references of a group, from its rows and not from the sort's graph, *)
(* and circles of them: ids of which each refers to one of the others.     *)
Refers(rows, a, b) == a # b /\ \E i, j \in rows : /\ batch[i].id = a /\ batch[j].id = b
                                                 /\ b \in batch[i].refs
Circular(rows, ids) ==
  \E S \in (SUBSET ids) \ {{}} : \A a \in S : \E b \in S : Refers(rows, a, b)

(* A group is refused exactly when its references go in a circle, and      *)
(* otherwise one row of each of its ids is planned.                        *)
CyclesAreRefused ==
  outcome[1] # "fetched" /\ begun = <<>> =>
    \A i \in DOMAIN batch :
      LET rows == InGroup(batch[i].group)
      IN  batch[i].group # NoValue =>
            /\ outcome[i] = "cycle" <=> Circular(rows, Nodes)
            /\ outcome[i] = "cycle" \/ \E j \in rows : batch[j].id = batch[i].id /\ outcome[j] = "planned"

(* Rows wait for those they name, and only circles are refused.            *)
OrderIsTopological == ParentsWrittenFirst /\ CyclesAreRefused

(* A refused group has a circle of external ids (ordering.py:22-24).       *)
(* Refuted: a row without a reference depends on one without an id.        *)
RefusedAreCircular ==
  \A i \in DOMAIN batch : outcome[i] = "cycle" => Circular(InGroup(batch[i].group), Ids)

(* Every row of the batch is written or fails.  Refuted by two new rows of *)
(* a group, which have no id yet.                                          *)
NoneIsLeftOut == \A i \in DOMAIN batch : outcome[i] # "left out"
=============================================================================
