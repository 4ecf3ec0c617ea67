------------------------------- MODULE MCWriteback -------------------------------
(* The rows of a writeback cycle: how a batch is put in order, and what becomes  *)
(* of a row between two instances and an editor of the target.  The two share no *)
(* state, and a behaviour runs one of them.                                      *)
EXTENDS Writeback, Sequences

CONSTANTS Parts, OrderIds, NoValue, Groups, Joins, MaxRows, Width

VARIABLES part, rows, plan, begun, outcome

orderVars == <<rows, plan, begun, outcome>>
all == <<part, vars, orderVars>>

Order == INSTANCE WriteOrder WITH Ids <- OrderIds, batch <- rows

ASSUME OrderFits == Order!OrderAssumption

MCInit ==
  /\ part \in Parts
  /\ Init /\ Order!Init
  /\ part # "order" => rows = <<[id |-> NoValue, refs |-> {NoValue}, group |-> NoValue]>>

Ordering == part = "order" /\ UNCHANGED <<part, vars>>

MCNext ==
  \/ part = "cycle" /\ Next /\ UNCHANGED <<part, orderVars>>
  \/ Ordering /\ Order!Next
  \/ Ordering /\ Order!Through /\ UNCHANGED orderVars

MCSpec == MCInit /\ [][MCNext]_all

(* WriteOrder: rows wait for those they name, and only circles are refused.      *)
OrderIsTopological == Order!OrderIsTopological
=============================================================================
