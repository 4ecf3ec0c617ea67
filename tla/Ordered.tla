------------------------------- MODULE Ordered -------------------------------
(* Sets of numbers as sequences in their order.  SetToSortSeq and SelectSeq   *)
(* say the same, but rest on operators the provers know nothing of.           *)
EXTENDS Naturals, Sequences, FiniteSets

Ascending(S) ==
  [k \in 1 .. Cardinality(S) |-> CHOOSE x \in S : Cardinality({y \in S : y <= x}) = k]

(* The elements of s at the positions in S.                                   *)
Picked(s, S) == LET at == Ascending(S) IN [k \in 1 .. Cardinality(S) |-> s[at[k]]]
==============================================================================
