------------------------------ MODULE Ordering ------------------------------
(***************************************************************************)
(* ORDER BY, for the lists and the reports: a set as a sequence, by what   *)
(* comes before each of its elements.                                      *)
(***************************************************************************)
EXTENDS Naturals, FiniteSets

InOrder(set, before) ==
    [i \in 1..Cardinality(set) |-> CHOOSE x \in set : Cardinality(before[x]) = i - 1]
=============================================================================
