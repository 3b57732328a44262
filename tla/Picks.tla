------------------------------- MODULE Picks -------------------------------
(***************************************************************************)
(* Filtering a sequence by a set of its indices.  SelectSeq would do for   *)
(* TLC, but nothing can be proved about what it returns.                   *)
(***************************************************************************)
EXTENDS Naturals, Sequences, FiniteSets

\* The elements of a sequence at the indices of a set, in their order.
Picked(s, S) == [i \in 1..Cardinality(S) |-> s[CHOOSE n \in S : Cardinality({k \in S : k <= n}) = i]]
=============================================================================
