-------------------------------- MODULE Lists --------------------------------
(* What erase_remove_if leaves of a list.                                   *)
EXTENDS Integers, Sequences, FiniteSets

\* The entries of list at the positions K, in their order.  By rank rather
\* than with SelectSeq, which the provers cannot expand.
Rank(K, i) == Cardinality({j \in K : j <= i})
Keep(list, K) ==
  [k \in 1 .. Cardinality(K) |-> list[CHOOSE i \in K : Rank(K, i) = k]]

=============================================================================
