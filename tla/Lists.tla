------------------------------- MODULE Lists -------------------------------
(***************************************************************************)
(* What the loops of MessageQueue::Clear do to a list: the matching        *)
(* elements are erased, the others keep their order.                       *)
(***************************************************************************)
EXTENDS Naturals, Sequences, FiniteSets

\* The place of the k-th member of a set of numbers.
Nth(places, k) == CHOOSE i \in places : Cardinality({j \in places : j < i}) = k - 1

\* The elements of s that are not in Drop.
Without(s, Drop) ==
    LET kept == {i \in 1 .. Len(s) : s[i] \notin Drop}
    IN [k \in 1 .. Cardinality(kept) |-> s[Nth(kept, k)]]
=============================================================================
