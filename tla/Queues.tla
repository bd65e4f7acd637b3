------------------------------- MODULE Queues ------------------------------
(***************************************************************************)
(* What the source does to a std::vector or std::list used as a queue and  *)
(* the standard module of sequences has no operator for.                   *)
(***************************************************************************)
EXTENDS Integers, Sequences, FiniteSets

\* erase: the queue without its element i.
Erase(q, i) == SubSeq(q, 1, i - 1) \o SubSeq(q, i + 1, Len(q))

\* count: how often x is in the queue.
Occurrences(q, x) == Cardinality({k \in DOMAIN q : q[k] = x})

=============================================================================
