-------------------------------- MODULE Queues --------------------------------
(***************************************************************************)
(* Queues of numbered requests: what is in them, and in which order.       *)
(***************************************************************************)
EXTENDS Integers, Sequences

\* What is in the queue.
Elems(q) == {q[i] : i \in DOMAIN q}

\* The queue holds its numbers in ascending order, and none twice.
Increasing(q) == \A i, j \in DOMAIN q : i < j => q[i] < q[j]

\* The queue holds nothing twice.
Distinct(q) == \A i, j \in DOMAIN q : i # j => q[i] # q[j]

\* All of S comes before all of T.
Before(S, T) == \A x \in S, y \in T : x < y
=============================================================================
