------------------------------ MODULE ListOps -------------------------------
(* The linked lists of sysmodules/sm (list.c) as sequences without          *)
(* repetitions.  SMList models the links themselves.                        *)
EXTENDS Naturals, Sequences, FiniteSets

Elems(q) == {q[i] : i \in DOMAIN q}

\* q without its i-th element.
WithoutIndex(q, i) == SubSeq(q, 1, i - 1) \o SubSeq(q, i + 1, Len(q))

\* The elements of S, a subset of those of q, in the order they have in q
\* (q repeats no element): the lists a loop that moves nodes splits q into.
InOrder(q, S) ==
  {w \in [1 .. Cardinality(S) -> S] :
      \A i, j \in DOMAIN w : i < j =>
         \E a, b \in DOMAIN q : a < b /\ q[a] = w[i] /\ q[b] = w[j]}
=============================================================================
