------------------------------- MODULE Queues -------------------------------
(***************************************************************************)
(* The linked queues of lib/queue, as sequences whose first entry is the   *)
(* head.  The operators that SequencesExt has too keep its names; they are *)
(* here since its imports are a burden to every step of a proof.           *)
(***************************************************************************)
EXTENDS Integers, Sequences, FiniteSets, FiniteSetsExt

\* The entries of a queue, its tail, and the orders of a set.
ToSet(q) == {q[i] : i \in DOMAIN q}
Last(q) == q[Len(q)]
SetToSeqs(S) == {q \in [1..Cardinality(S) -> S] : \A i, j \in 1..Cardinality(S) : i # j => q[i] # q[j]}

\* Walks along a queue: the place of the first entry with a property, and of
\* the last one, or 0.
SelectInSubSeq(q, from, to, Test(_)) ==
  LET I == {i \in from..to : Test(q[i])} IN IF I # {} THEN Min(I) ELSE 0

SelectInSeq(q, Test(_)) ==
  LET I == {i \in 1..Len(q) : Test(q[i])} IN IF I # {} THEN Min(I) ELSE 0

SelectLastInSeq(q, Test(_)) ==
  LET I == {i \in 1..Len(q) : Test(q[i])} IN IF I # {} THEN Max(I) ELSE 0

\* An entry is linked in at a place, or unlinked.
InsertAt(q, i, e) == SubSeq(q, 1, i - 1) \o <<e>> \o SubSeq(q, i, Len(q))
RemoveAt(q, i) == SubSeq(q, 1, i - 1) \o SubSeq(q, i + 1, Len(q))

dq_rem(q, e) ==
  LET I == {i \in 1..Len(q) : q[i] = e} IN IF I # {} THEN RemoveAt(q, Min(I)) ELSE q

dq_addfirst(q, e) == <<e>> \o q
dq_addlast(q, e) == Append(q, e)

\* A loop over a queue.
FoldLeft(op(_, _), base, q) ==
  LET f[i \in 0..Len(q)] == IF i = 0 THEN base ELSE op(f[i - 1], q[i]) IN f[Len(q)]
=============================================================================
