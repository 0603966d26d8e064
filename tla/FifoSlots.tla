----------------------------- MODULE FifoSlots -----------------------------
(***************************************************************************)
(* What an admission gate promises, whoever implements it: at most limit   *)
(* callers are let in, whoever gives a place back lets in the callers that *)
(* came first, and nobody waits beside a free place.                       *)
(***************************************************************************)
EXTENDS FifoQueue, FiniteSets

CONSTANTS Requests, Limits

VARIABLES
  holders,   \* the callers that hold a place
  queue,     \* those that wait for one, first come first
  limit      \* how many places there are

vars == <<holders, queue, limit>>

Init ==
  /\ holders = {}
  /\ queue = << >>
  /\ limit \in Limits

\* With h in, q waiting and n places: the head of q comes in.
Admit(h, q, n) ==
  LET k == IF Cardinality(h) >= n THEN 0 ELSE Least(Len(q), n - Cardinality(h))
  IN  /\ holders' = h \cup {q[i] : i \in 1..k}
      /\ queue' = SubSeq(q, k + 1, Len(q))
      /\ limit' = n

Join(r) == r \notin holders \cup Elems(queue) /\ Admit(holders, Append(queue, r), limit)
GiveUp(r) == r \in Elems(queue) /\ Admit(holders, Without(queue, r), limit)
Return(r) == r \in holders /\ Admit(holders \ {r}, queue, limit)
Resize(n) == Admit(holders, queue, n)

Next ==
  \/ \E r \in Requests : Join(r) \/ GiveUp(r) \/ Return(r)
  \/ \E n \in Limits : Resize(n)

Spec == Init /\ [][Next]_vars
=============================================================================
