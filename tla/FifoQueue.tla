----------------------------- MODULE FifoQueue -----------------------------
(***************************************************************************)
(* Queues of distinct callers, as the collections.deque of the admission   *)
(* queue and of the prompt gate hold them.                                 *)
(***************************************************************************)
EXTENDS Integers, Sequences

Elems(s) == {s[i] : i \in 1..Len(s)}

\* The queue without the first occurrence of r (deque.remove).
Without(s, r) ==
  LET at == CHOOSE i \in 1..Len(s) : s[i] = r
  IN  IF r \in Elems(s)
      THEN [i \in 1..(Len(s) - 1) |-> IF i < at THEN s[i] ELSE s[i + 1]]
      ELSE s

Least(a, b) == IF a <= b THEN a ELSE b
=============================================================================
